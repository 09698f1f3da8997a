----------------------------- MODULE ThreadPool -----------------------------
(***************************************************************************)
(* utx::common::ThreadPool (src/common/ThreadPool.hpp) and the thread that *)
(* uses it the way utx deploy and utx download do: it enqueues every task, *)
(* gets every future, and leaves the scope of the pool, whose destructor   *)
(* stops and joins the workers.  A task may end with an exception: its     *)
(* future rethrows it and the scope is left at once, with tasks of the     *)
(* queue still to run.                                                     *)
(*                                                                         *)
(* The mutex and the condition variable are modelled as such: evaluating   *)
(* the predicate, going to sleep (which releases the mutex), being         *)
(* notified and taking the mutex again are separate steps, and a worker    *)
(* may wake up spuriously.                                                 *)
(***************************************************************************)
EXTENDS Naturals, Sequences, FiniteSets, Functions

CONSTANTS
    Workers,    \* threads of the pool
    NumTasks,   \* tasks the caller enqueues
    None

Caller == "caller"
Threads == Workers \cup {Caller}
Tasks == 1..NumTasks

ASSUME WorkersAssumption ==
    IsFiniteSet(Workers) /\ Workers # {} /\ Caller \notin Workers
ASSUME TasksAssumption == NumTasks \in Nat
ASSUME NoneAssumption == None \notin Threads /\ None \notin Tasks

VARIABLES
    mutex,      \* the thread that holds mutex_, or None
    tasks,      \* tasks_
    stop,       \* stop_
    sleeping,   \* workers blocked in cv_.wait
    pc,         \* next step of each thread
    job,        \* the task of each worker
    next,       \* the caller's loop counter, over enqueue and then over get
    outcome     \* of each task: "none", "value" or "exception"

vars == <<mutex, tasks, stop, sleeping, pc, job, next, outcome>>

WorkerSteps == {"lock", "test", "wait", "take", "run", "exited"}
CallerSteps == {"enqueue", "push", "notify", "get", "stop", "notify_all",
                "join", "gone"}

Init ==
    /\ mutex = None
    /\ tasks = <<>>
    /\ stop = FALSE
    /\ sleeping = {}
    /\ pc = [t \in Threads |-> IF t = Caller THEN "enqueue" ELSE "lock"]
    /\ job = [w \in Workers |-> None]
    /\ next = 1
    /\ outcome = [i \in Tasks |-> "none"]

Goto(t, from, to) == pc[t] = from /\ pc' = [pc EXCEPT ![t] = to]
Acquire(t) == mutex = None /\ mutex' = t
Release(t) == mutex = t /\ mutex' = None

-----------------------------------------------------------------------------
(* A worker. *)

\* std::unique_lock, and the end of a wait that was notified.
Lock(w) ==
    /\ w \notin sleeping
    /\ Goto(w, "lock", "test")
    /\ Acquire(w)
    /\ UNCHANGED <<tasks, stop, sleeping, job, next, outcome>>

\* Mutant: a stopped pool does not run what is queued.
Test_DropsQueue(w) ==
    /\ pc[w] = "test"
    /\ IF stop THEN Goto(w, "test", "exited") /\ Release(w)
       ELSE /\ Goto(w, "test", IF tasks # <<>> THEN "take" ELSE "wait")
            /\ UNCHANGED mutex
    /\ UNCHANGED <<tasks, stop, sleeping, job, next, outcome>>

\* The predicate of wait, and the test for the end.
Test(w) ==
    /\ pc[w] = "test"
    /\ IF stop /\ tasks = <<>>
       THEN Goto(w, "test", "exited") /\ Release(w)
       ELSE /\ Goto(w, "test", IF tasks # <<>> THEN "take" ELSE "wait")
            /\ UNCHANGED mutex
    /\ UNCHANGED <<tasks, stop, sleeping, job, next, outcome>>

\* cv_.wait blocks and releases the mutex in one step.
Sleep(w) ==
    /\ Goto(w, "wait", "lock")
    /\ sleeping' = sleeping \cup {w}
    /\ Release(w)
    /\ UNCHANGED <<tasks, stop, job, next, outcome>>

\* Mutant: the task is not removed from the queue.
Take_LeavesIt(w) ==
    /\ Goto(w, "take", "run")
    /\ job' = [job EXCEPT ![w] = Head(tasks)]
    /\ Release(w)
    /\ UNCHANGED <<tasks, stop, sleeping, next, outcome>>

\* Mutant: the newest task is taken.
Take_Newest(w) ==
    /\ Goto(w, "take", "run")
    /\ job' = [job EXCEPT ![w] = tasks[Len(tasks)]]
    /\ tasks' = SubSeq(tasks, 1, Len(tasks) - 1)
    /\ Release(w)
    /\ UNCHANGED <<stop, sleeping, next, outcome>>

Take(w) ==
    /\ Goto(w, "take", "run")
    /\ job' = [job EXCEPT ![w] = Head(tasks)]
    /\ tasks' = Tail(tasks)
    /\ Release(w)
    /\ UNCHANGED <<stop, sleeping, next, outcome>>

\* task(): the packaged task keeps what it throws for its future.
Run(w) ==
    /\ Goto(w, "run", "lock")
    /\ \E o \in {"value", "exception"} : outcome' = [outcome EXCEPT ![job[w]] = o]
    /\ job' = [job EXCEPT ![w] = None]
    /\ UNCHANGED <<mutex, tasks, stop, sleeping, next>>

\* A spurious wakeup.
Wake(w) ==
    /\ w \in sleeping
    /\ sleeping' = sleeping \ {w}
    /\ UNCHANGED <<mutex, tasks, stop, pc, job, next, outcome>>

-----------------------------------------------------------------------------
(* The caller. *)

\* The next call of enqueue, or the first get.
Enqueue ==
    /\ IF next \in Tasks
       THEN Goto(Caller, "enqueue", "push") /\ Acquire(Caller) /\ UNCHANGED next
       ELSE Goto(Caller, "enqueue", "get") /\ next' = 1 /\ UNCHANGED mutex
    /\ UNCHANGED <<tasks, stop, sleeping, job, outcome>>

Push ==
    /\ Goto(Caller, "push", "notify")
    /\ tasks' = Append(tasks, next)
    /\ Release(Caller)
    /\ UNCHANGED <<stop, sleeping, job, next, outcome>>

\* Mutant: a sleeper is notified only when the queue was empty before.
Notify_FirstOnly ==
    /\ Goto(Caller, "notify", "enqueue")
    /\ \/ (sleeping = {} \/ Len(tasks) > 1) /\ UNCHANGED sleeping
       \/ Len(tasks) <= 1 /\ \E w \in sleeping : sleeping' = sleeping \ {w}
    /\ next' = next + 1
    /\ UNCHANGED <<mutex, tasks, stop, job, outcome>>

\* notify_one, after the mutex was released.
Notify ==
    /\ Goto(Caller, "notify", "enqueue")
    /\ \/ sleeping = {} /\ UNCHANGED sleeping
       \/ \E w \in sleeping : sleeping' = sleeping \ {w}
    /\ next' = next + 1
    /\ UNCHANGED <<mutex, tasks, stop, job, outcome>>

\* future.get() blocks, then returns or rethrows.
Get ==
    /\ IF next \in Tasks
       THEN /\ outcome[next] # "none"
            /\ next' = next + 1
            /\ Goto(Caller, "get", IF outcome[next] = "value" THEN "get" ELSE "stop")
       ELSE Goto(Caller, "get", "stop") /\ UNCHANGED next
    /\ UNCHANGED <<mutex, tasks, stop, sleeping, job, outcome>>

\* Mutant: stop_ is set without the mutex.
Stop_Unlocked ==
    /\ Goto(Caller, "stop", "notify_all")
    /\ stop' = TRUE
    /\ UNCHANGED <<mutex, tasks, sleeping, job, next, outcome>>

\* The destructor: the whole critical section is one step, for it does not
\* depend on what it guards.
Stop ==
    /\ Goto(Caller, "stop", "notify_all")
    /\ mutex = None
    /\ stop' = TRUE
    /\ UNCHANGED <<mutex, tasks, sleeping, job, next, outcome>>

NotifyAll ==
    /\ Goto(Caller, "notify_all", "join")
    /\ sleeping' = {}
    /\ UNCHANGED <<mutex, tasks, stop, job, next, outcome>>

Join ==
    /\ Goto(Caller, "join", "gone")
    /\ \A w \in Workers : pc[w] = "exited"
    /\ UNCHANGED <<mutex, tasks, stop, sleeping, job, next, outcome>>

Terminated == pc[Caller] = "gone" /\ UNCHANGED vars

-----------------------------------------------------------------------------
WorkerStep(w) == Lock(w) \/ Test(w) \/ Sleep(w) \/ Take(w) \/ Run(w)
CallerStep == Enqueue \/ Push \/ Notify \/ Get \/ Stop \/ NotifyAll \/ Join

Next ==
    \/ \E w \in Workers : WorkerStep(w) \/ Wake(w)
    \/ CallerStep
    \/ Terminated

Spec == Init /\ [][Next]_vars

\* Every thread is scheduled, and one that waits for the mutex gets it some
\* time: it is free infinitely often.  Nothing makes a sleeping worker wake up.
Fairness ==
    /\ \A w \in Workers :
          WF_vars(Test(w) \/ Sleep(w) \/ Take(w) \/ Run(w)) /\ SF_vars(Lock(w))
    /\ WF_vars(Push \/ Notify \/ Get \/ NotifyAll \/ Join)
    /\ SF_vars(Enqueue) /\ SF_vars(Stop)

FairSpec == Spec /\ Fairness

-----------------------------------------------------------------------------
(* Properties. *)

TypeOK ==
    /\ mutex \in Threads \cup {None}
    /\ tasks \in Seq(Tasks)
    /\ stop \in BOOLEAN
    /\ sleeping \subseteq Workers
    /\ pc \in [Threads -> WorkerSteps \cup CallerSteps]
    /\ pc[Caller] \in CallerSteps
    /\ \A w \in Workers : pc[w] \in WorkerSteps
    /\ job \in [Workers -> Tasks \cup {None}]
    /\ next \in 1..(NumTasks + 1)
    /\ outcome \in [Tasks -> {"none", "value", "exception"}]
    /\ \A w \in Workers : pc[w] = "take" => tasks # <<>>

\* The places where task i is: in the queue, with a worker, or done.
Places(i) ==
    ({"queue"} \X {k \in 1..Len(tasks) : tasks[k] = i})
    \cup ({"worker"} \X {w \in Workers : job[w] = i})
    \cup (IF outcome[i] # "none" THEN {<<"done", i>>} ELSE {})

Enqueued(i) ==
    \/ pc[Caller] \notin {"enqueue", "push", "notify"}
    \/ i < next
    \/ i = next /\ pc[Caller] = "notify"

\* No task is lost, run twice, or run by two workers: from the moment it is
\* pushed each one is in exactly one place (ThreadPool.hpp:43-45, 76-79).
EachTaskOnce ==
    \A i \in Tasks : Cardinality(Places(i)) = (IF Enqueued(i) THEN 1 ELSE 0)

\* When the scope of the pool is left every task has run, even those that were
\* in the queue when an exception came out of a future: no worker is left to
\* use the caller's locals, which the tasks capture by reference
\* (ThreadPool.hpp:41, 55-65; DeployCommand.hpp:162).
DrainedWhenGone ==
    pc[Caller] = "gone" =>
        /\ \A i \in Tasks : outcome[i] # "none"
        /\ \A w \in Workers : pc[w] = "exited"

\* Workers that will look at the queue before they sleep.
OnTheirWay == {w \in Workers \ sleeping : pc[w] \in {"lock", "test", "take"}}

\* While a worker sleeps, every task of the queue has a worker of its own that
\* comes for it, or its notification is still to be sent; and once the
\* destructor waits for the workers, none of them sleeps.  A notification that
\* reached nobody, between the test of the predicate and the sleep, would break
\* this (ThreadPool.hpp:38-45, 58-63, 79-80).
NoWakeupLost ==
    /\ sleeping # {} =>
          Len(tasks) <= Cardinality(OnTheirWay)
                        + (IF pc[Caller] = "notify" THEN 1 ELSE 0)
    /\ pc[Caller] \in {"join", "gone"} => sleeping = {}

\* The inductive invariant of the properties above: who holds the mutex,
\* which steps a worker has a task in, and what the end of a worker tells.
PoolInv ==
    /\ TypeOK
    /\ \A w \in Workers :
          /\ pc[w] \in {"test", "wait", "take"} => mutex = w
          /\ pc[w] = "wait" => ~stop /\ tasks = <<>>
          /\ w \in sleeping => pc[w] = "lock"
          /\ pc[w] = "run" <=> job[w] # None
          /\ pc[w] = "exited" => stop /\ tasks = <<>>
    /\ pc[Caller] = "push" => mutex = Caller
    /\ pc[Caller] \in {"push", "notify"} => next \in Tasks
    /\ stop <=> pc[Caller] \in {"notify_all", "join", "gone"}
    /\ pc[Caller] = "gone" => \A w \in Workers : pc[w] = "exited"
    /\ \A i \in Tasks :
          IF Enqueued(i) THEN \E x \in Places(i) : Places(i) = {x}
          ELSE Places(i) = {}
    /\ \A j, k \in 1..Len(tasks) : j < k => tasks[j] < tasks[k]
    /\ NoWakeupLost

-----------------------------------------------------------------------------
(* What the users of a pool may rely on. *)

StateOf(i) ==
    IF outcome[i] # "none" THEN "ended"
    ELSE IF \E w \in Workers : job[w] = i THEN "running"
    ELSE IF \E k \in 1..Len(tasks) : tasks[k] = i THEN "queued"
    ELSE "none"

stateBar == [i \in Tasks |-> StateOf(i)]
scopeBar == IF pc[Caller] = "gone" THEN "left" ELSE "open"

Runner == INSTANCE TaskRunner WITH
    MaxTasks <- NumTasks, NumWorkers <- Cardinality(Workers),
    state <- stateBar, scope <- scopeBar

\* The pool is a TaskRunner with as many workers as it has threads: tasks start
\* in the order of enqueue although workers race for them, and the scope is
\* left with all of them ended although one may have thrown
\* (ThreadPool.hpp:37-45, 55-81).
ImplementsRunner == Runner!Spec

-----------------------------------------------------------------------------
(* Liveness. *)

\* The caller gets through: no notification is lost, neither of a task nor of
\* the stop, whatever the workers were doing when it was sent.
CallerGetsThrough == <>(pc[Caller] = "gone")
=============================================================================
