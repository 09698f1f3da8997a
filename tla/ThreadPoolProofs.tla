--------------------------- MODULE ThreadPoolProofs ---------------------------
(***************************************************************************)
(* Proofs about ThreadPool, for every number of workers and of tasks.      *)
(***************************************************************************)
EXTENDS ThreadPool, FiniteSetTheorems, TLAPS

\* Exactly one place, or none before the task is pushed.
Placed(i) == IF Enqueued(i) THEN \E x \in Places(i) : Places(i) = {x}
             ELSE Places(i) = {}

\* The part of the invariant about threads: types, mutex and the end.
ThreadInv ==
  /\ TypeOK
  /\ \A w \in Workers :
        /\ pc[w] \in {"test", "wait", "take"} => mutex = w
        /\ pc[w] = "wait" => ~stop /\ tasks = <<>>
        /\ w \in sleeping => pc[w] = "lock"
        /\ pc[w] = "run" <=> job[w] # None
        /\ pc[w] = "exited" => stop /\ tasks = <<>>
  /\ pc[Caller] = "push" => mutex = Caller
  /\ pc[Caller] \in {"push", "notify"} => next \in Tasks
  /\ stop <=> pc[Caller] \in {"notify_all", "join", "gone"}
  /\ pc[Caller] = "gone" => \A w \in Workers : pc[w] = "exited"

\* The queue is in the order of enqueue.
Ordered == \A j, k \in 1..Len(tasks) : j < k => tasks[j] < tasks[k]

LEMMA PoolInvParts ==
  PoolInv <=> /\ ThreadInv /\ \A i \in Tasks : Placed(i)
              /\ Ordered /\ NoWakeupLost
BY DEF PoolInv, ThreadInv, Placed, Ordered

\* A step of a worker keeps the threads in order.
LEMMA WorkerKeepsThreads ==
  ASSUME ThreadInv, NEW w \in Workers, WorkerStep(w) \/ Wake(w)
  PROVE  ThreadInv'
<1> USE WorkersAssumption, TasksAssumption, NoneAssumption
        DEF Threads, Tasks, WorkerSteps, CallerSteps
<1>1. CASE Lock(w)
  BY <1>1 DEF Lock, Goto, Acquire, ThreadInv, TypeOK
<1>2. CASE Test(w)
  BY <1>2 DEF Test, Goto, Release, ThreadInv, TypeOK
<1>3. CASE Sleep(w)
  BY <1>3 DEF Sleep, Goto, Release, ThreadInv, TypeOK
<1>4. CASE Take(w)
  BY <1>4 DEF Take, Goto, Release, ThreadInv, TypeOK
<1>5. CASE Run(w)
  BY <1>5 DEF Run, Goto, ThreadInv, TypeOK
<1>6. CASE Wake(w)
  BY <1>6 DEF Wake, ThreadInv, TypeOK
<1> QED
  BY <1>1, <1>2, <1>3, <1>4, <1>5, <1>6 DEF WorkerStep

\* So does a step of the caller.
LEMMA CallerKeepsThreads ==
  ASSUME ThreadInv, CallerStep
  PROVE  ThreadInv'
<1> USE WorkersAssumption, TasksAssumption, NoneAssumption
        DEF Threads, Tasks, WorkerSteps, CallerSteps
<1>1. CASE Enqueue
  <2>1. CASE next \in Tasks
    BY <1>1, <2>1 DEF Enqueue, Goto, Acquire, ThreadInv, TypeOK
  <2>2. CASE next \notin Tasks
    BY <1>1, <2>2 DEF Enqueue, Goto, ThreadInv, TypeOK
  <2> QED
    BY <2>1, <2>2
<1>2. CASE Push
  BY <1>2 DEF Push, Goto, Release, ThreadInv, TypeOK
<1>3. CASE Notify
  <2>1. /\ pc[Caller] = "notify" /\ pc' = [pc EXCEPT ![Caller] = "enqueue"]
        /\ next' = next + 1 /\ sleeping' \subseteq sleeping
        /\ UNCHANGED <<mutex, tasks, stop, job, outcome>>
    BY <1>3 DEF Notify, Goto
  <2> QED
    BY <2>1 DEF ThreadInv, TypeOK
<1>4. CASE Get
  <2>1. PICK s \in {"get", "stop"} :
          /\ pc[Caller] = "get" /\ pc' = [pc EXCEPT ![Caller] = s]
          /\ next' \in {next, next + 1} /\ (next' # next => next \in Tasks)
          /\ UNCHANGED <<mutex, tasks, stop, sleeping, job, outcome>>
    BY <1>4 DEF Get, Goto
  <2> QED
    BY <2>1 DEF ThreadInv, TypeOK
<1>5. CASE Stop
  BY <1>5 DEF Stop, Goto, ThreadInv, TypeOK
<1>6. CASE NotifyAll
  BY <1>6 DEF NotifyAll, Goto, ThreadInv, TypeOK
<1>7. CASE Join
  BY <1>7 DEF Join, Goto, ThreadInv, TypeOK
<1> QED
  BY <1>1, <1>2, <1>3, <1>4, <1>5, <1>6, <1>7 DEF CallerStep

\* A task whose places and whose state of being pushed stay is still placed.
LEMMA PlacedKept ==
  ASSUME NEW i \in Tasks, Placed(i), UNCHANGED <<tasks, job, outcome>>,
         Enqueued(i)' <=> Enqueued(i)
  PROVE  Placed(i)'
BY DEF Placed, Places

\* A task in no place is not queued, with no worker, and not done.
LEMMA Nowhere ==
  ASSUME NEW i, Places(i) = {}
  PROVE  /\ \A k \in 1..Len(tasks) : tasks[k] # i
         /\ \A w \in Workers : job[w] # i
         /\ outcome[i] = "none"
<1>1. \A k \in 1..Len(tasks) : tasks[k] = i => <<"queue", k>> \in Places(i)
  BY DEF Places
<1>2. \A w \in Workers : job[w] = i => <<"worker", w>> \in Places(i)
  BY DEF Places
<1>3. outcome[i] # "none" => <<"done", i>> \in Places(i)
  BY DEF Places
<1> QED
  BY <1>1, <1>2, <1>3

\* A task that is only in the queue is there once, and nowhere else.
LEMMA OnlyQueued ==
  ASSUME NEW i, NEW n, Places(i) = {<<"queue", n>>}
  PROVE  /\ \A k \in 1..Len(tasks) : tasks[k] = i => k = n
         /\ \A w \in Workers : job[w] # i
         /\ outcome[i] = "none"
<1>1. \A k \in 1..Len(tasks) : tasks[k] = i => <<"queue", k>> = <<"queue", n>>
  BY DEF Places
<1>2. \A w \in Workers : job[w] = i => <<"worker", w>> = <<"queue", n>>
  BY DEF Places
<1>3. outcome[i] # "none" => <<"done", i>> = <<"queue", n>>
  BY DEF Places
<1> QED
  BY <1>1, <1>2, <1>3

\* A task that only one worker has is not queued.
LEMMA OnlyTaken ==
  ASSUME NEW i, NEW v, Places(i) = {<<"worker", v>>}
  PROVE  /\ \A k \in 1..Len(tasks) : tasks[k] # i
         /\ \A w \in Workers : job[w] = i => w = v
<1>1. \A k \in 1..Len(tasks) : tasks[k] = i => <<"queue", k>> = <<"worker", v>>
  BY DEF Places
<1>2. \A w \in Workers : job[w] = i => <<"worker", w>> = <<"worker", v>>
  BY DEF Places
<1> QED
  BY <1>1, <1>2

\* A worker moves a task from the queue to itself, and from itself to the end.
LEMMA WorkerKeepsPlaced ==
  ASSUME ThreadInv, NEW w \in Workers, WorkerStep(w) \/ Wake(w),
         NEW i \in Tasks, Placed(i)
  PROVE  Placed(i)'
<1>1. Enqueued(i)' <=> Enqueued(i)
  <2>1. pc'[Caller] = pc[Caller] /\ next' = next
    BY WorkersAssumption DEF WorkerStep, Lock, Test, Sleep, Take, Run, Wake, Goto,
       ThreadInv, TypeOK, Threads
  <2> QED
    BY <2>1 DEF Enqueued
<1>2. CASE Lock(w) \/ Test(w) \/ Sleep(w) \/ Wake(w)
  BY <1>1, <1>2, PlacedKept DEF Lock, Test, Sleep, Wake
<1>3. CASE Take(w)
  <2>1. /\ tasks \in Seq(Tasks) /\ tasks # <<>>
        /\ job \in [Workers -> Tasks \cup {None}]
        /\ job' = [job EXCEPT ![w] = Head(tasks)] /\ job[w] = None
        /\ tasks' = Tail(tasks) /\ outcome' = outcome
    BY <1>3 DEF Take, Goto, ThreadInv, TypeOK
  <2>2. /\ Len(tasks') = Len(tasks) - 1 /\ Len(tasks) \in Nat \ {0}
        /\ \A k \in 1..Len(tasks') : tasks'[k] = tasks[k + 1]
        /\ job'[w] = tasks[1]
        /\ \A v \in Workers \ {w} : job'[v] = job[v]
    BY <2>1
  <2> USE NoneAssumption
  <2>3. CASE tasks[1] # i
    <3>1. CASE \A k \in 1..Len(tasks) : tasks[k] # i
      <4>1. Places(i)' = Places(i)
        BY <2>1, <2>2, <2>3, <3>1 DEF Places
      <4> QED
        BY <1>1, <4>1 DEF Placed
    <3>2. ASSUME NEW k \in 1..Len(tasks), tasks[k] = i PROVE Placed(i)'
      <4>1. <<"queue", k>> \in Places(i)
        BY <3>2 DEF Places
      <4>2. Places(i) = {<<"queue", k>>} /\ Enqueued(i)
        BY <4>1 DEF Placed
      <4>3. /\ \A n \in 1..Len(tasks) : tasks[n] = i => n = k
            /\ \A v \in Workers : job[v] # i
            /\ outcome[i] = "none"
        BY <4>2, OnlyQueued
      <4>4. k - 1 \in 1..Len(tasks') /\ tasks'[k - 1] = i
        BY <2>2, <2>3, <3>2
      <4>5. \A n \in 1..Len(tasks') : tasks'[n] = i => n = k - 1
        BY <2>2, <4>3
      <4>6. Places(i)' = {<<"queue", k - 1>>}
        BY <2>1, <2>2, <2>3, <4>3, <4>4, <4>5 DEF Places
      <4> QED
        BY <1>1, <4>2, <4>6 DEF Placed
    <3> QED
      BY <3>1, <3>2
  <2>4. CASE tasks[1] = i
    <3>1. <<"queue", 1>> \in Places(i)
      BY <2>2, <2>4 DEF Places
    <3>2. Places(i) = {<<"queue", 1>>} /\ Enqueued(i)
      BY <3>1 DEF Placed
    <3>3. /\ \A k \in 1..Len(tasks) : tasks[k] = i => k = 1
          /\ \A v \in Workers : job[v] # i
          /\ outcome[i] = "none"
      BY <3>2, OnlyQueued
    <3>4. Places(i)' = {<<"worker", w>>}
      BY <2>1, <2>2, <2>4, <3>3 DEF Places
    <3> QED
      BY <1>1, <3>2, <3>4 DEF Placed
  <2> QED
    BY <2>3, <2>4
<1>4. CASE Run(w)
  <2>1. /\ job \in [Workers -> Tasks \cup {None}] /\ job[w] \in Tasks
        /\ outcome \in [Tasks -> {"none", "value", "exception"}]
        /\ job' = [job EXCEPT ![w] = None] /\ tasks' = tasks
        /\ \A j \in Tasks \ {job[w]} : outcome'[j] = outcome[j]
        /\ outcome'[job[w]] # "none"
    BY <1>4 DEF Run, Goto, ThreadInv, TypeOK
  <2>2. job'[w] = None /\ \A v \in Workers \ {w} : job'[v] = job[v]
    BY <2>1
  <2> USE NoneAssumption
  <2>3. CASE job[w] # i
    <3>1. Places(i)' = Places(i)
      BY <2>1, <2>2, <2>3 DEF Places
    <3> QED
      BY <1>1, <3>1 DEF Placed
  <2>4. CASE job[w] = i
    <3>1. <<"worker", w>> \in Places(i)
      BY <2>4 DEF Places
    <3>2. Places(i) = {<<"worker", w>>} /\ Enqueued(i)
      BY <3>1 DEF Placed
    <3>3. /\ \A k \in 1..Len(tasks) : tasks[k] # i
          /\ \A v \in Workers \ {w} : job[v] # i
      BY <3>2, OnlyTaken
    <3>4. Places(i)' = {<<"done", i>>}
      BY <2>1, <2>2, <2>4, <3>3 DEF Places
    <3> QED
      BY <1>1, <3>2, <3>4 DEF Placed
  <2> QED
    BY <2>3, <2>4
<1> QED
  BY <1>2, <1>3, <1>4 DEF WorkerStep

\* The caller puts the next task into the queue, and moves no other.
LEMMA CallerKeepsPlaced ==
  ASSUME ThreadInv, CallerStep, NEW i \in Tasks, Placed(i)
  PROVE  Placed(i)'
<1> USE TasksAssumption, NoneAssumption
<1>1. CASE Push
  <2>1. /\ tasks \in Seq(Tasks) /\ tasks' = Append(tasks, next)
        /\ next \in Tasks /\ UNCHANGED <<job, next, outcome>>
        /\ pc[Caller] = "push" /\ pc'[Caller] = "notify"
    BY <1>1 DEF Push, Goto, ThreadInv, TypeOK, Threads
  <2>2. /\ Len(tasks) \in Nat /\ Len(tasks') = Len(tasks) + 1
        /\ \A k \in 1..Len(tasks) : tasks'[k] = tasks[k]
        /\ tasks'[Len(tasks) + 1] = next
    BY <2>1
  <2>3. CASE i # next
    <3>1. Places(i)' = Places(i)
      BY <2>1, <2>2, <2>3 DEF Places
    <3>2. Enqueued(i)' <=> Enqueued(i)
      BY <2>1, <2>3 DEF Enqueued
    <3> QED
      BY <3>1, <3>2 DEF Placed
  <2>4. CASE i = next
    <3>1. ~Enqueued(i) /\ Enqueued(i)'
      BY <2>1, <2>4 DEF Enqueued, Tasks
    <3>2. Places(i) = {}
      BY <3>1 DEF Placed
    <3>3. /\ \A k \in 1..Len(tasks) : tasks[k] # i
          /\ \A w \in Workers : job[w] # i
          /\ outcome[i] = "none"
      BY <3>2, Nowhere
    <3>4. Places(i)' = {<<"queue", Len(tasks) + 1>>}
      BY <2>1, <2>2, <2>4, <3>3 DEF Places
    <3> QED
      BY <3>1, <3>4 DEF Placed
  <2> QED
    BY <2>3, <2>4
<1>2. CASE ~Push
  <2>1. UNCHANGED <<tasks, job, outcome>>
    BY <1>2 DEF CallerStep, Enqueue, Notify, Get, Stop, NotifyAll, Join
  <2>2. Enqueued(i)' <=> Enqueued(i)
    BY <1>2 DEF CallerStep, Enqueue, Notify, Get, Stop, NotifyAll, Join, Goto,
       Enqueued, ThreadInv, TypeOK, Tasks, Threads
  <2> QED
    BY <2>1, <2>2, PlacedKept
<1> QED
  BY <1>1, <1>2

-----------------------------------------------------------------------------
(* Wakeups. *)

\* Whether the notification of the last task is still to be sent.
Pending == IF pc[Caller] = "notify" THEN 1 ELSE 0

LEMMA AwakeFinite ==
  IsFiniteSet(OnTheirWay) /\ Cardinality(OnTheirWay) \in Nat
BY WorkersAssumption, FS_Subset, FS_CardinalityType DEF OnTheirWay

\* An empty queue needs nobody.
LEMMA EmptyNeedsNobody ==
  ASSUME tasks' = <<>>, pc'[Caller] \in {"join", "gone"} => sleeping' = {}
  PROVE  NoWakeupLost'
<1>1. IsFiniteSet(OnTheirWay') /\ Cardinality(OnTheirWay') \in Nat
  BY WorkersAssumption, FS_Subset, FS_CardinalityType DEF OnTheirWay
<1>2. Len(tasks') = 0
  OBVIOUS
<1> QED
  BY <1>1, <1>2 DEF NoWakeupLost

\* Nobody leaves the way, and no task comes.
LEMMA WakeupsKept ==
  ASSUME NoWakeupLost, OnTheirWay \subseteq OnTheirWay', sleeping' \subseteq sleeping,
         UNCHANGED <<tasks, pc[Caller]>>, tasks \in Seq(Tasks)
  PROVE  NoWakeupLost'
<1>1. IsFiniteSet(OnTheirWay')
  BY WorkersAssumption, FS_Subset DEF OnTheirWay
<1>2. /\ Cardinality(OnTheirWay) <= Cardinality(OnTheirWay')
      /\ Cardinality(OnTheirWay) \in Nat /\ Cardinality(OnTheirWay') \in Nat
  BY <1>1, AwakeFinite, FS_Subset, FS_CardinalityType
<1>3. Len(tasks) \in Nat /\ Pending \in {0, 1}
  BY DEF Pending
<1>4. sleeping # {} => Len(tasks) <= Cardinality(OnTheirWay) + Pending
  BY DEF NoWakeupLost, Pending
<1>5. sleeping # {} => Len(tasks) <= Cardinality(OnTheirWay') + Pending
  BY <1>2, <1>3, <1>4
<1> QED
  BY <1>5 DEF NoWakeupLost, Pending

LEMMA WorkerKeepsWakeups ==
  ASSUME ThreadInv, NoWakeupLost, NEW w \in Workers, WorkerStep(w) \/ Wake(w)
  PROVE  NoWakeupLost'
<1>0. /\ tasks \in Seq(Tasks) /\ sleeping \subseteq Workers
      /\ pc \in [Threads -> WorkerSteps \cup CallerSteps] /\ Workers \subseteq Threads
      /\ w # Caller /\ Caller \in Threads
  BY WorkersAssumption DEF ThreadInv, TypeOK, Threads
<1>1. pc'[Caller] = pc[Caller]
  <2>1. CASE Test(w)
    <3>1. PICK s : pc' = [pc EXCEPT ![w] = s]
      BY <2>1 DEF Test, Goto
    <3> QED
      BY <1>0, <3>1
  <2>2. CASE Lock(w) \/ Sleep(w) \/ Take(w) \/ Run(w) \/ Wake(w)
    BY <1>0, <2>2 DEF Lock, Sleep, Take, Run, Wake, Goto
  <2> QED
    BY <2>1, <2>2 DEF WorkerStep
<1>2. CASE Lock(w)
  BY <1>0, <1>1, <1>2, WakeupsKept DEF Lock, Goto, OnTheirWay
<1>3. CASE Test(w)
  <2>1. CASE tasks # <<>>
    BY <1>0, <1>1, <1>3, <2>1, WakeupsKept DEF Test, Goto, OnTheirWay
  <2>2. CASE tasks = <<>>
    BY <1>1, <1>3, <2>2, EmptyNeedsNobody DEF Test, NoWakeupLost
  <2> QED
    BY <2>1, <2>2
<1>4. CASE Sleep(w)
  <2>1. tasks = <<>> /\ pc[Caller] \notin {"notify_all", "join", "gone"} /\ tasks' = tasks
    BY <1>4 DEF Sleep, Goto, ThreadInv
  <2> QED
    BY <1>1, <2>1, EmptyNeedsNobody
<1>5. CASE Take(w)
  <2>1. /\ pc[w] = "take" /\ w \notin sleeping /\ sleeping' = sleeping
        /\ pc' = [pc EXCEPT ![w] = "run"] /\ tasks' = Tail(tasks)
    BY <1>5 DEF Take, Goto, ThreadInv
  <2>2. w \in OnTheirWay /\ OnTheirWay' = OnTheirWay \ {w}
    BY <1>0, <2>1 DEF OnTheirWay
  <2>3. Cardinality(OnTheirWay') = Cardinality(OnTheirWay) - 1
    BY <2>2, AwakeFinite, FS_RemoveElement
  <2>4. Len(tasks) \in Nat /\ Len(tasks') = Len(tasks) - 1
    BY <1>0, <1>5, <2>1 DEF ThreadInv, TypeOK
  <2>5. Pending \in {0, 1} /\ Pending' = Pending
    BY <1>1 DEF Pending
  <2>6. sleeping # {} => Len(tasks) <= Cardinality(OnTheirWay) + Pending
    BY DEF NoWakeupLost, Pending
  <2>7. sleeping' # {} => Len(tasks') <= Cardinality(OnTheirWay') + Pending'
    <3>1. Cardinality(OnTheirWay) \in Nat
      BY AwakeFinite
    <3>2. sleeping' = sleeping
      BY <2>1
    <3> QED
      BY <2>3, <2>4, <2>5, <2>6, <3>1, <3>2
  <2> QED
    BY <1>1, <2>1, <2>7 DEF NoWakeupLost, Pending
<1>6. CASE Run(w)
  BY <1>0, <1>1, <1>6, WakeupsKept DEF Run, Goto, OnTheirWay
<1>7. CASE Wake(w)
  BY <1>0, <1>1, <1>7, WakeupsKept DEF Wake, OnTheirWay
<1> QED
  BY <1>2, <1>3, <1>4, <1>5, <1>6, <1>7 DEF WorkerStep

LEMMA CallerKeepsWakeups ==
  ASSUME ThreadInv, NoWakeupLost, CallerStep
  PROVE  NoWakeupLost'
<1>0. /\ tasks \in Seq(Tasks) /\ sleeping \subseteq Workers
      /\ pc \in [Threads -> WorkerSteps \cup CallerSteps] /\ Workers \subseteq Threads
      /\ Caller \in Threads /\ Caller \notin Workers
  BY WorkersAssumption DEF ThreadInv, TypeOK, Threads
<1>1. PICK s : pc' = [pc EXCEPT ![Caller] = s]
  BY DEF CallerStep, Enqueue, Push, Notify, Get, Stop, NotifyAll, Join, Goto
<1>2. \A w \in Workers : pc'[w] = pc[w]
  BY <1>0, <1>1
<1>3. CASE Push
  <2>1. /\ pc[Caller] = "push" /\ pc'[Caller] = "notify" /\ sleeping' = sleeping
        /\ Len(tasks) \in Nat /\ Len(tasks') = Len(tasks) + 1
    BY <1>0, <1>3 DEF Push, Goto
  <2>2. OnTheirWay' = OnTheirWay
    BY <1>2, <2>1 DEF OnTheirWay
  <2>3. sleeping # {} => Len(tasks) <= Cardinality(OnTheirWay)
    BY <2>1, AwakeFinite DEF NoWakeupLost
  <2> QED
    BY <2>1, <2>2, <2>3, AwakeFinite DEF NoWakeupLost
<1>4. CASE Notify
  <2>1. pc[Caller] = "notify" /\ pc'[Caller] = "enqueue" /\ tasks' = tasks /\ Len(tasks) \in Nat
    BY <1>0, <1>4 DEF Notify, Goto
  <2>2. CASE sleeping' = {}
    BY <2>1, <2>2 DEF NoWakeupLost
  <2>3. ASSUME NEW w \in sleeping, sleeping' = sleeping \ {w}
        PROVE  NoWakeupLost'
    <3>1. w \notin OnTheirWay /\ OnTheirWay' = OnTheirWay \cup {w}
      BY <1>0, <1>2, <2>3 DEF OnTheirWay, ThreadInv
    <3>2. Cardinality(OnTheirWay') = Cardinality(OnTheirWay) + 1
      BY <3>1, AwakeFinite, FS_AddElement
    <3>3. Len(tasks) <= Cardinality(OnTheirWay) + 1
      BY <2>1, <2>3 DEF NoWakeupLost
    <3> QED
      BY <2>1, <3>2, <3>3, AwakeFinite DEF NoWakeupLost
  <2> QED
    BY <1>4, <2>2, <2>3 DEF Notify
<1>5. CASE Enqueue \/ Get \/ Stop
  <2>1. /\ UNCHANGED <<tasks, sleeping>>
        /\ pc[Caller] \in {"enqueue", "get", "stop"}
        /\ pc'[Caller] \in {"push", "get", "stop", "notify_all"}
    BY <1>0, <1>5 DEF Enqueue, Get, Stop, Goto
  <2>2. OnTheirWay' = OnTheirWay
    BY <1>2, <2>1 DEF OnTheirWay
  <2> QED
    BY <2>1, <2>2 DEF NoWakeupLost
<1>6. CASE NotifyAll \/ Join
  BY <1>0, <1>6 DEF NotifyAll, Join, Goto, NoWakeupLost
<1> QED
  BY <1>3, <1>4, <1>5, <1>6 DEF CallerStep

-----------------------------------------------------------------------------
(* The order of the queue. *)

LEMMA OrderedKept ==
  ASSUME ThreadInv, \A i \in Tasks : Placed(i), Ordered, [Next]_vars
  PROVE  Ordered'
<1>0. tasks \in Seq(Tasks) /\ Len(tasks) \in Nat
  BY DEF ThreadInv, TypeOK
<1>1. ASSUME NEW w \in Workers, Take(w) PROVE Ordered'
  <2>1. /\ Len(tasks') = Len(tasks) - 1
        /\ \A k \in 1..Len(tasks') : tasks'[k] = tasks[k + 1] /\ k + 1 \in 1..Len(tasks)
    BY <1>0, <1>1 DEF Take, Goto, ThreadInv, TypeOK
  <2> SUFFICES ASSUME NEW j \in 1..Len(tasks'), NEW k \in 1..Len(tasks'), j < k
               PROVE  tasks'[j] < tasks'[k]
    BY DEF Ordered
  <2>2. j + 1 < k + 1
    BY <1>0, <2>1
  <2> QED
    BY <2>1, <2>2 DEF Ordered
<1>2. CASE Push
  <2>1. /\ tasks' = Append(tasks, next) /\ pc[Caller] = "push" /\ next \in Nat
    BY <1>2 DEF Push, Goto, ThreadInv, TypeOK
  <2>2. ASSUME NEW k \in 1..Len(tasks) PROVE tasks[k] < next
    <3>1. tasks[k] \in Tasks /\ <<"queue", k>> \in Places(tasks[k])
      BY <1>0 DEF Places
    <3>2. Enqueued(tasks[k])
      BY <3>1 DEF Placed
    <3> QED
      BY <2>1, <3>2 DEF Enqueued
  <2>3. /\ Len(tasks') = Len(tasks) + 1 /\ tasks'[Len(tasks) + 1] = next
        /\ \A k \in 1..Len(tasks) : tasks'[k] = tasks[k]
    BY <1>0, <2>1
  <2> SUFFICES ASSUME NEW j \in 1..Len(tasks'), NEW k \in 1..Len(tasks'), j < k
               PROVE  tasks'[j] < tasks'[k]
    BY DEF Ordered
  <2>4. CASE k \in 1..Len(tasks)
    BY <1>0, <2>3, <2>4 DEF Ordered
  <2>5. CASE k = Len(tasks) + 1
    BY <1>0, <2>2, <2>3, <2>5
  <2> QED
    BY <1>0, <2>3, <2>4, <2>5
<1>3. CASE UNCHANGED tasks
  BY <1>3 DEF Ordered
<1>4. ASSUME NEW w \in Workers, Lock(w) \/ Test(w) \/ Sleep(w) \/ Run(w) \/ Wake(w)
      PROVE  UNCHANGED tasks
  BY <1>4 DEF Lock, Test, Sleep, Run, Wake
<1>5. CASE Enqueue \/ Notify \/ Get \/ Stop \/ NotifyAll \/ Join
  BY <1>3, <1>5 DEF Enqueue, Notify, Get, Stop, NotifyAll, Join
<1>6. CASE UNCHANGED vars
  BY <1>3, <1>6 DEF vars
<1> QED
  BY <1>1, <1>2, <1>3, <1>4, <1>5, <1>6 DEF Next, WorkerStep, CallerStep, Terminated

\* Every step keeps the threads in order and each task in its one place.
LEMMA PoolInductive == PoolInv /\ [Next]_vars => PoolInv'
<1> SUFFICES ASSUME PoolInv, [Next]_vars PROVE PoolInv'
  OBVIOUS
<1>1. ThreadInv /\ (\A i \in Tasks : Placed(i)) /\ Ordered /\ NoWakeupLost
  BY PoolInvParts
<1>2. Ordered'
  BY <1>1, OrderedKept
<1>6. SUFFICES ThreadInv' /\ (\A i \in Tasks : Placed(i)') /\ NoWakeupLost'
  BY <1>2 DEF PoolInv, ThreadInv, Placed, Ordered
<1>3. ASSUME NEW w \in Workers, WorkerStep(w) \/ Wake(w)
      PROVE  ThreadInv' /\ (\A i \in Tasks : Placed(i)') /\ NoWakeupLost'
  BY <1>1, <1>3, WorkerKeepsThreads, WorkerKeepsPlaced, WorkerKeepsWakeups
<1>4. CASE CallerStep
  BY <1>1, <1>4, CallerKeepsThreads, CallerKeepsPlaced, CallerKeepsWakeups
<1>5. CASE UNCHANGED vars
  BY <1>1, <1>5 DEF vars, ThreadInv, TypeOK, Placed, Places, Enqueued,
     NoWakeupLost, OnTheirWay
<1> QED
  BY <1>3, <1>4, <1>5 DEF Next, Terminated

\* At first nothing was pushed and nobody has a task.
LEMMA PoolInitially == Init => PoolInv
<1> SUFFICES ASSUME Init PROVE PoolInv
  OBVIOUS
<1> USE WorkersAssumption, TasksAssumption, NoneAssumption
<1>1. ThreadInv
  <2>1. /\ pc[Caller] = "enqueue" /\ \A w \in Workers : pc[w] = "lock"
        /\ pc \in [Threads -> WorkerSteps \cup CallerSteps]
    BY DEF Init, Threads, WorkerSteps, CallerSteps
  <2>2. /\ tasks \in Seq(Tasks) /\ next \in 1..(NumTasks + 1)
        /\ job \in [Workers -> Tasks \cup {None}]
        /\ outcome \in [Tasks -> {"none", "value", "exception"}]
    BY DEF Init
  <2>3. TypeOK
    BY <2>1, <2>2 DEF Init, TypeOK, WorkerSteps, CallerSteps
  <2> QED
    BY <2>1, <2>3 DEF Init, ThreadInv
<1>2. ASSUME NEW i \in Tasks PROVE Placed(i)
  <2>1. ~Enqueued(i)
    BY DEF Init, Enqueued, Tasks, Threads
  <2>2. Places(i) = {}
    BY DEF Init, Places
  <2> QED
    BY <2>1, <2>2 DEF Placed
<1>3. NoWakeupLost
  BY DEF Init, NoWakeupLost, Threads
<1>4. Ordered
  BY DEF Init, Ordered
<1> QED
  BY <1>1, <1>2, <1>3, <1>4, PoolInvParts

-----------------------------------------------------------------------------
(* The refinement. *)

\* A task that is done is in no other place.
LEMMA OnlyDone ==
  ASSUME NEW i, Places(i) = {<<"done", i>>}
  PROVE  /\ \A k \in 1..Len(tasks) : tasks[k] # i
         /\ \A w \in Workers : job[w] # i
<1>1. \A k \in 1..Len(tasks) : tasks[k] = i => <<"queue", k>> = <<"done", i>>
  BY DEF Places
<1>2. \A w \in Workers : job[w] = i => <<"worker", w>> = <<"done", i>>
  BY DEF Places
<1> QED
  BY <1>1, <1>2

\* The abstract state of a task is its place.
LEMMA StateIsPlace ==
  ASSUME NEW i \in Tasks, Placed(i)
  PROVE  /\ StateOf(i) \in {"none", "queued", "running", "ended"}
         /\ StateOf(i) = "ended" <=> outcome[i] # "none"
         /\ StateOf(i) = "running" <=> \E w \in Workers : job[w] = i
         /\ StateOf(i) = "queued" <=> \E k \in 1..Len(tasks) : tasks[k] = i
         /\ StateOf(i) = "none" <=> ~Enqueued(i)
<1>1. CASE ~Enqueued(i)
  <2>1. Places(i) = {}
    BY <1>1 DEF Placed
  <2> QED
    BY <1>1, <2>1, Nowhere DEF StateOf
<1>2. ASSUME Enqueued(i), NEW k \in 1..Len(tasks), tasks[k] = i
      PROVE  StateOf(i) = "queued" /\ outcome[i] = "none" /\ \A w \in Workers : job[w] # i
  <2>1. Places(i) = {<<"queue", k>>}
    BY <1>2 DEF Placed, Places
  <2> QED
    BY <1>2, <2>1, OnlyQueued DEF StateOf
<1>3. ASSUME Enqueued(i), NEW w \in Workers, job[w] = i
      PROVE  StateOf(i) = "running" /\ outcome[i] = "none"
             /\ \A k \in 1..Len(tasks) : tasks[k] # i
  <2>1. Places(i) = {<<"worker", w>>}
    BY <1>3 DEF Placed, Places
  <2>2. outcome[i] # "none" => <<"done", i>> \in Places(i)
    BY DEF Places
  <2> QED
    BY <1>3, <2>1, <2>2, OnlyTaken DEF StateOf
<1>4. ASSUME Enqueued(i), outcome[i] # "none"
      PROVE  /\ StateOf(i) = "ended"
             /\ \A k \in 1..Len(tasks) : tasks[k] # i
             /\ \A w \in Workers : job[w] # i
  <2>1. Places(i) = {<<"done", i>>}
    BY <1>4 DEF Placed, Places
  <2> QED
    BY <1>4, <2>1, OnlyDone DEF StateOf
<1>5. ASSUME Enqueued(i)
      PROVE  \/ \E k \in 1..Len(tasks) : tasks[k] = i
             \/ \E w \in Workers : job[w] = i
             \/ outcome[i] # "none"
  <2>1. Places(i) # {}
    BY <1>5 DEF Placed
  <2> QED
    BY <2>1 DEF Places
<1> QED
  BY <1>1, <1>2, <1>3, <1>4, <1>5

\* What a step does not move keeps its abstract state.
LEMMA StateKept ==
  ASSUME UNCHANGED <<tasks, job, outcome>>
  PROVE  stateBar' = stateBar
BY DEF stateBar, StateOf

\* A step that moves one task changes its abstract state alone.
LEMMA OneMoves ==
  ASSUME NEW i \in Tasks, NEW s,
         StateOf(i)' = s, \A j \in Tasks \ {i} : StateOf(j)' = StateOf(j)
  PROVE  stateBar' = [stateBar EXCEPT ![i] = s]
<1>1. stateBar = [j \in Tasks |-> StateOf(j)]
  BY DEF stateBar
<1>2. stateBar' = [j \in Tasks |-> StateOf(j)']
  BY DEF stateBar
<1> QED
  BY <1>1, <1>2

\* The scope is left by Join and by nothing else.
LEMMA ScopeKept ==
  ASSUME ThreadInv, [Next]_vars, ~Join
  PROVE  scopeBar' = scopeBar
<1>0. /\ pc \in [Threads -> WorkerSteps \cup CallerSteps]
      /\ Caller \in Threads /\ Caller \notin Workers
  BY WorkersAssumption DEF ThreadInv, TypeOK, Threads
<1>1. ASSUME NEW w \in Workers, WorkerStep(w) \/ Wake(w)
      PROVE  pc'[Caller] = pc[Caller]
  <2>1. \/ pc' = pc
        \/ \E s \in WorkerSteps : pc' = [pc EXCEPT ![w] = s]
    BY <1>1 DEF WorkerStep, Lock, Test, Sleep, Take, Run, Wake, Goto, WorkerSteps
  <2> QED
    BY <1>0, <2>1
<1>2. ASSUME Enqueue \/ Push \/ Notify \/ Get \/ Stop \/ NotifyAll
      PROVE  pc[Caller] # "gone" /\ pc'[Caller] # "gone"
  <2>1. CASE Get
    BY <1>0, <2>1 DEF Get, Goto
  <2>2. CASE Enqueue
    BY <1>0, <2>2 DEF Enqueue, Goto
  <2>3. CASE Push \/ Notify \/ Stop \/ NotifyAll
    BY <1>0, <2>3 DEF Push, Notify, Stop, NotifyAll, Goto
  <2> QED
    BY <1>2, <2>1, <2>2, <2>3
<1>3. CASE UNCHANGED vars
  BY <1>3 DEF vars, scopeBar
<1> QED
  BY <1>1, <1>2, <1>3 DEF Next, CallerStep, Terminated, scopeBar

\* A worker that takes a task leaves one of the others with none.
LEMMA TakerIsFree ==
  ASSUME PoolInv, NEW w \in Workers, pc[w] = "take"
  PROVE  Cardinality(Runner!InState("running")) < Cardinality(Workers)
<1> DEFINE R == Runner!InState("running")
           B == {v \in Workers : job[v] # None}
           f == [v \in B |-> job[v]]
<1>1. ThreadInv /\ \A i \in Tasks : Placed(i)
  BY PoolInvParts
<1>2. R = {i \in Tasks : \E v \in Workers : job[v] = i}
  BY <1>1, StateIsPlace DEF Runner!InState, Runner!Tasks, Tasks, stateBar
<1>3. w \notin B /\ B \subseteq Workers \ {w}
  BY <1>1 DEF ThreadInv
<1>4. /\ IsFiniteSet(Workers \ {w})
      /\ Cardinality(Workers \ {w}) = Cardinality(Workers) - 1
      /\ Cardinality(Workers) \in Nat
  BY WorkersAssumption, FS_RemoveElement, FS_CardinalityType
<1>5. IsFiniteSet(B) /\ Cardinality(B) <= Cardinality(Workers \ {w})
  BY <1>3, <1>4, FS_Subset
<1>6. f \in Surjection(B, R)
  <2>1. \A v \in B : job[v] \in Tasks
    BY <1>1 DEF ThreadInv, TypeOK
  <2>2. f \in [B -> R]
    BY <1>2, <2>1
  <2>3. \A i \in R : \E v \in B : f[v] = i
    BY <1>2, NoneAssumption
  <2> QED
    BY <2>2, <2>3 DEF Surjection
<1> HIDE DEF R, B, f
<1>7. Cardinality(R) <= Cardinality(B) /\ IsFiniteSet(R)
  BY <1>5, <1>6, FS_Surjection
<1>8. Cardinality(R) \in Nat /\ Cardinality(B) \in Nat
  BY <1>5, <1>7, FS_CardinalityType
<1>9. Cardinality(R) < Cardinality(Workers)
  BY <1>4, <1>5, <1>7, <1>8
<1> QED
  BY <1>9 DEF R

\* The cardinality that TaskRunner speaks of is the one of FiniteSets.
LEMMA SameCardinality == \A S : Runner!Cardinality(S) = Cardinality(S)
BY Zenon DEF Runner!Cardinality, Cardinality

LEMMA TakeStarts ==
  ASSUME PoolInv, PoolInv', NEW w \in Workers, Take(w), scopeBar' = scopeBar
  PROVE  Runner!Next
<1>1. /\ ThreadInv /\ (\A i \in Tasks : Placed(i)) /\ Ordered
      /\ \A i \in Tasks : Placed(i)'
  BY PoolInvParts DEF PoolInv, Placed
<1>2. /\ tasks \in Seq(Tasks) /\ tasks # <<>> /\ tasks' = Tail(tasks)
      /\ job \in [Workers -> Tasks \cup {None}]
      /\ job' = [job EXCEPT ![w] = Head(tasks)] /\ job[w] = None
      /\ pc[w] = "take" /\ outcome' = outcome
  BY <1>1 DEF Take, Goto, ThreadInv, TypeOK
<1>0. PICK i \in Tasks : i = Head(tasks)
  BY <1>2
<1>3. /\ i = tasks[1] /\ 1 \in 1..Len(tasks) /\ Len(tasks) \in Nat
      /\ Len(tasks') = Len(tasks) - 1
      /\ \A k \in 1..Len(tasks') : tasks'[k] = tasks[k + 1]
      /\ job'[w] = i /\ \A v \in Workers \ {w} : job'[v] = job[v]
  BY <1>0, <1>2
<1>4. scopeBar = "open"
  BY <1>1, <1>2 DEF scopeBar, ThreadInv
<1>5. StateOf(i) = "queued"
  BY <1>1, <1>3, StateIsPlace
<1>6. StateOf(i)' = "running"
  <2>1. outcome'[i] = "none"
    BY <1>1, <1>2, <1>3, <1>5, StateIsPlace
  <2>2. \E v \in Workers : job'[v] = i
    BY <1>3
  <2> QED
    BY <2>1, <2>2 DEF StateOf
<1>7. ASSUME NEW j \in Tasks \ {i} PROVE StateOf(j)' = StateOf(j)
  <2>1. (\E k \in 1..Len(tasks') : tasks'[k] = j) <=> (\E k \in 1..Len(tasks) : tasks[k] = j)
    <3>1. ASSUME NEW k \in 1..Len(tasks), tasks[k] = j
          PROVE  k - 1 \in 1..Len(tasks') /\ tasks'[k - 1] = j
      BY <1>3, <3>1
    <3>2. ASSUME NEW k \in 1..Len(tasks'), tasks'[k] = j
          PROVE  k + 1 \in 1..Len(tasks) /\ tasks[k + 1] = j
      BY <1>3, <3>2
    <3> QED
      BY <3>1, <3>2
  <2>2. (\E v \in Workers : job'[v] = j) <=> (\E v \in Workers : job[v] = j)
    BY <1>2, <1>3, NoneAssumption
  <2> QED
    BY <1>2, <2>1, <2>2 DEF StateOf
<1>8. stateBar' = [stateBar EXCEPT ![i] = "running"]
  BY <1>3, <1>6, <1>7, OneMoves
<1>9. \A j \in Runner!InState("queued") : i <= j
  <2> SUFFICES ASSUME NEW j \in Tasks, StateOf(j) = "queued" PROVE i <= j
    BY DEF Runner!InState, Runner!Tasks, Tasks, stateBar
  <2>1. PICK k \in 1..Len(tasks) : tasks[k] = j
    BY <1>1, StateIsPlace
  <2>2. k = 1 \/ tasks[1] < tasks[k]
    BY <1>1, <1>3 DEF Ordered
  <2> QED
    BY <1>3, <2>1, <2>2 DEF Tasks
<1>10. stateBar[i] = "queued"
  BY <1>3, <1>5 DEF stateBar
<1>11. Cardinality(Runner!InState("running")) < Cardinality(Workers)
  BY <1>2, TakerIsFree
<1>12. Runner!Start(i)
  BY <1>4, <1>8, <1>9, <1>10, <1>11, SameCardinality DEF Runner!Start
<1> QED
  BY <1>3, <1>12 DEF Runner!Next, Runner!Tasks, Tasks

LEMMA RunEnds ==
  ASSUME PoolInv, PoolInv', NEW w \in Workers, Run(w), scopeBar' = scopeBar
  PROVE  Runner!Next
<1>1. /\ ThreadInv /\ (\A i \in Tasks : Placed(i))
      /\ \A i \in Tasks : Placed(i)'
  BY PoolInvParts DEF PoolInv, Placed
<1>0. PICK i \in Tasks : i = job[w]
  BY <1>1 DEF Run, Goto, ThreadInv, TypeOK
<1>2. /\ i = job[w] /\ tasks' = tasks
      /\ job \in [Workers -> Tasks \cup {None}]
      /\ job' = [job EXCEPT ![w] = None] /\ pc[w] = "run"
      /\ \A j \in Tasks \ {i} : outcome'[j] = outcome[j]
      /\ outcome'[i] # "none"
  BY <1>0, <1>1 DEF Run, Goto, ThreadInv, TypeOK
<1>3. StateOf(i) = "running"
  BY <1>1, <1>2, StateIsPlace
<1>4. scopeBar = "open"
  BY <1>1, <1>2 DEF scopeBar, ThreadInv
<1>5. /\ job'[w] = None /\ \A v \in Workers \ {w} : job'[v] = job[v]
  BY <1>2
<1>6. StateOf(i)' = "ended"
  <2>1. outcome'[i] # "none"
    BY <1>2
  <2> QED
    BY <2>1 DEF StateOf
<1>7. ASSUME NEW j \in Tasks \ {i} PROVE StateOf(j)' = StateOf(j)
  <2>1. (\E v \in Workers : job'[v] = j) <=> (\E v \in Workers : job[v] = j)
    BY <1>0, <1>2, <1>5, NoneAssumption
  <2> QED
    BY <1>2, <2>1 DEF StateOf
<1>8. stateBar' = [stateBar EXCEPT ![i] = "ended"]
  BY <1>2, <1>6, <1>7, OneMoves
<1>9. stateBar[i] = "running"
  BY <1>2, <1>3 DEF stateBar
<1>10. Runner!End(i)
  BY <1>4, <1>8, <1>9 DEF Runner!End
<1> QED
  BY <1>2, <1>10 DEF Runner!Next, Runner!Tasks, Tasks

LEMMA PushEnqueues ==
  ASSUME PoolInv, PoolInv', Push, scopeBar' = scopeBar
  PROVE  Runner!Next
<1>1. /\ ThreadInv /\ (\A i \in Tasks : Placed(i))
      /\ \A i \in Tasks : Placed(i)'
  BY PoolInvParts DEF PoolInv, Placed
<1>2. /\ tasks \in Seq(Tasks) /\ tasks' = Append(tasks, next) /\ next \in Tasks
      /\ UNCHANGED <<job, next, outcome>>
      /\ pc[Caller] = "push" /\ pc'[Caller] = "notify"
  BY <1>1, WorkersAssumption DEF Push, Goto, ThreadInv, TypeOK, Threads
<1>3. /\ Len(tasks') = Len(tasks) + 1 /\ tasks'[Len(tasks) + 1] = next
      /\ Len(tasks) \in Nat
      /\ \A k \in 1..Len(tasks) : tasks'[k] = tasks[k]
  BY <1>2
<1>4. \A i \in Tasks : Enqueued(i) <=> i < next
  BY <1>2 DEF Enqueued
<1>5. StateOf(next) = "none"
  BY <1>1, <1>2, <1>4, StateIsPlace DEF Tasks
<1>6. StateOf(next)' = "queued"
  <2>1. /\ outcome'[next] = "none" /\ ~\E w \in Workers : job'[w] = next
    BY <1>1, <1>2, <1>5, StateIsPlace
  <2> QED
    BY <1>2, <1>3, <2>1 DEF StateOf
<1>7. ASSUME NEW j \in Tasks \ {next} PROVE StateOf(j)' = StateOf(j)
  <2>1. (\E k \in 1..Len(tasks') : tasks'[k] = j) <=> (\E k \in 1..Len(tasks) : tasks[k] = j)
    BY <1>3
  <2> QED
    BY <1>2, <2>1 DEF StateOf
<1>8. stateBar' = [stateBar EXCEPT ![next] = "queued"]
  BY <1>2, <1>6, <1>7, OneMoves
<1>9. \A i \in Tasks : stateBar[i] = "none" /\ i <= next <=> i = next
  <2>1. \A i \in Tasks : stateBar[i] = "none" <=> ~(i < next)
    BY <1>1, <1>4, StateIsPlace DEF stateBar
  <2> QED
    BY <1>2, <2>1 DEF Tasks
<1>10. stateBar' = [i \in Tasks |-> IF stateBar[i] = "none" /\ i <= next THEN "queued"
                                     ELSE stateBar[i]]
  BY <1>8, <1>9 DEF stateBar
<1>11. scopeBar = "open" /\ next \in 0..NumTasks
  BY <1>2, TasksAssumption DEF scopeBar, Tasks
<1>12. Runner!Enqueue(next)
  BY <1>10, <1>11 DEF Runner!Enqueue, Runner!Tasks, Tasks
<1> QED
  BY <1>11, <1>12 DEF Runner!Next

LEMMA JoinLeaves ==
  ASSUME PoolInv, Join
  PROVE  Runner!Next
<1>1. /\ ThreadInv /\ (\A i \in Tasks : Placed(i)) /\ Caller \in Threads
  BY PoolInvParts DEF Threads
<1>2. /\ pc[Caller] = "join" /\ pc'[Caller] = "gone"
      /\ UNCHANGED <<tasks, job, outcome>> /\ \A w \in Workers : pc[w] = "exited"
  BY <1>1 DEF Join, Goto, ThreadInv, TypeOK
<1>3. tasks = <<>> /\ \A w \in Workers : job[w] = None
  BY <1>1, <1>2, WorkersAssumption DEF ThreadInv
<1>4. \A i \in Tasks : StateOf(i) \notin {"queued", "running"}
  BY <1>1, <1>3, StateIsPlace, NoneAssumption
<1>5. Runner!InState("queued") = {} /\ Runner!InState("running") = {}
  BY <1>4 DEF Runner!InState, Runner!Tasks, Tasks, stateBar
<1>6. Runner!Leave
  BY <1>2, <1>5, StateKept DEF Runner!Leave, scopeBar
<1> QED
  BY <1>6 DEF Runner!Next

\* Every step is one of the abstract pool, or none that its user sees.
LEMMA PoolSteps ==
  ASSUME PoolInv, PoolInv', [Next]_vars
  PROVE  [Runner!Next]_(Runner!vars)
<1>1. CASE Join
  BY <1>1, JoinLeaves
<1>2. CASE ~Join
  <2>1. scopeBar' = scopeBar
    BY <1>2, ScopeKept, PoolInvParts
  <2>2. CASE UNCHANGED <<tasks, job, outcome>>
    BY <2>1, <2>2, StateKept DEF Runner!vars
  <2>3. ASSUME NEW w \in Workers, WorkerStep(w) \/ Wake(w)
        PROVE  [Runner!Next]_(Runner!vars)
    <3>1. Take(w) \/ Run(w) \/ UNCHANGED <<tasks, job, outcome>>
      BY <2>3 DEF WorkerStep, Lock, Test, Sleep, Wake
    <3> QED
      BY <2>1, <2>2, <3>1, TakeStarts, RunEnds
  <2>4. ASSUME CallerStep PROVE [Runner!Next]_(Runner!vars)
    <3>1. Push \/ UNCHANGED <<tasks, job, outcome>>
      BY <2>4 DEF CallerStep, Enqueue, Notify, Get, Stop, NotifyAll, Join
    <3> QED
      BY <2>1, <2>2, <3>1, PushEnqueues
  <2>5. CASE UNCHANGED vars
    BY <2>2, <2>5 DEF vars
  <2> QED
    BY <2>3, <2>4, <2>5 DEF Next, Terminated
<1> QED
  BY <1>1, <1>2

LEMMA PoolStarts == Init => Runner!Init
<1> SUFFICES ASSUME Init PROVE Runner!Init
  OBVIOUS
<1>1. scopeBar = "open"
  BY WorkersAssumption DEF Init, scopeBar, Threads
<1>2. \A i \in Tasks : StateOf(i) = "none"
  BY NoneAssumption DEF Init, StateOf
<1> QED
  BY <1>1, <1>2 DEF Runner!Init, Runner!NoTasks, Runner!Tasks, Tasks, stateBar

LEMMA PoolInvHolds == Spec => []PoolInv
BY PoolInitially, PoolInductive, PTL DEF Spec

\* Type correctness of the specification: in particular a worker that takes a
\* task finds one in the queue (ThreadPool.hpp:43-45).
THEOREM TypeCorrect == Spec => []TypeOK
<1>1. PoolInv => TypeOK
  BY DEF PoolInv
<1> QED
  BY <1>1, PoolInvHolds, PTL

\* From the moment it is pushed each task is in the queue, with one worker, or
\* done, and in one of these only (ThreadPool.hpp:43-45, 76-79).
THEOREM TasksRunOnce == Spec => []EachTaskOnce
<1>1. PoolInv => EachTaskOnce
  <2> SUFFICES ASSUME PoolInv, NEW i \in Tasks
               PROVE  Cardinality(Places(i)) = IF Enqueued(i) THEN 1 ELSE 0
    BY DEF EachTaskOnce
  <2>1. Placed(i)
    BY PoolInvParts
  <2> QED
    BY <2>1, FS_EmptySet, FS_Singleton DEF Placed
<1> QED
  BY <1>1, PoolInvHolds, PTL

\* When the destructor has returned every task has run and every worker has
\* ended, for any number of either (ThreadPool.hpp:41, 55-65).
THEOREM PoolDrains == Spec => []DrainedWhenGone
<1>1. PoolInv => DrainedWhenGone
  <2> SUFFICES ASSUME PoolInv, pc[Caller] = "gone"
               PROVE  /\ \A i \in Tasks : outcome[i] # "none"
                      /\ \A w \in Workers : pc[w] = "exited"
    BY DEF DrainedWhenGone
  <2>1. \A w \in Workers : pc[w] = "exited"
    BY DEF PoolInv
  <2>2. tasks = <<>> /\ \A w \in Workers : job[w] = None
    BY <2>1, WorkersAssumption DEF PoolInv
  <2>3. ASSUME NEW i \in Tasks PROVE outcome[i] # "none"
    <3>1. Enqueued(i)
      BY DEF Enqueued
    <3>2. Places(i) # {}
      BY <3>1 DEF PoolInv
    <3> QED
      BY <2>2, <3>2, NoneAssumption DEF Places
  <2> QED
    BY <2>1, <2>3
<1> QED
  BY <1>1, PoolInvHolds, PTL

\* No notification is lost, however many workers and tasks there are: a worker
\* that sleeps is not needed, and none sleeps once the destructor waits
\* (ThreadPool.hpp:38-45, 58-63, 79-80).
THEOREM WakeupsArrive == Spec => []NoWakeupLost
<1>1. PoolInv => NoWakeupLost
  BY DEF PoolInv
<1> QED
  BY <1>1, PoolInvHolds, PTL

\* A pool of any number of workers is a TaskRunner: tasks start in the order of
\* enqueue and end before the scope is left (ThreadPool.hpp:37-45, 55-81).
THEOREM RunnerImplemented == Spec => ImplementsRunner
<1>1. PoolInv /\ PoolInv' /\ [Next]_vars => [Runner!Next]_(Runner!vars)
  BY PoolSteps
<1> QED
  BY <1>1, PoolStarts, PoolInvHolds, PTL DEF Spec, ImplementsRunner, Runner!Spec
=============================================================================
