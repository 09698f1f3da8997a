------------------------------- MODULE VmPool -------------------------------
(***************************************************************************)
(* The pool of QuickJS virtual machines (VmPool.hpp), the sessions that    *)
(* lease one (JsExecutor.hpp) and what a machine keeps between two calls   *)
(* (SandboxedVm.hpp): the functions that were evaluated on it, and the     *)
(* moment its execution timer was set.                                     *)
(*                                                                         *)
(* The mutex of the pool is held from the test to the pop and from the     *)
(* push to the notification, so each is one step.  A thread may lease a    *)
(* second machine to replace the session it has, and keeps the first one   *)
(* meanwhile: the types allow it.  None of these classes is used by the    *)
(* program yet; JsExecutor.hpp includes a header that is not there.        *)
(***************************************************************************)
EXTENDS Naturals, Sequences, FiniteSets, SequencesExt

CONSTANTS
    Threads, Vms, Functions,
    MaxSessions,    \* bound on the sessions that are made
    None

ASSUME SizesAssumption == MaxSessions \in Nat
ASSUME NoneAssumption == None \notin Vms \cup Functions
ASSUME FiniteAssumption == IsFiniteSet(Vms) /\ IsFiniteSet(Threads)

Ops == {"eval", "call", "json"}
\* Whether an operation returned or threw makes no difference here.
Outcomes == {"none", "ended", "not_found", "timeout"}

VARIABLES
    pool,       \* pool_
    lease,      \* machines that a thread holds, the newest last
    at,         \* where a thread stands
    sessions,   \* how many sessions were asked for
    op, fn,     \* what it runs
    outcome,    \* of its last operation
    fns,        \* functions known to each machine
    old,        \* whether timeout_ms passed since start_ of a machine
    evaluated,  \* functions the present session has evaluated
    late        \* whether the last operation took longer than timeout_ms

threadVars == <<at, sessions, op, fn, outcome>>
history == <<evaluated, late>>
vars == <<pool, lease, threadVars, fns, old, history>>

\* The constructor fills the pool.
Init ==
    /\ pool = SetToSeq(Vms)
    /\ lease = [t \in Threads |-> <<>>]
    /\ at = [t \in Threads |-> "idle"]
    /\ sessions = 0
    /\ op = [t \in Threads |-> "eval"]
    /\ fn = [t \in Threads |-> None]
    /\ outcome = [t \in Threads |-> "none"]
    /\ fns = [v \in Vms |-> {}]
    /\ old = [v \in Vms |-> FALSE]
    /\ evaluated = [t \in Threads |-> {}]
    /\ late = [t \in Threads |-> FALSE]

Goto(t, step) == at' = [at EXCEPT ![t] = step]
Vm(t) == lease[t][Len(lease[t])]

-----------------------------------------------------------------------------
(* Leasing. *)

\* A session forgets what the one before it did.
Forget(t) ==
    /\ op' = [op EXCEPT ![t] = "eval"] /\ fn' = [fn EXCEPT ![t] = None]
    /\ outcome' = [outcome EXCEPT ![t] = "none"]
    /\ evaluated' = [evaluated EXCEPT ![t] = {}]
    /\ late' = [late EXCEPT ![t] = FALSE]

\* create_session, eval or call_function of the executor: with or without a
\* session that the new one replaces.
Ask(t) ==
    /\ at[t] \in {"idle", "session"}
    /\ sessions < MaxSessions
    /\ sessions' = sessions + 1
    /\ Goto(t, "acquire")
    /\ Forget(t)
    /\ UNCHANGED <<pool, lease, fns, old>>

\* Mutant: the machine is taken without being popped.
Take_NoPop(t) ==
    /\ at[t] = "acquire"
    /\ pool # <<>>
    /\ lease' = [lease EXCEPT ![t] = Append(@, Head(pool))]
    /\ Goto(t, IF lease[t] = <<>> THEN "session" ELSE "assign")
    /\ UNCHANGED <<pool, sessions, op, fn, outcome, fns, old, history>>

Take(t) ==
    /\ at[t] = "acquire"
    /\ pool # <<>>
    /\ pool' = Tail(pool)
    /\ lease' = [lease EXCEPT ![t] = Append(@, Head(pool))]
    /\ Goto(t, IF lease[t] = <<>> THEN "session" ELSE "assign")
    /\ UNCHANGED <<sessions, op, fn, outcome, fns, old, history>>

Sleep(t) ==
    /\ at[t] = "acquire"
    /\ pool = <<>>
    /\ Goto(t, "asleep")
    /\ UNCHANGED <<pool, lease, sessions, op, fn, outcome, fns, old, history>>

SpuriousWakeup(t) ==
    /\ at[t] = "asleep"
    /\ Goto(t, "acquire")
    /\ UNCHANGED <<pool, lease, sessions, op, fn, outcome, fns, old, history>>

Asleep == {t \in Threads : at[t] = "asleep"}

\* Mutant: nobody is notified.
Push_Silently(t, step) ==
    /\ pool' = Append(pool, Head(lease[t]))
    /\ lease' = [lease EXCEPT ![t] = Tail(@)]
    /\ Goto(t, step)

\* release_: the machine goes back and one of the sleepers is notified.
Push(t, step) ==
    /\ pool' = Append(pool, Head(lease[t]))
    /\ lease' = [lease EXCEPT ![t] = Tail(@)]
    /\ IF Asleep = {} THEN Goto(t, step)
       ELSE \E s \in Asleep : at' = [at EXCEPT ![t] = step, ![s] = "acquire"]

\* The lease is assigned over the one the thread has.
Assign(t) ==
    /\ at[t] = "assign"
    /\ Push(t, "session")
    /\ UNCHANGED <<sessions, op, fn, outcome, fns, old, history>>

EndSession(t) ==
    /\ at[t] = "session"
    /\ Push(t, "idle")
    /\ Forget(t)
    /\ UNCHANGED <<sessions, fns, old>>

-----------------------------------------------------------------------------
(* Running code on the machine of a session. *)

\* Mutant: the timer is not set for a call.
Begin_CallKeepsTimer(t, o, f) ==
    /\ at[t] = "session"
    /\ op' = [op EXCEPT ![t] = o] /\ fn' = [fn EXCEPT ![t] = f]
    /\ old' = IF o # "eval" THEN old ELSE [old EXCEPT ![Vm(t)] = FALSE]
    /\ outcome' = [outcome EXCEPT ![t] = "none"]
    /\ late' = [late EXCEPT ![t] = FALSE]
    /\ Goto(t, "running")
    /\ UNCHANGED <<pool, lease, sessions, fns, evaluated>>

\* reset_timer_: call_function_json does not.
Begin(t, o, f) ==
    /\ at[t] = "session"
    /\ op' = [op EXCEPT ![t] = o] /\ fn' = [fn EXCEPT ![t] = f]
    /\ old' = IF o = "json" THEN old ELSE [old EXCEPT ![Vm(t)] = FALSE]
    /\ outcome' = [outcome EXCEPT ![t] = "none"]
    /\ late' = [late EXCEPT ![t] = FALSE]
    /\ Goto(t, "running")
    /\ UNCHANGED <<pool, lease, sessions, fns, evaluated>>

End(t, o) ==
    /\ outcome' = [outcome EXCEPT ![t] = o]
    /\ Goto(t, "session")
    /\ UNCHANGED <<pool, lease, sessions, op, fn, old, late>>

NotFound(t) ==
    /\ at[t] = "running"
    /\ op[t] # "eval" /\ fn[t] \notin fns[Vm(t)]
    /\ End(t, "not_found")
    /\ UNCHANGED <<fns, evaluated>>

Returns(t) ==
    /\ at[t] = "running"
    /\ op[t] = "eval" \/ fn[t] \in fns[Vm(t)]
    /\ End(t, "ended")
    /\ IF op[t] = "eval"
       THEN /\ fns' = [fns EXCEPT ![Vm(t)] = @ \cup {fn[t]}]
            /\ evaluated' = [evaluated EXCEPT ![t] = @ \cup {fn[t]}]
       ELSE UNCHANGED <<fns, evaluated>>

\* Code that throws, or is interrupted, may have defined its function before.
Breaks(t, o) ==
    /\ at[t] = "running"
    /\ op[t] = "eval" \/ fn[t] \in fns[Vm(t)]
    /\ o = "timeout" => old[Vm(t)]
    /\ End(t, o)
    /\ \/ op[t] = "eval" /\ fns' = [fns EXCEPT ![Vm(t)] = @ \cup {fn[t]}]
       \/ UNCHANGED fns
    /\ UNCHANGED evaluated

\* timeout_ms is over for machine v.
TimePasses(v) ==
    /\ ~old[v]
    /\ old' = [old EXCEPT ![v] = TRUE]
    /\ late' = [t \in Threads |->
                    late[t] \/ (at[t] = "running" /\ Vm(t) = v)]
    /\ UNCHANGED <<pool, lease, threadVars, fns, evaluated>>

Run(t) == NotFound(t) \/ Returns(t) \/ \E o \in {"ended", "timeout"} : Breaks(t, o)

Next ==
    \/ \E t \in Threads :
          \/ Ask(t) \/ Take(t) \/ Sleep(t) \/ SpuriousWakeup(t)
          \/ Assign(t) \/ EndSession(t)
          \/ \E o \in Ops, f \in Functions : Begin(t, o, f)
          \/ Run(t)
    \/ \E v \in Vms : TimePasses(v)

Spec == Init /\ [][Next]_vars

-----------------------------------------------------------------------------
(* Properties. *)

Steps == {"idle", "acquire", "asleep", "assign", "session", "running"}

TypeOK ==
    /\ pool \in Seq(Vms)
    /\ lease \in [Threads -> Seq(Vms)]
    /\ at \in [Threads -> Steps]
    /\ sessions \in 0..MaxSessions
    /\ op \in [Threads -> Ops]
    /\ fn \in [Threads -> Functions \cup {None}]
    /\ outcome \in [Threads -> Outcomes]
    /\ fns \in [Vms -> SUBSET Functions]
    /\ old \in [Vms -> BOOLEAN]
    /\ evaluated \in [Threads -> SUBSET Functions]
    /\ late \in [Threads -> BOOLEAN]

Places(v) ==
    {<<"pool", i>> : i \in {i \in DOMAIN pool : pool[i] = v}} \cup
    UNION {{<<t, i>> : i \in {i \in DOMAIN lease[t] : lease[t][i] = v}} : t \in Threads}

\* Every machine is in the pool or in one lease of one thread, whatever
\* sessions are made, replaced and ended: no machine is used by two threads,
\* and none is lost (VmPool.hpp:44-87).
EachVmOnce == \A v \in Vms : Cardinality(Places(v)) = 1

\* An operation of a session, other than call_function_json, is interrupted only
\* when it runs too long itself, whoever used the machine before and however long
\* it lay in the pool; and no operation misses a function that its session has
\* evaluated.  call_function_json sets no timer, so it may be interrupted for the
\* age of an earlier operation.  What else an earlier session may have left, its
\* globals and the memory they hold, is not spoken of
\* (SandboxedVm.hpp:71-203, 372-384).
FailsOnItsOwn ==
    \A t \in {t \in Threads : at[t] = "session"} :
        /\ outcome[t] = "timeout" /\ op[t] # "json" => late[t]
        /\ outcome[t] = "not_found" => fn[t] \notin evaluated[t]

\* Threads that will look at the pool before they sleep.
OnTheirWay == {t \in Threads : at[t] = "acquire"}

\* While a thread sleeps, every machine of the pool has a thread of its own that
\* comes for it: a release that notified nobody would leave a machine in the
\* pool beside a sleeper (VmPool.hpp:62-87).
NoWakeupLost == Asleep # {} => Len(pool) <= Cardinality(OnTheirWay)
=============================================================================
