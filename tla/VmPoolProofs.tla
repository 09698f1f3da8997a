---------------------------- MODULE VmPoolProofs ----------------------------
(***************************************************************************)
(* Proofs about VmPool: types, the one place of every machine, and failures *)
(* that are a session's own, for any threads, machines and functions.       *)
(***************************************************************************)
EXTENDS VmPool, FiniteSetTheorems, SequenceTheorems, TLAPS

-----------------------------------------------------------------------------
(* The inductive invariant. *)

\* What a thread has where it stands.
HoldsInv ==
    \A t \in Threads :
        /\ at[t] = "idle" => Len(lease[t]) = 0
        /\ at[t] \in {"acquire", "asleep"} => Len(lease[t]) \in {0, 1}
        /\ at[t] = "assign" => Len(lease[t]) = 2
        /\ at[t] \in {"session", "running"} => Len(lease[t]) = 1
        /\ at[t] = "running" => fn[t] \in Functions

\* No machine is in two places, and each is in one.
PooledOnce == \A i, j \in DOMAIN pool : pool[i] = pool[j] => i = j
LeasedOnce ==
    \A t, u \in Threads : \A i \in DOMAIN lease[t], j \in DOMAIN lease[u] :
        lease[t][i] = lease[u][j] => t = u /\ i = j
PooledOrLeased ==
    \A i \in DOMAIN pool, t \in Threads : \A j \in DOMAIN lease[t] :
        pool[i] # lease[t][j]
SomewhereInv ==
    \A v \in Vms : \/ \E i \in DOMAIN pool : pool[i] = v
                   \/ \E t \in Threads : \E j \in DOMAIN lease[t] : lease[t][j] = v
PlaceInv == PooledOnce /\ LeasedOnce /\ PooledOrLeased /\ SomewhereInv

\* What a thread knows of its machine, and FailsOnItsOwn for it.
Own(t) ==
    /\ at[t] \in {"acquire", "asleep", "assign"} => evaluated[t] = {} /\ outcome[t] = "none"
    /\ at[t] \in {"session", "running"} => evaluated[t] \subseteq fns[Vm(t)]
    /\ at[t] = "running" /\ op[t] # "json" /\ old[Vm(t)] => late[t]
    /\ at[t] = "session" =>
          /\ outcome[t] = "timeout" /\ op[t] # "json" => late[t]
          /\ outcome[t] = "not_found" => fn[t] \notin evaluated[t]
OwnInv == \A t \in Threads : Own(t)

VmPoolInv == TypeOK /\ HoldsInv /\ PlaceInv /\ OwnInv /\ NoWakeupLost

-----------------------------------------------------------------------------
(* Sequences. *)

\* The pool starts with every machine once.
LEMMA Filled ==
    /\ SetToSeq(Vms) \in Seq(Vms)
    /\ \A i, j \in DOMAIN SetToSeq(Vms) : SetToSeq(Vms)[i] = SetToSeq(Vms)[j] => i = j
    /\ \A v \in Vms : \E i \in DOMAIN SetToSeq(Vms) : SetToSeq(Vms)[i] = v
<1> DEFINE n == Cardinality(Vms)
           s == SetToSeq(Vms)
<1>1. n \in Nat /\ ExistsBijection(1..n, Vms)
  BY FiniteAssumption, FS_CardinalityType
<1>2. \E f \in [1..n -> Vms] : IsInjective(f)
  BY <1>1 DEF ExistsBijection, Bijection, Injection
<1>3. s \in [1..n -> Vms] /\ IsInjective(s)
  BY <1>2 DEF SetToSeq
<1>4. s \in Injection(1..n, Vms)
  BY <1>3 DEF Injection
<1>5. Cardinality(1..n) = n
  BY <1>1, FS_Interval, SMT
<1>6. s \in Surjection(1..n, Vms)
  <2> HIDE DEF s, n
  <2>1. Cardinality(1..n) = Cardinality(Vms) <=> s \in Surjection(1..n, Vms)
    BY <1>4, FiniteAssumption, FS_Injection
  <2> QED
    BY <2>1, <1>5 DEF n
<1>7. s \in Seq(Vms) /\ DOMAIN s = 1..n
  <2> HIDE DEF s, n
  <2> QED
    BY <1>1, <1>3
<1>8. \A i, j \in DOMAIN s : s[i] = s[j] => i = j
  <2> HIDE DEF s, n
  <2> QED
    BY <1>3 DEF IsInjective
<1>9. \A v \in Vms : \E i \in DOMAIN s : s[i] = v
  <2> HIDE DEF s, n
  <2> QED
    BY <1>6, <1>7 DEF Surjection
<1> QED
  BY <1>7, <1>8, <1>9

\* Taking the first element: the rest keeps its order.
LEMMA Rest ==
    ASSUME NEW s \in Seq(Vms), s # <<>>
    PROVE  /\ Head(s) = s[1] /\ Head(s) \in Vms
           /\ Tail(s) \in Seq(Vms) /\ Len(Tail(s)) = Len(s) - 1
           /\ \A i \in DOMAIN Tail(s) : Tail(s)[i] = s[i + 1] /\ i + 1 \in DOMAIN s
           /\ \A i \in DOMAIN s : i # 1 => i - 1 \in DOMAIN Tail(s) /\ Tail(s)[i - 1] = s[i]
           /\ 1 \in DOMAIN s
<1>1. /\ Head(s) = s[1] /\ Head(s) \in Vms
      /\ Tail(s) \in Seq(Vms) /\ Len(Tail(s)) = Len(s) - 1
      /\ \A i \in 1..Len(Tail(s)) : Tail(s)[i] = s[i + 1]
  BY HeadTailProperties, SMT
<1>2. Len(s) \in Nat \ {0} /\ DOMAIN s = 1..Len(s)
  BY SMT
<1>3. DOMAIN Tail(s) = 1..(Len(s) - 1)
  BY <1>1
<1> QED
  BY <1>1, <1>2, <1>3

\* Appending one: the others stay where they are.
LEMMA Longer ==
    ASSUME NEW s \in Seq(Vms), NEW v \in Vms
    PROVE  /\ Append(s, v) \in Seq(Vms) /\ Len(Append(s, v)) = Len(s) + 1
           /\ \A i \in DOMAIN s : i \in DOMAIN Append(s, v) /\ Append(s, v)[i] = s[i]
           /\ \A i \in DOMAIN Append(s, v) : i \in DOMAIN s \/ i = Len(s) + 1
           /\ Append(s, v)[Len(s) + 1] = v
           /\ Len(s) + 1 \in DOMAIN Append(s, v) /\ Len(s) + 1 \notin DOMAIN s
<1>1. /\ Append(s, v) \in Seq(Vms) /\ Len(Append(s, v)) = Len(s) + 1
      /\ \A i \in 1..Len(s) : Append(s, v)[i] = s[i]
      /\ Append(s, v)[Len(s) + 1] = v
  BY AppendProperties
<1>2. Len(s) \in Nat /\ DOMAIN s = 1..Len(s) /\ DOMAIN Append(s, v) = 1..(Len(s) + 1)
  BY <1>1
<1> QED
  BY <1>1, <1>2

-----------------------------------------------------------------------------
(* Places. *)

\* The first machine of the pool becomes the last one of a thread.
LEMMA TakePlaces ==
    ASSUME TypeOK, PlaceInv, NEW t \in Threads, pool # <<>>,
           pool' = Tail(pool), lease' = [lease EXCEPT ![t] = Append(@, Head(pool))]
    PROVE  PlaceInv'
<1> DEFINE m == Head(pool)
           n == Len(lease[t]) + 1
<1>0. pool \in Seq(Vms) /\ lease \in [Threads -> Seq(Vms)] /\ lease[t] \in Seq(Vms)
  BY DEF TypeOK
<1>1. /\ m = pool[1] /\ m \in Vms /\ 1 \in DOMAIN pool
      /\ \A i \in DOMAIN pool' : pool'[i] = pool[i + 1] /\ i + 1 \in DOMAIN pool /\ i \in Nat /\ i + 1 # 1
      /\ \A i \in DOMAIN pool : i # 1 => i - 1 \in DOMAIN pool' /\ pool'[i - 1] = pool[i]
  <2>1. \A i \in DOMAIN pool' : i \in Nat /\ i + 1 # 1
    BY <1>0, Rest
  <2> QED
    BY <2>1, <1>0, Rest
<1>2. /\ lease'[t] = Append(lease[t], m)
      /\ \A u \in Threads : u # t => lease'[u] = lease[u]
  BY <1>0
<1>3. /\ \A i \in DOMAIN lease[t] : i \in DOMAIN lease'[t] /\ lease'[t][i] = lease[t][i]
      /\ \A i \in DOMAIN lease'[t] : i \in DOMAIN lease[t] \/ i = n
      /\ lease'[t][n] = m /\ n \in DOMAIN lease'[t] /\ n \notin DOMAIN lease[t]
  BY <1>0, <1>1, <1>2, Longer
<1> HIDE DEF m, n
<1>4. PooledOnce'
  <2> SUFFICES ASSUME NEW i \in DOMAIN pool', NEW j \in DOMAIN pool', pool'[i] = pool'[j]
               PROVE  i = j
    BY DEF PooledOnce
  <2>1. i + 1 = j + 1
    BY <1>1 DEF PlaceInv, PooledOnce
  <2> QED
    BY <2>1, <1>1
<1>5. LeasedOnce'
  <2> SUFFICES ASSUME NEW u \in Threads, NEW w \in Threads,
                      NEW i \in DOMAIN lease'[u], NEW j \in DOMAIN lease'[w],
                      lease'[u][i] = lease'[w][j]
               PROVE  u = w /\ i = j
    BY DEF LeasedOnce
  <2>1. \A x \in Threads : \A k \in DOMAIN lease'[x] :
            \/ x = t /\ k = n /\ lease'[x][k] = pool[1]
            \/ k \in DOMAIN lease[x] /\ lease'[x][k] = lease[x][k] /\ lease'[x][k] # pool[1]
    BY <1>1, <1>2, <1>3 DEF PlaceInv, PooledOrLeased
  <2> QED
    BY <2>1 DEF PlaceInv, LeasedOnce
<1>6. PooledOrLeased'
  <2> SUFFICES ASSUME NEW i \in DOMAIN pool', NEW u \in Threads, NEW j \in DOMAIN lease'[u]
               PROVE  pool'[i] # lease'[u][j]
    BY DEF PooledOrLeased
  <2>1. pool'[i] = pool[i + 1] /\ i + 1 \in DOMAIN pool /\ pool[i + 1] # pool[1]
    BY <1>1 DEF PlaceInv, PooledOnce
  <2>2. lease'[u][j] = pool[1] \/ (j \in DOMAIN lease[u] /\ lease'[u][j] = lease[u][j])
    BY <1>1, <1>2, <1>3
  <2> QED
    BY <2>1, <2>2 DEF PlaceInv, PooledOrLeased
<1>7. SomewhereInv'
  <2> SUFFICES ASSUME NEW v \in Vms
               PROVE  \/ \E i \in DOMAIN pool' : pool'[i] = v
                      \/ \E u \in Threads : \E j \in DOMAIN lease'[u] : lease'[u][j] = v
    BY DEF SomewhereInv
  <2>1. CASE v = m
    BY <2>1, <1>3
  <2>2. CASE v # m /\ \E i \in DOMAIN pool : pool[i] = v
    <3>1. PICK i \in DOMAIN pool : pool[i] = v
      BY <2>2
    <3>2. i # 1 /\ i - 1 \in DOMAIN pool' /\ pool'[i - 1] = pool[i]
      BY <2>2, <3>1, <1>1
    <3> QED
      BY <3>1, <3>2
  <2>3. CASE \E u \in Threads : \E j \in DOMAIN lease[u] : lease[u][j] = v
    BY <2>3, <1>2, <1>3
  <2> QED
    BY <2>1, <2>2, <2>3 DEF PlaceInv, SomewhereInv
<1> QED
  BY <1>4, <1>5, <1>6, <1>7 DEF PlaceInv

\* The first machine of a thread becomes the last one of the pool.
LEMMA PushPlaces ==
    ASSUME TypeOK, PlaceInv, NEW t \in Threads, lease[t] # <<>>,
           pool' = Append(pool, Head(lease[t])), lease' = [lease EXCEPT ![t] = Tail(@)]
    PROVE  PlaceInv'
<1> DEFINE m == Head(lease[t])
           n == Len(pool) + 1
<1>0. pool \in Seq(Vms) /\ lease \in [Threads -> Seq(Vms)] /\ lease[t] \in Seq(Vms)
  BY DEF TypeOK
<1>1. /\ lease'[t] = Tail(lease[t])
      /\ \A u \in Threads : u # t => lease'[u] = lease[u]
  BY <1>0
<1>2. /\ m = lease[t][1] /\ m \in Vms /\ 1 \in DOMAIN lease[t]
      /\ \A i \in DOMAIN lease'[t] : /\ lease'[t][i] = lease[t][i + 1]
                                     /\ i + 1 \in DOMAIN lease[t] /\ i \in Nat /\ i + 1 # 1
      /\ \A i \in DOMAIN lease[t] :
            i # 1 => i - 1 \in DOMAIN lease'[t] /\ lease'[t][i - 1] = lease[t][i]
  <2>1. \A i \in DOMAIN lease'[t] : i \in Nat /\ i + 1 # 1
    BY <1>0, <1>1, Rest
  <2> QED
    BY <2>1, <1>0, <1>1, Rest
<1>3. /\ \A i \in DOMAIN pool : i \in DOMAIN pool' /\ pool'[i] = pool[i]
      /\ \A i \in DOMAIN pool' : i \in DOMAIN pool \/ i = n
      /\ pool'[n] = m /\ n \in DOMAIN pool' /\ n \notin DOMAIN pool
  BY <1>0, <1>2, Longer
<1> HIDE DEF m, n
\* What a thread keeps, it had before, and it is not m.
<1>4. ASSUME NEW u \in Threads, NEW i \in DOMAIN lease'[u]
      PROVE  \E k \in DOMAIN lease[u] : /\ lease'[u][i] = lease[u][k]
                                        /\ lease[u][k] # m
                                        /\ IF u = t THEN k = i + 1 ELSE k = i
  <2>1. CASE u = t
    BY <2>1, <1>2 DEF PlaceInv, LeasedOnce
  <2>2. CASE u # t
    BY <2>2, <1>1, <1>2 DEF PlaceInv, LeasedOnce
  <2> QED
    BY <2>1, <2>2
<1>5. PooledOnce'
  BY <1>2, <1>3 DEF PlaceInv, PooledOnce, PooledOrLeased
<1>6. LeasedOnce'
  <2> SUFFICES ASSUME NEW u \in Threads, NEW w \in Threads,
                      NEW i \in DOMAIN lease'[u], NEW j \in DOMAIN lease'[w],
                      lease'[u][i] = lease'[w][j]
               PROVE  u = w /\ i = j
    BY DEF LeasedOnce
  <2>1. PICK k \in DOMAIN lease[u] : /\ lease'[u][i] = lease[u][k]
                                     /\ IF u = t THEN k = i + 1 ELSE k = i
    BY <1>4
  <2>2. PICK l \in DOMAIN lease[w] : /\ lease'[w][j] = lease[w][l]
                                     /\ IF w = t THEN l = j + 1 ELSE l = j
    BY <1>4
  <2>3. u = w /\ k = l
    BY <2>1, <2>2 DEF PlaceInv, LeasedOnce
  <2>4. i = j
    <3>1. CASE u = t
      BY <3>1, <2>1, <2>2, <2>3, <1>2
    <3>2. CASE u # t
      BY <3>2, <2>1, <2>2, <2>3
    <3> QED
      BY <3>1, <3>2
  <2> QED
    BY <2>3, <2>4
<1>7. PooledOrLeased'
  <2> SUFFICES ASSUME NEW i \in DOMAIN pool', NEW u \in Threads, NEW j \in DOMAIN lease'[u]
               PROVE  pool'[i] # lease'[u][j]
    BY DEF PooledOrLeased
  <2>1. PICK k \in DOMAIN lease[u] : lease'[u][j] = lease[u][k] /\ lease[u][k] # m
    BY <1>4
  <2>2. pool'[i] = m \/ (i \in DOMAIN pool /\ pool'[i] = pool[i])
    BY <1>3
  <2> QED
    BY <2>1, <2>2 DEF PlaceInv, PooledOrLeased
<1>8. SomewhereInv'
  <2> SUFFICES ASSUME NEW v \in Vms
               PROVE  \/ \E i \in DOMAIN pool' : pool'[i] = v
                      \/ \E u \in Threads : \E j \in DOMAIN lease'[u] : lease'[u][j] = v
    BY DEF SomewhereInv
  <2>1. CASE v = m
    BY <2>1, <1>3
  <2>2. CASE \E i \in DOMAIN pool : pool[i] = v
    BY <2>2, <1>3
  <2>3. CASE v # m /\ \E u \in Threads : \E j \in DOMAIN lease[u] : lease[u][j] = v
    <3>0. PICK u \in Threads : \E j \in DOMAIN lease[u] : lease[u][j] = v
      BY <2>3
    <3>1. PICK j \in DOMAIN lease[u] : lease[u][j] = v
      BY <3>0
    <3>2. CASE u = t
      <4>1. j # 1
        BY <3>1, <3>2, <2>3, <1>2
      <4>2. j - 1 \in DOMAIN lease'[t] /\ lease'[t][j - 1] = v
        BY <4>1, <3>1, <3>2, <1>2
      <4> QED
        BY <4>2
    <3>3. CASE u # t
      BY <3>1, <3>3, <1>1
    <3> QED
      BY <3>2, <3>3
  <2> QED
    BY <2>1, <2>2, <2>3 DEF PlaceInv, SomewhereInv
<1> QED
  BY <1>5, <1>6, <1>7, <1>8 DEF PlaceInv

-----------------------------------------------------------------------------
(* One step of each part. *)

\* What release_ changes.
LEMMA PushEffect ==
    ASSUME TypeOK, NEW t \in Threads, NEW step \in Steps, lease[t] # <<>>,
           at[t] # "asleep", Push(t, step)
    PROVE  /\ pool' \in Seq(Vms)
           /\ lease' \in [Threads -> Seq(Vms)]
           /\ Len(lease'[t]) = Len(lease[t]) - 1
           /\ at' \in [Threads -> Steps]
           /\ at'[t] = step
           /\ \A u \in Threads \ {t} :
                 /\ lease'[u] = lease[u]
                 /\ at'[u] = at[u] \/ (at[u] = "asleep" /\ at'[u] = "acquire")
<1>0. lease[t] \in Seq(Vms) /\ pool \in Seq(Vms) /\ lease \in [Threads -> Seq(Vms)]
  BY DEF TypeOK
<1>1. pool' \in Seq(Vms)
  BY <1>0, Rest, Longer DEF Push
<1>2. /\ lease' \in [Threads -> Seq(Vms)]
      /\ Len(lease'[t]) = Len(lease[t]) - 1
      /\ \A u \in Threads \ {t} : lease'[u] = lease[u]
  <2>1. Tail(lease[t]) \in Seq(Vms) /\ Len(Tail(lease[t])) = Len(lease[t]) - 1
    BY <1>0, Rest
  <2> QED
    BY <2>1, <1>0 DEF Push
<1>3. /\ at' \in [Threads -> Steps]
      /\ at'[t] = step
      /\ \A u \in Threads \ {t} : at'[u] = at[u] \/ (at[u] = "asleep" /\ at'[u] = "acquire")
  <2>0. at \in [Threads -> Steps] /\ "acquire" \in Steps
    BY DEF TypeOK, Steps
  <2>1. CASE Asleep = {}
    BY <2>0, <2>1 DEF Push, Goto
  <2>2. CASE Asleep # {}
    <3>1. PICK s \in Asleep : at' = [at EXCEPT ![t] = step, ![s] = "acquire"]
      BY <2>2 DEF Push
    <3>2. s \in Threads /\ at[s] = "asleep" /\ s # t
      BY DEF Asleep
    <3> QED
      BY <2>0, <3>1, <3>2
  <2> QED
    BY <2>1, <2>2
<1> QED
  BY <1>1, <1>2, <1>3

\* The last of some machines is one of them.
LEMMA LastIsOne ==
    ASSUME NEW s \in Seq(Vms), Len(s) \in {1, 2}
    PROVE  s # <<>> /\ s[Len(s)] \in Vms
OBVIOUS

\* A thread that gives a machine back has one.
LEMMA Holding ==
    ASSUME TypeOK, HoldsInv, NEW t \in Threads, at[t] \in {"assign", "session", "running"}
    PROVE  lease[t] # <<>> /\ lease[t] \in Seq(Vms) /\ Vm(t) \in Vms
<1>1. lease[t] \in Seq(Vms)
  BY DEF TypeOK
<1>2. Len(lease[t]) \in {1, 2}
  BY DEF HoldsInv
<1>3. lease[t] # <<>> /\ lease[t][Len(lease[t])] \in Vms
  BY <1>1, <1>2, LastIsOne
<1> QED
  BY <1>1, <1>3 DEF Vm

LEMMA TypeStep ==
    ASSUME TypeOK, HoldsInv, [Next]_vars
    PROVE  TypeOK'
<1>1. ASSUME NEW t \in Threads, Ask(t)
      PROVE  TypeOK'
  BY <1>1, SizesAssumption DEF TypeOK, Ask, Goto, Forget, Steps, Ops, Outcomes
<1>2. ASSUME NEW t \in Threads, Take(t)
      PROVE  TypeOK'
  <2>1. Tail(pool) \in Seq(Vms) /\ Head(pool) \in Vms
    BY <1>2, Rest DEF Take, TypeOK
  <2>2. Append(lease[t], Head(pool)) \in Seq(Vms)
    BY <2>1, Longer DEF TypeOK
  <2>3. pool' \in Seq(Vms) /\ lease' \in [Threads -> Seq(Vms)]
    BY <1>2, <2>1, <2>2 DEF Take, TypeOK
  <2>4. at' \in [Threads -> Steps]
    BY <1>2 DEF Take, Goto, Steps, TypeOK
  <2> QED
    BY <1>2, <2>3, <2>4 DEF Take, TypeOK, history
<1>3. ASSUME NEW t \in Threads, Sleep(t) \/ SpuriousWakeup(t)
      PROVE  TypeOK'
  BY <1>3 DEF TypeOK, Sleep, SpuriousWakeup, Goto, Steps, history
<1>4. ASSUME NEW t \in Threads, Assign(t)
      PROVE  TypeOK'
  <2>1. "session" \in Steps /\ lease[t] # <<>>
    BY <1>4, Holding DEF Steps, Assign
  <2>2. pool' \in Seq(Vms) /\ lease' \in [Threads -> Seq(Vms)] /\ at' \in [Threads -> Steps]
    BY <1>4, <2>1, PushEffect DEF Assign
  <2> QED
    BY <1>4, <2>2 DEF Assign, TypeOK, history
<1>5. ASSUME NEW t \in Threads, EndSession(t)
      PROVE  TypeOK'
  <2>1. "idle" \in Steps /\ lease[t] # <<>>
    BY <1>5, Holding DEF Steps, EndSession
  <2>2. pool' \in Seq(Vms) /\ lease' \in [Threads -> Seq(Vms)] /\ at' \in [Threads -> Steps]
    BY <1>5, <2>1, PushEffect DEF EndSession
  <2> QED
    BY <1>5, <2>2 DEF EndSession, Forget, TypeOK, Ops, Outcomes
<1>6. ASSUME NEW t \in Threads, NEW o \in Ops, NEW f \in Functions, Begin(t, o, f)
      PROVE  TypeOK'
  BY <1>6 DEF TypeOK, Begin, Goto, Steps, Outcomes
<1>7. ASSUME NEW t \in Threads, Run(t)
      PROVE  TypeOK'
  <2>1. fn[t] \in Functions
    BY <1>7 DEF HoldsInv, Run, NotFound, Returns, Breaks
  <2>2. CASE NotFound(t)
    BY <2>2 DEF TypeOK, NotFound, End, Goto, Steps, Outcomes
  <2>3. CASE Returns(t)
    <3>1. fns' \in [Vms -> SUBSET Functions] /\ evaluated' \in [Threads -> SUBSET Functions]
      <4>0. Vm(t) \in Vms
        BY <2>3, Holding DEF Returns
      <4>1. CASE op[t] = "eval"
        <5>1. /\ fns' = [fns EXCEPT ![Vm(t)] = @ \cup {fn[t]}]
              /\ evaluated' = [evaluated EXCEPT ![t] = @ \cup {fn[t]}]
          BY <2>3, <4>1 DEF Returns
        <5> QED
          BY <2>1, <4>0, <5>1 DEF TypeOK
      <4>2. CASE op[t] # "eval"
        BY <2>3, <4>2 DEF TypeOK, Returns
      <4> QED
        BY <4>1, <4>2
    <3>2. End(t, "ended")
      BY <2>3 DEF Returns
    <3> QED
      BY <3>1, <3>2 DEF TypeOK, End, Goto, Steps, Outcomes
  <2>4. ASSUME NEW o \in {"ended", "timeout"}, Breaks(t, o)
        PROVE  TypeOK'
    <3>1. fns' \in [Vms -> SUBSET Functions]
      <4>0. Vm(t) \in Vms
        BY <2>4, Holding DEF Breaks
      <4>1. fns' = [fns EXCEPT ![Vm(t)] = @ \cup {fn[t]}] \/ fns' = fns
        BY <2>4 DEF Breaks
      <4>2. CASE fns' = [fns EXCEPT ![Vm(t)] = @ \cup {fn[t]}]
        BY <2>1, <4>0, <4>2 DEF TypeOK
      <4>3. CASE fns' = fns
        BY <4>3 DEF TypeOK
      <4> QED
        BY <4>1, <4>2, <4>3
    <3>2. o \in Outcomes
      BY DEF Outcomes
    <3>3. End(t, o) /\ evaluated' = evaluated
      BY <2>4 DEF Breaks
    <3> QED
      BY <3>1, <3>2, <3>3 DEF TypeOK, End, Goto, Steps
  <2> QED
    BY <1>7, <2>2, <2>3, <2>4 DEF Run
<1>8. ASSUME NEW v \in Vms, TimePasses(v)
      PROVE  TypeOK'
  BY <1>8 DEF TypeOK, TimePasses, threadVars
<1>9. CASE UNCHANGED vars
  BY <1>9 DEF TypeOK, vars, threadVars, history
<1> QED
  BY <1>1, <1>2, <1>3, <1>4, <1>5, <1>6, <1>7, <1>8, <1>9 DEF Next

LEMMA HoldsStep ==
    ASSUME TypeOK, HoldsInv, [Next]_vars
    PROVE  HoldsInv'
<1>0. lease \in [Threads -> Seq(Vms)] /\ at \in [Threads -> Steps] /\ fn \in [Threads -> Functions \cup {None}]
  BY DEF TypeOK
<1>1. ASSUME NEW t \in Threads, Ask(t)
      PROVE  HoldsInv'
  <2>1. at'[t] = "acquire" /\ lease' = lease /\ Len(lease[t]) \in {0, 1}
    <3>1. at'[t] = "acquire" /\ lease' = lease /\ at[t] \in {"idle", "session"}
      BY <1>0, <1>1 DEF Ask, Goto
    <3>2. Len(lease[t]) \in {0, 1}
      BY <3>1 DEF HoldsInv
    <3> QED
      BY <3>1, <3>2
  <2>2. \A u \in Threads \ {t} : at'[u] = at[u] /\ fn'[u] = fn[u]
    BY <1>0, <1>1 DEF Ask, Goto, Forget
  <2> QED
    BY <2>1, <2>2 DEF HoldsInv
<1>2. ASSUME NEW t \in Threads, Take(t)
      PROVE  HoldsInv'
  <2>1. Head(pool) \in Vms /\ Len(lease[t]) \in {0, 1} /\ (lease[t] = <<>> <=> Len(lease[t]) = 0)
    <3>1. lease[t] \in Seq(Vms) /\ Len(lease[t]) \in {0, 1}
      BY <1>0, <1>2 DEF Take, HoldsInv
    <3>2. Head(pool) \in Vms
      BY <1>2, Rest DEF Take, TypeOK
    <3>3. lease[t] = <<>> <=> Len(lease[t]) = 0
      BY <3>1, EmptySeq
    <3> QED
      BY <3>1, <3>2, <3>3
  <2>2. Len(lease'[t]) = Len(lease[t]) + 1
    BY <1>0, <1>2, <2>1, Longer DEF Take
  <2>3. \A u \in Threads \ {t} : lease'[u] = lease[u] /\ at'[u] = at[u]
    BY <1>0, <1>2 DEF Take, Goto
  <2>4. at'[t] = IF Len(lease[t]) = 0 THEN "session" ELSE "assign"
    BY <1>0, <1>2, <2>1 DEF Take, Goto
  <2>5. /\ at'[t] \in {"session", "assign"}
        /\ Len(lease'[t]) = IF at'[t] = "session" THEN 1 ELSE 2
    <3>1. CASE Len(lease[t]) = 0
      BY <2>2, <2>4, <3>1
    <3>2. CASE Len(lease[t]) = 1
      BY <2>2, <2>4, <3>2
    <3> QED
      BY <2>1, <3>1, <3>2
  <2>6. fn' = fn
    BY <1>2 DEF Take
  <2> QED
    BY <2>3, <2>5, <2>6 DEF HoldsInv
<1>3. ASSUME NEW t \in Threads, Sleep(t) \/ SpuriousWakeup(t)
      PROVE  HoldsInv'
  BY <1>0, <1>3 DEF HoldsInv, Sleep, SpuriousWakeup, Goto
<1>4. ASSUME NEW t \in Threads, Assign(t)
      PROVE  HoldsInv'
  <2>1. "session" \in Steps /\ lease[t] # <<>> /\ Len(lease[t]) = 2
    BY <1>4, Holding DEF Steps, Assign, HoldsInv
  <2>2. /\ Len(lease'[t]) = 1 /\ at'[t] = "session"
        /\ \A u \in Threads \ {t} :
              /\ lease'[u] = lease[u]
              /\ at'[u] = at[u] \/ (at[u] = "asleep" /\ at'[u] = "acquire")
    <3>1. at[t] # "asleep" /\ Push(t, "session")
      BY <1>4 DEF Assign
    <3>2. /\ Len(lease'[t]) = Len(lease[t]) - 1 /\ at'[t] = "session"
          /\ \A u \in Threads \ {t} :
                /\ lease'[u] = lease[u]
                /\ at'[u] = at[u] \/ (at[u] = "asleep" /\ at'[u] = "acquire")
      BY <3>1, <2>1, PushEffect
    <3> QED
      BY <3>2, <2>1
  <2> QED
    BY <1>4, <2>2 DEF Assign, HoldsInv
<1>5. ASSUME NEW t \in Threads, EndSession(t)
      PROVE  HoldsInv'
  <2>1. "idle" \in Steps /\ lease[t] # <<>> /\ Len(lease[t]) = 1
    BY <1>5, Holding DEF Steps, EndSession, HoldsInv
  <2>2. /\ Len(lease'[t]) = 0 /\ at'[t] = "idle"
        /\ \A u \in Threads \ {t} :
              /\ lease'[u] = lease[u]
              /\ at'[u] = at[u] \/ (at[u] = "asleep" /\ at'[u] = "acquire")
    <3>1. at[t] # "asleep" /\ Push(t, "idle")
      BY <1>5 DEF EndSession
    <3>2. /\ Len(lease'[t]) = Len(lease[t]) - 1 /\ at'[t] = "idle"
          /\ \A u \in Threads \ {t} :
                /\ lease'[u] = lease[u]
                /\ at'[u] = at[u] \/ (at[u] = "asleep" /\ at'[u] = "acquire")
      BY <3>1, <2>1, PushEffect
    <3> QED
      BY <3>2, <2>1
  <2>3. \A u \in Threads \ {t} : fn'[u] = fn[u]
    BY <1>0, <1>5 DEF EndSession, Forget
  <2> QED
    BY <2>2, <2>3 DEF HoldsInv
<1>6. ASSUME NEW t \in Threads, NEW o \in Ops, NEW f \in Functions, Begin(t, o, f)
      PROVE  HoldsInv'
  BY <1>0, <1>6 DEF HoldsInv, Begin, Goto
<1>7. ASSUME NEW t \in Threads, Run(t)
      PROVE  HoldsInv'
  <2>1. at[t] = "running" /\ at' = [at EXCEPT ![t] = "session"] /\ UNCHANGED <<lease, fn>>
    BY <1>7 DEF Run, NotFound, Returns, Breaks, End, Goto
  <2> QED
    BY <1>0, <2>1 DEF HoldsInv
<1>8. CASE UNCHANGED vars \/ \E v \in Vms : TimePasses(v)
  BY <1>8 DEF HoldsInv, vars, TimePasses, threadVars
<1> QED
  BY <1>1, <1>2, <1>3, <1>4, <1>5, <1>6, <1>7, <1>8 DEF Next

LEMMA PlaceStep ==
    ASSUME TypeOK, HoldsInv, PlaceInv, [Next]_vars
    PROVE  PlaceInv'
<1>1. ASSUME NEW t \in Threads, Take(t)
      PROVE  PlaceInv'
  BY <1>1, TakePlaces DEF Take
<1>2. ASSUME NEW t \in Threads, Assign(t) \/ EndSession(t)
      PROVE  PlaceInv'
  <2>1. lease[t] # <<>>
    BY <1>2, Holding DEF Assign, EndSession
  <2> QED
    BY <1>2, <2>1, PushPlaces DEF Assign, EndSession, Push
<1>3. CASE UNCHANGED <<pool, lease>>
  BY <1>3 DEF PlaceInv, PooledOnce, LeasedOnce, PooledOrLeased, SomewhereInv
<1>4. ASSUME NEW t \in Threads, Ask(t) \/ Sleep(t) \/ SpuriousWakeup(t) \/ Run(t)
      PROVE  UNCHANGED <<pool, lease>>
  BY <1>4 DEF Ask, Sleep, SpuriousWakeup, Run, NotFound, Returns, Breaks, End
<1>5. ASSUME NEW t \in Threads, NEW o \in Ops, NEW f \in Functions, Begin(t, o, f)
      PROVE  UNCHANGED <<pool, lease>>
  BY <1>5 DEF Begin
<1>6. CASE UNCHANGED vars \/ \E v \in Vms : TimePasses(v)
  BY <1>3, <1>6 DEF vars, TimePasses
<1> QED
  BY <1>1, <1>2, <1>3, <1>4, <1>5, <1>6 DEF Next

\* Own stays true of a thread when nothing changes for it but what its machine
\* knows and how old its timer is.
LEMMA OwnStays ==
    ASSUME TypeOK, HoldsInv, NEW u \in Threads, Own(u),
           at'[u] = at[u] \/ (at[u] = "asleep" /\ at'[u] = "acquire"),
           lease'[u] = lease[u], op'[u] = op[u], fn'[u] = fn[u],
           outcome'[u] = outcome[u], evaluated'[u] = evaluated[u],
           late[u] => late'[u],
           \A v \in Vms : fns[v] \subseteq fns'[v],
           at[u] = "running" => (old'[Vm(u)] => old[Vm(u)] \/ late'[u])
    PROVE  Own(u)'
<1>1. Vm(u)' = Vm(u)
  BY DEF Vm
<1>2. at[u] \in {"session", "running"} => Vm(u) \in Vms
  BY Holding
<1>3. at[u] \in {"session", "running"} => evaluated'[u] \subseteq fns'[Vm(u)]
  BY <1>2 DEF Own
<1> QED
  BY <1>1, <1>3 DEF Own

LEMMA OwnStep ==
    ASSUME TypeOK, HoldsInv, OwnInv, [Next]_vars
    PROVE  OwnInv'
<1> SUFFICES ASSUME NEW u \in Threads
             PROVE  Own(u)'
  BY DEF OwnInv
<1>0. /\ Own(u)
      /\ at \in [Threads -> Steps] /\ lease \in [Threads -> Seq(Vms)]
      /\ op \in [Threads -> Ops] /\ fn \in [Threads -> Functions \cup {None}]
      /\ outcome \in [Threads -> Outcomes] /\ evaluated \in [Threads -> SUBSET Functions]
      /\ late \in [Threads -> BOOLEAN]
      /\ old \in [Vms -> BOOLEAN] /\ fns \in [Vms -> SUBSET Functions]
  BY DEF TypeOK, OwnInv
<1>1. ASSUME NEW t \in Threads, Ask(t)
      PROVE  Own(u)'
  <2>1. CASE u = t
    BY <1>0, <1>1, <2>1 DEF Ask, Goto, Forget, Own
  <2>2. CASE u # t
    BY <1>0, <1>1, <2>2, OwnStays DEF Ask, Goto, Forget
  <2> QED
    BY <2>1, <2>2
<1>2. ASSUME NEW t \in Threads, Take(t)
      PROVE  Own(u)'
  <2>1. CASE u = t
    BY <1>0, <1>2, <2>1 DEF Take, Goto, history, Own
  <2>2. CASE u # t
    BY <1>0, <1>2, <2>2, OwnStays DEF Take, Goto, history
  <2> QED
    BY <2>1, <2>2
<1>3. ASSUME NEW t \in Threads, Sleep(t) \/ SpuriousWakeup(t)
      PROVE  Own(u)'
  <2>1. CASE u = t
    BY <1>0, <1>3, <2>1 DEF Sleep, SpuriousWakeup, Goto, history, Own
  <2>2. CASE u # t
    BY <1>0, <1>3, <2>2, OwnStays DEF Sleep, SpuriousWakeup, Goto, history
  <2> QED
    BY <2>1, <2>2
<1>4. ASSUME NEW t \in Threads, Assign(t)
      PROVE  Own(u)'
  <2>1. /\ at'[t] = "session"
        /\ u # t => /\ lease'[u] = lease[u]
                    /\ at'[u] = at[u] \/ (at[u] = "asleep" /\ at'[u] = "acquire")
    <3>1. lease[t] # <<>> /\ at[t] # "asleep" /\ Push(t, "session") /\ "session" \in Steps
      BY <1>4, Holding DEF Assign, Steps
    <3> QED
      BY <3>1, PushEffect
  <2>2. UNCHANGED <<op, fn, outcome, fns, old, evaluated, late>> /\ at[t] = "assign"
    BY <1>4 DEF Assign, history
  <2>3. CASE u = t
    BY <1>0, <2>1, <2>2, <2>3 DEF Own
  <2>4. CASE u # t
    BY <1>0, <2>1, <2>2, <2>4, OwnStays
  <2> QED
    BY <2>3, <2>4
<1>5. ASSUME NEW t \in Threads, EndSession(t)
      PROVE  Own(u)'
  <2>1. /\ at'[t] = "idle"
        /\ u # t => /\ lease'[u] = lease[u]
                    /\ at'[u] = at[u] \/ (at[u] = "asleep" /\ at'[u] = "acquire")
    <3>1. lease[t] # <<>> /\ at[t] # "asleep" /\ Push(t, "idle") /\ "idle" \in Steps
      BY <1>5, Holding DEF EndSession, Steps
    <3> QED
      BY <3>1, PushEffect
  <2>2. CASE u = t
    BY <2>1, <2>2 DEF Own
  <2>3. CASE u # t
    BY <1>0, <1>5, <2>1, <2>3, OwnStays DEF EndSession, Forget
  <2> QED
    BY <2>2, <2>3
<1>6. ASSUME NEW t \in Threads, NEW o \in Ops, NEW f \in Functions, Begin(t, o, f)
      PROVE  Own(u)'
  <2>1. Vm(t) \in Vms
    BY <1>6, Holding DEF Begin
  <2>2. CASE u = t
    <3>1. /\ at'[u] = "running" /\ op'[u] = o /\ evaluated'[u] \subseteq fns'[Vm(u)]
          /\ Vm(u)' = Vm(u)
      BY <1>0, <1>6, <2>2 DEF Begin, Goto, Own, Vm
    <3>2. o # "json" => ~old'[Vm(u)]
      BY <1>0, <1>6, <2>1, <2>2 DEF Begin
    <3> QED
      BY <3>1, <3>2 DEF Own
  <2>3. CASE u # t
    <3>1. at[u] = "running" => (old'[Vm(u)] => old[Vm(u)])
      BY <1>0, <1>6, <2>1 DEF Begin
    <3> QED
      BY <1>0, <1>6, <2>3, <3>1, OwnStays DEF Begin, Goto
  <2> QED
    BY <2>2, <2>3
<1>7. ASSUME NEW t \in Threads, Run(t)
      PROVE  Own(u)'
  <2>1. /\ at[t] = "running" /\ at' = [at EXCEPT ![t] = "session"]
        /\ UNCHANGED <<lease, op, fn, old, late>>
        /\ \A v \in Vms : fns[v] \subseteq fns'[v]
        /\ \A w \in Threads \ {t} : outcome'[w] = outcome[w] /\ evaluated'[w] = evaluated[w]
    <3>1. /\ at[t] = "running" /\ at' = [at EXCEPT ![t] = "session"]
          /\ UNCHANGED <<lease, op, fn, old, late>>
      BY <1>7 DEF Run, NotFound, Returns, Breaks, End, Goto
    <3>2. fns' = fns \/ fns' = [fns EXCEPT ![Vm(t)] = @ \cup {fn[t]}]
      BY <1>7 DEF Run, NotFound, Returns, Breaks
    <3>3. \A v \in Vms : fns[v] \subseteq fns'[v]
      BY <1>0, <3>2
    <3>4. \A w \in Threads \ {t} : outcome'[w] = outcome[w]
      BY <1>0, <1>7 DEF Run, NotFound, Returns, Breaks, End
    <3>5. evaluated' = evaluated \/ evaluated' = [evaluated EXCEPT ![t] = @ \cup {fn[t]}]
      BY <1>7 DEF Run, NotFound, Returns, Breaks
    <3> QED
      BY <1>0, <3>1, <3>3, <3>4, <3>5
  <2>2. Vm(t) \in Vms /\ Vm(t)' = Vm(t)
    BY <2>1, Holding DEF Vm
  <2>3. CASE u = t
    <3>1. evaluated'[t] \subseteq fns'[Vm(t)]
      BY <1>0, <1>7, <2>2, <2>3 DEF Run, NotFound, Returns, Breaks, Own
    <3>2. outcome'[t] = "timeout" /\ op[t] # "json" => late[t]
      BY <1>0, <1>7, <2>3 DEF Run, NotFound, Returns, Breaks, End, Own
    <3>3. outcome'[t] = "not_found" => fn[t] \notin evaluated'[t]
      BY <1>0, <1>7, <2>3 DEF Run, NotFound, Returns, Breaks, End, Own
    <3> QED
      BY <1>0, <2>1, <2>2, <2>3, <3>1, <3>2, <3>3 DEF Own
  <2>4. CASE u # t
    BY <1>0, <2>1, <2>4, OwnStays
  <2> QED
    BY <2>3, <2>4
<1>8. ASSUME NEW v \in Vms, TimePasses(v)
      PROVE  Own(u)'
  <2>1. /\ late[u] => late'[u]
        /\ at[u] = "running" => (old'[Vm(u)] => old[Vm(u)] \/ late'[u])
    <3>1. at[u] = "running" => Vm(u) \in Vms
      BY Holding
    <3>2. /\ old' = [old EXCEPT ![v] = TRUE]
          /\ late'[u] = (late[u] \/ (at[u] = "running" /\ Vm(u) = v))
      BY <1>8 DEF TimePasses
    <3> QED
      BY <1>0, <3>1, <3>2
  <2> QED
    BY <1>0, <1>8, <2>1, OwnStays DEF TimePasses, threadVars
<1>9. CASE UNCHANGED vars
  BY <1>0, <1>9, OwnStays DEF vars, threadVars, history
<1> QED
  BY <1>1, <1>2, <1>3, <1>4, <1>5, <1>6, <1>7, <1>8, <1>9 DEF Next

-----------------------------------------------------------------------------
(* Wakeups. *)

LEMMA OnTheirWayFinite ==
    /\ IsFiniteSet(OnTheirWay) /\ Cardinality(OnTheirWay) \in Nat
    /\ IsFiniteSet(OnTheirWay') /\ Cardinality(OnTheirWay') \in Nat
BY FiniteAssumption, FS_Subset, FS_CardinalityType DEF OnTheirWay

\* Nobody leaves the way or falls asleep, and no machine comes.
LEMMA WakeupsKept ==
    ASSUME TypeOK, NoWakeupLost, OnTheirWay \subseteq OnTheirWay',
           Asleep' \subseteq Asleep, pool' = pool
    PROVE  NoWakeupLost'
<1>1. Cardinality(OnTheirWay) <= Cardinality(OnTheirWay')
  BY OnTheirWayFinite, FS_Subset
<1>2. Len(pool) \in Nat
  BY DEF TypeOK
<1> QED
  BY <1>1, <1>2, OnTheirWayFinite DEF NoWakeupLost

\* What is pushed is matched by the one who is notified.
LEMMA PushWakes ==
    ASSUME TypeOK, NoWakeupLost, NEW t \in Threads,
           NEW step \in {"session", "idle"}, lease[t] # <<>>,
           at[t] \in {"assign", "session"}, Push(t, step)
    PROVE  NoWakeupLost'
<1>0. /\ at \in [Threads -> Steps] /\ pool \in Seq(Vms) /\ lease[t] \in Seq(Vms)
      /\ Head(lease[t]) \in Vms /\ Len(pool) \in Nat
  BY Rest DEF TypeOK
<1>1. Len(pool') = Len(pool) + 1
  BY <1>0, Longer DEF Push
<1>2. CASE Asleep = {}
  <2>1. at' = [at EXCEPT ![t] = step]
    BY <1>2 DEF Push, Goto
  <2>2. Asleep' = {}
    BY <1>0, <1>2, <2>1 DEF Asleep
  <2> QED
    BY <2>2 DEF NoWakeupLost
<1>3. CASE Asleep # {}
  <2>1. PICK s \in Asleep : at' = [at EXCEPT ![t] = step, ![s] = "acquire"]
    BY <1>3 DEF Push
  <2>2. s \in Threads /\ at[s] = "asleep" /\ s # t
    BY DEF Asleep
  <2>3. s \notin OnTheirWay /\ OnTheirWay' = OnTheirWay \cup {s}
    BY <1>0, <2>1, <2>2 DEF OnTheirWay
  <2>4. Cardinality(OnTheirWay') = Cardinality(OnTheirWay) + 1
    BY <2>3, OnTheirWayFinite, FS_AddElement
  <2>5. Len(pool) <= Cardinality(OnTheirWay)
    BY <1>3 DEF NoWakeupLost
  <2> QED
    BY <1>0, <1>1, <2>4, <2>5, OnTheirWayFinite DEF NoWakeupLost
<1> QED
  BY <1>2, <1>3

LEMMA WakeStep ==
    ASSUME TypeOK, HoldsInv, NoWakeupLost, [Next]_vars
    PROVE  NoWakeupLost'
<1>0. at \in [Threads -> Steps] /\ pool \in Seq(Vms) /\ Len(pool) \in Nat
  BY DEF TypeOK
<1>1. ASSUME NEW t \in Threads, Ask(t) \/ SpuriousWakeup(t)
      PROVE  NoWakeupLost'
  <2>1. /\ at' = [at EXCEPT ![t] = "acquire"] /\ pool' = pool
    BY <1>1 DEF Ask, SpuriousWakeup, Goto
  <2> QED
    BY <1>0, <2>1, WakeupsKept DEF OnTheirWay, Asleep
<1>2. ASSUME NEW t \in Threads, Take(t)
      PROVE  NoWakeupLost'
  <2>1. PICK s \in {"session", "assign"} :
          /\ at' = [at EXCEPT ![t] = s] /\ at[t] = "acquire"
          /\ pool' = Tail(pool) /\ pool # <<>>
    BY <1>2 DEF Take, Goto
  <2>2. OnTheirWay' = OnTheirWay \ {t} /\ t \in OnTheirWay /\ Asleep' = Asleep
    BY <1>0, <2>1 DEF OnTheirWay, Asleep
  <2>3. Cardinality(OnTheirWay') = Cardinality(OnTheirWay) - 1
    BY <2>2, OnTheirWayFinite, FS_RemoveElement
  <2>4. Len(pool') = Len(pool) - 1
    BY <1>0, <2>1, Rest
  <2> QED
    BY <1>0, <2>2, <2>3, <2>4, OnTheirWayFinite DEF NoWakeupLost
<1>3. ASSUME NEW t \in Threads, Sleep(t)
      PROVE  NoWakeupLost'
  <2>1. Len(pool') = 0
    BY <1>3 DEF Sleep
  <2> QED
    BY <2>1, OnTheirWayFinite DEF NoWakeupLost
<1>4. ASSUME NEW t \in Threads, Assign(t) \/ EndSession(t)
      PROVE  NoWakeupLost'
  <2>1. lease[t] # <<>>
    BY <1>4, Holding DEF Assign, EndSession
  <2> QED
    BY <1>4, <2>1, PushWakes DEF Assign, EndSession
<1>5. ASSUME NEW t \in Threads, NEW s \in {"session", "running"},
             at' = [at EXCEPT ![t] = s], at[t] \in {"session", "running"}, pool' = pool
      PROVE  NoWakeupLost'
  BY <1>0, <1>5, WakeupsKept DEF OnTheirWay, Asleep
<1>6. ASSUME NEW t \in Threads, Run(t)
      PROVE  NoWakeupLost'
  BY <1>5, <1>6 DEF Run, NotFound, Returns, Breaks, End, Goto
<1>7. ASSUME NEW t \in Threads, NEW o \in Ops, NEW f \in Functions, Begin(t, o, f)
      PROVE  NoWakeupLost'
  BY <1>5, <1>7 DEF Begin, Goto
<1>8. CASE UNCHANGED vars \/ \E v \in Vms : TimePasses(v)
  BY <1>8, WakeupsKept DEF vars, threadVars, TimePasses, OnTheirWay, Asleep
<1> QED
  BY <1>1, <1>2, <1>3, <1>4, <1>6, <1>7, <1>8 DEF Next

-----------------------------------------------------------------------------
(* The theorems. *)

LEMMA InitInv == Init => VmPoolInv
<1> SUFFICES ASSUME Init PROVE VmPoolInv
  OBVIOUS
<1>1. TypeOK
  BY Filled, SizesAssumption DEF Init, TypeOK, Steps, Ops, Outcomes
<1>2. HoldsInv /\ OwnInv
  BY DEF Init, HoldsInv, OwnInv, Own
<1>3. \A t \in Threads : DOMAIN lease[t] = {}
  BY DEF Init
<1>4. PooledOnce /\ SomewhereInv
  BY Filled DEF Init, PooledOnce, SomewhereInv
<1>5. LeasedOnce /\ PooledOrLeased
  BY <1>3 DEF LeasedOnce, PooledOrLeased
<1>6. NoWakeupLost
  BY DEF Init, NoWakeupLost, Asleep
<1> QED
  BY <1>1, <1>2, <1>4, <1>5, <1>6 DEF VmPoolInv, PlaceInv

LEMMA StepInv == VmPoolInv /\ [Next]_vars => VmPoolInv'
BY TypeStep, HoldsStep, PlaceStep, OwnStep, WakeStep DEF VmPoolInv

LEMMA Invariance == Spec => []VmPoolInv
BY InitInv, StepInv, PTL DEF Spec

\* One place is a set of one element.
LEMMA OncePlaced == PlaceInv => EachVmOnce
<1> SUFFICES ASSUME PlaceInv, NEW v \in Vms
             PROVE  Cardinality(Places(v)) = 1
  BY DEF EachVmOnce
<1>1. CASE \E i \in DOMAIN pool : pool[i] = v
  <2>1. PICK i \in DOMAIN pool : pool[i] = v
    BY <1>1
  <2>2. Places(v) = {<<"pool", i>>}
    BY <2>1 DEF Places, PlaceInv, PooledOnce, PooledOrLeased
  <2> QED
    BY <2>2, FS_Singleton
<1>2. CASE \E t \in Threads : \E j \in DOMAIN lease[t] : lease[t][j] = v
  <2>1. PICK t \in Threads : \E j \in DOMAIN lease[t] : lease[t][j] = v
    BY <1>2
  <2>2. PICK j \in DOMAIN lease[t] : lease[t][j] = v
    BY <2>1
  <2>3. Places(v) = {<<t, j>>}
    BY <2>2 DEF Places, PlaceInv, LeasedOnce, PooledOrLeased
  <2> QED
    BY <2>3, FS_Singleton
<1> QED
  BY <1>1, <1>2 DEF PlaceInv, SomewhereInv

\* The variables keep their types, for any threads, machines and functions.
THEOREM TypeCorrect == Spec => []TypeOK
BY Invariance, PTL DEF VmPoolInv

\* Every machine has one place: none is lost, and none is leased twice.
THEOREM MachinesHaveOnePlace == Spec => []EachVmOnce
<1>1. VmPoolInv => EachVmOnce
  BY OncePlaced DEF VmPoolInv
<1> QED
  BY Invariance, <1>1, PTL

\* Whatever happened to a machine before a session, no operation of the session but
\* call_function_json is interrupted for it, and none misses a function that the
\* session has evaluated.
THEOREM FailuresAreOwn == Spec => []FailsOnItsOwn
<1>1. VmPoolInv => FailsOnItsOwn
  BY DEF VmPoolInv, OwnInv, Own, FailsOnItsOwn
<1> QED
  BY Invariance, <1>1, PTL

\* No release is lost, for any threads and machines: a thread sleeps only when
\* each machine of the pool has another one that comes for it
\* (VmPool.hpp:62-87).
THEOREM WakeupsArrive == Spec => []NoWakeupLost
<1>1. VmPoolInv => NoWakeupLost
  BY DEF VmPoolInv
<1> QED
  BY Invariance, <1>1, PTL
=============================================================================
