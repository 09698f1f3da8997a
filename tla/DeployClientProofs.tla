-------------------------- MODULE DeployClientProofs --------------------------
(***************************************************************************)
(* Proofs about DeployClient, for every set of plans, bodies, wallets and  *)
(* nonces, every number of transactions and every number of attempts.      *)
(***************************************************************************)
EXTENDS DeployClient, FiniteSetTheorems, WellFoundedInduction, TLAPS

\* The node moves one block at a time, of a batch it was sent, and never moves
\* a block that has ended.
LEMMA NodeStepEffect ==
  ASSUME NEW p \in Plans, NodeStep(p)
  PROVE  \E b \in Batches, i \in TxIds, s \in BlockStates \ {"Unknown"} :
           /\ block[p][b][i] \in {"Unknown", "Pending", "CommitUncertain"}
           /\ block[p][b][i] = "Unknown" => b \in sent[p]
           /\ block' = [block EXCEPT ![p][b][i] = s]
           /\ UNCHANGED <<diskVars, sent, callVars>>
<1>1. PICK b \in Batches, i \in TxIds :
        \/ NodeAdmits(p, b, i) \/ NodeFinalizes(p, b, i)
        \/ NodeHesitates(p, b, i) \/ NodeRejects(p, b, i)
  BY DEF NodeStep
<1>2. CASE NodeAdmits(p, b, i)
  BY <1>2 DEF NodeAdmits, BlockStates
<1>3. ASSUME NEW s \in {"CommitUncertain", "Finalized", "Rejected", "Expired"},
             NodeDecides(p, b, i, s)
      PROVE  /\ s \in BlockStates \ {"Unknown"}
             /\ block[p][b][i] \in {"Unknown", "Pending", "CommitUncertain"}
             /\ block[p][b][i] # "Unknown"
             /\ block' = [block EXCEPT ![p][b][i] = s]
             /\ UNCHANGED <<diskVars, sent, callVars>>
  BY <1>3 DEF NodeDecides, BlockStates
<1> QED
  BY <1>1, <1>2, <1>3 DEF NodeFinalizes, NodeHesitates, NodeRejects

\* The end of a call leaves its locals typed.
LEMMA ReturnTyped ==
  ASSUME TypeInv, NEW p \in Plans, NEW r \in {"ok", "error"}, Return(p, r),
         cache' \in [Plans -> Batches \cup {None}], wallet' \in Wallets,
         UNCHANGED nodeVars
  PROVE  TypeInv'
<1>1. /\ pc' \in [Plans -> Steps]
      /\ result' \in [Plans -> {"none", "ok", "error"}]
  BY DEF TypeInv, TypeOK, Return, Goto, Steps
<1>2. /\ answer' \in [Plans -> Bodies \cup {None}]
      /\ batch' \in [Plans -> Batches \cup {None}]
      /\ attempt' \in [Plans -> 0..(MaxAttempts - 1)]
      /\ ids' \in [Plans -> SUBSET TxIds]
  BY AttemptsAssumption DEF TypeInv, TypeOK, Return, Forget
<1>3. /\ partial' \in [Plans -> BOOLEAN]
      /\ todo' \in [Plans -> SUBSET TxIds]
      /\ all_finalized' \in [Plans -> BOOLEAN]
      /\ expired' \in [Plans -> BOOLEAN]
  BY DEF TypeInv, TypeOK, Return, Forget
<1>4. LocalsInv'
  BY DEF TypeInv, TypeOK, LocalsInv, Return, Forget, Goto
<1> QED
  BY <1>1, <1>2, <1>3, <1>4 DEF TypeInv, TypeOK, nodeVars

\* No value of a variable leaves its type.
LEMMA TypeInductive == TypeInv /\ [Next]_vars => TypeInv'
<1> USE NumTxAssumption, AttemptsAssumption DEF TypeInv, LocalsInv
<1> SUFFICES ASSUME TypeInv, [Next]_vars PROVE TypeInv'
  OBVIOUS
<1>1. CASE UNCHANGED vars
  BY <1>1 DEF TypeOK, vars, diskVars, nodeVars, callVars
<1>2. ASSUME NEW p \in Plans, Deploy(p) PROVE TypeInv'
  BY <1>2 DEF TypeOK, Deploy, Goto, Steps, diskVars, nodeVars
<1>3. ASSUME NEW p \in Plans, Fail(p) PROVE TypeInv'
  <2>1. Return(p, "error") /\ UNCHANGED <<cache, wallet, nodeVars>>
    BY <1>3 DEF Fail, diskVars
  <2> QED
    BY <2>1, ReturnTyped DEF TypeOK
<1>4. ASSUME NEW p \in Plans, CallStep(p) PROVE TypeInv'
  <2>1. CASE PrepareFails(p) \/ LoadRefuses(p) \/ SignFails(p)
               \/ SubmitFails(p) \/ WaitTimesOut(p) \/ PollRejected(p)
               \/ PollFails(p) \/ FinishIncomplete(p)
    BY <2>1, <1>3 DEF PrepareFails, LoadRefuses, SignFails, SubmitFails,
         WaitTimesOut, PollRejected, PollFails, FinishIncomplete
  <2>2. CASE PrepareEmpty(p)
    BY <2>2 DEF TypeOK, PrepareEmpty, Goto, Steps, diskVars, nodeVars
  <2>3. CASE PreparePlan(p)
    BY <2>3 DEF TypeOK, PreparePlan, Goto, Steps, diskVars, nodeVars
  <2>4. CASE LoadPending(p)
    BY <2>4 DEF TypeOK, LoadPending, HasPending, Goto, Steps, diskVars, nodeVars
  <2>5. CASE Sign(p)
    BY <2>5 DEF TypeOK, Sign, Goto, Steps, diskVars, nodeVars, Batches
  <2>6. CASE Persist(p)
    BY <2>6 DEF TypeOK, Persist, Goto, Steps, nodeVars
  <2>7. CASE PersistFails(p)
    <3>1. cache' \in [Plans -> Batches \cup {None}]
      BY <2>7 DEF TypeOK, PersistFails
    <3>2. Return(p, "error") /\ UNCHANGED <<wallet, nodeVars>>
      BY <2>7 DEF PersistFails
    <3> QED
      BY <3>1, <3>2, ReturnTyped DEF TypeOK
  <2>8. CASE Post(p)
    BY <2>8 DEF TypeOK, Post, Goto, Steps, diskVars
  <2>9. CASE Retry(p)
    BY <2>9 DEF TypeOK, Retry, Goto, Steps, diskVars, nodeVars
  <2>10. CASE Accepted(p)
    BY <2>10 DEF TypeOK, Accepted, Admitted, Goto, Steps, diskVars, nodeVars
  <2>11. CASE StartSweep(p)
    BY <2>11 DEF TypeOK, StartSweep, Goto, Steps, diskVars, nodeVars
  <2>12. CASE PollContinues(p)
    BY <2>12 DEF TypeOK, PollContinues, diskVars, nodeVars
  <2>13. CASE EndSweep(p)
    BY <2>13 DEF TypeOK, EndSweep, Goto, Steps, diskVars, nodeVars
  <2>14. CASE FinishOk(p)
    BY <2>14 DEF TypeOK, FinishOk, Goto, Steps, diskVars, nodeVars
  <2>15. CASE Clear(p)
    <3>1. cache' \in [Plans -> Batches \cup {None}]
      BY <2>15 DEF TypeOK, Clear
    <3>2. Return(p, "ok") /\ UNCHANGED <<wallet, nodeVars>>
      BY <2>15 DEF Clear
    <3> QED
      BY <3>1, <3>2, ReturnTyped DEF TypeOK
  <2> QED
    BY <1>4, <2>1, <2>2, <2>3, <2>4, <2>5, <2>6, <2>7, <2>8, <2>9, <2>10,
       <2>11, <2>12, <2>13, <2>14, <2>15 DEF CallStep
<1>5. ASSUME NEW p \in Plans, DeadlinePasses(p) PROVE TypeInv'
  BY <1>5 DEF TypeOK, DeadlinePasses, diskVars, nodeVars
<1>6. ASSUME NEW p \in Plans, NodeStep(p) PROVE TypeInv'
  <2> PICK b \in Batches, i \in TxIds, s \in BlockStates :
        /\ block' = [block EXCEPT ![p][b][i] = s]
        /\ UNCHANGED <<diskVars, sent, callVars>>
    BY <1>6, NodeStepEffect
  <2>1. block' \in [Plans -> [Batches -> [TxIds -> BlockStates]]]
    BY DEF TypeOK
  <2> QED
    BY <2>1 DEF TypeOK, diskVars, callVars
<1>7. CASE Crash
  BY <1>7 DEF TypeOK, Crash, Steps, diskVars, nodeVars
<1>8. CASE Login
  BY <1>8 DEF TypeOK, Login, nodeVars, callVars
<1> QED
  BY <1>1, <1>2, <1>4, <1>5, <1>6, <1>7, <1>8 DEF Next

\* Type correctness of the specification.
THEOREM TypeCorrect == Spec => []TypeOK
<1>1. Init => TypeInv
  BY NumTxAssumption, AttemptsAssumption
     DEF Init, TypeInv, TypeOK, LocalsInv, BlockStates, Steps, Batches
<1>2. TypeInv => TypeOK
  BY DEF TypeInv
<1> QED
  BY <1>1, <1>2, TypeInductive, PTL DEF Spec

-----------------------------------------------------------------------------
\* Only the node moves blocks.
LEMMA ClientKeepsBlocks ==
  ASSUME [Next]_vars, \A p \in Plans : ~NodeStep(p)
  PROVE  UNCHANGED block
<1>1. ASSUME NEW p \in Plans, CallStep(p) PROVE UNCHANGED block
  BY <1>1 DEF CallStep, PrepareFails, PrepareEmpty, PreparePlan, LoadPending,
     LoadRefuses, Sign, SignFails, Persist, PersistFails, Post, Retry,
     SubmitFails, Accepted, StartSweep, WaitTimesOut, PollContinues,
     PollRejected, PollFails, EndSweep, FinishOk, FinishIncomplete, Clear,
     Fail, nodeVars
<1> QED
  BY <1>1 DEF Next, vars, nodeVars, Deploy, DeadlinePasses, Crash, Login

\* What is finalized stays finalized.
LEMMA FinalizedStable ==
  ASSUME TypeInv, [Next]_vars, NEW p \in Plans, NEW b \in Batches,
         NEW i \in TxIds, block[p][b][i] = "Finalized"
  PROVE  block'[p][b][i] = "Finalized"
<1>1. CASE \A q \in Plans : ~NodeStep(q)
  BY <1>1, ClientKeepsBlocks
<1>2. ASSUME NEW q \in Plans, NodeStep(q) PROVE block'[p][b][i] = "Finalized"
  <2> PICK c \in Batches, j \in TxIds, s \in BlockStates :
        /\ block[q][c][j] \in {"Unknown", "Pending", "CommitUncertain"}
        /\ block' = [block EXCEPT ![q][c][j] = s]
    BY <1>2, NodeStepEffect
  <2> QED
    BY DEF TypeInv, TypeOK
<1> QED
  BY <1>1, <1>2

\* A plan that has taken effect stays so.
LEMMA AppliedStable ==
  ASSUME TypeInv, [Next]_vars, NEW p \in Plans, Applied(p)
  PROVE  Applied(p)'
<1> PICK b \in Batches : \A i \in TxIds : block[p][b][i] = "Finalized"
  BY DEF Applied, BatchFinalized
<1> QED
  BY FinalizedStable DEF Applied, BatchFinalized

\* The transactions of a plan are as many as their numbers.
LEMMA TxIdsCounted == IsFiniteSet(TxIds) /\ Cardinality(TxIds) = NumTx
BY FS_Interval, NumTxAssumption DEF TxIds

\* A set of transaction numbers that is as large as the plan is all of it.
LEMMA FullSubmission ==
  ASSUME NEW S \in SUBSET TxIds, Cardinality(S) = NumTx
  PROVE  S = TxIds
BY TxIdsCounted, FS_Subset

\* A plan whose call is untouched keeps what its call observed.
LEMMA FrameCall ==
  ASSUME SuccessInv, [Next]_vars, NEW q \in Plans,
         pc'[q] = pc[q], result'[q] = result[q], batch'[q] = batch[q],
         ids'[q] = ids[q], todo'[q] = todo[q],
         all_finalized'[q] = all_finalized[q]
  PROVE  Observed(q)'
<1>1. Applied(q) => Applied(q)'
  BY AppliedStable DEF SuccessInv
<1>2. ASSUME NEW i \in ids[q], pc[q] \in {"poll", "finish"},
             block[q][batch[q]][i] = "Finalized"
      PROVE  block'[q][batch[q]][i] = "Finalized"
  BY <1>2, FinalizedStable DEF SuccessInv, TypeInv, TypeOK, LocalsInv
<1> QED
  BY <1>1, <1>2 DEF SuccessInv, Observed

\* A step of one call leaves the calls and the files of the other plans alone.
LEMMA OthersKept ==
  ASSUME TypeInv, NEW p \in Plans, NEW q \in Plans, p # q,
         Deploy(p) \/ CallStep(p) \/ DeadlinePasses(p)
  PROVE  /\ pc'[q] = pc[q] /\ result'[q] = result[q] /\ batch'[q] = batch[q]
         /\ ids'[q] = ids[q] /\ todo'[q] = todo[q]
         /\ all_finalized'[q] = all_finalized[q]
         /\ attempt'[q] = attempt[q] /\ expired'[q] = expired[q]
         /\ cache'[q] = cache[q] /\ sent'[q] = sent[q]
<1>1. ASSUME Return(p, "ok") \/ Return(p, "error")
      PROVE  /\ pc'[q] = pc[q] /\ result'[q] = result[q]
             /\ batch'[q] = batch[q] /\ ids'[q] = ids[q]
             /\ todo'[q] = todo[q] /\ all_finalized'[q] = all_finalized[q]
             /\ attempt'[q] = attempt[q] /\ expired'[q] = expired[q]
  BY <1>1 DEF TypeInv, TypeOK, Return, Forget, Goto
<1>2. CASE Deploy(p) \/ DeadlinePasses(p)
  BY <1>2 DEF TypeInv, TypeOK, Deploy, DeadlinePasses, Goto, diskVars, nodeVars
<1>3. CASE PrepareFails(p) \/ LoadRefuses(p) \/ SignFails(p) \/ SubmitFails(p)
             \/ WaitTimesOut(p) \/ PollRejected(p) \/ PollFails(p)
             \/ FinishIncomplete(p)
  <2>1. Fail(p)
    BY <1>3 DEF PrepareFails, LoadRefuses, SignFails, SubmitFails,
         WaitTimesOut, PollRejected, PollFails, FinishIncomplete
  <2> QED
    BY <2>1, <1>1 DEF Fail, diskVars, nodeVars
<1>4. CASE PersistFails(p) \/ Clear(p)
  <2>1. cache'[q] = cache[q] /\ sent'[q] = sent[q]
    BY <1>4 DEF TypeInv, TypeOK, PersistFails, Clear, nodeVars
  <2>2. Return(p, "ok") \/ Return(p, "error")
    BY <1>4 DEF PersistFails, Clear
  <2> QED
    BY <2>1, <2>2, <1>1
<1>5. CASE PrepareEmpty(p) \/ PreparePlan(p) \/ LoadPending(p) \/ Sign(p)
  BY <1>5 DEF TypeInv, TypeOK, PrepareEmpty, PreparePlan, LoadPending, Sign,
     Goto, diskVars, nodeVars
<1>6. CASE Persist(p) \/ Post(p) \/ Retry(p) \/ Accepted(p)
  BY <1>6 DEF TypeInv, TypeOK, Persist, Post, Retry, Accepted, Goto, diskVars,
     nodeVars
<1>7. CASE StartSweep(p) \/ PollContinues(p) \/ EndSweep(p) \/ FinishOk(p)
  BY <1>7 DEF TypeInv, TypeOK, StartSweep, PollContinues, EndSweep, FinishOk,
     Goto, diskVars, nodeVars
<1> QED
  BY <1>2, <1>3, <1>4, <1>5, <1>6, <1>7 DEF CallStep

\* A call that ends with an error has nothing left to claim.
LEMMA ObservedAfterFailure ==
  ASSUME TypeInv, NEW p \in Plans, Return(p, "error")
  PROVE  Observed(p)'
BY DEF TypeInv, TypeOK, Return, Goto, Observed

LEMMA SuccessInductive == SuccessInv /\ [Next]_vars => SuccessInv'
<1> SUFFICES ASSUME SuccessInv, [Next]_vars PROVE SuccessInv'
  OBVIOUS
<1> USE DEF SuccessInv
<1>1. TypeInv'
  BY TypeInductive
<1>2. ASSUME NEW p \in Plans, Deploy(p) \/ CallStep(p) \/ DeadlinePasses(p),
             Observed(p)'
      PROVE  \A q \in Plans : Observed(q)'
  BY <1>2, OthersKept, FrameCall
<1>3. CASE UNCHANGED vars \/ Login \/ \E p \in Plans : NodeStep(p)
  <2>1. UNCHANGED callVars
    BY <1>3, NodeStepEffect DEF vars, Login
  <2> QED
    BY <1>1, <2>1, FrameCall DEF callVars
<1>4. CASE Crash
  BY <1>1, <1>4 DEF Crash, Observed
<1>5. ASSUME NEW p \in Plans, Deploy(p) PROVE Observed(p)'
  BY <1>5 DEF TypeInv, TypeOK, Deploy, Goto, Observed
<1>6. ASSUME NEW p \in Plans, DeadlinePasses(p) PROVE Observed(p)'
  BY <1>6, FrameCall DEF DeadlinePasses
<1>7. ASSUME NEW p \in Plans, CallStep(p) PROVE Observed(p)'
  <2>1. Applied(p) => Applied(p)'
    BY AppliedStable
  <2> USE DEF TypeInv, TypeOK
  <2>2. CASE PrepareFails(p) \/ LoadRefuses(p) \/ SignFails(p)
               \/ PersistFails(p) \/ SubmitFails(p) \/ WaitTimesOut(p)
               \/ PollRejected(p) \/ PollFails(p) \/ FinishIncomplete(p)
    BY <2>2, ObservedAfterFailure
       DEF PrepareFails, LoadRefuses, SignFails, PersistFails, SubmitFails,
           WaitTimesOut, PollRejected, PollFails, FinishIncomplete, Fail
  <2>3. CASE PrepareEmpty(p)
    BY <2>1, <2>3 DEF PrepareEmpty, Goto, Observed
  <2>4. CASE PreparePlan(p) \/ LoadPending(p) \/ Sign(p) \/ Persist(p)
               \/ Post(p) \/ Retry(p)
    BY <2>1, <2>4 DEF PreparePlan, LoadPending, Sign, Persist, Post, Retry,
       Goto, Observed
  <2>5. CASE Accepted(p)
    BY <2>1, <2>5 DEF Accepted, Goto, Observed
  <2>6. CASE StartSweep(p)
    BY <2>1, <2>6 DEF StartSweep, Goto, Observed
  <2>7. CASE PollContinues(p)
    <3> DEFINE k == Next1(todo[p])
    <3>1. /\ all_finalized'[p] = (all_finalized[p] /\ PollSees(p) = "Finalized")
          /\ todo'[p] = todo[p] \ {k}
          /\ ids' = ids /\ batch' = batch /\ pc' = pc /\ result' = result
          /\ block' = block
      BY <2>7 DEF PollContinues, nodeVars
    <3>2. PollSees(p) = block[p][batch[p]][k]
      BY DEF PollSees
    <3>3. pc[p] = "poll"
      BY <2>7 DEF PollContinues
    <3> HIDE DEF k
    <3> QED
      BY <2>1, <3>1, <3>2, <3>3 DEF Observed
  <2>8. CASE EndSweep(p)
    BY <2>1, <2>8 DEF EndSweep, Goto, Observed, nodeVars
  <2>9. CASE FinishOk(p)
    <3>1. ids[p] = TxIds
      BY <2>9, FullSubmission DEF FinishOk, Complete
    <3>2. batch[p] \in Batches
      BY <2>9 DEF FinishOk, LocalsInv
    <3>3. Applied(p)
      BY <2>9, <3>1, <3>2 DEF FinishOk, Observed, Applied, BatchFinalized
    <3> QED
      BY <2>1, <2>9, <3>3 DEF FinishOk, Goto, Observed
  <2>10. CASE Clear(p)
    BY <2>1, <2>10 DEF Clear, Return, Goto, Observed
  <2> QED
    BY <1>7, <2>2, <2>3, <2>4, <2>5, <2>6, <2>7, <2>8, <2>9, <2>10 DEF CallStep
<1> QED
  BY <1>1, <1>2, <1>3, <1>4, <1>5, <1>6, <1>7 DEF Next

LEMMA SuccessInvHolds == Spec => []SuccessInv
<1>1. Init => SuccessInv
  BY NumTxAssumption, AttemptsAssumption
     DEF Init, SuccessInv, TypeInv, TypeOK, LocalsInv, Observed, BlockStates,
         Steps, Batches
<1> QED
  BY <1>1, SuccessInductive, PTL DEF Spec

\* deploy() reports success only when every transaction of the plan is
\* Finalized on the node, with or without a pending file.
THEOREM SuccessIsFinal == Spec => []SuccessMeansFinalized
<1>1. SuccessInv => SuccessMeansFinalized
  BY DEF SuccessInv, Observed, SuccessMeansFinalized
<1> QED
  BY <1>1, SuccessInvHolds, PTL

-----------------------------------------------------------------------------
\* Only what was sent, or was there before this client sent anything, can have
\* taken effect; so at most one batch has.
LEMMA AppliedBatch ==
  ASSUME TypeInv, NEW p \in Plans, Agreed(p), NEW b \in Batches,
         BatchFinalized(p, b)
  PROVE  b \in sent[p] \/ sent[p] = {}
<1>1. 1 \in TxIds
  BY NumTxAssumption DEF TxIds
<1>2. Touched(p, b)
  BY <1>1 DEF BatchFinalized, Touched
<1> QED
  BY <1>2 DEF Agreed

\* A plan whose call, file and requests are untouched stays in agreement as
\* long as its blocks do not move.
LEMMA FrameAgreed ==
  ASSUME NEW q \in Plans, Agreed(q), pc'[q] = pc[q], batch'[q] = batch[q],
         cache'[q] = cache[q], sent'[q] = sent[q], block' = block
  PROVE  Agreed(q)'
BY DEF Agreed, Touched, Applied, BatchFinalized

\* The node moves only blocks of batches it was sent.
LEMMA NodeAgreed ==
  ASSUME TypeInv, NEW p \in Plans, NodeStep(p), NEW q \in Plans, Agreed(q),
         [Next]_vars
  PROVE  Agreed(q)'
<1> PICK b \in Batches, i \in TxIds, s \in BlockStates \ {"Unknown"} :
      /\ block[p][b][i] \in {"Unknown", "Pending", "CommitUncertain"}
      /\ block[p][b][i] = "Unknown" => b \in sent[p]
      /\ block' = [block EXCEPT ![p][b][i] = s]
      /\ UNCHANGED <<diskVars, sent, callVars>>
  BY NodeStepEffect
<1>1. ASSUME p # q PROVE Agreed(q)'
  <2>1. block'[q] = block[q]
    BY <1>1 DEF TypeInv, TypeOK
  <2>2. UNCHANGED <<cache, sent, pc, batch>>
    BY DEF diskVars, callVars
  <2> QED
    BY <2>1, <2>2 DEF Agreed, Touched, Applied, BatchFinalized
<1>2. ASSUME p = q PROVE Agreed(q)'
  <2>1. b \in sent[p]
    <3>1. CASE block[p][b][i] = "Unknown"
      BY <3>1
    <3>2. CASE block[p][b][i] # "Unknown"
      <4>1. Touched(p, b) /\ ~BatchFinalized(p, b)
        BY <3>2 DEF Touched, BatchFinalized
      <4> QED
        BY <1>2, <4>1 DEF Agreed
    <3> QED
      BY <3>1, <3>2
  <2>2. \A c \in Batches : c # b => block'[p][c] = block[p][c]
    BY DEF TypeInv, TypeOK
  <2>3. \A c \in Batches : Touched(p, c)' => c \in sent[p]
    <3>1. ASSUME NEW c \in Batches, Touched(p, c)', c # b PROVE c \in sent[p]
      <4>1. Touched(p, c)
        BY <2>2, <3>1 DEF Touched
      <4> QED
        BY <1>2, <2>1, <4>1 DEF Agreed
    <3> QED
      BY <2>1, <3>1
  <2>4. \A c \in Batches : BatchFinalized(p, c) => BatchFinalized(p, c)'
    BY FinalizedStable DEF BatchFinalized
  <2>5. UNCHANGED <<cache, sent, pc, batch>>
    BY DEF diskVars, callVars
  <2> QED
    BY <1>2, <2>1, <2>3, <2>4, <2>5 DEF Agreed
<1> QED
  BY <1>1, <1>2

\* Some batch the client sent, or some other client's, is behind an applied plan;
\* once the client has sent a batch it is that one.
LEMMA AppliedIsSent ==
  ASSUME TypeInv, NEW p \in Plans, Agreed(p), Applied(p),
         NEW b \in sent[p]
  PROVE  BatchFinalized(p, b)
<1> PICK c \in Batches : BatchFinalized(p, c)
  BY DEF Applied
<1>1. c \in sent[p]
  BY AppliedBatch
<1> QED
  BY <1>1 DEF Agreed

\* The step of a call that neither signs, loads, stores nor sends.
LEMMA PassiveAgreed ==
  ASSUME NEW p \in Plans, Agreed(p), block' = block,
         cache'[p] = cache[p], sent'[p] = sent[p],
         \/ pc'[p] \in {"idle", "prepare", "clear"}
         \/ /\ pc'[p] \in {"wait", "poll", "finish"}
            /\ pc[p] \in {"reply", "wait", "poll", "finish"}
            /\ batch'[p] = batch[p]
  PROVE  Agreed(p)'
BY DEF Agreed, Touched, Applied, BatchFinalized

LEMMA DurableInductive ==
  ASSUME HasStateRoot
  PROVE  DurableInv /\ [Next]_vars => DurableInv'
<1> SUFFICES ASSUME DurableInv, [Next]_vars PROVE DurableInv'
  OBVIOUS
<1> USE DEF DurableInv
<1>1. SuccessInv'
  BY SuccessInductive
<1>2. TypeInv
  BY DEF SuccessInv
<1>3. ASSUME NEW p \in Plans, NodeStep(p) PROVE \A q \in Plans : Agreed(q)'
  BY <1>2, <1>3, NodeAgreed
<1>4. ASSUME \A p \in Plans : ~NodeStep(p) PROVE \A q \in Plans : Agreed(q)'
  <2>1. block' = block
    BY <1>4, ClientKeepsBlocks
  <2>2. CASE UNCHANGED vars
    BY <2>1, <2>2, FrameAgreed DEF vars, diskVars, nodeVars, callVars
  <2>3. CASE Login
    BY <2>1, <2>3, FrameAgreed DEF Login, nodeVars, callVars
  <2>4. CASE Crash
    <3>1. \A p \in Plans : pc'[p] = "idle"
      BY <2>4 DEF Crash
    <3> QED
      BY <2>1, <2>4, <3>1
         DEF Crash, Agreed, Touched, BatchFinalized, diskVars, nodeVars
  <2>5. ASSUME NEW p \in Plans, Deploy(p) \/ CallStep(p) \/ DeadlinePasses(p),
               Agreed(p)'
        PROVE  \A q \in Plans : Agreed(q)'
    BY <1>2, <2>1, <2>5, OthersKept, FrameAgreed
  <2>6. ASSUME NEW p \in Plans, Deploy(p) PROVE Agreed(p)'
    BY <1>2, <2>1, <2>6, PassiveAgreed
       DEF TypeInv, TypeOK, Deploy, Goto, diskVars, nodeVars
  <2>7. ASSUME NEW p \in Plans, DeadlinePasses(p) PROVE Agreed(p)'
    BY <2>1, <2>7, FrameAgreed DEF DeadlinePasses, diskVars, nodeVars
  <2>8. ASSUME NEW p \in Plans, CallStep(p) PROVE Agreed(p)'
    <3>1. \A q \in Plans, b \in Batches :
            /\ Touched(q, b)' = Touched(q, b)
            /\ BatchFinalized(q, b)' = BatchFinalized(q, b)
      BY <2>1 DEF Touched, BatchFinalized
    <3>a. Applied(p)' = Applied(p)
      BY <2>1 DEF Applied, BatchFinalized
    <3>2. CASE PrepareFails(p) \/ LoadRefuses(p) \/ SignFails(p)
                 \/ SubmitFails(p) \/ WaitTimesOut(p) \/ PollRejected(p)
                 \/ PollFails(p) \/ FinishIncomplete(p)
      <4>1. Fail(p)
        BY <3>2 DEF PrepareFails, LoadRefuses, SignFails, SubmitFails,
           WaitTimesOut, PollRejected, PollFails, FinishIncomplete
      <4> QED
        BY <1>2, <2>1, <4>1, PassiveAgreed
           DEF TypeInv, TypeOK, Fail, Return, Goto, diskVars, nodeVars
    <3>3. CASE PersistFails(p)
      <4>1. cache[p] = None /\ cache'[p] = None
        BY <1>2, <3>3 DEF PersistFails, Agreed, TypeInv, TypeOK
      <4>2. pc'[p] = "idle" /\ sent'[p] = sent[p]
        BY <1>2, <3>3 DEF PersistFails, Return, Goto, TypeInv, TypeOK, nodeVars
      <4> QED
        BY <2>1, <4>1, <4>2, PassiveAgreed
    <3>4. CASE PrepareEmpty(p) \/ Accepted(p) \/ StartSweep(p)
                 \/ PollContinues(p) \/ EndSweep(p) \/ FinishOk(p)
      BY <1>2, <2>1, <3>4, PassiveAgreed
         DEF TypeInv, TypeOK, PrepareEmpty, Accepted, StartSweep,
             PollContinues, EndSweep, FinishOk, Goto, diskVars, nodeVars
    <3>5. CASE PreparePlan(p)
      \* What was sent is on disk, for the plan has not taken effect yet.
      <4>1. ~Applied(p)
        BY <3>5 DEF PreparePlan
      <4>2. ASSUME NEW b \in sent[p] PROVE cache[p] = b
        BY <1>2, <4>1, <4>2 DEF Agreed, Applied, TypeInv, TypeOK
      <4>3. cache[p] = None => sent[p] = {}
        BY <1>2, <4>2, NoneAssumption DEF TypeInv, TypeOK
      <4>4. /\ pc'[p] = "load" /\ cache'[p] = cache[p] /\ sent'[p] = sent[p]
        BY <1>2, <3>5 DEF TypeInv, TypeOK, PreparePlan, Goto, diskVars, nodeVars
      <4> QED
        BY <3>1, <3>a, <4>1, <4>3, <4>4 DEF Agreed
    <3>6. CASE LoadPending(p)
      <4>1. /\ pc[p] = "load" /\ pc'[p] = "submit"
            /\ cache'[p] = cache[p] /\ sent'[p] = sent[p]
            /\ batch'[p] = cache[p]
        BY <1>2, <3>6
           DEF TypeInv, TypeOK, LoadPending, Goto, diskVars, nodeVars
      <4> QED
        BY <3>1, <3>a, <4>1 DEF Agreed
    <3>7. CASE Sign(p)
      <4>1. /\ pc[p] = "load" /\ pc'[p] = "persist" /\ cache[p] = None
            /\ cache'[p] = cache[p] /\ sent'[p] = sent[p]
        BY <1>2, <3>7
           DEF TypeInv, TypeOK, Sign, HasPending, Goto, diskVars, nodeVars
      <4> QED
        BY <3>1, <3>a, <4>1 DEF Agreed
    <3>8. CASE Persist(p)
      <4>1. /\ pc[p] = "persist" /\ pc'[p] = "submit"
            /\ cache'[p] = batch[p] /\ batch'[p] = batch[p]
            /\ sent'[p] = sent[p]
        BY <1>2, <3>8 DEF TypeInv, TypeOK, Persist, Goto, nodeVars
      <4>2. sent[p] = {}
        BY <4>1, <3>8 DEF Persist, Agreed
      <4> QED
        BY <3>1, <3>a, <4>1, <4>2 DEF Agreed
    <3>9. CASE Post(p)
      <4>1. /\ pc[p] = "submit" /\ pc'[p] = "reply"
            /\ cache'[p] = cache[p] /\ batch'[p] = batch[p]
            /\ sent'[p] = sent[p] \cup {batch[p]}
        BY <1>2, <3>9 DEF TypeInv, TypeOK, Post, Goto, diskVars
      <4>2. cache[p] = batch[p] /\ batch[p] # None
        BY <4>1, NoneAssumption DEF Agreed, SuccessInv, TypeInv, LocalsInv
      <4>3. \A b \in sent[p] : b = batch[p]
        BY <4>2 DEF Agreed
      <4>4. \A b \in Batches : Touched(p, b) => b \in sent[p]
        BY <4>1 DEF Agreed, Applied
      <4> QED
        BY <3>1, <4>1, <4>2, <4>3, <4>4 DEF Agreed
    <3>10. CASE Clear(p)
      <4>1. \A b \in sent[p] : BatchFinalized(p, b)
        BY <1>2, <3>10, AppliedIsSent DEF Clear, SuccessInv, Observed
      <4>2. pc'[p] = "idle" /\ sent'[p] = sent[p]
        BY <1>2, <3>10 DEF Clear, Return, Goto, TypeInv, TypeOK, nodeVars
      <4>3. cache'[p] = cache[p] \/ cache'[p] = None
        BY <1>2, <3>10 DEF Clear, TypeInv, TypeOK
      <4>4. sent[p] \in SUBSET Batches
        BY <1>2 DEF TypeInv, TypeOK
      <4>5. ASSUME NEW b \in sent[p]
            PROVE  cache'[p] = b \/ (cache'[p] = None /\ BatchFinalized(p, b)')
        BY <3>1, <4>1, <4>3, <4>4, <4>5 DEF Agreed
      <4> QED
        BY <3>1, <4>2, <4>5 DEF Agreed
    <3>11. CASE Retry(p)
      <4>1. /\ pc[p] = "reply" /\ pc'[p] = "submit"
            /\ cache'[p] = cache[p] /\ batch'[p] = batch[p]
            /\ sent'[p] = sent[p]
        BY <1>2, <3>11 DEF TypeInv, TypeOK, Retry, Goto, diskVars, nodeVars
      <4> QED
        BY <3>1, <3>a, <4>1 DEF Agreed
    <3> QED
      BY <2>8, <3>2, <3>3, <3>4, <3>5, <3>6, <3>7, <3>8, <3>9, <3>10, <3>11
         DEF CallStep
  <2> QED
    BY <1>4, <2>2, <2>3, <2>4, <2>5, <2>6, <2>7, <2>8 DEF Next
<1> QED
  BY <1>1, <1>3, <1>4

LEMMA DurableInvHolds ==
    ASSUME HasStateRoot
    PROVE  Spec => []DurableInv
<1>1. Init => DurableInv
  <2> SUFFICES ASSUME Init PROVE DurableInv
    OBVIOUS
  <2>1. SuccessInv
    BY NumTxAssumption, AttemptsAssumption
       DEF Init, SuccessInv, TypeInv, TypeOK, LocalsInv, Observed, BlockStates,
           Steps, Batches
  <2>2. ASSUME NEW p \in Plans, NEW b \in Batches, Touched(p, b)
        PROVE  BatchFinalized(p, b)
    BY <2>2 DEF Init, Touched, BatchFinalized
  <2> QED
    BY <2>1, <2>2 DEF Init, DurableInv, Agreed
<1>2. DurableInv /\ [Next]_vars => DurableInv'
  BY DurableInductive
<1> QED
  BY <1>1, <1>2, PTL DEF Spec

\* With a pending file, all requests for a plan carry the same signed
\* transactions, through any number of retries and crashes.
THEOREM SignedOnce ==
    ASSUME HasStateRoot
    PROVE  Spec => []OneSubmissionPerPlan
<1>1. DurableInv => OneSubmissionPerPlan
  BY DEF DurableInv, Agreed, OneSubmissionPerPlan
<1> QED
  BY <1>1, DurableInvHolds, PTL

\* What was sent and has not wholly taken effect can be sent again as it was.
THEOREM Resumable ==
    ASSUME HasStateRoot
    PROVE  Spec => []PendingIsDurable
<1>1. DurableInv => PendingIsDurable
  BY DEF DurableInv, Agreed, PendingIsDurable
<1> QED
  BY <1>1, DurableInvHolds, PTL

-----------------------------------------------------------------------------
(* The client implements the service. *)

\* The step of a call, or the start of one, as the service sees it: only its
\* own phase and requests change.
LEMMA CallSeen ==
  ASSUME TypeInv, NEW p \in Plans,
         Deploy(p) \/ CallStep(p) \/ DeadlinePasses(p), block' = block
  PROVE  /\ phaseBar' = [phaseBar EXCEPT ![p] =
                            IF pc'[p] = "idle" THEN result'[p] ELSE "running"]
         /\ requestedBar' = [requestedBar EXCEPT ![p] = sent'[p] # {}]
         /\ effectsBar' = effectsBar
<1>1. \A q \in Plans : q # p =>
        pc'[q] = pc[q] /\ result'[q] = result[q] /\ sent'[q] = sent[q]
  BY OthersKept
<1>2. phaseBar' = [phaseBar EXCEPT ![p] =
                      IF pc'[p] = "idle" THEN result'[p] ELSE "running"]
  BY <1>1 DEF phaseBar
<1>3. requestedBar' = [requestedBar EXCEPT ![p] = sent'[p] # {}]
  BY <1>1 DEF requestedBar
<1>4. effectsBar' = effectsBar
  BY DEF effectsBar, BatchFinalized
<1> QED
  BY <1>2, <1>3, <1>4

\* A call that neither ends nor sends is not seen.
LEMMA InnerStepSeen ==
  ASSUME TypeInv, NEW p \in Plans, CallStep(p) \/ DeadlinePasses(p),
         block' = block, pc[p] # "idle", pc'[p] # "idle", sent'[p] = sent[p]
  PROVE  UNCHANGED Service!vars
<1>1. /\ phaseBar' = [phaseBar EXCEPT ![p] = "running"]
      /\ requestedBar' = [requestedBar EXCEPT ![p] = sent[p] # {}]
      /\ effectsBar' = effectsBar
  BY CallSeen
<1>2. phaseBar[p] = "running" /\ requestedBar[p] = (sent[p] # {})
  BY DEF phaseBar, requestedBar
<1>3. phaseBar' = phaseBar
  BY <1>1, <1>2 DEF phaseBar
<1>4. requestedBar' = requestedBar
  BY <1>1, <1>2 DEF requestedBar
<1> QED
  BY <1>1, <1>3, <1>4 DEF Service!vars

\* A call that ends is seen to end, with the result it returns.
LEMMA EndSeen ==
  ASSUME TypeInv, NEW p \in Plans, CallStep(p), block' = block,
         pc[p] # "idle", sent' = sent, NEW r \in {"ok", "error"},
         Return(p, r), r = "ok" => Applied(p)
  PROVE  Service!Next
<1>1. pc'[p] = "idle" /\ result'[p] = r
  BY DEF TypeInv, TypeOK, Return, Goto
<1>2. /\ phaseBar' = [phaseBar EXCEPT ![p] = r]
      /\ effectsBar' = effectsBar
  BY <1>1, CallSeen
<1>3. phaseBar[p] = "running"
  BY DEF phaseBar
<1>4. requestedBar' = requestedBar
  BY DEF requestedBar
<1>5. CASE r = "ok"
  <2>1. effectsBar[p] # {}
    BY <1>5 DEF effectsBar, Applied
  <2>2. Service!Succeed(p)
    BY <1>2, <1>3, <1>4, <1>5, <2>1 DEF Service!Succeed
  <2> QED
    BY <2>2 DEF Service!Next
<1>6. CASE r = "error"
  <2>1. Service!Fail(p)
    BY <1>2, <1>3, <1>4, <1>6 DEF Service!Fail
  <2> QED
    BY <2>1 DEF Service!Next
<1> QED
  BY <1>5, <1>6

\* A batch takes effect once it was sent, and none has before it.
LEMMA NodeStepSeen ==
  ASSUME DurableInv, NEW p \in Plans, NodeStep(p)
  PROVE  Service!Next \/ UNCHANGED Service!vars
<1> PICK b \in Batches, i \in TxIds, s \in BlockStates \ {"Unknown"} :
      /\ block[p][b][i] \in {"Unknown", "Pending", "CommitUncertain"}
      /\ block[p][b][i] = "Unknown" => b \in sent[p]
      /\ block' = [block EXCEPT ![p][b][i] = s]
      /\ UNCHANGED <<diskVars, sent, callVars>>
  BY NodeStepEffect
<1>1. TypeInv /\ Agreed(p)
  BY DEF DurableInv, SuccessInv
<1>2. phaseBar' = phaseBar /\ requestedBar' = requestedBar
  BY DEF phaseBar, requestedBar, callVars
<1>3. ~BatchFinalized(p, b)
  BY DEF BatchFinalized
<1>4. b \in sent[p]
  <2>1. CASE block[p][b][i] = "Unknown"
    BY <2>1
  <2>2. CASE block[p][b][i] # "Unknown"
    BY <1>1, <1>3, <2>2 DEF Agreed, Touched
  <2> QED
    BY <2>1, <2>2
<1>5. \A c \in Batches : ~BatchFinalized(p, c)
  <2> SUFFICES ASSUME NEW c \in Batches, BatchFinalized(p, c) PROVE FALSE
    OBVIOUS
  <2>1. c \in sent[p]
    BY <1>1, <1>4, AppliedBatch
  <2> QED
    BY <1>1, <1>3, <1>4, <2>1 DEF Agreed
<1>6. \A q \in Plans, c \in Batches : q # p \/ c # b =>
        BatchFinalized(q, c)' = BatchFinalized(q, c)
  BY <1>1 DEF TypeInv, TypeOK, BatchFinalized
<1>7. effectsBar[p] = {} /\ requestedBar[p]
  BY <1>4, <1>5 DEF effectsBar, requestedBar
<1>8. CASE BatchFinalized(p, b)'
  <2>1. effectsBar' = [effectsBar EXCEPT ![p] = {b}]
    BY <1>5, <1>6, <1>8 DEF effectsBar
  <2>2. Service!TakeEffect(p, b)
    BY <1>2, <1>7, <2>1 DEF Service!TakeEffect
  <2> QED
    BY <2>2 DEF Service!Next
<1>9. CASE ~BatchFinalized(p, b)'
  <2>1. effectsBar' = effectsBar
    BY <1>3, <1>6, <1>9 DEF effectsBar
  <2> QED
    BY <1>2, <2>1 DEF Service!vars
<1> QED
  BY <1>8, <1>9

\* Every step of a call is a step of the service, or is not seen.
LEMMA CallStepSeen ==
  ASSUME SuccessInv, NEW p \in Plans, CallStep(p), block' = block
  PROVE  Service!Next \/ UNCHANGED Service!vars
<1>1. TypeInv
  BY DEF SuccessInv
<1>2. CASE PrepareFails(p) \/ LoadRefuses(p) \/ SignFails(p) \/ SubmitFails(p)
             \/ WaitTimesOut(p) \/ PollRejected(p) \/ PollFails(p)
             \/ FinishIncomplete(p)
  <2>1. Fail(p) /\ pc[p] # "idle"
    BY <1>2 DEF PrepareFails, LoadRefuses, SignFails, SubmitFails,
       WaitTimesOut, PollRejected, PollFails, FinishIncomplete
  <2>2. Return(p, "error") /\ sent' = sent
    BY <2>1 DEF Fail, nodeVars
  <2> QED
    BY <1>1, <2>1, <2>2, EndSeen
<1>3. CASE PersistFails(p)
  <2>1. Return(p, "error") /\ sent' = sent /\ pc[p] # "idle"
    BY <1>3 DEF PersistFails, nodeVars
  <2> QED
    BY <1>1, <2>1, EndSeen
<1>4. CASE Clear(p)
  <2>1. Return(p, "ok") /\ sent' = sent /\ pc[p] = "clear"
    BY <1>4 DEF Clear, nodeVars
  <2>2. Applied(p)
    BY <2>1 DEF SuccessInv, Observed
  <2> QED
    BY <1>1, <2>1, <2>2, EndSeen
<1>5. CASE Post(p)
  <2>1. pc[p] = "submit" /\ pc'[p] = "reply"
    BY <1>1, <1>5 DEF Post, Goto, TypeInv, TypeOK
  <2>2. sent'[p] # {}
    BY <1>1, <1>5 DEF Post, TypeInv, TypeOK
  <2>3. phaseBar' = [phaseBar EXCEPT ![p] = "running"]
    BY <1>1, <2>1, CallSeen
  <2>4. phaseBar[p] = "running" /\ phaseBar' = phaseBar
    BY <2>1, <2>3 DEF phaseBar
  <2>5. requestedBar' = [requestedBar EXCEPT ![p] = TRUE] /\ effectsBar' = effectsBar
    BY <1>1, <2>2, CallSeen
  <2>6. Service!Request(p)
    BY <2>4, <2>5 DEF Service!Request
  <2> QED
    BY <2>6 DEF Service!Next
<1>6. CASE PrepareEmpty(p) \/ PreparePlan(p) \/ LoadPending(p) \/ Sign(p)
             \/ Persist(p) \/ Retry(p)
  <2>1. pc[p] # "idle" /\ pc'[p] # "idle" /\ sent'[p] = sent[p]
    BY <1>1, <1>6 DEF TypeInv, TypeOK, PrepareEmpty, PreparePlan, LoadPending,
       Sign, Persist, Retry, Goto, nodeVars
  <2> QED
    BY <1>1, <2>1, InnerStepSeen
<1>7. CASE Accepted(p) \/ StartSweep(p) \/ PollContinues(p) \/ EndSweep(p)
             \/ FinishOk(p)
  <2>1. pc[p] # "idle" /\ pc'[p] # "idle" /\ sent'[p] = sent[p]
    BY <1>1, <1>7 DEF TypeInv, TypeOK, Accepted, StartSweep, PollContinues,
       EndSweep, FinishOk, Goto, nodeVars
  <2> QED
    BY <1>1, <2>1, InnerStepSeen
<1> QED
  BY <1>2, <1>3, <1>4, <1>5, <1>6, <1>7 DEF CallStep

LEMMA StepSeen ==
  ASSUME DurableInv, [Next]_vars
  PROVE  Service!Next \/ UNCHANGED Service!vars
<1>1. TypeInv /\ SuccessInv
  BY DEF DurableInv, SuccessInv
<1>2. ASSUME NEW p \in Plans, NodeStep(p)
      PROVE  Service!Next \/ UNCHANGED Service!vars
  BY <1>2, NodeStepSeen
<1>3. ASSUME \A p \in Plans : ~NodeStep(p)
      PROVE  Service!Next \/ UNCHANGED Service!vars
  <2>1. block' = block
    BY <1>3, ClientKeepsBlocks
  <2>2. CASE UNCHANGED vars \/ Login
    <3>1. pc' = pc /\ result' = result /\ sent' = sent
      BY <2>2 DEF vars, nodeVars, callVars, Login
    <3> QED
      BY <2>1, <3>1
         DEF Service!vars, phaseBar, requestedBar, effectsBar, BatchFinalized
  <2>3. CASE Crash
    <3>1. phaseBar' = [p \in Plans |-> "none"]
      BY <2>3 DEF Crash, phaseBar
    <3>2. requestedBar' = requestedBar
      BY <2>3 DEF Crash, nodeVars, requestedBar
    <3>3. effectsBar' = effectsBar
      BY <2>1 DEF effectsBar, BatchFinalized
    <3> QED
      BY <3>1, <3>2, <3>3 DEF Service!Next, Service!Abort
  <2>4. ASSUME NEW p \in Plans, Deploy(p) PROVE Service!Next
    <3>1. pc[p] = "idle" /\ pc'[p] = "prepare" /\ sent' = sent
      BY <1>1, <2>4 DEF Deploy, Goto, nodeVars, TypeInv, TypeOK
    <3>2. /\ phaseBar' = [phaseBar EXCEPT ![p] = "running"]
          /\ effectsBar' = effectsBar
      BY <1>1, <2>1, <2>4, <3>1, CallSeen
    <3>3. requestedBar' = requestedBar
      BY <3>1 DEF requestedBar
    <3>4. phaseBar[p] # "running"
      BY <1>1, <3>1 DEF phaseBar, TypeInv, TypeOK
    <3>5. Service!Begin(p)
      BY <3>2, <3>3, <3>4 DEF Service!Begin
    <3> QED
      BY <3>5 DEF Service!Next
  <2>5. ASSUME NEW p \in Plans, DeadlinePasses(p) PROVE UNCHANGED Service!vars
    <3>1. pc[p] # "idle" /\ pc' = pc /\ sent' = sent
      BY <2>5 DEF DeadlinePasses, nodeVars
    <3> QED
      BY <1>1, <2>1, <2>5, <3>1, InnerStepSeen
  <2> QED
    BY <1>1, <1>3, <2>1, <2>2, <2>3, <2>4, <2>5, CallStepSeen DEF Next
<1> QED
  BY <1>2, <1>3

\* A plan another client deployed before has taken effect in one way.
LEMMA InitSeen == Init => Service!Init
<1> SUFFICES ASSUME Init PROVE Service!Init
  OBVIOUS
<1>1. phaseBar = [p \in Plans |-> "none"]
  BY DEF Init, phaseBar
<1>2. requestedBar = [p \in Plans |-> FALSE]
  BY DEF Init, requestedBar
<1>3. ASSUME NEW p \in Plans
      PROVE  effectsBar[p] \in {{}} \cup {{e} : e \in Batches}
  <2>1. PICK done \in SUBSET Plans, b0 \in Batches :
          block = [q \in Plans |-> [b \in Batches |-> [i \in TxIds |->
                     IF q \in done /\ b = b0 THEN "Finalized" ELSE "Unknown"]]]
    BY DEF Init
  <2>2. 1 \in TxIds
    BY NumTxAssumption DEF TxIds
  <2>3. \A b \in Batches : BatchFinalized(p, b) <=> p \in done /\ b = b0
    BY <2>1, <2>2 DEF BatchFinalized
  <2>4. effectsBar[p] = IF p \in done THEN {b0} ELSE {}
    BY <2>3 DEF effectsBar
  <2> QED
    BY <2>4
<1>4. effectsBar \in [Plans -> {{}} \cup {{e} : e \in Batches}]
  BY <1>3 DEF effectsBar
<1> QED
  BY <1>1, <1>2, <1>4 DEF Service!Init

\* deploy() with a pending file keeps what it promises its callers: through any
\* retries, lost answers and crashes, success means that the plan has taken
\* effect, and a plan takes effect at most once, after it was requested.
THEOREM ServiceImplemented ==
    ASSUME HasStateRoot
    PROVE  Spec => ImplementsService
<1>1. DurableInv /\ [Next]_vars => [Service!Next]_(Service!vars)
  BY StepSeen
<1> QED
  BY <1>1, InitSeen, DurableInvHolds, PTL DEF Spec, ImplementsService, Service!Spec

-----------------------------------------------------------------------------
(* How long a call may take. *)

\* The id that is polled is one of those still to poll.
LEMMA NextIsOne ==
  ASSUME NEW S \in SUBSET TxIds, S # {}
  PROVE  Next1(S) \in S
<1>1. S \in SUBSET Nat
  BY NumTxAssumption DEF TxIds
<1> DEFINE R == OpToRel(<, Nat)
<1>2. IsWellFoundedOn(R, Nat)
  BY NatLessThanWellFounded
<1>3. \A m, n \in Nat : m < n => <<m, n>> \in R
  BY DEF OpToRel
<1>4. PICK n \in S : \A m \in S : <<m, n>> \notin R
  BY <1>1, <1>2, WFMin
<1> HIDE DEF R
<1>5. \A m \in S : n <= m
  <2> TAKE m \in S
  <2>1. m \in Nat /\ n \in Nat /\ ~ (m < n)
    BY <1>1, <1>3, <1>4
  <2> QED
    BY <2>1
<1> QED
  BY <1>5 DEF Next1

LEMMA OneLess ==
  ASSUME NEW S, IsFiniteSet(S), NEW x \in S
  PROVE  Cardinality(S \ {x}) = Cardinality(S) - 1
BY FS_RemoveElement

\* The numbers StepsLeft is made of.
LEMMA Counts ==
  ASSUME TypeInv, NEW p \in Plans
  PROVE  /\ NumTx \in Nat /\ MaxAttempts \in Nat
         /\ attempt[p] \in 0..(MaxAttempts - 1)
         /\ IsFiniteSet(todo[p]) /\ Cardinality(todo[p]) \in 0..NumTx
         /\ IsFiniteSet(ids[p]) /\ Cardinality(ids[p]) \in 0..NumTx
<1>1. NumTx \in Nat /\ MaxAttempts \in Nat
  BY NumTxAssumption, AttemptsAssumption
<1>2. attempt[p] \in 0..(MaxAttempts - 1) /\ todo[p] \in SUBSET TxIds
      /\ ids[p] \in SUBSET TxIds
  BY DEF TypeInv, TypeOK
<1>3. ASSUME NEW S \in SUBSET TxIds
      PROVE  IsFiniteSet(S) /\ Cardinality(S) \in 0..NumTx
  BY <1>1, TxIdsCounted, FS_Subset, FS_CardinalityType
<1> QED
  BY <1>1, <1>2, <1>3

\* A call that runs has a step left, and one that returned has none.
LEMMA RunningHasSteps ==
  ASSUME TypeInv, NEW p \in Plans, pc[p] # "idle"
  PROVE  StepsLeft(p) > 0
<1>1. pc[p] \in Steps
  BY DEF TypeInv, TypeOK
<1> QED
  BY <1>1, Counts DEF StepsLeft, Steps

LEMMA ReturnedHasNone ==
  ASSUME NEW p \in Plans, pc'[p] = "idle"
  PROVE  StepsLeft(p)' = 0
BY DEF StepsLeft

\* Every step of a call but an undecided sweep leaves fewer behind it.
LEMMA CallRunsDown ==
  ASSUME TypeInv, TypeInv', NEW p \in Plans, CallStep(p)
  PROVE  \/ StepsLeft(p)' < StepsLeft(p)
         \/ pc[p] = "poll" /\ pc'[p] = "wait" /\ ~expired[p] /\ ~expired'[p]
<1>1. /\ NumTx \in Nat /\ MaxAttempts \in Nat
      /\ attempt[p] \in 0..(MaxAttempts - 1)
      /\ IsFiniteSet(todo[p]) /\ Cardinality(todo[p]) \in 0..NumTx
      /\ IsFiniteSet(ids[p]) /\ Cardinality(ids[p]) \in 0..NumTx
  BY Counts
<1>2. attempt'[p] \in 0..(MaxAttempts - 1) /\ Cardinality(todo'[p]) \in 0..NumTx
  <2>1. attempt'[p] \in 0..(MaxAttempts - 1) /\ todo'[p] \in SUBSET TxIds
    BY DEF TypeInv, TypeOK
  <2> QED
    BY <1>1, <2>1, TxIdsCounted, FS_Subset, FS_CardinalityType
<1>3. /\ pc \in [Plans -> Steps] /\ attempt \in [Plans -> 0..(MaxAttempts - 1)]
      /\ todo \in [Plans -> SUBSET TxIds] /\ expired \in [Plans -> BOOLEAN]
  BY DEF TypeInv, TypeOK
<1>4. ASSUME NEW r, Return(p, r), pc[p] # "idle"
      PROVE  StepsLeft(p)' < StepsLeft(p)
  <2>1. pc'[p] = "idle"
    BY <1>3, <1>4 DEF Return, Goto
  <2>2. StepsLeft(p)' = 0 /\ StepsLeft(p) > 0
    BY <1>4, <2>1, ReturnedHasNone, RunningHasSteps
  <2> QED
    BY <2>2
<1>5. CASE \/ PrepareFails(p) \/ LoadRefuses(p) \/ SignFails(p) \/ SubmitFails(p)
           \/ WaitTimesOut(p) \/ PollRejected(p) \/ PollFails(p)
           \/ FinishIncomplete(p) \/ PersistFails(p) \/ Clear(p)
  <2>1. pc[p] # "idle" /\ \E r : Return(p, r)
    BY <1>5 DEF PrepareFails, LoadRefuses, SignFails, SubmitFails, WaitTimesOut,
         PollRejected, PollFails, FinishIncomplete, PersistFails, Clear, Fail
  <2> QED
    BY <1>4, <2>1
<1>6. CASE PrepareEmpty(p) \/ PreparePlan(p) \/ LoadPending(p) \/ Sign(p)
           \/ Persist(p)
  <2>1. attempt' = attempt
    BY <1>6 DEF PrepareEmpty, PreparePlan, LoadPending, Sign, Persist
  <2>2. \/ pc[p] = "prepare" /\ pc'[p] \in {"clear", "load"}
        \/ pc[p] = "load" /\ pc'[p] \in {"submit", "persist"}
        \/ pc[p] = "persist" /\ pc'[p] = "submit"
    BY <1>3, <1>6 DEF PrepareEmpty, PreparePlan, LoadPending, Sign, Persist, Goto
  <2> QED
    BY <1>1, <2>1, <2>2 DEF StepsLeft
<1>7. CASE Post(p) \/ Retry(p)
  <2>1. \/ pc[p] = "submit" /\ pc'[p] = "reply" /\ attempt'[p] = attempt[p]
        \/ pc[p] = "reply" /\ pc'[p] = "submit" /\ attempt'[p] = attempt[p] + 1
    BY <1>3, <1>7 DEF Post, Retry, Goto
  <2> QED
    BY <1>1, <2>1 DEF StepsLeft
<1>8. CASE Accepted(p)
  <2>1. pc[p] = "reply" /\ pc'[p] \in {"finish", "wait"}
    BY <1>3, <1>8 DEF Accepted, Goto
  <2> QED
    BY <1>1, <2>1 DEF StepsLeft
<1>9. CASE StartSweep(p)
  <2>1. /\ pc[p] = "wait" /\ pc'[p] = "poll" /\ ~expired[p] /\ expired'[p] = expired[p]
        /\ todo'[p] = ids[p]
    BY <1>3, <1>9 DEF StartSweep, Goto
  <2>2. StepsLeft(p) = NumTx + 6 /\ StepsLeft(p)' = Cardinality(ids[p]) + 5
    BY <2>1 DEF StepsLeft
  <2> QED
    BY <1>1, <2>2
<1>10. CASE PollContinues(p)
  <2>0. /\ pc[p] = "poll" /\ pc' = pc /\ expired' = expired /\ todo[p] # {}
        /\ todo' = [todo EXCEPT ![p] = todo[p] \ {Next1(todo[p])}]
    BY <1>10, Zenon DEF PollContinues
  <2>1. /\ pc[p] = "poll" /\ pc'[p] = "poll" /\ expired'[p] = expired[p]
        /\ todo[p] # {} /\ todo'[p] = todo[p] \ {Next1(todo[p])}
    BY <1>3, <2>0
  <2>2. Next1(todo[p]) \in todo[p]
    BY <1>3, <2>1, NextIsOne
  <2>3. Cardinality(todo'[p]) = Cardinality(todo[p]) - 1
    BY <1>1, <2>1, <2>2, OneLess, Zenon
  <2>4. \E e \in {4, 5} : /\ StepsLeft(p) = Cardinality(todo[p]) + e
                         /\ StepsLeft(p)' = Cardinality(todo'[p]) + e
    BY <2>1 DEF StepsLeft
  <2> QED
    BY <1>1, <2>3, <2>4
<1>11. CASE EndSweep(p)
  <2>1. /\ pc[p] = "poll" /\ pc'[p] \in {"finish", "wait"} /\ expired'[p] = expired[p]
    BY <1>3, <1>11 DEF EndSweep, Goto
  <2> QED
    BY <1>1, <2>1 DEF StepsLeft
<1>12. CASE FinishOk(p)
  <2>1. pc[p] = "finish" /\ pc'[p] = "clear"
    BY <1>3, <1>12 DEF FinishOk, Goto
  <2> QED
    BY <2>1 DEF StepsLeft
<1> QED
  BY <1>5, <1>6, <1>7, <1>8, <1>9, <1>10, <1>11, <1>12 DEF CallStep

\* A call of deploy() takes a bounded number of steps besides the sweeps it
\* begins before its deadline, for any number of transactions and attempts: what
\* the liveness property EveryCallReturns rests on.
THEOREM CallsReturnInBound == Spec => CallsRunDown
<1> DEFINE Counted(p) ==
      \/ pc[p] = "idle" \/ UNCHANGED Progress(p)
      \/ StepsLeft(p)' < StepsLeft(p)
      \/ pc[p] = "poll" /\ pc'[p] = "wait" /\ ~expired[p] /\ ~expired'[p]
<1>1. ASSUME TypeInv, TypeInv', Next, NEW p \in Plans
      PROVE  Counted(p)
  <2>1. CASE CallStep(p)
    BY <1>1, <2>1, CallRunsDown
  <2>2. CASE DeadlinePasses(p)
    <3>1. /\ pc[p] \in {"wait", "poll"} /\ pc' = pc /\ ~expired[p] /\ expired'[p]
          /\ todo' = todo
      BY <1>1, <2>2 DEF DeadlinePasses, TypeInv, TypeOK
    <3> QED
      BY <1>1, <3>1, Counts DEF StepsLeft
  <2>3. CASE Deploy(p)
    BY <2>3 DEF Deploy
  <2>4. CASE Crash
    <3>1. pc'[p] = "idle"
      BY <2>4 DEF Crash
    <3> QED
      BY <1>1, <3>1, ReturnedHasNone, RunningHasSteps
  <2>5. CASE Login \/ \E q \in Plans : NodeStep(q)
    BY <2>5, NodeStepEffect DEF Login, Progress, callVars
  <2>6. ASSUME NEW q \in Plans \ {p}, Deploy(q) \/ CallStep(q) \/ DeadlinePasses(q)
        PROVE  UNCHANGED Progress(p)
    BY <1>1, <2>6, OthersKept DEF Progress
  <2> QED
    BY <1>1, <2>1, <2>2, <2>3, <2>4, <2>5, <2>6 DEF Next
<1>2. TypeInv /\ TypeInv' /\ [Next]_vars
         => [\A p \in Plans :
                \/ pc[p] = "idle" \/ UNCHANGED Progress(p)
                \/ StepsLeft(p)' < StepsLeft(p)
                \/ pc[p] = "poll" /\ pc'[p] = "wait" /\ ~expired[p] /\ ~expired'[p]]_vars
  BY <1>1
<1>3. SuccessInv => TypeInv
  BY DEF SuccessInv
<1> QED
  BY <1>2, <1>3, SuccessInvHolds, PTL DEF Spec, CallsRunDown
=============================================================================
