---------------------------- MODULE DeployClient ----------------------------
(***************************************************************************)
(* DeployClient::deploy (src/infrastructure/deploy_config/DeployClient.cpp)*)
(* and the node it talks to.                                               *)
(*                                                                         *)
(* deploy() asks the node to prepare a plan, signs its transactions with   *)
(* fresh random nonces, stores the signed batch in a file named after the  *)
(* plan, submits it (retrying with the very same body), polls the admitted *)
(* blocks until all are Finalized, and only then removes the file.  A      *)
(* later call that gets the same plan finds the file and sends the same    *)
(* signed batch again instead of signing a second one.                     *)
(*                                                                         *)
(* One process is modelled; it runs at most one call per plan at a time    *)
(* (the worker threads of one process deploy distinct targets) and it may  *)
(* die between any two steps.  The node and the network are external: a    *)
(* request may be admitted late, after its answer was given up.            *)
(***************************************************************************)
EXTENDS Naturals, FiniteSets

CONSTANTS
    Plans,          \* plan ids the node hands out
    Bodies,         \* what a plan says besides its id: ring_reference, transactions
    Wallets,        \* wallets the user may log in with
    Nonces,         \* values std::random_device draws
    NumTx,          \* transactions in a plan that is not empty
    MaxAttempts,    \* kSubmitRetryDelays.size() + 1
    HasStateRoot,   \* the client was given a directory for its pending file
    MayReject,      \* the node may end a block in Rejected or Expired
    None

Batches == [body : Bodies, wallet : Wallets, nonce : Nonces]
TxIds == 1..NumTx

BlockStates ==
    {"Unknown", "Pending", "CommitUncertain", "Finalized", "Rejected", "Expired"}

\* Where a call of deploy() stands.
Steps == {"idle", "prepare", "load", "persist", "submit", "reply", "wait",
          "poll", "finish", "clear"}

ASSUME NumTxAssumption == NumTx \in Nat \ {0}
ASSUME AttemptsAssumption == MaxAttempts \in Nat \ {0}
ASSUME FlagsAssumption == HasStateRoot \in BOOLEAN /\ MayReject \in BOOLEAN
ASSUME NoneAssumption == None \notin Batches /\ None \notin Bodies

VARIABLES
    \* durable
    cache,      \* pending-deploy-submissions/<sha256(plan_id)>.json
    wallet,     \* the wallet of the project configuration
    \* the node and the network
    sent,       \* batches that were put on the wire for each plan
    block,      \* state of the block of each signed transaction
    \* one call of deploy() per plan
    pc,         \* its next step
    answer,     \* the body of the plan prepare() returned
    batch,      \* signed_txs
    attempt,    \* submit's loop counter
    ids,        \* pending_block_ids, as transaction numbers
    partial,    \* the submission carries an admission_error
    todo,       \* ids this sweep of wait_for_finalization still has to poll
    all_finalized,
    expired,    \* the deadline of wait_for_finalization has passed
    result      \* what the last call returned: "none", "ok" or "error"

diskVars == <<cache, wallet>>
nodeVars == <<sent, block>>
callVars == <<pc, answer, batch, attempt, ids, partial, todo, all_finalized,
              expired, result>>
vars == <<diskVars, nodeVars, callVars>>

\* Some plans ask for what the chain already holds: another client deployed it.
Init ==
    /\ cache = [p \in Plans |-> None]
    /\ wallet \in Wallets
    /\ sent = [p \in Plans |-> {}]
    /\ \E done \in SUBSET Plans, b0 \in Batches :
          block = [p \in Plans |-> [b \in Batches |-> [i \in TxIds |->
                     IF p \in done /\ b = b0 THEN "Finalized" ELSE "Unknown"]]]
    /\ pc = [p \in Plans |-> "idle"]
    /\ answer = [p \in Plans |-> None]
    /\ batch = [p \in Plans |-> None]
    /\ attempt = [p \in Plans |-> 0]
    /\ ids = [p \in Plans |-> {}]
    /\ partial = [p \in Plans |-> FALSE]
    /\ todo = [p \in Plans |-> {}]
    /\ all_finalized = [p \in Plans |-> FALSE]
    /\ expired = [p \in Plans |-> FALSE]
    /\ result = [p \in Plans |-> "none"]

-----------------------------------------------------------------------------
(* The node's view of a plan. *)

\* Every transaction of the batch is in the canonical state of the chain.
BatchFinalized(p, b) == \A i \in TxIds : block[p][b][i] = "Finalized"

\* The plan's change is in the canonical state: preparing it again finds none.
Applied(p) == \E b \in Batches : BatchFinalized(p, b)

\* The blocks the node can name in its answer to a submission.
Admitted(p, b) == {i \in TxIds : block[p][b][i] # "Unknown"}

-----------------------------------------------------------------------------
(* The steps of one call. *)

Goto(p, step) == pc' = [pc EXCEPT ![p] = step]

\* The locals of a call that has ended mean nothing: give them one value.
Forget(p) ==
    /\ answer' = [answer EXCEPT ![p] = None]
    /\ batch' = [batch EXCEPT ![p] = None]
    /\ attempt' = [attempt EXCEPT ![p] = 0]
    /\ ids' = [ids EXCEPT ![p] = {}]
    /\ partial' = [partial EXCEPT ![p] = FALSE]
    /\ todo' = [todo EXCEPT ![p] = {}]
    /\ all_finalized' = [all_finalized EXCEPT ![p] = FALSE]
    /\ expired' = [expired EXCEPT ![p] = FALSE]

Return(p, r) ==
    /\ Goto(p, "idle")
    /\ result' = [result EXCEPT ![p] = r]
    /\ Forget(p)

\* return std::unexpected(...): nothing durable changes.
Fail(p) == Return(p, "error") /\ UNCHANGED <<diskVars, nodeVars>>

Deploy(p) ==
    /\ pc[p] = "idle"
    /\ Goto(p, "prepare")
    /\ result' = [result EXCEPT ![p] = "none"]
    /\ UNCHANGED <<diskVars, nodeVars, answer, batch, attempt, ids, partial,
                   todo, all_finalized, expired>>

\* No answer, a status other than 200, or a plan that is not well formed.
PrepareFails(p) == pc[p] = "prepare" /\ Fail(p)

\* Mutant: an empty plan is taken for an invalid one.
PrepareEmpty_Invalid(p) == pc[p] = "prepare" /\ Applied(p) /\ Fail(p)

\* "transactions" is empty: the cached submission is stale, and deploy is done.
PrepareEmpty(p) ==
    /\ pc[p] = "prepare"
    /\ Applied(p)
    /\ Goto(p, "clear")
    /\ UNCHANGED <<diskVars, nodeVars, answer, batch, attempt, ids, partial,
                   todo, all_finalized, expired, result>>

PreparePlan(p) ==
    /\ pc[p] = "prepare"
    /\ ~Applied(p)
    /\ \E body \in Bodies : answer' = [answer EXCEPT ![p] = body]
    /\ Goto(p, "load")
    /\ UNCHANGED <<diskVars, nodeVars, batch, attempt, ids, partial, todo,
                   all_finalized, expired, result>>

(* load_or_create_signed_transactions.  Its mutex is left out: the calls   *)
(* of one process work on different files.                                 *)

\* ring_reference, count, payloads, sender, receiver and key are compared.
MatchesPlan(p, b) == b.body = answer[p] /\ b.wallet = wallet

\* Mutant: a file that does not match is replaced by a new submission.
HasPending_Matching(p) ==
    HasStateRoot /\ cache[p] # None /\ MatchesPlan(p, cache[p])

HasPending(p) == HasStateRoot /\ cache[p] # None

LoadPending(p) ==
    /\ pc[p] = "load"
    /\ HasPending(p)
    /\ MatchesPlan(p, cache[p])
    /\ batch' = [batch EXCEPT ![p] = cache[p]]
    /\ Goto(p, "submit")
    /\ UNCHANGED <<diskVars, nodeVars, answer, attempt, ids, partial, todo,
                   all_finalized, expired, result>>

\* A mismatch is an error and leaves the file; so does a failing read.
LoadRefuses(p) == pc[p] = "load" /\ HasPending(p) /\ Fail(p)

\* build_signed_tx for every transaction of the plan.
Sign(p) ==
    /\ pc[p] = "load"
    /\ ~HasPending(p)
    /\ \E n \in Nonces :
          batch' = [batch EXCEPT ![p] =
                       [body |-> answer[p], wallet |-> wallet, nonce |-> n]]
    /\ Goto(p, "persist")
    /\ UNCHANGED <<diskVars, nodeVars, answer, attempt, ids, partial, todo,
                   all_finalized, expired, result>>

SignFails(p) == pc[p] = "load" /\ ~HasPending(p) /\ Fail(p)

\* persist_pending_submission: a temporary file renamed over the final name.
Persist(p) ==
    /\ pc[p] = "persist"
    /\ cache' = IF HasStateRoot THEN [cache EXCEPT ![p] = batch[p]] ELSE cache
    /\ Goto(p, "submit")
    /\ UNCHANGED <<wallet, nodeVars, answer, batch, attempt, ids, partial,
                   todo, all_finalized, expired, result>>

\* The fallback removes the final name before the second rename, which may
\* fail too.
PersistFails(p) ==
    /\ pc[p] = "persist"
    /\ HasStateRoot
    /\ cache' \in {cache, [cache EXCEPT ![p] = None]}
    /\ Return(p, "error")
    /\ UNCHANGED <<wallet, nodeVars>>

\* submit: one POST of the serialized body.
Post(p) ==
    /\ pc[p] = "submit"
    /\ sent' = [sent EXCEPT ![p] = @ \cup {batch[p]}]
    /\ Goto(p, "reply")
    /\ UNCHANGED <<diskVars, block, answer, batch, attempt, ids, partial, todo,
                   all_finalized, expired, result>>

\* Mutant: one attempt too many.
Retry_OnceMore(p) ==
    /\ pc[p] = "reply"
    /\ attempt[p] < MaxAttempts
    /\ attempt' = [attempt EXCEPT ![p] = @ + 1]
    /\ Goto(p, "submit")
    /\ UNCHANGED <<diskVars, nodeVars, answer, batch, ids, partial, todo,
                   all_finalized, expired, result>>

\* Mutant: the attempts are not counted.
Retry_Forever(p) ==
    /\ pc[p] = "reply"
    /\ Goto(p, "submit")
    /\ UNCHANGED <<diskVars, nodeVars, answer, batch, attempt, ids, partial,
                   todo, all_finalized, expired, result>>

\* A transport error, or 408, 429, 502, 503, 504, with an attempt left.
Retry(p) ==
    /\ pc[p] = "reply"
    /\ attempt[p] + 1 < MaxAttempts
    /\ attempt' = [attempt EXCEPT ![p] = @ + 1]
    /\ Goto(p, "submit")
    /\ UNCHANGED <<diskVars, nodeVars, answer, batch, ids, partial, todo,
                   all_finalized, expired, result>>

\* Mutant: a failed submission is forgotten.
SubmitFails_Clears(p) ==
    /\ pc[p] = "reply"
    /\ cache' = [cache EXCEPT ![p] = None]
    /\ Return(p, "error")
    /\ UNCHANGED <<wallet, nodeVars>>

\* The last attempt failed, the status is final, or the body is not valid.
SubmitFails(p) == pc[p] = "reply" /\ Fail(p)

\* 202 with the blocks admitted so far and perhaps an admission_error.
Accepted(p) ==
    /\ pc[p] = "reply"
    /\ \E admitted \in SUBSET Admitted(p, batch[p]), error \in BOOLEAN :
          /\ ids' = [ids EXCEPT ![p] = admitted]
          /\ partial' = [partial EXCEPT ![p] = error]
          /\ Goto(p, IF admitted = {} THEN "finish" ELSE "wait")
    /\ UNCHANGED <<diskVars, nodeVars, answer, batch, attempt, todo,
                   all_finalized, expired, result>>

\* wait_for_finalization: the head of the while loop.
StartSweep(p) ==
    /\ pc[p] = "wait"
    /\ ~expired[p]
    /\ todo' = [todo EXCEPT ![p] = ids[p]]
    /\ all_finalized' = [all_finalized EXCEPT ![p] = TRUE]
    /\ Goto(p, "poll")
    /\ UNCHANGED <<diskVars, nodeVars, answer, batch, attempt, ids, partial,
                   expired, result>>

WaitTimesOut(p) == pc[p] = "wait" /\ expired[p] /\ Fail(p)

\* The clock: only the head of the loop looks at it.
DeadlinePasses(p) ==
    /\ pc[p] \in {"wait", "poll"}
    /\ ~expired[p]
    /\ expired' = [expired EXCEPT ![p] = TRUE]
    /\ UNCHANGED <<diskVars, nodeVars, pc, answer, batch, attempt, ids,
                   partial, todo, all_finalized, result>>

\* The loop polls the ids in order.
Next1(S) == CHOOSE i \in S : \A j \in S : i <= j

PollSees(p) == block[p][batch[p]][Next1(todo[p])]

PollContinues(p) ==
    /\ pc[p] = "poll"
    /\ todo[p] # {}
    /\ PollSees(p) \notin {"Rejected", "Expired"}
    /\ all_finalized' =
          [all_finalized EXCEPT ![p] = @ /\ PollSees(p) = "Finalized"]
    /\ todo' = [todo EXCEPT ![p] = @ \ {Next1(@)}]
    /\ UNCHANGED <<diskVars, nodeVars, pc, answer, batch, attempt, ids,
                   partial, expired, result>>

PollRejected(p) ==
    /\ pc[p] = "poll"
    /\ todo[p] # {}
    /\ PollSees(p) \in {"Rejected", "Expired"}
    /\ Fail(p)

\* get_pending_status has no retry: one failing request ends the wait.
PollFails(p) == pc[p] = "poll" /\ todo[p] # {} /\ Fail(p)

EndSweep(p) ==
    /\ pc[p] = "poll"
    /\ todo[p] = {}
    /\ Goto(p, IF all_finalized[p] THEN "finish" ELSE "wait")
    /\ all_finalized' = [all_finalized EXCEPT ![p] = FALSE]
    /\ UNCHANGED <<diskVars, nodeVars, answer, batch, attempt, ids, partial,
                   todo, expired, result>>

\* Mutant: the number of admitted blocks is not compared.
Complete_AnyCount(p) == ~partial[p]

\* The checks of deploy() on the submission it has waited for.
Complete(p) == ~partial[p] /\ Cardinality(ids[p]) = NumTx

FinishOk(p) ==
    /\ pc[p] = "finish"
    /\ Complete(p)
    /\ Goto(p, "clear")
    /\ UNCHANGED <<diskVars, nodeVars, answer, batch, attempt, ids, partial,
                   todo, all_finalized, expired, result>>

FinishIncomplete(p) == pc[p] = "finish" /\ ~Complete(p) /\ Fail(p)

\* clear_pending_submission: failing to remove the file is only a warning.
Clear(p) ==
    /\ pc[p] = "clear"
    /\ cache' \in {cache, [cache EXCEPT ![p] = None]}
    /\ Return(p, "ok")
    /\ UNCHANGED <<wallet, nodeVars>>

-----------------------------------------------------------------------------
(* The process dies: every call is lost, the files stay. *)

Crash ==
    /\ pc' = [p \in Plans |-> "idle"]
    /\ answer' = [p \in Plans |-> None]
    /\ batch' = [p \in Plans |-> None]
    /\ attempt' = [p \in Plans |-> 0]
    /\ ids' = [p \in Plans |-> {}]
    /\ partial' = [p \in Plans |-> FALSE]
    /\ todo' = [p \in Plans |-> {}]
    /\ all_finalized' = [p \in Plans |-> FALSE]
    /\ expired' = [p \in Plans |-> FALSE]
    /\ result' = [p \in Plans |-> "none"]
    /\ UNCHANGED <<diskVars, nodeVars>>

\* Between two commands the user may log in with another wallet.
Login ==
    /\ \A p \in Plans : pc[p] = "idle"
    /\ wallet' \in Wallets
    /\ UNCHANGED <<cache, nodeVars, callVars>>

-----------------------------------------------------------------------------
(* The node.  It admits what was sent, at any time and in any order, and    *)
(* recognizes a signed transaction it already knows.                       *)

NodeAdmits(p, b, i) ==
    /\ b \in sent[p]
    /\ block[p][b][i] = "Unknown"
    /\ block' = [block EXCEPT ![p][b][i] = "Pending"]
    /\ UNCHANGED <<diskVars, sent, callVars>>

NodeDecides(p, b, i, s) ==
    /\ block[p][b][i] \in {"Pending", "CommitUncertain"}
    /\ block' = [block EXCEPT ![p][b][i] = s]
    /\ UNCHANGED <<diskVars, sent, callVars>>

NodeFinalizes(p, b, i) == NodeDecides(p, b, i, "Finalized")

NodeHesitates(p, b, i) ==
    block[p][b][i] = "Pending" /\ NodeDecides(p, b, i, "CommitUncertain")

NodeRejects(p, b, i) ==
    MayReject /\ \E s \in {"Rejected", "Expired"} : NodeDecides(p, b, i, s)

-----------------------------------------------------------------------------
CallStep(p) ==
    \/ PrepareFails(p) \/ PrepareEmpty(p) \/ PreparePlan(p)
    \/ LoadPending(p) \/ LoadRefuses(p) \/ Sign(p) \/ SignFails(p)
    \/ Persist(p) \/ PersistFails(p)
    \/ Post(p) \/ Retry(p) \/ SubmitFails(p) \/ Accepted(p)
    \/ StartSweep(p) \/ WaitTimesOut(p)
    \/ PollContinues(p) \/ PollRejected(p) \/ PollFails(p) \/ EndSweep(p)
    \/ FinishOk(p) \/ FinishIncomplete(p) \/ Clear(p)

NodeStep(p) ==
    \E b \in Batches, i \in TxIds :
        \/ NodeAdmits(p, b, i)
        \/ NodeFinalizes(p, b, i)
        \/ NodeHesitates(p, b, i)
        \/ NodeRejects(p, b, i)

Next ==
    \/ \E p \in Plans : Deploy(p) \/ CallStep(p) \/ DeadlinePasses(p) \/ NodeStep(p)
    \/ Crash
    \/ Login

Spec == Init /\ [][Next]_vars

-----------------------------------------------------------------------------
(* Safety. *)

TypeOK ==
    /\ cache \in [Plans -> Batches \cup {None}]
    /\ wallet \in Wallets
    /\ sent \in [Plans -> SUBSET Batches]
    /\ block \in [Plans -> [Batches -> [TxIds -> BlockStates]]]
    /\ pc \in [Plans -> Steps]
    /\ answer \in [Plans -> Bodies \cup {None}]
    /\ batch \in [Plans -> Batches \cup {None}]
    /\ attempt \in [Plans -> 0..(MaxAttempts - 1)]
    /\ ids \in [Plans -> SUBSET TxIds]
    /\ partial \in [Plans -> BOOLEAN]
    /\ todo \in [Plans -> SUBSET TxIds]
    /\ all_finalized \in [Plans -> BOOLEAN]
    /\ expired \in [Plans -> BOOLEAN]
    /\ result \in [Plans -> {"none", "ok", "error"}]

\* deploy() reports success only when the whole change of the plan is in the
\* canonical state of the chain: a partial admission, a block in doubt or a
\* rejected one is never taken for success (DeployClient.cpp:545-738).
SuccessMeansFinalized == \A p \in Plans : result[p] = "ok" => Applied(p)

\* However often a plan is retried, in this run of the program or after it
\* died, every request for it carries the same signed transactions: a plan is
\* never signed twice on the wire (DeployClient.cpp:197-299).
OneSubmissionPerPlan ==
    \A p \in Plans : \A b1, b2 \in sent[p] : b1 = b2

\* What may still take effect can be resumed: as long as the batch that went
\* on the wire is not wholly finalized its file is on disk.
PendingIsDurable ==
    \A p \in Plans : \A b \in sent[p] :
        cache[p] = b \/ BatchFinalized(p, b)

-----------------------------------------------------------------------------
(* Inductive invariants: the safety properties above and what they rest on. *)

\* The locals a call has by the step it has reached.
LocalsInv ==
    \A p \in Plans :
        /\ pc[p] = "load" => answer[p] \in Bodies
        /\ pc[p] \in {"persist", "submit", "reply", "wait", "poll", "finish"}
              => batch[p] \in Batches

\* What a call has observed by then.
Observed(p) ==
    /\ pc[p] = "poll" => \A i \in ids[p] \ todo[p] :
          all_finalized[p] => block[p][batch[p]][i] = "Finalized"
    /\ pc[p] = "finish" => \A i \in ids[p] :
          block[p][batch[p]][i] = "Finalized"
    /\ pc[p] = "clear" => Applied(p)
    /\ result[p] = "ok" => Applied(p)

TypeInv == TypeOK /\ LocalsInv

SuccessInv == TypeInv /\ \A p \in Plans : Observed(p)

Touched(p, b) == \E i \in TxIds : block[p][b][i] # "Unknown"

\* How the file, the wire and the node agree when there is a file.
Agreed(p) ==
    /\ pc[p] \in {"submit", "reply", "wait", "poll", "finish"}
          => cache[p] = batch[p]
    /\ pc[p] = "persist" => cache[p] = None
    /\ pc[p] \in {"load", "persist", "submit"} /\ sent[p] = {} => ~Applied(p)
    /\ pc[p] \in {"load", "persist"} /\ cache[p] = None => sent[p] = {}
    /\ \A b \in Batches : Touched(p, b) =>
          b \in sent[p] \/ (sent[p] = {} /\ BatchFinalized(p, b))
    /\ \A b1, b2 \in sent[p] : b1 = b2
    /\ \A b \in sent[p] :
          cache[p] = b \/ (cache[p] = None /\ BatchFinalized(p, b))
    /\ pc[p] \in {"reply", "wait", "poll", "finish"} => batch[p] \in sent[p]

DurableInv == SuccessInv /\ \A p \in Plans : Agreed(p)

-----------------------------------------------------------------------------
(* The call as its caller sees it. *)

phaseBar == [p \in Plans |-> IF pc[p] = "idle" THEN result[p] ELSE "running"]
requestedBar == [p \in Plans |-> sent[p] # {}]
effectsBar == [p \in Plans |-> {b \in Batches : BatchFinalized(p, b)}]

Service == INSTANCE DeployService WITH
    Effects <- Batches,
    phase <- phaseBar,
    requested <- requestedBar,
    effects <- effectsBar

\* The client implements the service: success implies the effect, and no
\* sequence of retries and crashes makes a plan take effect twice.
ImplementsService == Service!Spec

-----------------------------------------------------------------------------
(* How long a call may take. *)

\* What is between a call and its return, a poll, a request or the deadline
\* being one step each, if no sweep ends undecided.
StepsLeft(p) ==
    IF pc[p] \in {"wait", "poll"} THEN
         IF pc[p] = "poll" THEN Cardinality(todo[p]) + (IF expired[p] THEN 4 ELSE 5)
         ELSE IF expired[p] THEN 3 ELSE NumTx + 6
    ELSE IF pc[p] \in {"submit", "reply"} THEN
         NumTx + 2 * (MaxAttempts - attempt[p]) + (IF pc[p] = "submit" THEN 6 ELSE 5)
    ELSE IF pc[p] \in {"prepare", "load", "persist"} THEN
         NumTx + 2 * MaxAttempts + (IF pc[p] = "prepare" THEN 9
                                    ELSE IF pc[p] = "load" THEN 8 ELSE 7)
    ELSE IF pc[p] = "finish" THEN 2
    ELSE IF pc[p] = "clear" THEN 1 ELSE 0

Progress(p) == <<pc[p], attempt[p], todo[p], expired[p]>>

\* Every step of a call of deploy() brings it nearer to its return, but for a
\* sweep that ends undecided before the deadline: requests are counted, no id is
\* polled twice in a sweep, and the deadline is final (DeployClient.cpp:388-430,
\* 560-608).
CallsRunDown ==
    [][\A p \in Plans :
          \/ pc[p] = "idle" \/ UNCHANGED Progress(p)
          \/ StepsLeft(p)' < StepsLeft(p)
          \/ pc[p] = "poll" /\ pc'[p] = "wait" /\ ~expired[p] /\ ~expired'[p]]_vars

-----------------------------------------------------------------------------
(* Liveness. *)

\* The threads of the process run, and time passes.
CallFairness ==
    \A p \in Plans : WF_vars(CallStep(p)) /\ WF_vars(DeadlinePasses(p))

FairSpec == Spec /\ CallFairness

\* Every call of deploy() returns, whatever the node and the network do: the
\* attempts of submit are counted and the wait has a deadline.
EveryCallReturns == \A p \in Plans : (pc[p] # "idle") ~> (pc[p] = "idle")

\* The user runs deploy again and again, the process does not always die at
\* the same step, an operation that is tried for ever works in the end, and
\* the node settles what it was sent.
RetryFairness ==
    \A p \in Plans :
        /\ WF_vars(Deploy(p))
        /\ SF_vars(PreparePlan(p)) /\ SF_vars(PrepareEmpty(p))
        /\ SF_vars(LoadPending(p)) /\ SF_vars(Sign(p)) /\ SF_vars(Persist(p))
        /\ SF_vars(Post(p)) /\ SF_vars(Clear(p))
        /\ \A b \in Batches, i \in TxIds :
              WF_vars(NodeAdmits(p, b, i)) /\ WF_vars(NodeFinalizes(p, b, i))

RetrySpec == Spec /\ CallFairness /\ RetryFairness

\* Retrying reaches success: lost answers, partial admissions, timeouts and
\* crashes never leave a plan in a state from which deploying it again fails
\* for ever.
RetriesSucceed == \A p \in Plans : <>(result[p] = "ok")
=============================================================================
