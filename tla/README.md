# A TLA+ model of utx

`utx` is a command-line program that deploys the files of a working copy to the
chains of a Utopixia node.  This directory holds TLA+ modules that model it,
the TLC configurations that check them, and proofs that TLAPS checks.  Every
definition is translated from the code; `PROJECT.json` names, for each one, the
lines it stands for.

## The system

| component | source | state | operations | status |
| --- | --- | --- | --- | --- |
| deploy client | `infrastructure/deploy_config/DeployClient.*` | `.utx/pending-deploy-submissions/*.json`, locals of a call | prepare, sign, store, submit with retries, poll, clear | modelled, proved |
| deploy command | `use_case/DeployCommand.hpp` | the manifest in memory, work list, failed paths | check, read, parallel deploy, save, publish, unstage | modelled, proved |
| add, reset | `use_case/AddCommand.hpp`, `ResetCommand.hpp` | manifest, selection | upsert targets and stage; forget hashes and stage all | modelled, proved |
| manifest and selection | `DeployConfig.hpp`, `StagingManager.hpp` | `.utx.deploy.json`, `.utx/staging.json` | load, replace by rename | partly |
| thread pool | `common/ThreadPool.hpp` | queue, stop flag, sleeping workers | enqueue, take, run, stop, join | modelled, proved |
| init, context, main, login, logout, identity | `InitCommand.hpp`, `AppContext.hpp`, `main.cpp`, `LoginCommand.hpp`, `IdentityCommand.hpp` | `.utx/config.json`, wallet files and their temporary files | load, generate the deploy chain, check, write and rename, save in place | modelled, proved |
| download | `DownloadCommand.hpp` | manifest, files, configuration | fetch, rebuild in parallel, write, report | modelled, proved |
| JavaScript machines | `VmPool.hpp`, `SandboxedVm.hpp`, `JsExecutor.hpp` | pool, leases, functions and timer of a machine | lease, evaluate, call, interrupt, release | modelled, proved |
| graph | `domain/graph/*` | tree of elements, index by id | add, insert, move, remove, look up; encode and decode actions | partly; tree and codec proved |
| ignore rules, status | `IgnoreManager.hpp`, `IgnoreCommand.hpp`, `StatusCommand.hpp` | `.utxignore` | init, add, match, walk | modelled; status partly |
| chain access | `NetworkClient.hpp`, `TxManager.hpp` | none | page through a segment; single requests | partly; paging proved |
| generators | `infrastructure/languages` | none | render a graph to source | partly (JavaScript expressions) |
| crypto, domain values | `OpenSSLCryptoService.cpp`, `AtomicBlock.hpp`, `Attestation.hpp` | none | sign, hash, verify; JSON | partly; verification proved |
| chain, graph, api commands | `ChainCommand.hpp`, `GraphCommand.hpp`, `ApiCommand.hpp` | none of their own | thin commands | not modelled |

How they interact: `main` builds a context from the files, runs one command and
exits.  `utx deploy` gives each modified file to a task of a thread pool; each
task calls the deploy client, which talks HTTP to the node; the tasks write the
results into the shared manifest under a mutex; the command then saves the
manifest, deploys it like a file to the deploy chain, and empties the selection.
Nothing but the files survives a process, and nothing locks them.

What is hard here: the answer of a submission may be lost after the node took it,
and the signatures hold fresh random nonces, so a retry that signs again is a
second deployment; a plan may be admitted in part; blocks may stay in doubt and
finalize after the client gave up, files and manifests alike; the process may die
between any two of the writes, and some writes fail unnoticed; tasks fail one by
one; the user edits files meanwhile; the network may be reinitialized; two
processes may work on one wallet or one configuration; a machine that runs scripts
remembers its earlier users.  `PROJECT.json` lists these hazards with their lines
and the properties that watch them, or why none does.

What makes each component correct:

* deploy client: success implies finalized; one signed batch per plan; the batch
  on disk as long as it matters; every call ends; retrying ends in success.
* deploy, add, reset: a synchronized hash is true; the selection only names
  tracked paths; a path leaves it only when its content is on its chain; the
  manifest sent to the deploy chain is never partial, and what the chain holds is
  true; retrying empties the selection.
* thread pool: no task lost or run twice; all run before the scope is left; no
  lost wakeup.
* graph: tree shape, unique names, ids that follow paths, index and tree agree.
* download: the report is true, only what was fetched replaces a file, and
  downloading again repairs what an interrupted download left.
* wallets and configuration: a key that was submitted is not lost, a session names
  a wallet that exists, the deploy chain of a project stays while its saves succeed.
* machines: each in one place, no session fails for another one's sake, no release
  goes unnoticed by those who wait.
* pure algorithms: what is printed, encoded, paged, matched or signed is what a
  definition of its own says.

## The modules

### DeployClient, DeployService, DeployClientProofs

`DeployClient` models a call of `DeployClient::deploy` for each plan, step by
step; `pc[p]` is the next step and the other per-call variables are the locals
of `deploy`, `submit` and `wait_for_finalization` under their names.

| code | module |
| --- | --- |
| `prepare` and the checks of the plan | `PreparePlan`, `PrepareEmpty`, `PrepareFails` |
| `load_or_create_signed_transactions` | `LoadPending`, `LoadRefuses`, `Sign`, `SignFails` |
| `persist_pending_submission` | `Persist`, `PersistFails` |
| `submit` | `Post`, `Retry`, `SubmitFails`, `Accepted` |
| `wait_for_finalization` | `StartSweep`, `PollContinues`, `PollRejected`, `PollFails`, `EndSweep`, `DeadlinePasses`, `WaitTimesOut` |
| last checks of `deploy`, `clear_pending_submission` | `FinishOk`, `FinishIncomplete`, `Clear` |

`cache[p]` is the pending file of plan `p`.  A batch of signed transactions is
what tells one from another: the plan's body, the wallet and the nonces.  Serialized
JSON, hashes and signatures are left out.

The node is external and modelled from how the client uses it: it admits each
transaction of what was sent at any later time (`NodeAdmits`), decides in any
order (`NodeFinalizes`, `NodeHesitates`, `NodeRejects`), answers a submission
with any part of what it has admitted, and answers `prepare` with an empty plan
exactly when a batch of the plan is in the canonical state.  The last point is
an assumption about the node: a plan id stands for one change of a chain.  Lost
requests and lost answers need no action of their own: a request that is never
admitted, and `Retry` or `SubmitFails` after one that was.

`DeployService` is what a caller may rely on: `ok` only after the plan took
effect, which happens at most once and only after it was requested.
`DeployClient` implements it (`ImplementsService`): `phaseBar`, `requestedBar` and
`effectsBar` read `phase`, `requested` and `effects` off `pc`, `result`, `sent` and
`block`.

Bounds: two transactions suffice for partial admission and for a sweep that sees
blocks in different states; `MaxAttempts` is the code's four in `DeployClient.cfg`
and two elsewhere; two wallets and two bodies make a stored batch mismatch; two
nonces tell two signatures apart.  One plan is enough: the steps of a call touch
their own plan only, except `Crash`, which ends all calls alike, and `Login`, which
needs them ended; the proofs are for any set of plans.

### Project, MCProject, ProjectProofs

`Project` models a working copy and `utx add`, `utx reset`, `utx deploy`, `utx
init`.  `manifest` and `staging` are the two files; `cfg` is the manifest in
memory (`ctx_.deploy_config`); `sel` is the list of paths a command will write
back; `seen` the contents it has read; `task` the state of each task.

| code | module |
| --- | --- |
| `AddCommand::execute`, `upsert_target` | `Add`, `Upsert` |
| `ResetCommand::execute` | `Reset` |
| `DeployCommand::execute`: checks, loop over files | `Deploy` (`Deployable`), `ReadFile`, `StartTasks` |
| the task lambda | `TaskSends`, `TaskSucceeds`, `TaskFails` |
| `future.get()` loop | `JoinTasks` |
| `save_deploy_config_atomic` | `SaveManifest`, `SaveManifestFails` |
| `deploy_manifest` | `PublishSends`, `Publish`, `PublishFails` |
| `StagingManager::save` | `SaveStaging`, `SaveStagingFails` |
| `InitCommand::execute` | `InitProject` |

A command that refuses to start changes nothing and is not a step.  A content
stands for its md5 too.  Of the deploy client only what `DeployService` promises is
used, by a task as by the publication: a call sends (`TaskSends`, `PublishSends`),
may fail at any time after (`TaskFails`, `PublishFails`, `Crash`), and what it sent
may take effect while it waits, or long after (`Finalize`, `FinalizeManifest`); it
succeeds when it did (`TaskSucceeds`, `Publish`).  That `DeployClient` keeps this
promise is `ImplementsService`.  `offered` holds the manifests that were submitted
and may still take effect, `published` the one that the deploy chain shows, and
`landed` says that the manifest of the running command was there while it waited:
afterwards an older one, whose publication timed out, may replace it.  So
`UnstagedMeansPublished` says that the manifest has taken effect during the deploy
that empties the selection, and not that it is the last to do so; that no manifest
that can still come is partial, or untrue, is `NoPartialManifest` (about what is
submitted) and `PublishedIsTruthful` (about all of `offered` and `published`).
`finalized` is the history of each chain on the current network, which is what
`last_synced_hash` speaks of; which content a chain shows now is not modelled.
A target without a chain, which the manifest of a cloned repository may hold
(`Legacy`), is given one by `utx add` as an untracked file is (`ChainOf`).  An
exception that leaves a command has the effect of `Crash`.  `Faults` switches
the environment's rarer steps on: removed files, a lost manifest, a new network.
The deploy chain is one here; how the configuration may lose its id is in `Session`.

Bounds: two files with two contents and two chain ids cover one task that fails
beside one that succeeds, and an edit at any step (`Project.cfg`, reduced by the
symmetry of contents and chains, which are only compared).  `Edited` has one of the
files, the other one being the task that fails or succeeds beside it; `MaxLate` is
one older manifest that may come late beside the one just submitted, enough for
every order of two.  Moving targets
between chains and kinds concerns one path, so `ProjectRebind.cfg` has one, with
every fault.  In `ProjectConverges.cfg` both files have the same content and may go to
one chain, so that two tasks of one deploy have the same plan, and one may fail while
the other succeeds.

### ThreadPool, TaskRunner, ThreadPoolProofs

The worker loop, `enqueue` and the destructor, with the mutex and the condition
variable as such, and the caller that both `utx deploy` and `utx download` are:
enqueue everything, get every future, leave the scope.  A task may throw; then
the caller leaves the scope at once.  The critical section that sets `stop_` is
one step that needs the mutex free.  Bounds: three workers and four tasks, so
that tasks outnumber workers and workers outnumber tasks at different times.

`TaskRunner` is what a command may rely on: tasks start in the order of enqueue, at
most as many at a time as there are workers, and the scope is left behind the last
of them.  `ThreadPool` implements it (`ImplementsRunner`): `stateBar` reads the state
of a task off the queue, the workers' hands (`job`) and `outcome`; `scopeBar` is open
until the destructor returns.  `NoWakeupLost` is what the condition variable is for,
as a condition on a state: while a worker sleeps, each queued task has a worker of
its own that will look at the queue before it sleeps (`OnTheirWay`), or its
notification is still to be sent.

### GraphTree, MCGraphTree, GraphTreeProofs

`GraphTree` models the elements of a graph and its index.  An id stands for the
path md5 is taken of.  `Attach` is what `add_child`, `insert_child_at` and
`move_child_in` have in common: a free name, parent, owner, ids of the subtree,
registration.  `Move` follows the iterators of `move_child_before` and
`move_child_after` after the erase: using them is undefined in C++, and what the
standard libraries' release builds make of it is the address of the next child, or
the end.  `Init` is a graph made by its constructor, which owns its root, or by
`parse_from`, whose root nobody owns.  `PathOf`, `SubtreeOf` and `AttachedIn` walk the tree for a
number of steps, since nothing in a graph of pointers says that a walk ends; that
as many steps as elements suffice is proved.  The path cache (invariant #4) is left out:
every operation that computes ids invalidates it first for the same elements.
Callers are taken to add only elements that have no place yet, never to put one
below itself and never to edit a removed subtree, which keeps its old parent and
owner (`MayAdd`, `Attached`): the code checks none of it, and no code in the
repository does otherwise.  The names that callers give are a parameter
(`GivenNames`), a text without a slash each, split into a base and the numbers after
it; a parsed graph may bring names with slashes (`from_json_object`), of which
different paths may be the same text and so have the same id.  Calls that find no child of the given id change nothing
and are not steps.

Bounds: three elements besides the root make siblings, a grandchild and a move
between two parents; given names that look like generated ones make the numbering
skip; `MaxSuffix` is one number per name; `MaxIndex` leaves room for one stale
entry with the whole tree registered and more with a smaller one.

### Session, MCSession, SessionProofs

`Session` models what `utx init`, `login`, `logout`, `api set` and `identity
create` do to the wallets and to `.utx/config.json`, for any number of processes
in one working copy.  `at[p]` is the next step of process `p`, `cfg[p]` its
`ctx_.config`, `path[p]` and `key[p]` the wallet it works on and the key it has.

| code | module |
| --- | --- |
| dispatch in `main`, `AppContext::load`, `ensure_deploy_chain` | `Start`, `Load`, `OpenConfig`, `WriteConfig` |
| refusals before a command | `Check` |
| `InitCommand::execute` | `OpenManifest`, `WriteManifest`, then the configuration |
| `LoginCommand` by wallet, by key file | `LookAtLogin`; `LookAtImport`, `WriteTmp`, `Rename`, `RenameFails` |
| `IdentityCommand` create | `LookAtCreate`, `WriteTmp`, `Rename`, `RenameFails`, `Deploy`, `DeployFails` |
| `save_local_config` (truncate, write, neither checked) | `OpenConfig`, `WriteConfig` with `Saved`, `SaveFails` |

`sent[w]` records the keys that were submitted for the wallet `w`, `replaced` the
wallets that lost their content to another key or to a failing rename, `lastChain`
and `torn` the last deploy chain that was written whole and whether a later save was
cut off, `alone[p]` whether no other process ran beside `p`.  A save may fail when
the file is opened, which leaves it as it was, or when it is written, which leaves
it torn; the command goes on either way (`AfterSave`).  Two processes that write at
once may mix their texts.  A torn configuration reads as none, so the next command
generates another deploy chain and saves it.  These are history: no action reads them
but to choose a chain or a key nobody had, which stands for randomness.  What a
command does besides (the graph of an identity, the API target) is left out; a
command that only needs the checks is `other`.

Bounds: two processes, since every race is one of two; two wallets, one of them the
path that an import overwrites; three commands let two race after a first one or
before a third.

### Download, MCDownload, DownloadProofs

`Download` models `utx download`: `FetchManifest`, `SaveManifest`, one task per
target, `Join`, `OpenConfig` and `WriteConfig`, `Report`.

| code | module |
| --- | --- |
| `reconstruct_target` and the loop over the manifest | `Reconstruct` |
| `save_deploy_config_atomic` | `SaveManifest`, `SaveManifestFails` |
| the task lambda | `Begin`, `Fetch`, `Register`, `Rendered`, `Open`, `Write` and their failures |
| `future.get()` loop | `Join`; `Terminate` when a task threw |
| `save_local_config` | `OpenConfig`, `WriteConfig`, `WriteConfigFails` |
| report and exit code | `Failed`, `Report` |

The thread pool is `NumWorkers` tasks at a time, begun in the order of the manifest.
The caller of `ThreadPool` leaves the scope when a task threw; the one of `Download`
ends the process (`Terminate`), for the reason given under *Observations*.  A
generator of JavaScript registers its handlers in one map of the process without a
lock: when two are at it, what both render is anything (`"race" \in unseen`).
`unseen` also records a stream that failed when it was closed (`"close"`) and a
configuration that could not be written (`"config"`), neither of which the code
looks at.  `ReportIsTrue` says in each of its parts which of them it excepts: that
the targets reported as restored were fetched, and that success means no failure,
hold in spite of all three; that a file holds what was fetched holds without a race
and a failing close, that the configuration does, without its own failure.  That is
the exact limit of what the report is worth.  The environment changes chains and
manifests at any step, and the process may die at any step.

Bounds: two targets and two workers make a task fail or throw beside one that
works, and two generators at once; the boards contain a script beside a page, a
target without a chain and a kind nobody knows, and name the files in both orders.

### VmPool, MCVmPool, VmPoolProofs

The pool of machines with its mutex and condition variable, the sessions that
lease one, and what a machine keeps between two operations: `fns`, the functions
that were evaluated on it, and `old`, whether more than `timeout_ms` passed since
its timer was set.  `Take`, `Sleep`, `SpuriousWakeup` and `Push` are `acquire` and
`release_`; `Ask`, `Assign` and `EndSession` create, replace and destroy a session;
`Begin`, `NotFound`, `Returns` and `Breaks` run code.  `NoWakeupLost` is as in
`ThreadPool`, with the machines of the pool for the tasks.  `evaluated` and `late` are
history, for `FailsOnItsOwn`.  `call_function_json` does not set the timer, may be
interrupted at once for an earlier operation, and is excepted from the property.
Globals that a session leaves behind and the memory limit, which its successors
share, are not modelled: a script may fail for them, and no property says otherwise.
That everyone who asks gets a machine in the end is not claimed.  `acquire` has no
queue, so a thread that was notified may lose to newcomers again and again; and one
that replaces its session asks for a second machine while it holds the first, so
that threads that all do can wait for each other for ever.

These classes are a library without a user: nothing in the repository creates or
replaces a session, `JsExecutor.hpp` includes a header that is not there
(`domain/port/IScriptVm.hpp`), and `CMakeLists.txt` does not name QuickJS.  Sessions
are modelled as their interface allows.

Bounds: three threads on two machines, so that one waits while two hold, and two
hold while they ask; one function, since functions do not interact.

### Values, Sources and the pure algorithms: JsPrinter, IgnoreRules, ActionCodec, ChainSegment, BlockCheck

Each of these modules translates an algorithm of the code and states beside it the
definition it is checked against.  `Values` puts four of them on tables of inputs: a
behaviour picks one input, an invariant compares.  `Sources` adds the fifth, the
printer, whose parser is recursive in a way the prover cannot use; `MCSources` has
the tables.  They are in one run since each is one question over one table.

| module | code | against |
| --- | --- | --- |
| `JsPrinter` | precedence, parentheses and statement printers of `JsGenerator.cpp` | a parser of the printed text, which must give the tree back; the two semicolons of a for header |
| `IgnoreRules` | `.utxignore`: `init`, `add`, reading, glob matching; the walk of `status` | the list of files a user expects: the last matching pattern decides, an ignored directory hides its files |
| `ActionCodec` | batching into groups, encoding into block data, reading | the plan itself |
| `ChainSegment` | paging of `get_chain_segment` over a growing chain | the range asked for |
| `BlockCheck` | transaction, sealed block, JSON, hash, `verify_*` | acceptance of the untouched block, and of one with any field changed only where the change is one of spelling |

What each of these properties is conditional on:

* `PrintedIsParsed`: a tree of which two equal signs meet, and a tree of binary
  operators without nodes for its parentheses that mixes `??` with `||` or `&&`, are
  excepted.  A for header has its two semicolons exactly when its update is no
  statement and neither of its first two parts is a declaration that prints a
  semicolon of its own: a `LexicalDeclaration` marked as a statement, a
  `VariableStatement`, a `VariableDeclaration` (`EndsItself`).  Which of these a
  deployed graph has as a part of a header is up to the parser of the node.
* `WalkTracksRight`: the file is one that `utx ignore` wrote.  What `init` writes
  besides the defaults, `.env` and `.idea`, counts among the rules.
* `SegmentIsComplete`: what is returned is a prefix of the range asked for, whatever
  the node answers.  It is as long as the chain was at the first request only if the
  node fills its pages, since a shorter one ends the loop as if the chain ended; and
  the loop ends if no page starts a whole page before the cursor, since one that does
  is asked for again for ever.  `PickSegment` has nodes of all these kinds.
* `BlockIsAuthentic`: one field is changed.  Hexadecimal text has several spellings of
  the same bytes (`hex_to_bytes` takes either case, and `1g` for `01`), and there is
  more than one signature of a hash by a key; a key or a signature is its bytes and a
  spelling.  Which changes are accepted is stated exactly: those of the spelling of
  the leader's signature or of an attestation, the only texts that nothing hashes
  (`BytesOf`).  `calculate_hash` puts its fields side by side without a separator, so
  that two blocks that differ in several fields may have one hash; they are not
  compared.

A hash is the text that is hashed and a signature the pair of key and hash:
no collisions of SHA-256, and nobody signs without the key.  The tables hold trees of depth
three over one operator of each precedence and associativity, two patterns of each
shape the matcher distinguishes, three actions in groups of up to two, chains of up
to five blocks that grow between requests, in pages of one or two that start up to
five blocks early, and blocks with up to two attestations.

## The runs

| run | shows |
| --- | --- |
| `deploy_client` | the safety of one plan, the implementation of `DeployService`, and that every call returns |
| `deploy_client_retry` | retrying reaches success |
| `project` | safety of add, reset and deploy under failures, crashes, edits and late effects of files and manifests |
| `project_rebind` | the hashes across other chains, kinds, networks and a lost manifest |
| `project_converges` | repeating `utx deploy` empties the selection, also when two tasks have one plan |
| `project_delete` | *violation*: a file removed after the check is dropped silently |
| `thread_pool` | no task lost, repeated or left behind; no lost wakeup; the pool implements `TaskRunner` |
| `graph_tree` | tree shape, ids, names and index through any sequence of operations |
| `session` | keys, wallets, sessions and the deploy chain across two processes, crashes and saves that fail |
| `download` | the report of a download is true as far as it goes, files are safe, downloading again makes the working copy that of the network |
| `vm_pool` | machines are neither lost nor shared, sessions do not disturb each other, no release is lost on a waiter |
| `values` | the pure algorithms on their tables |

Deadlock is checked in every run but three: in `session`, `vm_pool` and `values` a
bound on commands, sessions or inputs ends the behaviours.  `PROJECT.json` has for
each property a mutant: a plausible mistake in one definition, kept beside the
definition it replaces, under which TLC finds the property violated.

Of the type invariants only that of `DeployClient` is in a run; the others, like
`CallsRunDown`, are proved for all instances and left to the proofs.

### Fairness

* `EveryCallReturns`: the threads of the process are scheduled (weak fairness of
  `CallStep`) and time passes (`DeadlinePasses`); nothing is asked of the node.
  The code justifies it: every request has a timeout and every loop a bound.
* `RetriesSucceed`: the user runs deploy again, and a step that is tried
  infinitely often (a request, a write) works some time: strong fairness of the
  successful outcomes; crashes may go on for ever.  The node settles what it was
  sent and rejects nothing.
* `DeployConverges`: things stop going wrong some time (`<>[][~Setback]_vars`)
  and the user only runs deploy from then on; weak fairness of the steps, and of the
  network, which settles a file that was sent and the manifest that a command waits
  for.  That crashes stop is needed here, since a run must finish all its tasks to
  save.
* `CallerGetsThrough`: threads are scheduled, and one that waits for the mutex
  gets it if it is free again and again (strong fairness of the lock).  No
  spurious wakeup is relied on.
* `DownloadConverges`: as for `DeployConverges`, the user downloads again and things
  stop going wrong some time, a race of two generators being one of these things; the
  chains the manifest names can be fetched from some time on (`Servable`).  Then
  manifest, files and configuration are those of the network (`Restored`) again and
  again.

## The proofs

`DeployClientProofs` proves, for any sets of plans, bodies, wallets and nonces and
any numbers of transactions and attempts:

* `TypeCorrect`: `Spec => []TypeOK`.
* `SuccessIsFinal`: `Spec => []SuccessMeansFinalized`.
* `SignedOnce`: with a state directory, `Spec => []OneSubmissionPerPlan`.
* `Resumable`: with a state directory, `Spec => []PendingIsDurable`.
* `ServiceImplemented`: with a state directory, `Spec => ImplementsService`.
* `CallsReturnInBound`: `Spec => CallsRunDown`.

They rest on three inductive invariants, each including the one before it.
`TypeInv` adds to the types that a call past a step has the locals of that step.
`SuccessInv` adds what the call has observed (`Observed`): in a sweep, everything
already polled is final if `all_finalized` still holds, which is what the code's
loop invariant is.  Its step needs that a finalized block stays so
(`FinalizedStable`) and that a set of `NumTx` numbers in `1..NumTx` is all of them
(`FullSubmission`).  `DurableInv` adds the agreement of file, wire and node
(`Agreed`): a call past `persist` works on the batch in the file, a call about to
sign has sent nothing before, and everything the node touched was sent from that
file or had been deployed by others.  That `Sign` may happen only when nothing was
sent is the heart: the file disappears only after the whole batch is final, and
then `prepare` answers with an empty plan.  `HasStateRoot` is a hypothesis because
without a file none of this holds.  `SuccessIsFinal` also covers the client without
a state directory, as `utx identity create` uses it; there a plan may be signed twice.
The refinement needs `DurableInv` too: that a plan takes effect once, with the batch
that was requested, is a fact about every state the client can be in, and each action
is then a step of `DeployService` or changes nothing of what its caller sees.
`CallsRunDown` is what `EveryCallReturns` rests on: `StepsLeft` bounds the steps from
where a call stands to its return, and only a sweep that ends undecided before the
deadline starts over.  It asks nothing of the node and needs no more than `TypeInv`.

`ProjectProofs` proves, for any paths, contents, chains, kinds and options and any
manifest a cloned repository may hold:

* `TypeCorrect`: `Spec => []TypeOK`, whatever the environment does.
* `SyncedIsFinalized`: `Spec => []SyncedMeansFinalized`, whatever it does.
* `SelectionIsTracked`: `Spec => []StagedIsTracked`, unless a failing rename loses
  the manifest (`"lose" \notin Faults`).
* `StaysSelected`, `PublishedWhole`, `EmptyMeansPublished`: `Spec` implies
  `LeavesStagingOnlyWhenSynced`, `NoPartialManifest` and `UnstagedMeansPublished`,
  when no file is removed, the manifest survives and the network is not
  reinitialized (`Faults = {}`).  The run `project_delete` shows that the first
  hypothesis cannot be dropped.
* `ChainIsTruthful`: `Spec => []PublishedIsTruthful`, unless the network is
  reinitialized (`"network" \notin Faults`).

Errors, crashes at any step, late finalization of files and manifests, in any order
and for any number of them, and edits are part of all of them.
`TypeInv` ties the step to the kind of command and a task to a tracked path.
`SyncedInv` says the same of the copy in memory as of the file (`Truthful`), and
that reset knows no hash: that is why writing its copy makes a manifest truthful
that another network had made stale.  `TrackedInv` says that the copy tracks what
the file tracks, and more before `add` has saved it, so that dying between the two
writes is harmless in this order and would not be in the other.  `DeployInv` adds
the progress of each selected file (`Handled`): one that neither failed nor waits
is recorded with the content that was read.

`PublishedInv` adds to `SyncedInv` that whatever was sent to the deploy chain and what
it shows are truthful: what is sent is the manifest on disk, and a content that is on
its chain stays in the history, so that a manifest that was truthful when it was sent
is so when it takes effect.

`ThreadPoolProofs` proves, for any finite number of workers and any number of tasks,
`TypeCorrect`, `TasksRunOnce` (`Spec => []EachTaskOnce`), `PoolDrains`
(`Spec => []DrainedWhenGone`), `WakeupsArrive` (`Spec => []NoWakeupLost`) and
`RunnerImplemented` (`Spec => ImplementsRunner`) from `PoolInv`: the worker between the predicate and
the end of `wait` or the removal of a task holds the mutex, so that the queue is
not empty when it takes one; a worker that ended saw the stop and an empty queue,
and nothing is pushed after the stop; each task that was pushed has one place.  That
no wakeup is lost is a counting argument: a worker goes to sleep only with the mutex,
on an empty queue and before the stop; a push adds one task and owes one notification,
which adds one worker to those on their way; a worker that takes a task leaves both.
For the refinement `PoolInv` also says that the queue is in the order of enqueue, so
that its head is the oldest queued task, and the workers with a task in their hands,
being at most all workers, bound the tasks that run.

`DownloadProofs` proves, for any paths, chains, contents, boards and numbers of
targets and workers, `TypeCorrect`, `ReportsHold` (`Spec => []ReportIsTrue`) and
`FilesAreSafe` (`Spec => TouchesOnlyWhatItHas`) from `DownloadInv`.  `TaskInv` says
what a task has at each step, `DoneInv` what it has done when it ends without an
error, `PathsInv` that no two tasks share a file, which is why a file stays as its
task left it, and `PhaseInv` what the command has done before and after its tasks.

`SessionProofs` proves, for any number of processes, wallets, keys, chains and
commands, `TypeCorrect`, `SubmittedKeysStay` (`[]KeyKept`), `SessionsAreUsable`
(`[]SessionNamesWallet`), `WalletsStay` (`WalletsKept`) and `DeployChainStays`
(`DeployChainKept`) from `SessionInv`.  `KeyInv` is the reason for the first two: a
command that goes on with a key has it in its wallet, unless somebody replaced the
wallet since; `NameInv` says of the configurations in memory what is claimed of the
file; `AloneInv` and `ChainInv` say what a process that was never joined by another
one may rely on, as long as the last save was complete.

`VmPoolProofs` proves, for any threads, any finite set of machines and any
functions, `TypeCorrect`, `MachinesHaveOnePlace` (`[]EachVmOnce`) and
`FailuresAreOwn` (`[]FailsOnItsOwn`) from `VmPoolInv`.  `HoldsInv` counts the
machines a thread has where it stands, so that `Push` never meets an empty lease.
`PlaceInv` states one place per machine as four facts about positions, which `Take`
and `Push` keep (`TakePlaces`, `PushPlaces`); that the constructor's sequence holds
every machine once is `Filled`.  `Own` is what a thread may rely on of its machine:
it knows the functions that the session evaluated, and, while an operation that set
the timer runs, the timer is over only if the operation took so long.
`WakeupsArrive` (`[]NoWakeupLost`) counts as in the thread pool: a thread sleeps only
on an empty pool, and `Push` sends one sleeper, if there is one, for its machine.

`GraphTreeProofs` proves, for any finite set of elements, any names and any bounds,
for graphs that were constructed and graphs that were parsed, all five properties of
the run: `ElementsFormTrees` (`[]TreeShape`), `IdsFollowPaths` (`[]IdIsPath`),
`NamesAreUnique` (`[]UniqueNames`), `TreeIsRegistered` (`[]RegisteredInTree`) and
`ElementsAreFound` (`[]FindsElement`), from `TreeInv`.  The first half of the module
says what the walks compute: a subtree is the least set that holds its top and is
closed under children, the attached elements are the least fixed point of "a top, or
listed by an attached parent", the path of an attached element is its parent's path
and its name.  The second half says what one change of one list of children does to
these, and every operation is one or two such changes.  `TreeInv` must say more than
the properties: the root stays without a parent, and of the attached elements the
graph owns those of its tree or, when it was parsed, none (`OwnedIsTree`), which is
what tells whether an operation registers; a graph that owns nothing has no index
entries to go stale (`Indexed`).  That a given name is made free by numbering it is
`NextAvailableNameIsFree`.

`ValuesProofs` proves what `Values` checks over tables for all of them:
`BlocksAreAuthentic` (`[]BlockIsAuthentic`), `SegmentsAreComplete`
(`[]SegmentIsComplete`) and `ActionsSurvive` (`[]CodecKeepsActions`), each under the
conditions its property names.  The first goes through the fields: the hash leaves
out the text of the transaction, but covers the transaction's signature, which covers
the text (`HeaderCovered`, `TransactionCovered`, `AttestationCovered`); that one field
of the hash changed and the others did not makes the whole text another one
(`OneDiffers`), which is why the property is about single changes.  The second is an
induction over the rounds of the loop: what was collected is the stretch from the
start to the cursor (`Loops`), and after the last of the node's answers a round in
which the loop goes on has moved the cursor, unless the page started a whole page
early.  The third rests on
`BuiltIsRead` (an action that a builder made is read as it was) and `PiecesJoin`
(a sequence that is cut at increasing places is the concatenation of its pieces).

`StatusWalksRight` (`[]WalkTracksRight`, in the same module) follows a pattern from
`utx ignore add` to the walk.  What was added is the last lines of the file
(`AddedLines`), and a pattern's line is read as one rule, with its negation and its
slash (`RuleOfLine`, `RuleOfPattern`).  `glob_to_regex` makes one element of the
expression for each element of the glob (`GlobCompiled`: two stars are taken
together, at whatever character the loop is), and the expression matches a path if
and only if the path can be cut into pieces that the elements of the glob fit
(`MatchesGlob`, induction over the places reached).  The last rule about an entry
decides (`RulesIgnore`).  The file that `init` makes repeats default patterns before
any `!` can come, so it ignores the same entries as no file (`EndsIgnoreTheSame`).
The walk then leaves out a file if and only if it, or a directory it lies in, is
ignored (`WalkIsRight`).  `IsPattern` and `FilesAssumption` say for which inputs:
patterns whose wildcards do not run together into others (`*` before `**`), without
a space or slash at an end or `./` in front, and names without an end of line, which
`.` in an expression does not match.

The library's induction principle takes an operator and cannot be used; in the last
two modules induction over a number is over the set of the numbers that have the
property (`LeastNumber`, from the well-foundedness of `Nat`), and a recursive
function is known to exist because its values up to any number can be listed
(`RunExists`).

Assumptions on the constants are those the modules name (`OptionsAssumption`,
`NoneAssumption`, `WorkersAssumption`, `PatternsAssumption`, ...); TLC evaluates them
in the runs.

Only model-checked: the liveness properties (`EveryCallReturns`, `RetriesSucceed`,
`DeployConverges`, `CallerGetsThrough`, `DownloadConverges`), for which the prover
has no rules (the safety core of two is proved: `CallsRunDown` for
`EveryCallReturns`, `NoWakeupLost` for `CallerGetsThrough`); and `PrintedIsParsed`,
whose parser and printer are recursive operators over trees, which no proof may
reach.

## Findings

* `DeployCommand.hpp:119` silently skips a staged file that vanished after the
  check at line 83, and unstages it (run `project_delete`).

## Observations

Met while modelling; the models have the code's behaviour, and no property claims
otherwise.

* Deploying: `docs/deploy-workflow.md:9` denies the persistent state that
  `DeployClient.cpp:288` keeps on purpose.  `utx.md:286` asks for a chain per file,
  which `utx add --chain` does not enforce across commands (`AddCommand.hpp:136`).
  `utx identity create` uses the client without a project root, so its batch is not
  stored, and a retry signs it again.  A publication that timed out may take effect
  after a newer one and put an older manifest on the deploy chain.
* Graph: `GraphElement.cpp:122` uses an iterator after `erase`; moving a child
  before or after the last one drops it from the tree and returns false, which the
  comment at line 113 means to exclude.  A SET or MOVE action without a payload is
  read as one without an id; an empty group is written as `null` and cannot be read;
  a batch size of zero does not end (`Action.cpp`).
* JavaScript generator: `a - -b` is printed as `a--b` and `- -a` as `--a`
  (`SignsJoin` in `JsPrinter`); a tree of `??` over `||` with no node for its
  parentheses loses them (`MixesNullish`); an untyped wrapper prints nothing as the
  expression of a statement; `for (let i;; ...)`: a declaration that ends in a
  semicolon of its own is followed by the header's, which makes three.
* Machines: `call_function_json` keeps the timer of an earlier operation.
  `JsExecutor::eval` and `call_function` without a session lease a machine each, so
  what the one defines the other need not find.
* Ignore rules: `utx ignore add` on a file whose last line has no end joins the two
  patterns.  `PickPatterns` starts from files the program wrote.  A `*` followed by
  `**` is read as `**` followed by `*`, which `IsPattern` leaves out.
* Chain access: a full page whose blocks all lie below the cursor is asked for again
  for ever, and a page that is not full ends the segment, wherever the chain ends.
* Wallets: `login` accepts a format that no other command can load.  Two processes
  share one temporary file, so that either may rename the other's key.
* Configuration: neither the open nor the write of `.utx/config.json` is checked
  (`DeployConfig.hpp:19`).  A full disk leaves it torn behind a command that reports
  success, and the next one generates another deploy chain.
* Download: an exception in a task ends the process, since the spinner's thread is
  not joined; a stream that fails on closing and a configuration that cannot be
  written are reported as success.
* Blocks: the format string of the hash has one placeholder less than arguments, so
  that the transaction's text is covered by its own signature only.  An attestation
  whose key cannot be read throws inside a parallel algorithm, which ends the
  process.  The hash has no separators between its fields, and texts of keys and
  signatures are compared as text in some places and as bytes in others.  No command
  calls the verifications.

## Not modelled, and why

* Chain, graph and api commands: each is one request or one call of the deploy
  client, with no state of its own; `api set` is in `Session`.
* Two `utx` processes on one manifest, one selection or one pending file, and the
  pending file that two targets of one deploy with the same chain and content share
  (their calls are in `Project`): listed as hazards.  What they could break depends on
  what the node makes of two batches of one plan, which is not visible here.  For
  wallets and the configuration two processes are modelled.
* `utx download` beside the other commands: it replaces the manifest, with its
  hashes, and leaves the selection (`DownloadCommand.hpp:121`).  `Download` has the
  manifest, the files and the configuration; `Project` does not run it, so that what
  `StagedIsTracked` and the hashes become after it is not claimed.
* What a script leaves on a machine besides functions and the timer: globals, memory.
* The classification printed by `utx status`, the other requests of
  `NetworkClient`, `TxManager`: reading and printing.
* Generators of other languages, statements and classes of the JavaScript one:
  rendering without precedence or state.
* History, properties and replay of actions on a graph; key files and their
  encryption, the calls of OpenSSL; the conversion of values between C++ and
  QuickJS; `Paradox.hpp`, which no code of this program uses; malformed JSON.

## Plan

1. The replay of actions on `GraphTree`.
2. Two processes on the manifest and the selection, composed from `Project`.
3. Statements of the JavaScript generator in `JsPrinter`.
