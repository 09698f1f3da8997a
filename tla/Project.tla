------------------------------- MODULE Project -------------------------------
(***************************************************************************)
(* A working copy and the commands that change it: utx add, utx reset,     *)
(* utx deploy and utx init (src/use_case/*Command.hpp), on the manifest    *)
(* .utx.deploy.json and the selection .utx/staging.json.                   *)
(*                                                                         *)
(* A command is a process: it loads the manifest into memory (cfg), works  *)
(* on that copy and writes it back with a rename, and then the selection   *)
(* with another one.  It may die, or one of its writes fail, in between.   *)
(* utx deploy reads the selected files one by one while the user may edit  *)
(* them, deploys what changed in parallel tasks, saves the manifest, and   *)
(* publishes it on a chain of its own only when no task failed.  A task    *)
(* and the publication are each a call of DeployClient::deploy, of which   *)
(* only what DeployService promises is used: it may fail at any time, and  *)
(* what it sent may take effect long after.  One command runs at a time.   *)
(***************************************************************************)
EXTENDS Naturals, FiniteSets, Functions

CONSTANTS
    Paths,          \* files of the working copy
    Contents,       \* what a file may hold; stands for its md5 as well
    Chains,         \* chain ids: given by the user or generated
    Kinds,          \* target kinds; "go" is the one the planner refuses
    Ext(_),         \* the kind deduced from the extension of a path
    ChainOpts,      \* values the user gives to --chain
    KindOpts,       \* values the user gives to --kind
    Legacy,         \* targets the manifest of a cloned repository may hold
    Faults,         \* what may go wrong besides errors and crashes
    Edited,         \* bound: the files the user edits
    MaxLate,        \* bound on the older manifests that may still take effect
    None            \* no file, no target, no hash; and the empty chain id

Targets == [chain : Chains \cup {None}, kind : Kinds, hash : Contents \cup {None},
            labels : BOOLEAN]
Manifests == [Paths -> Targets \cup {None}]
Empty == [p \in Paths |-> None]
Jobs == (Chains \cup {None}) \X Contents

Commands == {"none", "add", "reset", "deploy"}
Steps == {"idle", "read", "run", "save_manifest", "publish", "confirm",
          "save_staging"}
TaskStates == {"none", "unread", "queued", "sent", "done", "failed"}

\* "delete": the user removes files; "lose": a rename fails after its fallback
\* removed the manifest; "network": the network is reinitialized.
FaultKinds == {"delete", "lose", "network"}

ASSUME OptionsAssumption ==
    /\ ChainOpts \subseteq Chains
    /\ KindOpts \subseteq Kinds
    /\ \A p \in Paths : Ext(p) \in Kinds
    /\ Legacy \subseteq {t \in Targets : t.hash = None}
    /\ Faults \subseteq FaultKinds
ASSUME NoneAssumption ==
    None \notin Contents \cup Chains \cup Kinds \cup Targets \cup Manifests
ASSUME BoundAssumption == Edited \subseteq Paths /\ MaxLate \in Nat

VARIABLES
    \* the disk
    file,       \* content of each file, None when it does not exist
    manifest,   \* .utx.deploy.json, None when it does not exist
    staging,    \* paths in .utx/staging.json
    \* the network
    requested,  \* submitted, and not in the canonical state of the chain yet
    finalized,  \* all contents that reached Finalized on each chain
    offered,    \* manifests submitted to the deploy chain that may take effect
    published,  \* what the deploy chain holds
    stale,      \* the network was reinitialized and utx reset not run since
    \* the running command
    cmd, step,
    cfg,        \* ctx_.deploy_config
    sel,        \* staged_paths, selected_targets and, in the end, what to keep
    seen,       \* content of each selected file when it was read
    task,       \* the task of each selected file
    landed      \* the deploy chain held the manifest while it was published

diskVars == <<file, manifest, staging>>
netVars == <<requested, finalized, offered, published, stale>>
runVars == <<cmd, step, cfg, sel, seen, task, landed>>
vars == <<diskVars, netVars, runVars>>

Forget ==
    /\ cmd' = "none" /\ step' = "idle" /\ cfg' = Empty /\ sel' = {}
    /\ seen' = [p \in Paths |-> None]
    /\ task' = [p \in Paths |-> "none"]
    /\ landed' = FALSE

Init ==
    /\ file \in [Paths -> Contents]
    /\ manifest \in [Paths -> Legacy \cup {None}]
    /\ staging = {}
    /\ requested = {} /\ finalized = {} /\ stale = FALSE
    /\ offered = {} /\ published = None
    /\ cmd = "none" /\ step = "idle" /\ cfg = Empty /\ sel = {}
    /\ seen = [p \in Paths |-> None]
    /\ task = [p \in Paths |-> "none"]
    /\ landed = FALSE

Tracked(m) == {p \in Paths : m[p] # None}
Job(p) == <<cfg[p].chain, seen[p]>>

-----------------------------------------------------------------------------
(* utx add *)

\* upsert_target: what was synchronized elsewhere has to be deployed again.
Upsert(t, chain, kind) ==
    IF t = None
    THEN [chain |-> chain, kind |-> kind, hash |-> None, labels |-> FALSE]
    ELSE [t EXCEPT !.chain = chain, !.kind = kind,
                   !.hash = IF t.chain = chain /\ t.kind = kind THEN @ ELSE None]

\* A generated chain id was never used before.
UnusedChains ==
    Chains \ ({manifest[p].chain : p \in Tracked(manifest)}
              \cup {job[1] : job \in requested \cup finalized})

KindFor(p, kind_opt) == IF kind_opt = None THEN Ext(p) ELSE kind_opt

\* The chain recorded for a path, if any.
ChainOf(p) == IF manifest[p] = None THEN None ELSE manifest[p].chain

\* One path, or the files of a directory, which excludes --chain.
Add ==
    /\ step = "idle"
    /\ manifest # None
    /\ \E S \in SUBSET {p \in Paths : file[p] # None},
          chain_opt \in ChainOpts \cup {None}, kind_opt \in KindOpts \cup {None} :
          /\ S # {}
          /\ chain_opt # None => Cardinality(S) = 1
          /\ \A p \in S : KindFor(p, kind_opt) # "go"
          /\ \E fresh \in Injection({p \in S : chain_opt = None /\ ChainOf(p) = None},
                                   UnusedChains) :
                LET ChainFor(p) ==
                        IF chain_opt # None THEN chain_opt
                        ELSE IF ChainOf(p) # None THEN ChainOf(p)
                        ELSE fresh[p]
                IN cfg' = [p \in Paths |->
                             IF p \in S THEN Upsert(manifest[p], ChainFor(p),
                                                    KindFor(p, kind_opt))
                             ELSE manifest[p]]
          /\ sel' = staging \cup S
    /\ cmd' = "add"
    /\ step' = "save_manifest"
    /\ UNCHANGED <<diskVars, netVars, seen, task, landed>>

-----------------------------------------------------------------------------
(* utx reset *)

\* Mutant: the hashes are kept.
Reset_KeepsHash ==
    /\ step = "idle"
    /\ manifest # None
    /\ cfg' = [p \in Paths |->
                 IF manifest[p] = None THEN None
                 ELSE [manifest[p] EXCEPT !.labels = FALSE]]
    /\ sel' = Tracked(manifest)
    /\ cmd' = "reset"
    /\ step' = "save_manifest"
    /\ UNCHANGED <<diskVars, netVars, seen, task, landed>>

\* Every target is forgotten to be synchronized, and staged.
Reset ==
    /\ step = "idle"
    /\ manifest # None
    /\ cfg' = [p \in Paths |->
                 IF manifest[p] = None THEN None
                 ELSE [manifest[p] EXCEPT !.hash = None, !.labels = FALSE]]
    /\ sel' = Tracked(manifest)
    /\ cmd' = "reset"
    /\ step' = "save_manifest"
    /\ UNCHANGED <<diskVars, netVars, seen, task, landed>>

-----------------------------------------------------------------------------
(* utx deploy *)

\* Mutant: a file that did not change since it was synchronized is refused too.
Deployable_OnlyModified(p) ==
    /\ manifest[p] # None
    /\ file[p] \notin {None, manifest[p].hash}
    /\ manifest[p].kind # "go"
    /\ manifest[p].hash = None => ~manifest[p].labels

\* The checks before any network operation; a refusal changes nothing.
Deployable(p) ==
    /\ manifest[p] # None
    /\ file[p] # None
    /\ manifest[p].kind # "go"
    /\ manifest[p].hash = None => ~manifest[p].labels

Deploy ==
    /\ step = "idle"
    /\ manifest # None
    /\ staging # {}
    /\ \A p \in staging : Deployable(p)
    /\ cfg' = manifest
    /\ sel' = staging
    /\ task' = [p \in Paths |-> IF p \in staging THEN "unread" ELSE "none"]
    /\ cmd' = "deploy"
    /\ step' = "read"
    /\ UNCHANGED <<diskVars, netVars, seen, landed>>

\* A file that is gone by now, or unchanged since it was synchronized, makes
\* no task.  Content and hash come from the same read.
ReadFile(p) ==
    /\ step = "read"
    /\ task[p] = "unread"
    /\ seen' = [seen EXCEPT ![p] = file[p]]
    /\ task' = [task EXCEPT ![p] =
                  IF file[p] \in {None, cfg[p].hash} THEN "none" ELSE "queued"]
    /\ UNCHANGED <<diskVars, netVars, cmd, step, cfg, sel, landed>>

StartTasks ==
    /\ step = "read"
    /\ \A p \in Paths : task[p] # "unread"
    /\ step' = IF \E p \in Paths : task[p] = "queued"
               THEN "run" ELSE "save_manifest"
    /\ UNCHANGED <<diskVars, netVars, cmd, cfg, sel, seen, task, landed>>

\* The call of DeployClient::deploy in the task: it may send the plan, ...
TaskSends(p) ==
    /\ step = "run"
    /\ task[p] = "queued"
    /\ task' = [task EXCEPT ![p] = "sent"]
    /\ requested' = requested \cup {Job(p)}
    /\ UNCHANGED <<diskVars, finalized, offered, published, stale, cmd, step, cfg,
                   sel, seen, landed>>

\* Mutant: the hash is taken of the file once more when the call has returned.
TaskSucceeds_HashesAgain(p) ==
    /\ step = "run"
    /\ task[p] \in {"queued", "sent"}
    /\ Job(p) \in finalized
    /\ task' = [task EXCEPT ![p] = "done"]
    /\ cfg' = [cfg EXCEPT ![p].hash = file[p]]
    /\ UNCHANGED <<diskVars, netVars, cmd, step, sel, seen, landed>>

\* Mutant: a call returns as soon as the plan was sent.
TaskSucceeds_Early(p) ==
    /\ step = "run"
    /\ task[p] \in {"queued", "sent"}
    /\ Job(p) \in requested \cup finalized
    /\ task' = [task EXCEPT ![p] = "done"]
    /\ cfg' = [cfg EXCEPT ![p].hash = seen[p]]
    /\ UNCHANGED <<diskVars, netVars, cmd, step, sel, seen, landed>>

\* ... returns when the content is in the canonical state, even if it was so
\* before, ...
TaskSucceeds(p) ==
    /\ step = "run"
    /\ task[p] \in {"queued", "sent"}
    /\ Job(p) \in finalized
    /\ task' = [task EXCEPT ![p] = "done"]
    /\ cfg' = [cfg EXCEPT ![p].hash = seen[p]]
    /\ UNCHANGED <<diskVars, netVars, cmd, step, sel, seen, landed>>

\* ... and may fail at any time, whatever becomes of the request.
TaskFails(p) ==
    /\ step = "run"
    /\ task[p] \in {"queued", "sent"}
    /\ task' = [task EXCEPT ![p] = "failed"]
    /\ UNCHANGED <<diskVars, netVars, cmd, step, cfg, sel, seen, landed>>

\* future.get() for every task.
JoinTasks ==
    /\ step = "run"
    /\ \A p \in Paths : task[p] \in {"none", "done", "failed"}
    /\ step' = "save_manifest"
    /\ UNCHANGED <<diskVars, netVars, cmd, cfg, sel, seen, task, landed>>

-----------------------------------------------------------------------------
(* Writing back. *)

\* Mutant: the paths that failed are not collected.
Failed_Lost == {}

Failed == {p \in Paths : task[p] = "failed"}

\* Mutant: the manifest is published whatever failed.
Publishes_Always == cmd = "deploy"

Publishes == cmd = "deploy" /\ Failed = {}

SaveManifest ==
    /\ step = "save_manifest"
    /\ manifest' = cfg
    /\ stale' = (stale /\ cmd # "reset")
    /\ step' = IF Publishes THEN "publish" ELSE "save_staging"
    /\ sel' = IF cmd = "deploy" /\ ~Publishes THEN Failed ELSE sel
    /\ UNCHANGED <<file, staging, requested, finalized, offered, published,
                   cmd, cfg, seen, task, landed>>

\* Mutant: add and reset go on when the manifest could not be written.
SaveManifestFails_Ignored ==
    /\ step = "save_manifest"
    /\ step' = "save_staging"
    /\ UNCHANGED <<diskVars, netVars, cmd, cfg, sel, seen, task, landed>>

\* The fallback for a failing rename removes the manifest first; the second
\* rename may fail too, or the process die before it.
SaveManifestFails ==
    /\ step = "save_manifest"
    /\ \/ UNCHANGED manifest
       \/ "lose" \in Faults /\ manifest' = None
    /\ Forget
    /\ UNCHANGED <<file, staging, netVars>>

\* deploy_manifest: what it sends is read from the file just written.
PublishSends ==
    /\ step = "publish"
    /\ \E late \in SUBSET offered :
          /\ Cardinality(late) <= MaxLate
          /\ offered' = late \cup {manifest}
    /\ step' = "confirm"
    /\ UNCHANGED <<diskVars, requested, finalized, published, stale,
                   cmd, cfg, sel, seen, task, landed>>

\* The call returns without sending anything when the deploy chain holds the
\* manifest already, and else once it has taken effect.
Publish ==
    /\ \/ step = "publish" /\ published = manifest
       \/ step = "confirm" /\ landed
    /\ sel' = {}
    /\ step' = "save_staging"
    /\ landed' = TRUE
    /\ UNCHANGED <<diskVars, netVars, cmd, cfg, seen, task>>

\* Mutant: the result of deploy_manifest is ignored.
PublishFails_Ignored ==
    /\ step \in {"publish", "confirm"}
    /\ sel' = {}
    /\ step' = "save_staging"
    /\ UNCHANGED <<diskVars, netVars, cmd, cfg, seen, task, landed>>

\* An error or a timeout, whatever becomes of what was sent.  The selection
\* stays: the next deploy publishes again.
PublishFails ==
    /\ step \in {"publish", "confirm"}
    /\ Forget
    /\ UNCHANGED <<diskVars, netVars>>

SaveStaging ==
    /\ step = "save_staging"
    /\ staging' = sel
    /\ Forget
    /\ UNCHANGED <<file, manifest, netVars>>

SaveStagingFails ==
    /\ step = "save_staging"
    /\ Forget
    /\ UNCHANGED <<diskVars, netVars>>

\* The process dies, or an exception ends the command, between two steps.
Crash ==
    /\ step # "idle"
    /\ Forget
    /\ UNCHANGED <<diskVars, netVars>>

-----------------------------------------------------------------------------
(* Around the program. *)

\* utx init: only when there is no manifest.  The new local configuration
\* names no deploy chain, so the next command generates another one.
InitProject ==
    /\ step = "idle"
    /\ manifest = None
    /\ manifest' = Empty
    /\ offered' = {}
    /\ published' = None
    /\ UNCHANGED <<file, staging, requested, finalized, stale, runVars>>

Edit(p) ==
    /\ p \in Edited
    /\ file' \in {[file EXCEPT ![p] = c] : c \in Contents \ {file[p]}}
    /\ UNCHANGED <<manifest, staging, netVars, runVars>>

Delete(p) ==
    /\ "delete" \in Faults
    /\ file' = [file EXCEPT ![p] = None]
    /\ UNCHANGED <<manifest, staging, netVars, runVars>>

\* A request takes effect, perhaps long after the command that made it ended.
Finalize(job) ==
    /\ job \in requested
    /\ requested' = requested \ {job}
    /\ finalized' = finalized \cup {job}
    /\ UNCHANGED <<diskVars, offered, published, stale, runVars>>

\* So does a manifest, and it replaces what the deploy chain held, even one that
\* was submitted after it.  It remains when an earlier command had submitted an
\* equal one.
FinalizeManifest(m) ==
    /\ m \in offered
    /\ offered' \in {offered, offered \ {m}}
    /\ published' = m
    /\ landed' = (landed \/ (step = "confirm" /\ m = manifest))
    /\ UNCHANGED <<diskVars, requested, finalized, stale,
                   cmd, step, cfg, sel, seen, task>>

NetworkReset ==
    /\ "network" \in Faults
    /\ requested' = {}
    /\ finalized' = {}
    /\ offered' = {}
    /\ published' = None
    /\ stale' = TRUE
    /\ UNCHANGED <<diskVars, runVars>>

-----------------------------------------------------------------------------
TaskStep(p) == TaskSends(p) \/ TaskSucceeds(p)

Progress ==
    \/ \E p \in Paths : ReadFile(p) \/ TaskStep(p)
    \/ StartTasks \/ JoinTasks \/ SaveManifest \/ PublishSends \/ Publish
    \/ SaveStaging

Setback ==
    \/ \E p \in Paths : TaskFails(p)
    \/ SaveManifestFails \/ PublishFails \/ SaveStagingFails \/ Crash
    \/ NetworkReset

Next ==
    \/ Add \/ Reset \/ Deploy \/ InitProject
    \/ Progress \/ Setback
    \/ \E p \in Paths : Edit(p) \/ Delete(p)
    \/ \E job \in Jobs : Finalize(job)
    \/ \E m \in offered : FinalizeManifest(m)

Spec == Init /\ [][Next]_vars

-----------------------------------------------------------------------------
(* Safety. *)

TypeOK ==
    /\ file \in [Paths -> Contents \cup {None}]
    /\ manifest \in Manifests \cup {None}
    /\ staging \subseteq Paths
    /\ requested \subseteq Jobs
    /\ finalized \subseteq Jobs
    /\ offered \subseteq Manifests
    /\ published \in Manifests \cup {None}
    /\ stale \in BOOLEAN
    /\ cmd \in Commands
    /\ step \in Steps
    /\ cfg \in Manifests
    /\ sel \subseteq Paths
    /\ seen \in [Paths -> Contents \cup {None}]
    /\ task \in [Paths -> TaskStates]
    /\ landed \in BOOLEAN
    /\ \A p \in Paths : task[p] \in {"queued", "sent", "done", "failed"}
          => seen[p] \in Contents

Truthful(m) ==
    \A p \in Tracked(m) :
        m[p].hash # None => <<m[p].chain, m[p].hash>> \in finalized

\* What the manifest says is synchronized has reached Finalized on the chain
\* it names, whatever was edited, moved to another chain or interrupted since;
\* only a reinitialized network breaks this, until utx reset
\* (docs/deploy-workflow.md:39, AddCommand.hpp:269, ResetCommand.hpp:36).
SyncedMeansFinalized == manifest # None /\ ~stale => Truthful(manifest)

\* A selected path is a tracked one, so that no deploy is refused for what a
\* crash or a failed write left behind (DeployCommand.hpp:79: "Staged path is
\* not tracked").
StagedIsTracked == manifest # None => staging \subseteq Tracked(manifest)

\* A path leaves the selection only when the content this deploy read from it
\* is on its chain: what failed, or was not looked at, stays selected
\* (DeployCommand.hpp:244-274; docs/deploy-workflow.md:34-37).
LeavesStagingOnlyWhenSynced ==
    [][\A p \in staging \ staging' :
          /\ seen[p] # None
          /\ manifest[p].hash = seen[p]
          /\ <<manifest[p].chain, seen[p]>> \in finalized]_vars

\* No partial manifest is ever submitted: in the one that is, every selected
\* file is recorded with the content that was just deployed
\* (DeployCommand.hpp:244: "Do not publish a partial manifest").
NoPartialManifest ==
    [][step # "confirm" /\ step' = "confirm" =>
          \A p \in staging : manifest[p].hash = seen[p]]_vars

\* Whatever the deploy chain holds or may come to hold, however late and in
\* whatever order the manifests of failed, interrupted and successful deploys
\* take effect, calls nothing synchronized that is not on its chain: who clones
\* the project from it (utx download) skips no file that has to be deployed
\* (DeployCommand.hpp:176, 262).  Not so once the network was reinitialized: a
\* deploy before utx reset publishes the hashes of the old one.
PublishedIsTruthful ==
    \A m \in offered \cup ({published} \ {None}) : Truthful(m)

\* The selection becomes empty only when the deploy chain has held the manifest
\* on disk during this deploy: a failed publication can be retried
\* (DeployCommand.hpp:262-267).  An older one that timed out may replace it on
\* the chain afterwards.
UnstagedMeansPublished ==
    [][staging # {} /\ staging' = {} => landed]_vars

-----------------------------------------------------------------------------
(* Inductive invariants: the properties above and what they rest on. *)

\* What a command holds in memory, by its kind and its step.
RunInv ==
    /\ cmd = "none" <=> step = "idle"
    /\ cmd \in {"add", "reset"} => step \in {"save_manifest", "save_staging"}
    /\ cmd # "deploy" => \A p \in Paths : task[p] = "none"
    /\ step \in {"publish", "confirm"} => manifest # None
    /\ \A p \in Paths : task[p] # "none" => cfg[p] # None

TypeInv == TypeOK /\ RunInv

\* The copy in memory is as truthful as the file, and reset knows no hash.
SyncedInv ==
    /\ TypeInv
    /\ ~stale => Truthful(cfg) /\ (manifest # None => Truthful(manifest))
    /\ cmd = "reset" => \A p \in Tracked(cfg) : cfg[p].hash = None

\* The copy never tracks less than the file, and is the file once saved.
TrackedInv ==
    /\ TypeInv
    /\ manifest # None
    /\ staging \subseteq Tracked(manifest)
    /\ step # "idle" =>
          /\ Tracked(manifest) \subseteq Tracked(cfg)
          /\ sel \subseteq Tracked(cfg)
    /\ step \in {"publish", "confirm", "save_staging"} => manifest = cfg

\* What has become of a selected file of a deploy.
Handled(p) ==
    /\ task[p] = "unread" => step = "read"
    /\ task[p] = "queued" => step \in {"read", "run"}
    /\ task[p] = "sent" => step = "run"
    /\ task[p] # "unread" => seen[p] # None
    /\ task[p] \in {"none", "done"} => cfg[p].hash = seen[p]

\* What may be on the deploy chain is what some command had in its file.
PublishedInv ==
    /\ SyncedInv
    /\ ~stale
    /\ PublishedIsTruthful

DeployInv ==
    /\ SyncedInv
    /\ TrackedInv
    /\ ~stale
    /\ \A p \in Paths : file[p] # None
    /\ cmd \in {"add", "reset"} => staging \subseteq sel
    /\ cmd = "deploy" => \A p \in staging : Handled(p)
    /\ cmd = "deploy" /\ step \in {"publish", "confirm"} => Failed = {}
    /\ cmd = "deploy" /\ step = "save_staging" =>
          /\ sel = Failed
          /\ Failed = {} => landed

-----------------------------------------------------------------------------
(* Liveness. *)

\* The user deploys again as long as something is selected, the network settles
\* what it was sent, and things stop going wrong some time.
Fairness ==
    /\ WF_vars(Deploy)
    /\ WF_vars(StartTasks) /\ WF_vars(JoinTasks)
    /\ \A p \in Paths : WF_vars(ReadFile(p)) /\ WF_vars(TaskStep(p))
    /\ WF_vars(SaveManifest) /\ WF_vars(SaveStaging)
    /\ WF_vars(PublishSends) /\ WF_vars(Publish)
    /\ \A job \in Jobs : WF_vars(Finalize(job))
    /\ WF_vars(step = "confirm" /\ FinalizeManifest(manifest))
    /\ <>[][~Setback]_vars
    /\ <>[][~(Add \/ Reset)]_vars

FairSpec == Spec /\ Fairness

\* Deploying again until it works empties the selection, wherever the failures
\* struck: no interrupted command leaves a state that only adding the files
\* again gets out of.
DeployConverges == <>[](staging = {})
=============================================================================
