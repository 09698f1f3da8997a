------------------------------ MODULE Download ------------------------------
(***************************************************************************)
(* utx download (src/use_case/DownloadCommand.hpp): rebuild a working copy *)
(* from the chain that holds its deploy manifest.                          *)
(*                                                                         *)
(* The command fetches the manifest and writes .utx.deploy.json at once;   *)
(* then one task per target, run by the workers of a ThreadPool, fetches   *)
(* the chain of the target, renders its graph and writes the file in       *)
(* place; .utx/config.json is written last, in place as well.  The process *)
(* may die between any two steps, other users deploy to the same chains    *)
(* meanwhile, and each step of each task may fail or throw.                *)
(*                                                                         *)
(* The JavaScript generators of all tasks register their handlers in one   *)
(* map of the process without a lock (JsGenerator.cpp:9): when two of them *)
(* are at work, what a task renders is anything.                           *)
(***************************************************************************)
EXTENDS Naturals, Sequences, FiniteSets

CONSTANTS
    Paths,          \* files of the working copy
    Chains,
    Contents,       \* graphs of a chain, and the text one is rendered to
    Boards,         \* manifests that the manifest chain may hold
    MaxTargets,     \* no manifest of Boards is longer
    NumWorkers,     \* kMaxParallelDownloads
    None

Kinds == {"js", "html", "json", "graph"}
UnknownKind == "unknown"
Targets == [path : Paths, chain : Chains \cup {None}, kind : Kinds]
RemoteTargets == [path : Paths, chain : Chains \cup {None},
                  kind : Kinds \cup {UnknownKind}]
Torn == "torn"      \* an empty, partial or garbled file
Texts == Contents \cup {None, Torn}
Indices == 1..MaxTargets

ASSUME SizesAssumption == MaxTargets \in Nat /\ NumWorkers \in Nat \ {0}
\* utx add never tracks a path twice.
ASSUME BoardsAssumption ==
    \A b \in Boards :
        /\ b \in Seq(RemoteTargets) /\ Len(b) <= MaxTargets
        /\ \A i, j \in DOMAIN b : b[i].path = b[j].path => i = j
ASSUME NoneAssumption ==
    /\ None \notin Contents \cup Chains \cup {Torn}
    /\ Torn \notin Contents

VARIABLES
    \* the network
    net,        \* graph of each chain
    board,      \* what the manifest chain holds
    \* the disk
    manifest,   \* .utx.deploy.json, <<>> when there is none
    file,       \* each file
    conf,       \* whether .utx/config.json names the manifest chain; one that
                \* cannot be read names nothing
    \* the running command
    pc,
    dry,        \* --dry-run
    plan,       \* ctx_.deploy_config.targets
    task,       \* where the task of each target stands
    got,        \* file_graph of each task
    text,       \* content of each task
    error,      \* whether outcomes[i].error is set
    unseen,     \* what went wrong that the code does not notice
    result      \* how the last download ended

netVars == <<net, board>>
diskVars == <<manifest, file, conf>>
taskVars == <<task, got, text, error>>
vars == <<netVars, diskVars, pc, dry, plan, taskVars, unseen, result>>

TaskStates == {"none", "queued", "fetch", "render", "emit", "open",
               "write", "done", "threw"}
Steps == {"idle", "manifest", "save", "start", "wait", "config", "write_config",
          "report"}

\* reconstruct_target: a kind that is not known is a graph.
Reconstruct(b) ==
    [i \in DOMAIN b |->
        IF b[i].kind = UnknownKind THEN [b[i] EXCEPT !.kind = "graph"] ELSE b[i]]

NoTasks ==
    /\ task' = [i \in Indices |-> "none"]
    /\ got' = [i \in Indices |-> None]
    /\ text' = [i \in Indices |-> None]
    /\ error' = [i \in Indices |-> FALSE]

Init ==
    /\ net \in [Chains -> Contents]
    /\ board \in Boards
    /\ manifest = <<>>
    /\ file = [p \in Paths |-> None]
    /\ conf = "other"
    /\ pc = "idle" /\ dry = FALSE /\ plan = <<>>
    /\ task = [i \in Indices |-> "none"]
    /\ got = [i \in Indices |-> None]
    /\ text = [i \in Indices |-> None]
    /\ error = [i \in Indices |-> FALSE]
    /\ unseen = {} /\ result = "none"

End(r) == pc' = "idle" /\ result' = r

-----------------------------------------------------------------------------
(* The command before its tasks. *)

\* Mutant: a working copy that has a manifest is left alone.
Download_OnlyNew(d) ==
    /\ pc = "idle"
    /\ manifest = <<>>
    /\ pc' = "manifest" /\ dry' = d /\ plan' = <<>>
    /\ NoTasks
    /\ unseen' = {} /\ result' = "none"
    /\ UNCHANGED <<netVars, diskVars>>

Download(d) ==
    /\ pc = "idle"
    /\ pc' = "manifest" /\ dry' = d /\ plan' = <<>>
    /\ NoTasks
    /\ unseen' = {} /\ result' = "none"
    /\ UNCHANGED <<netVars, diskVars>>

FetchManifest ==
    /\ pc = "manifest"
    /\ plan' = Reconstruct(board)
    /\ pc' = IF dry THEN "start" ELSE "save"
    /\ UNCHANGED <<netVars, diskVars, dry, taskVars, unseen, result>>

FetchManifestFails ==
    /\ pc = "manifest"
    /\ End("failed")
    /\ dry' = FALSE
    /\ UNCHANGED <<netVars, diskVars, plan, taskVars, unseen>>

SaveManifest ==
    /\ pc = "save"
    /\ manifest' = plan
    /\ pc' = "start"
    /\ UNCHANGED <<netVars, file, conf, dry, plan, taskVars, unseen, result>>

\* The fallback of the rename may have removed the old manifest.
SaveManifestFails ==
    /\ pc = "save"
    /\ manifest' \in {manifest, <<>>}
    /\ End("failed")
    /\ UNCHANGED <<netVars, file, conf, dry, plan, taskVars, unseen>>

\* Directories are made, and every task is enqueued.
StartTasks ==
    /\ pc = "start"
    /\ task' = [i \in Indices |-> IF i \in DOMAIN plan THEN "queued" ELSE "none"]
    /\ pc' = "wait"
    /\ UNCHANGED <<netVars, diskVars, dry, plan, got, text, error, unseen, result>>

-----------------------------------------------------------------------------
(* A task. *)

Running == {i \in DOMAIN plan : task[i] \notin {"queued", "done", "threw"}}

TaskAt(i, from) == pc = "wait" /\ i \in DOMAIN plan /\ task[i] = from
Goto(i, to) == task' = [task EXCEPT ![i] = to]
FailTask(i) == Goto(i, "done") /\ error' = [error EXCEPT ![i] = TRUE]
taskFrame == <<netVars, manifest, conf, pc, dry, plan, result>>

\* Mutant: the file is opened, and cut, before the chain is fetched.
Begin_OpensFirst(i) ==
    /\ TaskAt(i, "queued")
    /\ \A j \in 1..(i - 1) : task[j] # "queued"
    /\ Cardinality(Running) < NumWorkers
    /\ IF plan[i].chain = None THEN FailTask(i) ELSE Goto(i, "fetch") /\ UNCHANGED error
    /\ file' = IF dry THEN file ELSE [file EXCEPT ![plan[i].path] = Torn]
    /\ UNCHANGED <<taskFrame, got, text, unseen>>

\* The workers take the tasks in order.  One without a chain ends at once.
Begin(i) ==
    /\ TaskAt(i, "queued")
    /\ \A j \in 1..(i - 1) : task[j] # "queued"
    /\ Cardinality(Running) < NumWorkers
    /\ IF plan[i].chain = None THEN FailTask(i) ELSE Goto(i, "fetch") /\ UNCHANGED error
    /\ UNCHANGED <<taskFrame, file, got, text, unseen>>

Fetch(i) ==
    /\ TaskAt(i, "fetch")
    /\ got' = [got EXCEPT ![i] = net[plan[i].chain]]
    /\ Goto(i, "render")
    /\ UNCHANGED <<taskFrame, file, text, error, unseen>>

FetchFails(i) ==
    /\ TaskAt(i, "fetch")
    /\ FailTask(i)
    /\ UNCHANGED <<taskFrame, file, got, text, unseen>>

\* The generators that use JsNodeEmitter::instance().
UsesEmitter(i) == plan[i].kind \in {"js", "html"}

\* The constructor of a JsGenerator replaces every handler of the map that the
\* generator then looks up, whoever else does the one or the other.
Register(i) ==
    /\ TaskAt(i, "render")
    /\ UsesEmitter(i)
    /\ Goto(i, "emit")
    /\ unseen' = IF \E j \in Running : task[j] = "emit"
                THEN unseen \cup {"race"} ELSE unseen
    /\ UNCHANGED <<taskFrame, file, got, text, error>>

\* render_target returns; with --dry-run only the size is kept.
Rendered(i) ==
    /\ \/ TaskAt(i, "render") /\ ~UsesEmitter(i) /\ text' = [text EXCEPT ![i] = got[i]]
       \/ /\ TaskAt(i, "emit")
          /\ \E t \in {got[i]} \cup (IF "race" \in unseen THEN {Torn} ELSE {}) :
                text' = [text EXCEPT ![i] = t]
    /\ Goto(i, IF dry THEN "done" ELSE "open")
    /\ UNCHANGED <<taskFrame, file, got, error, unseen>>

\* A handler finds a node without its children, a number is out of range: the
\* exception goes to the future.
Throws(i) ==
    /\ \/ TaskAt(i, "render") /\ plan[i].kind = "json"
       \/ TaskAt(i, "emit")
    /\ Goto(i, "threw")
    /\ UNCHANGED <<taskFrame, file, got, text, error, unseen>>

Open(i) ==
    /\ TaskAt(i, "open")
    /\ file' = [file EXCEPT ![plan[i].path] = Torn]
    /\ Goto(i, "write")
    /\ UNCHANGED <<taskFrame, got, text, error, unseen>>

OpenFails(i) ==
    /\ TaskAt(i, "open")
    /\ FailTask(i)
    /\ UNCHANGED <<taskFrame, file, got, text, unseen>>

Write(i) ==
    /\ TaskAt(i, "write")
    /\ file' = [file EXCEPT ![plan[i].path] = text[i]]
    /\ Goto(i, "done")
    /\ UNCHANGED <<taskFrame, got, text, error, unseen>>

\* Mutant: the second test of the stream is missing.
WriteFails_Unchecked(i) ==
    /\ TaskAt(i, "write")
    /\ Goto(i, "done")
    /\ UNCHANGED <<taskFrame, file, got, text, error, unseen>>

WriteFails(i) ==
    /\ TaskAt(i, "write")
    /\ FailTask(i)
    /\ UNCHANGED <<taskFrame, file, got, text, unseen>>

\* What the stream has buffered is written when it is destroyed, and nobody
\* asks whether that worked.
CloseFails(i) ==
    /\ TaskAt(i, "write")
    /\ Goto(i, "done")
    /\ unseen' = unseen \cup {"close"}
    /\ UNCHANGED <<taskFrame, file, got, text, error>>

TaskStep(i) ==
    \/ Begin(i) \/ Fetch(i) \/ Register(i) \/ Rendered(i)
    \/ Open(i) \/ Write(i)

TaskFails(i) ==
    FetchFails(i) \/ OpenFails(i) \/ WriteFails(i) \/ CloseFails(i)

-----------------------------------------------------------------------------
(* The command after its tasks. *)

\* future.get() of the first task that threw rethrows; the spinner's thread is
\* not joined, so the process is terminated with the other tasks where they are.
Terminate ==
    /\ pc = "wait"
    /\ \E i \in DOMAIN plan :
          task[i] = "threw" /\ \A j \in 1..(i - 1) : task[j] = "done"
    /\ NoTasks
    /\ plan' = <<>>
    /\ End("crashed")
    /\ dry' = FALSE /\ unseen' = {}
    /\ UNCHANGED <<netVars, diskVars>>

Join ==
    /\ pc = "wait"
    /\ \A i \in DOMAIN plan : task[i] = "done"
    /\ pc' = IF dry THEN "report" ELSE "config"
    /\ UNCHANGED <<netVars, diskVars, dry, plan, taskVars, unseen, result>>

\* save_local_config truncates the file and writes it, checking neither.
OpenConfig ==
    /\ pc = "config"
    /\ conf' = "other"
    /\ pc' = "write_config"
    /\ UNCHANGED <<netVars, manifest, file, dry, plan, taskVars, unseen, result>>

WriteConfig ==
    /\ pc = "write_config"
    /\ conf' = "board"
    /\ pc' = "report"
    /\ UNCHANGED <<netVars, manifest, file, dry, plan, taskVars, unseen, result>>

WriteConfigFails ==
    /\ pc \in {"config", "write_config"}
    /\ pc' = "report"
    /\ unseen' = unseen \cup {"config"}
    /\ UNCHANGED <<netVars, diskVars, dry, plan, taskVars, result>>

\* The outcome that is looked up for target i is its own.
Failed(i) == plan[i].chain = None \/ error[i]

Report ==
    /\ pc = "report"
    /\ End(IF \E i \in DOMAIN plan : Failed(i) THEN "failed" ELSE "ok")
    /\ UNCHANGED <<netVars, diskVars, dry, plan, taskVars, unseen>>

-----------------------------------------------------------------------------
(* The environment. *)

Crash ==
    /\ pc # "idle"
    /\ NoTasks
    /\ plan' = <<>>
    /\ End("crashed")
    /\ dry' = FALSE /\ unseen' = {}
    /\ UNCHANGED <<netVars, diskVars>>

\* Another user deploys a file, or a manifest.
Deploy ==
    /\ \/ \E c \in Chains, x \in Contents :
             net' = [net EXCEPT ![c] = x] /\ UNCHANGED board
       \/ board' \in Boards /\ UNCHANGED net
    /\ UNCHANGED <<diskVars, pc, dry, plan, taskVars, unseen, result>>

Next ==
    \/ \E d \in BOOLEAN : Download(d)
    \/ FetchManifest \/ FetchManifestFails
    \/ SaveManifest \/ SaveManifestFails
    \/ StartTasks
    \/ \E i \in Indices : TaskStep(i) \/ TaskFails(i) \/ Throws(i)
    \/ Terminate \/ Join
    \/ OpenConfig \/ WriteConfig \/ WriteConfigFails
    \/ Report
    \/ Crash \/ Deploy

Spec == Init /\ [][Next]_vars

-----------------------------------------------------------------------------
(* Properties. *)

TypeOK ==
    /\ net \in [Chains -> Contents]
    /\ board \in Boards
    /\ manifest \in Seq(Targets)
    /\ file \in [Paths -> Texts]
    /\ conf \in {"other", "board"}
    /\ pc \in Steps
    /\ dry \in BOOLEAN
    /\ plan \in Seq(Targets) /\ Len(plan) <= MaxTargets
    /\ task \in [Indices -> TaskStates]
    /\ got \in [Indices -> Contents \cup {None}]
    /\ text \in [Indices -> Texts]
    /\ error \in [Indices -> BOOLEAN]
    /\ unseen \subseteq {"race", "close", "config"}
    /\ result \in {"none", "ok", "failed", "crashed"}

\* A download that came to its end: every task did.
Ended ==
    /\ result \in {"ok", "failed"}
    /\ plan # <<>>
    /\ \A i \in DOMAIN plan : task[i] = "done"

\* A download that came to its end has replaced the manifest and has fetched
\* every target it does not report as failed; it says success only when none
\* failed, and a command that stopped earlier never says success.  The
\* configuration and the files are as reported unless something went wrong that
\* the code does not look at: the write of the configuration, the end of a file
\* that is written when its stream is destroyed, two generators at one map of
\* handlers (DownloadCommand.hpp:121-131, 241-247, 277-341).
ReportIsTrue ==
    /\ result = "ok" => /\ plan # <<>> => Ended
                        /\ \A i \in DOMAIN plan : ~Failed(i)
    /\ Ended =>
          /\ ~dry => manifest = plan /\ (conf = "board" \/ "config" \in unseen)
          /\ \A i \in DOMAIN plan : ~Failed(i) =>
                /\ got[i] # None
                /\ ~dry => \/ file[plan[i].path] = got[i]
                           \/ "race" \in unseen \/ "close" \in unseen

\* A file is cut only when what replaces it is in memory: a chain that cannot
\* be fetched or rendered leaves its file alone, and --dry-run leaves the whole
\* disk alone (DownloadCommand.hpp:121-133, 219-247, 324-326).
TouchesOnlyWhatItHas ==
    [][/\ diskVars' # diskVars => ~dry
       /\ \A p \in Paths : file'[p] # file[p] =>
             \E i \in DOMAIN plan : plan[i].path = p /\ text[i] # None]_vars

-----------------------------------------------------------------------------
(* Liveness. *)

\* Two tasks at the handlers of the generators are one, as nothing keeps a
\* download from saying that it restored what it garbled.
Race == \E i \in Indices : Register(i) /\ \E j \in Running : task[j] = "emit"

Setback ==
    \/ Crash \/ Deploy \/ Download(TRUE)
    \/ FetchManifestFails \/ SaveManifestFails \/ WriteConfigFails
    \/ \E i \in Indices : TaskFails(i) \/ Throws(i)
    \/ Race

\* The user downloads again and again, and things stop going wrong some time.
Fairness ==
    /\ WF_vars(Download(FALSE))
    /\ WF_vars(FetchManifest \/ SaveManifest \/ StartTasks \/ Join)
    /\ WF_vars(OpenConfig \/ WriteConfig \/ Report)
    /\ \A i \in Indices : WF_vars(TaskStep(i))
    /\ WF_vars(Terminate)
    /\ <>[][~Setback]_vars

FairSpec == Spec /\ Fairness

\* Everything the manifest names can be fetched.
Servable == \A i \in DOMAIN board : board[i].chain # None

\* The working copy is what the chains hold.
Restored ==
    /\ manifest = Reconstruct(board)
    /\ conf = "board"
    /\ \A i \in DOMAIN board :
          board[i].chain # None /\ file[board[i].path] = net[board[i].chain]

\* Downloading again repairs what an interrupted download left: torn files, a
\* lost manifest, a torn configuration are never in the way of the next one.
\* Once nothing goes wrong any more and every target of the manifest has a
\* chain, downloads succeed again and again, and each time the manifest, every
\* file and the configuration are those of the network.
DownloadConverges == <>[]Servable => []<>(result = "ok" /\ Restored)
=============================================================================
