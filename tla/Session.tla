------------------------------- MODULE Session -------------------------------
(***************************************************************************)
(* The user's side of a working copy: utx init, login, logout, api set and *)
(* identity create, with the wallets and the .utx/config.json they share   *)
(* (main.cpp, AppContext.hpp, InitCommand.hpp, LoginCommand.hpp,           *)
(* IdentityCommand.hpp, DeployConfig.hpp).                                 *)
(*                                                                         *)
(* A wallet is written to a temporary file and renamed; the configuration  *)
(* is truncated and written in place, and nobody looks whether that worked.*)
(* Nothing is locked: several utx processes may run in the working copy,   *)
(* and each may die at any step.                                           *)
(* A private key that no wallet file holds is lost, and with it the        *)
(* identity it signs for; the deploy chain is known to the configuration   *)
(* alone.  The API target of the configuration is left out.                *)
(***************************************************************************)
EXTENDS Naturals, FiniteSets

CONSTANTS
    Procs,
    Wallets,        \* paths of wallet files
    ImportPath,     \* .utx/wallet.json, which login --b64-file writes
    Keys,
    Chains,
    MaxCommands,    \* bound on the commands of a behaviour
    None

ASSUME BoundAssumption == MaxCommands \in Nat
ASSUME PathsAssumption == ImportPath \in Wallets
ASSUME NoneAssumption == None \notin Wallets \cup Keys \cup Chains

Commands == {"init", "other", "logout", "api", "login", "import", "create"}
Configs == [wallet : Wallets \cup {None}, chain : Chains \cup {None}]
\* load_local_config: what is missing or cannot be parsed is the default.
Default == [wallet |-> None, chain |-> None]

VARIABLES
    \* the disk
    file,       \* key of each wallet file
    plain,      \* wallets in the format of WalletHelper::save_to_file
    tmp,        \* key of each wallet's .tmp
    manifest,   \* .utx.deploy.json is "none", "torn" or "good"
    conf,       \* .utx/config.json; Default when it is missing or torn
    \* the processes
    at, cmd,
    path,       \* wallet argument
    cfg,        \* project_config
    key,        \* KeyPair
    \* history
    alone,      \* whether no other process ran meanwhile
    sent,       \* keys submitted to the network, by the wallet they are kept in
    replaced,   \* wallets that were removed, or replaced by another key
    lastChain,  \* chain of the last configuration that was written
    torn,       \* the last save of the configuration died, failed or was mixed
                \* with another one
    started     \* commands so far

walletVars == <<file, plain, tmp>>
procVars == <<at, cmd, path, cfg, key>>
outcome == <<sent, replaced, lastChain, torn>>
history == <<alone, outcome, started>>
vars == <<walletVars, manifest, conf, procVars, history>>

Steps == {"idle", "init", "init_write", "load", "ensure_open", "ensure_write",
          "check", "look", "tmp", "rename", "open", "write", "deploy"}

\* Somewhere there may be a wallet, and a session with it.
Init ==
    /\ file \in [Wallets -> Keys \cup {None}]
    /\ Cardinality({w \in Wallets : file[w] # None}) <= 1
    /\ plain \in SUBSET {w \in Wallets : file[w] # None}
    /\ tmp = [w \in Wallets |-> None]
    /\ \/ manifest = "none" /\ conf = Default
       \/ /\ manifest = "good"
          /\ conf \in {[wallet |-> w, chain |-> c] : w \in Wallets, c \in Chains}
          /\ file[conf.wallet] # None /\ conf.wallet \notin plain
    /\ at = [p \in Procs |-> "idle"]
    /\ cmd = [p \in Procs |-> "other"]
    /\ path = [p \in Procs |-> ImportPath]
    /\ cfg = [p \in Procs |-> Default]
    /\ key = [p \in Procs |-> None]
    /\ alone = [p \in Procs |-> TRUE]
    /\ sent = [w \in Wallets |-> {}]
    /\ replaced = {} /\ lastChain = conf.chain /\ torn = FALSE
    /\ started = 0

Goto(p, step) == at' = [at EXCEPT ![p] = step]
Busy(p) == at[p] # "idle"

\* Nothing of a process outlives it.
Finish(p) ==
    /\ Goto(p, "idle")
    /\ cmd' = [cmd EXCEPT ![p] = "other"]
    /\ path' = [path EXCEPT ![p] = ImportPath]
    /\ cfg' = [cfg EXCEPT ![p] = Default]
    /\ key' = [key EXCEPT ![p] = None]
    /\ alone' = [alone EXCEPT ![p] = TRUE]

EndOnly(p) ==
    /\ Finish(p)
    /\ UNCHANGED <<walletVars, manifest, conf, outcome, started>>

-----------------------------------------------------------------------------
(* Starting, and the context of a command. *)

\* Only identity create and login take a wallet, and import has its own.
Start(p, c, w) ==
    /\ ~Busy(p)
    /\ started < MaxCommands
    /\ started' = started + 1
    /\ c \notin {"create", "login"} => w = ImportPath
    /\ Goto(p, IF c = "init" THEN "init" ELSE "load")
    /\ cmd' = [cmd EXCEPT ![p] = c]
    /\ path' = [path EXCEPT ![p] = w]
    /\ alone' = [q \in Procs |->
                    IF q = p THEN ~\E r \in Procs \ {p} : Busy(r)
                    ELSE alone[q] /\ ~Busy(q)]
    /\ UNCHANGED <<walletVars, manifest, conf, cfg, key, outcome>>

\* find_repo_root, load_local_config, ensure_deploy_chain: a configuration
\* without a chain gets a new one, and is saved, before anything is checked.
Load(p) ==
    /\ at[p] = "load"
    /\ IF conf.chain # None
       THEN /\ cfg' = [cfg EXCEPT ![p] = conf]
            /\ Goto(p, "check")
       ELSE /\ \E c \in Chains \ ({lastChain} \cup {cfg[q].chain : q \in Procs}) :
                  cfg' = [cfg EXCEPT ![p] = [conf EXCEPT !.chain = c]]
            /\ Goto(p, "ensure_open")
    /\ UNCHANGED <<walletVars, manifest, conf, cmd, path, key, history>>

\* A wallet that the configuration names can be loaded: load_wallet_from_config
\* knows one of the two formats.
Loads(w) == w # None /\ file[w] # None /\ w \notin plain

\* The manifest must be readable, and every command but login and reset needs
\* a wallet; what is not about wallets or the configuration ends here.
Check(p) ==
    /\ at[p] = "check"
    /\ IF manifest # "good" \/ (~Loads(cfg[p].wallet) /\ cmd[p] \notin {"login", "import"})
          \/ cmd[p] = "other"
       THEN EndOnly(p)
       ELSE /\ Goto(p, IF cmd[p] \in {"logout", "api"} THEN "open" ELSE "look")
            /\ UNCHANGED <<walletVars, manifest, conf, cmd, path, cfg, key, history>>

-----------------------------------------------------------------------------
(* Saving the configuration: the file is truncated, then written; the command
   goes on, whether or not either worked. *)

Opening == {"ensure_open", "open"}
Writing == {"ensure_write", "write"}

AfterSave(p) ==
    IF at[p] \in {"ensure_open", "ensure_write"} \/ cmd[p] = "create"
    THEN /\ Goto(p, IF at[p] \in {"open", "write"} THEN "deploy" ELSE "check")
         /\ UNCHANGED <<cmd, path, cfg, key, alone>>
    ELSE Finish(p)

OpenConfig(p) ==
    /\ at[p] \in Opening
    /\ conf' = Default
    /\ Goto(p, IF at[p] = "open" THEN "write" ELSE "ensure_write")
    /\ UNCHANGED <<walletVars, manifest, cmd, path, cfg, key, history>>

\* Mutant: utx logout saves a configuration of its own.
Saved_LogoutDefault(p) ==
    IF at[p] = "ensure_write" THEN cfg[p]
    ELSE CASE cmd[p] = "logout" -> Default
           [] cmd[p] \in {"login", "import", "create"} -> [cfg[p] EXCEPT !.wallet = path[p]]
           [] OTHER -> cfg[p]

\* What is saved: the fields that the command is about, and the others as read.
Saved(p) ==
    IF at[p] = "ensure_write" THEN cfg[p]
    ELSE CASE cmd[p] = "logout" -> [cfg[p] EXCEPT !.wallet = None]
           [] cmd[p] \in {"login", "import", "create"} -> [cfg[p] EXCEPT !.wallet = path[p]]
           [] OTHER -> cfg[p]

\* What another process wrote since is overwritten from its start on: if it was
\* longer, its end remains, and nothing can be parsed.
WriteConfig(p) ==
    /\ at[p] \in Writing
    /\ conf' \in {Saved(p)} \cup (IF conf # Default THEN {Default} ELSE {})
    /\ torn' = (conf' # Saved(p))
    /\ lastChain' = Saved(p).chain
    /\ AfterSave(p)
    /\ UNCHANGED <<walletVars, manifest, sent, replaced, started>>

\* The file cannot be opened, or the disk is full.
SaveFails(p) ==
    /\ at[p] \in Opening \cup Writing
    /\ conf' \in {conf} \cup (IF at[p] \in Writing THEN {Default} ELSE {})
    /\ torn' = (torn \/ at[p] \in Writing)
    /\ AfterSave(p)
    /\ UNCHANGED <<walletVars, manifest, sent, replaced, lastChain, started>>

-----------------------------------------------------------------------------
(* utx init. *)

\* A project is there as soon as its manifest is, even a torn one.
OpenManifest(p) ==
    /\ at[p] = "init"
    /\ IF manifest # "none"
       THEN EndOnly(p)
       ELSE /\ manifest' = "torn"
            /\ Goto(p, "init_write")
            /\ UNCHANGED <<walletVars, conf, cmd, path, cfg, key, history>>

WriteManifest(p) ==
    /\ at[p] = "init_write"
    /\ manifest' = "good"
    /\ Goto(p, "open")
    /\ UNCHANGED <<walletVars, conf, cmd, path, cfg, key, history>>

\* The user removes the manifest, or a checkout does.
RemoveManifest ==
    /\ manifest # "none"
    /\ manifest' = "none"
    /\ UNCHANGED <<walletVars, conf, procVars, history>>

-----------------------------------------------------------------------------
(* utx login and utx identity create: finding the key. *)

\* Mutant: the wallet is not looked at.
LookAtLogin_Unchecked(p) ==
    /\ at[p] = "look" /\ cmd[p] = "login"
    /\ Goto(p, "open")
    /\ UNCHANGED <<walletVars, manifest, conf, cmd, path, cfg, key, history>>

\* utx login <wallet_path>: the file must hold a wallet, of either format.
LookAtLogin(p) ==
    /\ at[p] = "look" /\ cmd[p] = "login"
    /\ IF file[path[p]] = None
       THEN EndOnly(p)
       ELSE /\ key' = [key EXCEPT ![p] = file[path[p]]]
            /\ Goto(p, "open")
            /\ UNCHANGED <<walletVars, manifest, conf, cmd, path, cfg, history>>

\* utx login --b64-file: the key comes from elsewhere.
LookAtImport(p) ==
    /\ at[p] = "look" /\ cmd[p] = "import"
    /\ \E k \in Keys : key' = [key EXCEPT ![p] = k]
    /\ Goto(p, "tmp")
    /\ UNCHANGED <<walletVars, manifest, conf, cmd, path, cfg, history>>

\* generate_keypair returns a key that nobody has.
FreshKeys == {k \in Keys :
    /\ \A w \in Wallets : k # file[w] /\ k # tmp[w] /\ k \notin sent[w]
    /\ \A p \in Procs : k # key[p]}

\* Mutant: a key is generated whether the wallet exists or not.
LookAtCreate_Always(p) ==
    /\ at[p] = "look" /\ cmd[p] = "create"
    /\ \E k \in FreshKeys : key' = [key EXCEPT ![p] = k]
    /\ Goto(p, "tmp")
    /\ UNCHANGED <<walletVars, manifest, conf, cmd, path, cfg, history>>

\* An existing wallet is used again: the operation can be retried.
LookAtCreate(p) ==
    /\ at[p] = "look" /\ cmd[p] = "create"
    /\ IF file[path[p]] = None
       THEN /\ \E k \in FreshKeys : key' = [key EXCEPT ![p] = k]
            /\ Goto(p, "tmp")
            /\ UNCHANGED <<walletVars, manifest, conf, cmd, path, cfg, history>>
       ELSE IF path[p] \in plain
       THEN EndOnly(p)
       ELSE /\ key' = [key EXCEPT ![p] = file[path[p]]]
            /\ Goto(p, "open")
            /\ UNCHANGED <<walletVars, manifest, conf, cmd, path, cfg, history>>

-----------------------------------------------------------------------------
(* save_wallet_atomic. *)

WriteTmp(p) ==
    /\ at[p] = "tmp"
    /\ tmp' = [tmp EXCEPT ![path[p]] = key[p]]
    /\ Goto(p, "rename")
    /\ UNCHANGED <<file, plain, manifest, conf, cmd, path, cfg, key, history>>

\* The rename takes whatever the temporary file holds by now.
Rename(p) ==
    LET w == path[p] IN
    /\ at[p] = "rename"
    /\ tmp[w] # None
    /\ file' = [file EXCEPT ![w] = tmp[w]]
    /\ plain' = plain \ {w}
    /\ tmp' = [tmp EXCEPT ![w] = None]
    /\ replaced' = IF file[w] # None \/ tmp[w] # key[p]
                   THEN replaced \cup {w} ELSE replaced
    /\ Goto(p, "open")
    /\ UNCHANGED <<manifest, conf, cmd, path, cfg, key, alone, sent, lastChain, torn, started>>

\* Mutant: the error of the second rename is not looked at.
RenameFails_Unchecked(p) ==
    LET w == path[p] IN
    /\ at[p] = "rename"
    /\ file' = [file EXCEPT ![w] = None]
    /\ plain' = plain \ {w}
    /\ tmp' = [tmp EXCEPT ![w] = None]
    /\ replaced' = IF file[w] # None THEN replaced \cup {w} ELSE replaced
    /\ Goto(p, "open")
    /\ UNCHANGED <<manifest, conf, cmd, path, cfg, key, alone, sent, lastChain, torn, started>>

\* The first rename fails, so the wallet is removed; the second one fails too,
\* as it must when another process has renamed the temporary file.
RenameFails(p) ==
    LET w == path[p] IN
    /\ at[p] = "rename"
    /\ file' = [file EXCEPT ![w] = None]
    /\ plain' = plain \ {w}
    /\ tmp' = [tmp EXCEPT ![w] = None]
    /\ replaced' = IF file[w] # None THEN replaced \cup {w} ELSE replaced
    /\ Finish(p)
    /\ UNCHANGED <<manifest, conf, sent, lastChain, torn, started>>

-----------------------------------------------------------------------------
(* utx identity create: the network. *)

\* DeployClient::deploy submits the identity, whatever it then returns.
Deploy(p) ==
    /\ at[p] = "deploy"
    /\ sent' = [sent EXCEPT ![path[p]] = @ \cup {key[p]}]
    /\ Finish(p)
    /\ UNCHANGED <<walletVars, manifest, conf, replaced, lastChain, torn, started>>

\* Projectors for an identity that exists, a network that is not there.
DeployFails(p) ==
    /\ at[p] = "deploy"
    /\ EndOnly(p)

Crash(p) ==
    /\ Busy(p)
    /\ torn' = (torn \/ at[p] \in Writing)
    /\ Finish(p)
    /\ UNCHANGED <<walletVars, manifest, conf, sent, replaced, lastChain, started>>

Step(p) ==
    \/ \E c \in Commands, w \in Wallets : Start(p, c, w)
    \/ Load(p) \/ Check(p)
    \/ OpenConfig(p) \/ WriteConfig(p) \/ SaveFails(p)
    \/ OpenManifest(p) \/ WriteManifest(p)
    \/ LookAtLogin(p) \/ LookAtImport(p) \/ LookAtCreate(p)
    \/ WriteTmp(p) \/ Rename(p) \/ RenameFails(p)
    \/ Deploy(p) \/ DeployFails(p)
    \/ Crash(p)

Next == (\E p \in Procs : Step(p)) \/ RemoveManifest

Spec == Init /\ [][Next]_vars

-----------------------------------------------------------------------------
(* Properties. *)

TypeOK ==
    /\ file \in [Wallets -> Keys \cup {None}]
    /\ plain \subseteq {w \in Wallets : file[w] # None}
    /\ tmp \in [Wallets -> Keys \cup {None}]
    /\ manifest \in {"none", "torn", "good"}
    /\ conf \in Configs
    /\ at \in [Procs -> Steps]
    /\ cmd \in [Procs -> Commands]
    /\ path \in [Procs -> Wallets]
    /\ cfg \in [Procs -> Configs]
    /\ key \in [Procs -> Keys \cup {None}]
    /\ \A p \in Procs :
          /\ at[p] \in {"tmp", "rename", "deploy"} => key[p] # None
          /\ at[p] \notin {"idle", "load"} /\ cmd[p] # "init" => cfg[p].chain # None
    /\ alone \in [Procs -> BOOLEAN]
    /\ sent \in [Wallets -> SUBSET Keys]
    /\ replaced \in SUBSET Wallets
    /\ lastChain \in Chains \cup {None}
    /\ torn \in BOOLEAN
    /\ started \in 0..MaxCommands

\* Whatever key was submitted to the network, the wallet it was created for
\* holds it, at every moment and after every failure and crash, unless that
\* file was replaced: so an identity create that is retried with the same
\* wallet signs with the same key and makes no second identity
\* (IdentityCommand.hpp:134-170, 224-227).
KeyKept ==
    \A w \in Wallets \ replaced : \A k \in sent[w] : file[w] = k

\* The configuration never names a wallet that was not saved
\* (IdentityCommand.hpp:156-175, LoginCommand.hpp:61-146).
SessionNamesWallet ==
    conf.wallet # None => file[conf.wallet] # None \/ conf.wallet \in replaced

\* A command that has the working copy to itself replaces a wallet only when it
\* imports one; identity create never does
\* (IdentityCommand.hpp:134-170, LoginCommand.hpp:78-94).
WalletsKept ==
    [][\A w \in replaced' \ replaced :
          \E p \in Procs : /\ at[p] = "rename" /\ path[p] = w
                           /\ cmd[p] = "import" \/ ~alone[p]]_vars

\* A command that has the working copy to itself never changes the deploy chain
\* of a project whose last save was complete: only init does, where there is no
\* manifest.  A save that fails or dies loses the chain, without a word; the next
\* complete save, which names a new one, is the only step that may, and from
\* then on the new chain is kept
\* (AppContext.hpp:51-91, DeployConfig.hpp:19-23, 85-92, main.cpp:28-36).
DeployChainKept ==
    [][lastChain # None /\ lastChain' # lastChain =>
          \E p \in Procs : /\ at[p] \in Writing
                           /\ cmd[p] = "init" \/ ~alone[p] \/ torn]_vars
=============================================================================
