---------------------------- MODULE SessionProofs ----------------------------
(***************************************************************************)
(* Proofs about Session, for any processes, wallets, keys and chains.       *)
(***************************************************************************)
EXTENDS Session, TLAPS

HasKey == {"login", "import", "create"}

\* Which commands get where.
RoleInv ==
    \A p \in Procs :
        /\ cmd[p] = "init" => at[p] \in {"init", "init_write", "open", "write"}
        /\ at[p] \in {"init", "init_write"} => cmd[p] = "init"
        /\ at[p] = "look" => cmd[p] \in HasKey
        /\ at[p] \in {"tmp", "rename"} => cmd[p] \in {"import", "create"}
        /\ at[p] = "deploy" => cmd[p] = "create"

\* From the moment a command has its key in a wallet the wallet keeps it.
KeyInv ==
    \A p \in Procs :
        at[p] \in {"open", "write", "deploy"} /\ cmd[p] \in HasKey =>
            key[p] # None /\ (path[p] \in replaced \/ file[path[p]] = key[p])

\* A wallet that was saved once.
WasSaved(w) == file[w] # None \/ w \in replaced

\* The configurations in memory, too, name wallets that were saved.
NameInv == \A p \in Procs : cfg[p].wallet # None => WasSaved(cfg[p].wallet)

\* A process that has been alone is alone, and nobody touched its wallet.
AloneInv ==
    \A p \in Procs : alone[p] =>
        /\ Busy(p) => \A q \in Procs \ {p} : ~Busy(q)
        /\ cmd[p] = "create" /\ at[p] \in {"tmp", "rename"} => file[path[p]] = None
        /\ at[p] = "rename" => tmp[path[p]] = key[p]

\* The chain on disk, and in the memory of a process that is alone.
ChainInv ==
    ~torn =>
        /\ conf.chain = lastChain \/ \E p \in Procs : at[p] \in Writing
        /\ \A p \in Procs :
              alone[p] /\ cmd[p] # "init" /\ at[p] \notin {"idle", "load"} =>
                  lastChain \in {None, cfg[p].chain}

SessionInv ==
    /\ TypeOK /\ RoleInv /\ KeyInv /\ NameInv /\ AloneInv /\ ChainInv
    /\ KeyKept /\ SessionNamesWallet

LEMMA InitEstablishes == Init => SessionInv
<1> SUFFICES ASSUME Init PROVE SessionInv
  OBVIOUS
<1> USE PathsAssumption, NoneAssumption, BoundAssumption DEF Init, Default
<1>1. TypeOK
  <2>1. conf \in Configs /\ lastChain \in Chains \cup {None} /\ manifest \in {"none", "torn", "good"}
    BY DEF Configs
  <2>2. cfg \in [Procs -> Configs] /\ path \in [Procs -> Wallets]
    BY DEF Configs
  <2>3. at \in [Procs -> Steps] /\ cmd \in [Procs -> Commands]
    BY DEF Steps, Commands
  <2>4. key \in [Procs -> Keys \cup {None}] /\ alone \in [Procs -> BOOLEAN]
    OBVIOUS
  <2>5. sent \in [Wallets -> SUBSET Keys] /\ tmp \in [Wallets -> Keys \cup {None}]
    OBVIOUS
  <2>6. plain \subseteq {w \in Wallets : file[w] # None} /\ file \in [Wallets -> Keys \cup {None}]
    OBVIOUS
  <2>7. started \in 0..MaxCommands
    OBVIOUS
  <2>8. replaced \in SUBSET Wallets /\ torn \in BOOLEAN
    OBVIOUS
  <2>9. \A p \in Procs : at[p] = "idle"
    OBVIOUS
  <2> QED
    BY <2>1, <2>2, <2>3, <2>4, <2>5, <2>6, <2>7, <2>8, <2>9 DEF TypeOK
<1>2. RoleInv /\ KeyInv /\ NameInv /\ AloneInv
  BY DEF RoleInv, KeyInv, NameInv, AloneInv, HasKey, Busy
<1>3. ChainInv /\ KeyKept /\ SessionNamesWallet
  BY DEF ChainInv, Writing, KeyKept, SessionNamesWallet
<1> QED
  BY <1>1, <1>2, <1>3 DEF SessionInv

LEMMA ConfigFacts ==
  /\ Default \in Configs
  /\ \A x \in Configs : x.chain \in Chains \cup {None} /\ x.wallet \in Wallets \cup {None}
  /\ \A x \in Configs, w \in Wallets \cup {None} :
        [x EXCEPT !.wallet = w] \in Configs /\ [x EXCEPT !.wallet = w].chain = x.chain
  /\ \A x \in Configs, c \in Chains \cup {None} :
        [x EXCEPT !.chain = c] \in Configs /\ [x EXCEPT !.chain = c].chain = c
BY DEF Configs, Default

\* The end of a command leaves nothing of it.
LEMMA FinishTypes ==
  ASSUME TypeOK, NEW p \in Procs, Finish(p)
  PROVE  /\ at' \in [Procs -> Steps] /\ cmd' \in [Procs -> Commands]
         /\ path' \in [Procs -> Wallets] /\ cfg' \in [Procs -> Configs]
         /\ key' \in [Procs -> Keys \cup {None}] /\ alone' \in [Procs -> BOOLEAN]
         /\ \A q \in Procs :
               /\ at'[q] \in {"tmp", "rename", "deploy"} => key'[q] # None
               /\ at'[q] \notin {"idle", "load"} /\ cmd'[q] # "init" => cfg'[q].chain # None
<1>1. at' \in [Procs -> Steps] /\ cmd' \in [Procs -> Commands]
  BY DEF TypeOK, Finish, Goto, Steps, Commands
<1>2. path' \in [Procs -> Wallets] /\ cfg' \in [Procs -> Configs]
  BY PathsAssumption, ConfigFacts DEF TypeOK, Finish
<1>3. key' \in [Procs -> Keys \cup {None}] /\ alone' \in [Procs -> BOOLEAN]
  BY DEF TypeOK, Finish
<1>4. /\ at'[p] = "idle"
      /\ \A q \in Procs \ {p} :
            at'[q] = at[q] /\ cmd'[q] = cmd[q] /\ cfg'[q] = cfg[q] /\ key'[q] = key[q]
  BY DEF TypeOK, Finish, Goto
<1>5. \A q \in Procs :
         /\ at'[q] \in {"tmp", "rename", "deploy"} => key'[q] # None
         /\ at'[q] \notin {"idle", "load"} /\ cmd'[q] # "init" => cfg'[q].chain # None
  BY <1>4 DEF TypeOK
<1> QED
  BY <1>1, <1>2, <1>3, <1>5

LEMMA TypeStep ==
  ASSUME TypeOK, RoleInv, KeyInv, NEW p \in Procs, Step(p)
  PROVE  TypeOK'
<1> USE PathsAssumption, NoneAssumption, BoundAssumption, ConfigFacts
        DEF Goto, Busy, HasKey, walletVars, procVars, outcome, history,
            TypeOK, RoleInv, KeyInv, Steps, Commands
<1>0. ASSUME EndOnly(p) PROVE TypeOK'
  <2> USE <1>0 DEF EndOnly, Finish
  <2>1. at' \in [Procs -> Steps] /\ cmd' \in [Procs -> Commands]
    BY DEF Steps, Commands
  <2>2. cfg' \in [Procs -> Configs]
    BY ConfigFacts
  <2>3. path' \in [Procs -> Wallets] /\ key' \in [Procs -> Keys \cup {None}] /\ alone' \in [Procs -> BOOLEAN]
    OBVIOUS
  <2>4. \A q \in Procs :
            /\ at'[q] \in {"tmp", "rename", "deploy"} => key'[q] # None
            /\ at'[q] \notin {"idle", "load"} /\ cmd'[q] # "init" => cfg'[q].chain # None
    OBVIOUS
  <2> QED
    BY <2>1, <2>2, <2>3, <2>4
<1>1. CASE \E c \in Commands, w \in Wallets : Start(p, c, w)
  <2> PICK c \in Commands, w \in Wallets : Start(p, c, w)
    BY <1>1
  <2>1. alone' \in [Procs -> BOOLEAN]
    BY DEF Start
  <2>2. started' \in 0..MaxCommands
    BY DEF Start
  <2>3. at' \in [Procs -> Steps] /\ cmd' \in [Procs -> Commands] /\ path' \in [Procs -> Wallets]
    BY DEF Start
  <2> QED
    BY <2>1, <2>2, <2>3 DEF Start
<1>2. CASE Load(p)
  <2>1. CASE conf.chain # None
    BY <1>2, <2>1 DEF Load
  <2>2. CASE conf.chain = None
    <3>1. PICK c \in Chains : cfg' = [cfg EXCEPT ![p] = [conf EXCEPT !.chain = c]]
      BY <1>2, <2>2 DEF Load
    <3>2. c # None /\ [conf EXCEPT !.chain = c] \in Configs /\ [conf EXCEPT !.chain = c].chain = c
      OBVIOUS
    <3>3. cfg' \in [Procs -> Configs] /\ cfg'[p].chain # None
      BY <3>1, <3>2
    <3>4. /\ at' = [at EXCEPT ![p] = "ensure_open"]
          /\ UNCHANGED <<walletVars, manifest, conf, cmd, path, key, history>>
      BY <1>2, <2>2 DEF Load
    <3> QED
      BY <1>2, <3>1, <3>3, <3>4 DEF Load
  <2> QED
    BY <2>1, <2>2
<1>3. CASE Check(p)
  <2>1. CASE EndOnly(p)
    BY <1>0, <2>1
  <2>2. CASE ~EndOnly(p)
    <3>1. at' \in [Procs -> Steps]
      BY <1>3, <2>2 DEF Check
    <3> QED
      BY <1>3, <2>2, <3>1 DEF Check
  <2> QED
    BY <2>1, <2>2
<1>4. CASE OpenConfig(p)
  BY <1>4 DEF OpenConfig, Opening
<1>5. CASE WriteConfig(p)
  <2>1. Saved(p) \in Configs
    BY <1>5 DEF WriteConfig, Saved
  <2>2. CASE at[p] = "write" /\ cmd[p] # "create"
    <3>1. Finish(p)
      BY <1>5, <2>2 DEF WriteConfig, AfterSave
    <3>2. conf' \in Configs /\ lastChain' \in Chains \cup {None} /\ torn' \in BOOLEAN
      BY <1>5, <2>1 DEF WriteConfig
    <3> QED
      BY <1>5, <3>1, <3>2, FinishTypes DEF WriteConfig
  <2>3. CASE ~(at[p] = "write" /\ cmd[p] # "create")
    <3>1. conf' \in Configs /\ lastChain' \in Chains \cup {None} /\ torn' \in BOOLEAN
      BY <1>5, <2>1 DEF WriteConfig
    <3>2. /\ at' = [at EXCEPT ![p] = IF at[p] = "write" THEN "deploy" ELSE "check"]
          /\ cmd' = cmd /\ path' = path /\ cfg' = cfg /\ key' = key /\ alone' = alone
      BY <1>5, <2>3 DEF WriteConfig, Writing, AfterSave
    <3>3. at' \in [Procs -> Steps]
      BY <3>2
    <3>4. \A q \in Procs :
             /\ at'[q] \in {"tmp", "rename", "deploy"} => key'[q] # None
             /\ at'[q] \notin {"idle", "load"} /\ cmd'[q] # "init" => cfg'[q].chain # None
      <4>1. at[p] \in {"ensure_write", "write"} /\ (at[p] = "write" => cmd[p] = "create")
        BY <1>5, <2>3 DEF WriteConfig, Writing
      <4>2. at'[p] = "deploy" => key[p] # None
        BY <3>2, <4>1
      <4> QED
        BY <3>2, <4>1, <4>2
    <3> QED
      BY <1>5, <3>1, <3>2, <3>3, <3>4 DEF WriteConfig
  <2> QED
    BY <2>2, <2>3
<1>6. CASE OpenManifest(p)
  <2>1. CASE EndOnly(p)
    BY <1>0, <2>1
  <2>2. CASE ~EndOnly(p)
    BY <1>6, <2>2 DEF OpenManifest
  <2> QED
    BY <2>1, <2>2
<1>7. CASE WriteManifest(p)
  BY <1>7 DEF WriteManifest
<1>8. CASE LookAtLogin(p)
  <2>1. CASE EndOnly(p)
    BY <1>0, <2>1
  <2>2. CASE ~EndOnly(p)
    <3>1. at' \in [Procs -> Steps]
      BY <1>8, <2>2 DEF LookAtLogin
    <3>2. key' \in [Procs -> Keys \cup {None}]
      BY <1>8, <2>2 DEF LookAtLogin
    <3> QED
      BY <1>8, <2>2, <3>1, <3>2 DEF LookAtLogin
  <2> QED
    BY <2>1, <2>2
<1>9. CASE LookAtImport(p)
  BY <1>9 DEF LookAtImport
<1>10. CASE LookAtCreate(p)
  <2>1. CASE EndOnly(p)
    BY <1>0, <2>1
  <2>2. CASE ~EndOnly(p)
    <3>0. Goto(p, "tmp") \/ Goto(p, "open")
      BY <1>10, <2>2 DEF LookAtCreate
    <3>1. at' \in [Procs -> Steps]
      BY <3>0
    <3>2. key' \in [Procs -> Keys \cup {None}]
      BY <1>10, <2>2 DEF LookAtCreate, FreshKeys
    <3> QED
      BY <1>10, <2>2, <3>1, <3>2 DEF LookAtCreate, FreshKeys
  <2> QED
    BY <2>1, <2>2
<1>11. CASE WriteTmp(p)
  BY <1>11 DEF WriteTmp
<1>12. CASE Rename(p)
  BY <1>12 DEF Rename
<1>13. CASE RenameFails(p)
  BY <1>13 DEF RenameFails, Finish
<1>14. CASE Deploy(p)
  BY <1>14 DEF Deploy, Finish
<1>15. CASE DeployFails(p)
  BY <1>0, <1>15 DEF DeployFails
<1>16. CASE Crash(p)
  BY <1>16 DEF Crash, Finish
<1>17. CASE SaveFails(p)
  <2>1. CASE Finish(p)
    BY <1>17, <2>1, FinishTypes DEF SaveFails
  <2>2. CASE ~Finish(p)
    <3>1. /\ at[p] \in {"ensure_open", "ensure_write"} \/ cmd[p] = "create"
          /\ at' = [at EXCEPT ![p] = IF at[p] \in {"open", "write"} THEN "deploy" ELSE "check"]
          /\ UNCHANGED <<cmd, path, cfg, key, alone>>
      BY <1>17, <2>2 DEF SaveFails, AfterSave
    <3>2. at[p] \in {"ensure_open", "ensure_write", "open", "write"}
      BY <1>17 DEF SaveFails, Opening, Writing
    <3> QED
      BY <1>17, <3>1, <3>2 DEF SaveFails
  <2> QED
    BY <2>1, <2>2
<1> QED
  BY <1>1, <1>2, <1>3, <1>4, <1>5, <1>6, <1>7, <1>8, <1>9, <1>10, <1>11, <1>12,
     <1>13, <1>14, <1>15, <1>16, <1>17 DEF Step

LEMMA RoleStep ==
  ASSUME TypeOK, RoleInv, NEW p \in Procs, Step(p)
  PROVE  RoleInv'
<1> USE DEF Goto, Busy, HasKey, walletVars, procVars, outcome, history,
            TypeOK, RoleInv, Commands
<1>0. ASSUME EndOnly(p) PROVE RoleInv'
  BY <1>0 DEF EndOnly, Finish
<1>1. CASE \E c \in Commands, w \in Wallets : Start(p, c, w)
  BY <1>1 DEF Start
<1>2. CASE Load(p)
  BY <1>2 DEF Load
<1>3. CASE Check(p)
  <2>1. CASE EndOnly(p)
    BY <1>0, <2>1
  <2>2. CASE ~EndOnly(p)
    BY <1>3, <2>2 DEF Check
  <2> QED
    BY <2>1, <2>2
<1>4. CASE OpenConfig(p)
  BY <1>4 DEF OpenConfig, Opening
<1>5. CASE WriteConfig(p)
  BY <1>5 DEF WriteConfig, Writing, Saved, AfterSave, Finish
<1>6. CASE OpenManifest(p)
  <2>1. CASE EndOnly(p)
    BY <1>0, <2>1
  <2>2. CASE ~EndOnly(p)
    BY <1>6, <2>2 DEF OpenManifest
  <2> QED
    BY <2>1, <2>2
<1>7. CASE WriteManifest(p)
  BY <1>7 DEF WriteManifest
<1>8. CASE LookAtLogin(p)
  <2>1. CASE EndOnly(p)
    BY <1>0, <2>1
  <2>2. CASE ~EndOnly(p)
    BY <1>8, <2>2 DEF LookAtLogin
  <2> QED
    BY <2>1, <2>2
<1>9. CASE LookAtImport(p)
  BY <1>9 DEF LookAtImport
<1>10. CASE LookAtCreate(p)
  <2>1. CASE EndOnly(p)
    BY <1>0, <2>1
  <2>2. CASE ~EndOnly(p)
    BY <1>10, <2>2 DEF LookAtCreate, FreshKeys
  <2> QED
    BY <2>1, <2>2
<1>11. CASE WriteTmp(p)
  BY <1>11 DEF WriteTmp
<1>12. CASE Rename(p)
  BY <1>12 DEF Rename
<1>13. CASE RenameFails(p)
  BY <1>13 DEF RenameFails, Finish
<1>14. CASE Deploy(p)
  BY <1>14 DEF Deploy, Finish
<1>15. CASE DeployFails(p)
  BY <1>0, <1>15 DEF DeployFails
<1>16. CASE Crash(p)
  BY <1>16 DEF Crash, Finish
<1>17. CASE SaveFails(p)
  BY <1>17 DEF SaveFails, Opening, Writing, AfterSave, Finish
<1> QED
  BY <1>1, <1>2, <1>3, <1>4, <1>5, <1>6, <1>7, <1>8, <1>9, <1>10, <1>11, <1>12,
     <1>13, <1>14, <1>15, <1>16, <1>17 DEF Step

LEMMA KeyStep ==
  ASSUME TypeOK, RoleInv, KeyInv, KeyKept, NEW p \in Procs, Step(p)
  PROVE  KeyInv' /\ KeyKept'
<1> USE PathsAssumption, NoneAssumption
        DEF Goto, Busy, HasKey, walletVars, procVars, outcome, history,
            TypeOK, RoleInv, KeyInv, KeyKept
<1>0. ASSUME EndOnly(p) PROVE KeyInv' /\ KeyKept'
  BY <1>0 DEF EndOnly, Finish
<1>1. CASE \E c \in Commands, w \in Wallets : Start(p, c, w)
  BY <1>1 DEF Start
<1>2. CASE Load(p)
  BY <1>2 DEF Load
<1>3. CASE Check(p)
  <2>1. CASE EndOnly(p)
    BY <1>0, <2>1
  <2>2. CASE ~EndOnly(p)
    BY <1>3, <2>2 DEF Check
  <2> QED
    BY <2>1, <2>2
<1>4. CASE OpenConfig(p)
  BY <1>4 DEF OpenConfig, Opening
<1>5. CASE WriteConfig(p)
  BY <1>5 DEF WriteConfig, Writing, Saved, AfterSave, Finish
<1>6. CASE OpenManifest(p)
  <2>1. CASE EndOnly(p)
    BY <1>0, <2>1
  <2>2. CASE ~EndOnly(p)
    BY <1>6, <2>2 DEF OpenManifest
  <2> QED
    BY <2>1, <2>2
<1>7. CASE WriteManifest(p)
  BY <1>7 DEF WriteManifest
<1>8. CASE LookAtLogin(p)
  <2>1. CASE EndOnly(p)
    BY <1>0, <2>1
  <2>2. CASE ~EndOnly(p)
    BY <1>8, <2>2 DEF LookAtLogin
  <2> QED
    BY <2>1, <2>2
<1>9. CASE LookAtImport(p)
  BY <1>9 DEF LookAtImport
<1>10. CASE LookAtCreate(p)
  <2>1. CASE EndOnly(p)
    BY <1>0, <2>1
  <2>2. CASE ~EndOnly(p)
    BY <1>10, <2>2 DEF LookAtCreate, FreshKeys
  <2> QED
    BY <2>1, <2>2
<1>11. CASE WriteTmp(p)
  BY <1>11 DEF WriteTmp
<1>12. CASE Rename(p)
  BY <1>12 DEF Rename
<1>13. CASE RenameFails(p)
  BY <1>13 DEF RenameFails, Finish
<1>14. CASE Deploy(p)
  BY <1>14 DEF Deploy, Finish
<1>15. CASE DeployFails(p)
  BY <1>0, <1>15 DEF DeployFails
<1>16. CASE Crash(p)
  BY <1>16 DEF Crash, Finish
<1>17. CASE SaveFails(p)
  BY <1>17 DEF SaveFails, Opening, Writing, AfterSave, Finish
<1> QED
  BY <1>1, <1>2, <1>3, <1>4, <1>5, <1>6, <1>7, <1>8, <1>9, <1>10, <1>11, <1>12,
     <1>13, <1>14, <1>15, <1>16, <1>17 DEF Step

LEMMA NameStep ==
  ASSUME TypeOK, RoleInv, KeyInv, NameInv, SessionNamesWallet, NEW p \in Procs, Step(p)
  PROVE  NameInv' /\ SessionNamesWallet'
<1> USE PathsAssumption, NoneAssumption
        DEF Goto, Busy, HasKey, walletVars, procVars, outcome, history,
            TypeOK, RoleInv, KeyInv, NameInv, SessionNamesWallet, WasSaved, Configs, Default
<1>0. ASSUME EndOnly(p) PROVE NameInv' /\ SessionNamesWallet'
  BY <1>0 DEF EndOnly, Finish
<1>1. CASE \E c \in Commands, w \in Wallets : Start(p, c, w)
  BY <1>1 DEF Start
<1>2. CASE Load(p)
  BY <1>2 DEF Load
<1>3. CASE Check(p)
  <2>1. CASE EndOnly(p)
    BY <1>0, <2>1
  <2>2. CASE ~EndOnly(p)
    BY <1>3, <2>2 DEF Check
  <2> QED
    BY <2>1, <2>2
<1>4. CASE OpenConfig(p)
  BY <1>4 DEF OpenConfig, Opening
<1>5. CASE WriteConfig(p)
  BY <1>5 DEF WriteConfig, Writing, Saved, AfterSave, Finish
<1>6. CASE OpenManifest(p)
  <2>1. CASE EndOnly(p)
    BY <1>0, <2>1
  <2>2. CASE ~EndOnly(p)
    BY <1>6, <2>2 DEF OpenManifest
  <2> QED
    BY <2>1, <2>2
<1>7. CASE WriteManifest(p)
  BY <1>7 DEF WriteManifest
<1>8. CASE LookAtLogin(p)
  <2>1. CASE EndOnly(p)
    BY <1>0, <2>1
  <2>2. CASE ~EndOnly(p)
    BY <1>8, <2>2 DEF LookAtLogin
  <2> QED
    BY <2>1, <2>2
<1>9. CASE LookAtImport(p)
  BY <1>9 DEF LookAtImport
<1>10. CASE LookAtCreate(p)
  <2>1. CASE EndOnly(p)
    BY <1>0, <2>1
  <2>2. CASE ~EndOnly(p)
    BY <1>10, <2>2 DEF LookAtCreate, FreshKeys
  <2> QED
    BY <2>1, <2>2
<1>11. CASE WriteTmp(p)
  BY <1>11 DEF WriteTmp
<1>12. CASE Rename(p)
  BY <1>12 DEF Rename
<1>13. CASE RenameFails(p)
  BY <1>13 DEF RenameFails, Finish
<1>14. CASE Deploy(p)
  BY <1>14 DEF Deploy, Finish
<1>15. CASE DeployFails(p)
  BY <1>0, <1>15 DEF DeployFails
<1>16. CASE Crash(p)
  BY <1>16 DEF Crash, Finish
<1>17. CASE SaveFails(p)
  <2>1. CASE Finish(p)
    BY <1>17, <2>1 DEF SaveFails, Finish
  <2>2. CASE ~Finish(p)
    <3>1. /\ at[p] \in {"ensure_open", "ensure_write"} \/ cmd[p] = "create"
          /\ at' = [at EXCEPT ![p] = IF at[p] \in {"open", "write"} THEN "deploy" ELSE "check"]
          /\ UNCHANGED <<cmd, path, cfg, key, alone>>
      BY <1>17, <2>2 DEF SaveFails, AfterSave
    <3>2. at[p] \in {"ensure_open", "ensure_write", "open", "write"}
      BY <1>17 DEF SaveFails, Opening, Writing
    <3> QED
      BY <1>17, <3>1, <3>2 DEF SaveFails
  <2> QED
    BY <2>1, <2>2
<1> QED
  BY <1>1, <1>2, <1>3, <1>4, <1>5, <1>6, <1>7, <1>8, <1>9, <1>10, <1>11, <1>12,
     <1>13, <1>14, <1>15, <1>16, <1>17 DEF Step

LEMMA AloneStep ==
  ASSUME TypeOK, RoleInv, AloneInv, NEW p \in Procs, Step(p)
  PROVE  AloneInv'
<1> USE PathsAssumption, NoneAssumption
        DEF Goto, Busy, HasKey, walletVars, procVars, outcome, history,
            TypeOK, RoleInv, AloneInv
<1>0. ASSUME EndOnly(p) PROVE AloneInv'
  BY <1>0 DEF EndOnly, Finish
<1>1. CASE \E c \in Commands, w \in Wallets : Start(p, c, w)
  <2> PICK c \in Commands, w \in Wallets : Start(p, c, w)
    BY <1>1
  <2> SUFFICES ASSUME NEW q \in Procs, alone'[q]
               PROVE  /\ at'[q] # "idle" => \A r \in Procs \ {q} : at'[r] = "idle"
                      /\ cmd'[q] = "create" /\ at'[q] \in {"tmp", "rename"} =>
                            file'[path'[q]] = None
                      /\ at'[q] = "rename" => tmp'[path'[q]] = key'[q]
    OBVIOUS
  <2>0. alone' = [r \in Procs |->
                    IF r = p THEN ~\E x \in Procs \ {p} : at[x] # "idle"
                    ELSE alone[r] /\ at[r] = "idle"]
    BY DEF Start
  <2>1. CASE q = p
    <3>1. ~\E x \in Procs \ {p} : at[x] # "idle"
      BY <2>0, <2>1
    <3> QED
      BY <2>1, <3>1 DEF Start
  <2>2. CASE q # p
    <3>1. alone[q] /\ at[q] = "idle"
      BY <2>0, <2>2
    <3> QED
      BY <2>2, <3>1 DEF Start
  <2> QED
    BY <2>1, <2>2
<1>2. CASE Load(p)
  BY <1>2 DEF Load
<1>3. CASE Check(p)
  <2>1. CASE EndOnly(p)
    BY <1>0, <2>1
  <2>2. CASE ~EndOnly(p)
    BY <1>3, <2>2 DEF Check
  <2> QED
    BY <2>1, <2>2
<1>4. CASE OpenConfig(p)
  BY <1>4 DEF OpenConfig, Opening
<1>5. CASE WriteConfig(p)
  BY <1>5 DEF WriteConfig, Writing, Saved, AfterSave, Finish
<1>6. CASE OpenManifest(p)
  <2>1. CASE EndOnly(p)
    BY <1>0, <2>1
  <2>2. CASE ~EndOnly(p)
    BY <1>6, <2>2 DEF OpenManifest
  <2> QED
    BY <2>1, <2>2
<1>7. CASE WriteManifest(p)
  BY <1>7 DEF WriteManifest
<1>8. CASE LookAtLogin(p)
  <2>1. CASE EndOnly(p)
    BY <1>0, <2>1
  <2>2. CASE ~EndOnly(p)
    BY <1>8, <2>2 DEF LookAtLogin
  <2> QED
    BY <2>1, <2>2
<1>9. CASE LookAtImport(p)
  BY <1>9 DEF LookAtImport
<1>10. CASE LookAtCreate(p)
  <2>1. CASE EndOnly(p)
    BY <1>0, <2>1
  <2>2. CASE ~EndOnly(p)
    BY <1>10, <2>2 DEF LookAtCreate, FreshKeys
  <2> QED
    BY <2>1, <2>2
<1>11. CASE WriteTmp(p)
  BY <1>11 DEF WriteTmp
<1>12. CASE Rename(p)
  BY <1>12 DEF Rename
<1>13. CASE RenameFails(p)
  BY <1>13 DEF RenameFails, Finish
<1>14. CASE Deploy(p)
  BY <1>14 DEF Deploy, Finish
<1>15. CASE DeployFails(p)
  BY <1>0, <1>15 DEF DeployFails
<1>16. CASE Crash(p)
  BY <1>16 DEF Crash, Finish
<1>17. CASE SaveFails(p)
  BY <1>17 DEF SaveFails, Opening, Writing, AfterSave, Finish
<1> QED
  BY <1>1, <1>2, <1>3, <1>4, <1>5, <1>6, <1>7, <1>8, <1>9, <1>10, <1>11, <1>12,
     <1>13, <1>14, <1>15, <1>16, <1>17 DEF Step

LEMMA ChainStep ==
  ASSUME TypeOK, RoleInv, AloneInv, ChainInv, NEW p \in Procs, Step(p)
  PROVE  ChainInv'
<1> USE PathsAssumption, NoneAssumption
        DEF Goto, Busy, HasKey, walletVars, procVars, outcome, history,
            TypeOK, RoleInv, AloneInv, ChainInv, Configs, Default, Writing
<1>0. ASSUME EndOnly(p), at[p] \notin Writing PROVE ChainInv'
  BY <1>0 DEF EndOnly, Finish
<1>1. CASE \E c \in Commands, w \in Wallets : Start(p, c, w)
  BY <1>1 DEF Start
<1>2. CASE Load(p)
  BY <1>2 DEF Load
<1>3. CASE Check(p)
  <2>1. CASE EndOnly(p)
    BY <1>0, <1>3, <2>1 DEF Check
  <2>2. CASE ~EndOnly(p)
    BY <1>3, <2>2 DEF Check
  <2> QED
    BY <2>1, <2>2
<1>4. CASE OpenConfig(p)
  BY <1>4 DEF OpenConfig, Opening
<1>5. CASE WriteConfig(p)
  <2>0. lastChain' = Saved(p).chain /\ Saved(p).chain = cfg[p].chain
    BY <1>5, ConfigFacts DEF WriteConfig, Saved
  <2>00. ~torn' => conf' = Saved(p)
    BY <1>5, Zenon DEF WriteConfig
  <2>1. /\ lastChain' = cfg[p].chain
        /\ ~torn' => conf'.chain = lastChain'
    BY <2>0, <2>00
  <2>2. \A q \in Procs \ {p} : alone'[q] => at'[q] = "idle"
    <3>1. \A q \in Procs \ {p} : alone[q] => at[q] = "idle"
      BY <1>5 DEF WriteConfig
    <3> QED
      BY <1>5, <3>1 DEF WriteConfig, AfterSave, Finish
  <2>3. at'[p] # "idle" => cfg'[p] = cfg[p]
    BY <1>5 DEF WriteConfig, AfterSave, Finish
  <2> QED
    BY <2>1, <2>2, <2>3
<1>6. CASE OpenManifest(p)
  <2>1. CASE EndOnly(p)
    BY <1>0, <1>6, <2>1 DEF OpenManifest
  <2>2. CASE ~EndOnly(p)
    BY <1>6, <2>2 DEF OpenManifest
  <2> QED
    BY <2>1, <2>2
<1>7. CASE WriteManifest(p)
  BY <1>7 DEF WriteManifest
<1>8. CASE LookAtLogin(p)
  <2>1. CASE EndOnly(p)
    BY <1>0, <1>8, <2>1 DEF LookAtLogin
  <2>2. CASE ~EndOnly(p)
    BY <1>8, <2>2 DEF LookAtLogin
  <2> QED
    BY <2>1, <2>2
<1>9. CASE LookAtImport(p)
  BY <1>9 DEF LookAtImport
<1>10. CASE LookAtCreate(p)
  <2>1. CASE EndOnly(p)
    BY <1>0, <1>10, <2>1 DEF LookAtCreate, FreshKeys
  <2>2. CASE ~EndOnly(p)
    BY <1>10, <2>2 DEF LookAtCreate, FreshKeys
  <2> QED
    BY <2>1, <2>2
<1>11. CASE WriteTmp(p)
  BY <1>11 DEF WriteTmp
<1>12. CASE Rename(p)
  BY <1>12 DEF Rename
<1>13. CASE RenameFails(p)
  BY <1>13 DEF RenameFails, Finish
<1>14. CASE Deploy(p)
  BY <1>14 DEF Deploy, Finish
<1>15. CASE DeployFails(p)
  BY <1>0, <1>15 DEF DeployFails
<1>16. CASE Crash(p)
  <2>1. CASE at[p] \in Writing
    BY <1>16, <2>1 DEF Crash
  <2>2. CASE at[p] \notin Writing
    BY <1>16, <2>2 DEF Crash, Finish
  <2> QED
    BY <2>1, <2>2
<1>17. CASE SaveFails(p)
  <2>1. CASE at[p] \in Writing
    BY <1>17, <2>1 DEF SaveFails
  <2>2. CASE at[p] \in Opening
    <3>1. /\ conf' = conf /\ torn' = torn /\ lastChain' = lastChain
          /\ at[p] \notin Writing
      BY <1>17, <2>2 DEF SaveFails, Opening
    <3>2. CASE Finish(p)
      BY <3>1, <3>2 DEF Finish
    <3>3. CASE ~Finish(p)
      <4>1. /\ \E step \in {"deploy", "check"} : at' = [at EXCEPT ![p] = step]
            /\ UNCHANGED <<cmd, path, cfg, key, alone>>
        BY <1>17, <3>3 DEF SaveFails, AfterSave
      <4>2. at[p] \notin {"idle", "load"}
        BY <2>2 DEF Opening
      <4> QED
        BY <3>1, <4>1, <4>2
    <3> QED
      BY <3>2, <3>3
  <2> QED
    BY <1>17, <2>1, <2>2 DEF SaveFails
<1> QED
  BY <1>1, <1>2, <1>3, <1>4, <1>5, <1>6, <1>7, <1>8, <1>9, <1>10, <1>11, <1>12,
     <1>13, <1>14, <1>15, <1>16, <1>17 DEF Step

\* The user, who removes the manifest, and steps of nobody.
LEMMA QuietStep ==
  ASSUME SessionInv, RemoveManifest \/ UNCHANGED vars
  PROVE  SessionInv'
<1> USE DEF RemoveManifest, vars, walletVars, procVars, outcome, history
<1>1. TypeOK'
  BY DEF SessionInv, TypeOK
<1>2. RoleInv' /\ KeyInv' /\ NameInv' /\ AloneInv'
  BY DEF SessionInv, RoleInv, KeyInv, NameInv, WasSaved, AloneInv, Busy
<1>3. ChainInv' /\ KeyKept' /\ SessionNamesWallet'
  BY DEF SessionInv, ChainInv, Writing, KeyKept, SessionNamesWallet
<1> QED
  BY <1>1, <1>2, <1>3 DEF SessionInv

LEMMA Invariance == Spec => []SessionInv
<1>1. SessionInv /\ [Next]_vars => SessionInv'
  <2>1. ASSUME SessionInv, NEW p \in Procs, Step(p) PROVE SessionInv'
    BY <2>1, TypeStep, RoleStep, KeyStep, NameStep, AloneStep,
       ChainStep DEF SessionInv
  <2> QED
    BY <2>1, QuietStep DEF Next
<1> QED
  BY InitEstablishes, <1>1, PTL DEF Spec

\* The types are kept; a process that saves a wallet has a key, and one that got past
\* its checks has a deploy chain.
THEOREM TypeCorrect == Spec => []TypeOK
BY Invariance, PTL DEF SessionInv

\* However many processes run and die in a working copy, a key that was submitted is
\* the one its wallet holds, unless the wallet was replaced.
THEOREM SubmittedKeysStay == Spec => []KeyKept
BY Invariance, PTL DEF SessionInv

\* The configuration names only wallets that were saved.
THEOREM SessionsAreUsable == Spec => []SessionNamesWallet
BY Invariance, PTL DEF SessionInv

\* A command that is alone replaces a wallet only by importing one.
THEOREM WalletsStay == Spec => WalletsKept
<1> DEFINE Kept == \A w \in replaced' \ replaced :
                      \E p \in Procs : /\ at[p] = "rename" /\ path[p] = w
                                       /\ cmd[p] = "import" \/ ~alone[p]
<1>1. SessionInv /\ [Next]_vars => [Kept]_vars
  <2>1. ASSUME SessionInv, NEW p \in Procs, Rename(p) \/ RenameFails(p) PROVE Kept
    BY <2>1 DEF SessionInv, TypeOK, RoleInv, AloneInv, Rename, RenameFails
  <2>2. ASSUME Next, ~\E p \in Procs : Rename(p) \/ RenameFails(p) PROVE replaced' = replaced
    BY <2>2 DEF Next, Step, Start, Load, Check, OpenConfig, WriteConfig, SaveFails,
       OpenManifest,
                WriteManifest, LookAtLogin, LookAtImport, LookAtCreate, WriteTmp, Deploy,
                DeployFails, Crash, RemoveManifest, EndOnly, outcome, history
  <2> QED
    BY <2>1, <2>2
<1> QED
  BY Invariance, <1>1, PTL DEF Spec, WalletsKept

\* A command that is alone changes the deploy chain only right after a save that was
\* not completed.
THEOREM DeployChainStays == Spec => DeployChainKept
<1> DEFINE Kept == lastChain # None /\ lastChain' # lastChain =>
                      \E p \in Procs : /\ at[p] \in Writing
                                       /\ cmd[p] = "init" \/ ~alone[p] \/ torn
<1>1. SessionInv /\ [Next]_vars => [Kept]_vars
  <2>1. ASSUME SessionInv, NEW p \in Procs, WriteConfig(p) PROVE Kept
    <3>1. lastChain' = cfg[p].chain
      BY <2>1, ConfigFacts DEF SessionInv, TypeOK, WriteConfig, Saved
    <3> QED
      BY <2>1, <3>1 DEF SessionInv, TypeOK, ChainInv, WriteConfig, Writing
  <2>2. ASSUME Next, ~\E p \in Procs : WriteConfig(p) PROVE lastChain' = lastChain
    BY <2>2 DEF Next, Step, Start, Load, Check, OpenConfig, SaveFails, Rename,
       RenameFails, OpenManifest,
                WriteManifest, LookAtLogin, LookAtImport, LookAtCreate, WriteTmp, Deploy,
                DeployFails, Crash, RemoveManifest, EndOnly, outcome, history
  <2> QED
    BY <2>1, <2>2
<1> QED
  BY Invariance, <1>1, PTL DEF Spec, DeployChainKept
=============================================================================
