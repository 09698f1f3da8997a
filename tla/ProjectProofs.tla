---------------------------- MODULE ProjectProofs ----------------------------
(***************************************************************************)
(* Proofs about Project, for every set of paths, contents, chains, kinds   *)
(* and options, every manifest a cloned repository may hold.               *)
(***************************************************************************)
EXTENDS Project, TLAPS

\* The shape of targets, for provers that do not look into a set of records.
LEMMA TargetFields ==
  ASSUME NEW t \in Targets
  PROVE  t # None /\ t.chain \in Chains \cup {None} /\ t.hash \in Contents \cup {None}
BY NoneAssumption DEF Targets

\* upsert_target yields a target on the chain asked for, and keeps a hash only
\* for the chain it was recorded for.
LEMMA UpsertEffect ==
  ASSUME NEW t \in Targets \cup {None}, NEW chain \in Chains, NEW kind \in Kinds
  PROVE  /\ Upsert(t, chain, kind) \in Targets
         /\ Upsert(t, chain, kind).hash # None =>
              /\ t # None
              /\ Upsert(t, chain, kind).chain = t.chain
              /\ Upsert(t, chain, kind).hash = t.hash
<1>1. CASE t = None
  BY <1>1 DEF Upsert, Targets
<1>2. CASE t \in Targets
  BY <1>2, NoneAssumption DEF Upsert, Targets
<1> QED
  BY <1>1, <1>2

\* add tracks the paths it was given and changes no other target.
LEMMA AddEffect ==
  ASSUME TypeInv, Add
  PROVE  /\ cfg' \in Manifests
         /\ sel' \subseteq Paths
         /\ staging \subseteq sel'
         /\ \A p \in Paths : manifest[p] # None => cfg'[p] # None
         /\ \A p \in sel' \ staging : cfg'[p] # None
         /\ \A p \in Paths : cfg'[p] # None /\ cfg'[p].hash # None =>
              /\ manifest[p] # None
              /\ cfg'[p].chain = manifest[p].chain
              /\ cfg'[p].hash = manifest[p].hash
<1>1. manifest \in Manifests
  BY DEF Add, TypeInv, TypeOK
<1>2. PICK S \in SUBSET {p \in Paths : file[p] # None},
           chain_opt \in ChainOpts \cup {None}, kind_opt \in KindOpts \cup {None} :
        /\ \E fresh \in Injection({p \in S : chain_opt = None /\ ChainOf(p) = None},
                                 UnusedChains) :
              cfg' = [p \in Paths |->
                        IF p \in S
                        THEN Upsert(manifest[p],
                                    IF chain_opt # None THEN chain_opt
                                    ELSE IF ChainOf(p) # None THEN ChainOf(p)
                                    ELSE fresh[p],
                                    KindFor(p, kind_opt))
                        ELSE manifest[p]]
        /\ sel' = staging \cup S
  BY DEF Add
<1> PICK fresh \in Injection({p \in S : chain_opt = None /\ ChainOf(p) = None},
                            UnusedChains) :
        cfg' = [p \in Paths |->
                  IF p \in S
                  THEN Upsert(manifest[p],
                              IF chain_opt # None THEN chain_opt
                              ELSE IF ChainOf(p) # None THEN ChainOf(p)
                              ELSE fresh[p],
                              KindFor(p, kind_opt))
                  ELSE manifest[p]]
  BY <1>2
<1> DEFINE C(p) == IF chain_opt # None THEN chain_opt
                   ELSE IF ChainOf(p) # None THEN ChainOf(p)
                   ELSE fresh[p]
           U(p) == Upsert(manifest[p], C(p), KindFor(p, kind_opt))
<1>3. ASSUME NEW p \in S
      PROVE  /\ U(p) \in Targets
             /\ U(p).hash # None =>
                  /\ manifest[p] # None
                  /\ U(p).chain = manifest[p].chain
                  /\ U(p).hash = manifest[p].hash
  <2>1. manifest[p] \in Targets \cup {None}
    BY <1>1 DEF Manifests
  <2>2. C(p) \in Chains
    <3>1. CASE chain_opt # None
      BY <3>1, OptionsAssumption
    <3>2. CASE chain_opt = None /\ ChainOf(p) # None
      BY <3>2, <2>1, TargetFields DEF ChainOf
    <3>3. CASE chain_opt = None /\ ChainOf(p) = None
      <4>1. fresh \in [{q \in S : chain_opt = None /\ ChainOf(q) = None} -> UnusedChains]
        BY DEF Injection, IsInjective
      <4> QED
        BY <3>3, <4>1 DEF UnusedChains
    <3> QED
      BY <3>1, <3>2, <3>3
  <2>3. KindFor(p, kind_opt) \in Kinds
    BY OptionsAssumption DEF KindFor
  <2> QED
    BY <2>1, <2>2, <2>3, UpsertEffect
<1>4. \A p \in Paths : cfg'[p] = IF p \in S THEN U(p) ELSE manifest[p]
  OBVIOUS
<1>5. cfg' \in Manifests
  BY <1>1, <1>3 DEF Manifests
<1>6. \A p \in S : cfg'[p] # None
  BY <1>3, <1>4, TargetFields
<1>7. sel' \subseteq Paths
  BY <1>2 DEF TypeInv, TypeOK
<1> HIDE DEF U
<1> QED
  BY <1>2, <1>3, <1>4, <1>5, <1>6, <1>7

\* The end of a command leaves the variables typed.
LEMMA ForgetTyped ==
  ASSUME TypeInv, Forget, manifest' \in Manifests \cup {None},
         staging' \subseteq Paths,
         UNCHANGED <<file, requested, finalized, offered, published, stale>>
  PROVE  TypeInv'
<1>1. Empty \in Manifests
  BY DEF Empty, Manifests
<1>2. TypeOK'
  BY <1>1 DEF TypeInv, TypeOK, Forget, Commands, Steps, TaskStates
<1>3. RunInv'
  BY DEF RunInv, Forget
<1> QED
  BY <1>2, <1>3 DEF TypeInv

\* What a successful task records is a target.
LEMMA TaskRecords ==
  ASSUME TypeInv, NEW p \in Paths, TaskSucceeds(p)
  PROVE  /\ cfg[p] \in Targets
         /\ seen[p] \in Contents
         /\ cfg'[p] \in Targets
         /\ cfg'[p].chain = cfg[p].chain
         /\ cfg'[p].hash = seen[p]
         /\ \A q \in Paths \ {p} : cfg'[q] = cfg[q]
         /\ cfg' \in Manifests
<1>1. cfg \in [Paths -> Targets \cup {None}] /\ cfg[p] # None /\ seen[p] \in Contents
  BY DEF TypeInv, TypeOK, RunInv, TaskSucceeds, Manifests
<1>2. cfg[p] \in Targets
  BY <1>1
<1>3. cfg' = [cfg EXCEPT ![p] = [cfg[p] EXCEPT !.hash = seen[p]]]
  BY DEF TaskSucceeds
<1> DEFINE t == [cfg[p] EXCEPT !.hash = seen[p]]
<1>4. t \in Targets /\ t.chain = cfg[p].chain /\ t.hash = seen[p]
  BY <1>1, <1>2 DEF Targets
<1> HIDE DEF t
<1>5. cfg' = [cfg EXCEPT ![p] = t]
  BY <1>3 DEF t
<1> QED
  BY <1>1, <1>2, <1>4, <1>5 DEF Manifests

\* reset forgets every hash and tracks what was tracked.
LEMMA ResetEffect ==
  ASSUME TypeInv, Reset
  PROVE  /\ cfg' \in Manifests
         /\ sel' = Tracked(manifest)
         /\ \A p \in Paths : cfg'[p] # None <=> manifest[p] # None
         /\ \A p \in Paths : cfg'[p] # None => cfg'[p].hash = None
<1>1. manifest \in [Paths -> Targets \cup {None}]
  BY DEF Reset, TypeInv, TypeOK, Manifests
<1>2. \A t \in Targets :
        /\ [t EXCEPT !.hash = None, !.labels = FALSE] \in Targets
        /\ [t EXCEPT !.hash = None, !.labels = FALSE].hash = None
  BY DEF Targets
<1>3. \A p \in Paths :
        cfg'[p] = IF manifest[p] = None THEN None
                  ELSE [manifest[p] EXCEPT !.hash = None, !.labels = FALSE]
  BY DEF Reset
<1>4. DOMAIN cfg' = Paths /\ cfg' = [p \in Paths |-> cfg'[p]]
  BY DEF Reset
<1>5. ASSUME NEW p \in Paths
      PROVE  /\ cfg'[p] \in Targets \cup {None}
             /\ cfg'[p] # None <=> manifest[p] # None
             /\ cfg'[p] # None => cfg'[p].hash = None
  <2>1. CASE manifest[p] = None
    BY <2>1, <1>3
  <2>2. CASE manifest[p] \in Targets
    BY <2>2, <1>2, <1>3, TargetFields
  <2> QED
    BY <1>1, <2>1, <2>2
<1>6. sel' = Tracked(manifest)
  BY DEF Reset
<1> QED
  BY <1>4, <1>5, <1>6 DEF Manifests

\* No value of a variable leaves its type.
LEMMA TypeInductive == TypeInv /\ [Next]_vars => TypeInv'
<1> SUFFICES ASSUME TypeInv, [Next]_vars PROVE TypeInv'
  OBVIOUS
<1> USE DEF TypeInv
<1>1. CASE UNCHANGED vars
  BY <1>1 DEF TypeOK, RunInv, vars, diskVars, netVars, runVars
<1>2. CASE Add
  <2>1. cfg' \in Manifests /\ sel' \subseteq Paths
    BY <1>2, AddEffect
  <2> QED
    BY <1>2, <2>1 DEF Add, TypeOK, RunInv, diskVars, netVars, Commands, Steps
<1>3. CASE Reset
  <2>1. cfg' \in Manifests /\ sel' \subseteq Paths
    BY <1>3, ResetEffect DEF Tracked
  <2> QED
    BY <1>3, <2>1 DEF Reset, TypeOK, RunInv, diskVars, netVars, Commands, Steps
<1>4. CASE Deploy
  <2>1. \A p \in staging : manifest[p] # None
    BY <1>4 DEF Deploy, Deployable
  <2> QED
    BY <1>4, <2>1 DEF Deploy, TypeOK, RunInv, diskVars, netVars, Commands,
       Steps, TaskStates
<1>5. CASE InitProject
  <2>1. Empty \in Manifests
    BY DEF Empty, Manifests
  <2> QED
    BY <1>5, <2>1 DEF InitProject, TypeOK, RunInv, runVars
<1>6. ASSUME NEW p \in Paths, ReadFile(p) PROVE TypeInv'
  BY <1>6 DEF ReadFile, TypeOK, RunInv, diskVars, netVars, TaskStates
<1>7. ASSUME NEW p \in Paths, TaskSends(p) PROVE TypeInv'
  <2>1. Job(p) \in Jobs
    <3>1. cfg[p] \in Targets /\ seen[p] \in Contents
      BY <1>7 DEF TaskSends, TypeOK, RunInv, Manifests
    <3> QED
      BY <3>1, TargetFields DEF Job, Jobs
  <2> QED
    BY <1>7, <2>1 DEF TaskSends, TypeOK, RunInv, diskVars, TaskStates
<1>8. ASSUME NEW p \in Paths, TaskSucceeds(p) PROVE TypeInv'
  <2>1. cfg' \in Manifests /\ cfg'[p] # None
    BY <1>8, TaskRecords, TargetFields
  <2>2. TypeOK'
    BY <1>8, <2>1 DEF TaskSucceeds, TypeOK, diskVars, netVars, TaskStates
  <2>3. RunInv'
    BY <1>8, <2>1, TaskRecords DEF TaskSucceeds, TypeOK, RunInv
  <2> QED
    BY <2>2, <2>3
<1>9. ASSUME NEW p \in Paths, TaskFails(p) PROVE TypeInv'
  BY <1>9 DEF TaskFails, TypeOK, RunInv, diskVars, netVars, TaskStates
<1>10. CASE StartTasks
  BY <1>10 DEF StartTasks, TypeOK, RunInv, diskVars, netVars, Commands, Steps
<1>11. CASE JoinTasks
  BY <1>11 DEF JoinTasks, TypeOK, RunInv, diskVars, netVars, Commands, Steps
<1>12. CASE SaveManifest
  <2>1. cfg # None
    BY NoneAssumption DEF TypeOK
  <2> QED
    BY <1>12, <2>1 DEF SaveManifest, Publishes, Failed, TypeOK, RunInv, Commands,
       Steps
<1>13. CASE Publish \/ PublishSends
  <2>1. CASE Publish
    BY <2>1 DEF Publish, TypeOK, RunInv, diskVars, netVars, Commands, Steps
  <2>2. CASE PublishSends
    <3>1. offered' \subseteq Manifests
      BY <2>2 DEF PublishSends, TypeOK, RunInv
    <3> QED
      BY <2>2, <3>1 DEF PublishSends, TypeOK, RunInv, diskVars, Commands, Steps
  <2> QED
    BY <1>13, <2>1, <2>2
<1>14. CASE SaveManifestFails \/ PublishFails \/ SaveStaging \/ SaveStagingFails
            \/ Crash
  <2>1. Forget /\ UNCHANGED <<file, requested, finalized, offered, published, stale>>
    BY <1>14 DEF SaveManifestFails, PublishFails, SaveStaging, SaveStagingFails,
       Crash, diskVars, netVars
  <2>2. /\ manifest' \in {manifest, None}
        /\ staging' \in {staging, sel}
    BY <1>14 DEF SaveManifestFails, PublishFails, SaveStaging, SaveStagingFails,
       Crash, diskVars, netVars
  <2> QED
    BY <2>1, <2>2, ForgetTyped DEF TypeOK
<1>15. ASSUME NEW p \in Paths, Edit(p) \/ Delete(p) PROVE TypeInv'
  BY <1>15 DEF Edit, Delete, TypeOK, RunInv, netVars, runVars
<1>16. ASSUME NEW j \in Jobs, Finalize(j) PROVE TypeInv'
  BY <1>16 DEF Finalize, TypeOK, RunInv, diskVars, runVars
<1>17. CASE NetworkReset
  BY <1>17 DEF NetworkReset, TypeOK, RunInv, diskVars, runVars
<1>18. ASSUME NEW m \in offered, FinalizeManifest(m) PROVE TypeInv'
  BY <1>18 DEF FinalizeManifest, TypeOK, RunInv, diskVars
<1> QED
  BY <1>1, <1>2, <1>3, <1>4, <1>5, <1>6, <1>7, <1>8, <1>9, <1>10, <1>11, <1>12,
     <1>13, <1>14, <1>15, <1>16, <1>17, <1>18 DEF Next, Progress, Setback, TaskStep

\* The initial states are typed.
LEMMA TypeInitially == Init => TypeInv
<1>1. Empty \in Manifests
  BY DEF Empty, Manifests
<1>2. [Paths -> Legacy \cup {None}] \subseteq Manifests
  BY OptionsAssumption DEF Manifests
<1> QED
  BY <1>1, <1>2 DEF Init, TypeInv, TypeOK, RunInv, Commands, Steps, TaskStates

\* Type correctness: in particular a task that was queued has read its file,
\* whatever was removed meanwhile (DeployCommand.hpp:119-146).
THEOREM TypeCorrect == Spec => []TypeOK
<1>1. TypeInv => TypeOK
  BY DEF TypeInv
<1> QED
  BY <1>1, TypeInitially, TypeInductive, PTL DEF Spec

-----------------------------------------------------------------------------
\* Every action that ends a command, but a complete SaveStaging.
Stops == SaveManifestFails \/ PublishFails \/ SaveStagingFails \/ Crash

\* What was sent takes effect.
Lands == (\E j \in Jobs : Finalize(j)) \/ (\E m \in offered : FinalizeManifest(m))

\* What ends a command forgets the copy and leaves the file, or no file.
LEMMA EndEffect ==
  ASSUME Stops \/ SaveStaging
  PROVE  /\ Forget
         /\ manifest' = manifest \/ ("lose" \in Faults /\ manifest' = None)
         /\ staging' = staging \/ (SaveStaging /\ staging' = sel)
         /\ UNCHANGED <<file, requested, finalized, stale>>
BY DEF Stops, SaveManifestFails, PublishFails, SaveStaging, SaveStagingFails,
   Crash, diskVars, netVars

\* Nothing but a reset network takes a content away from a chain.
LEMMA FinalizedGrows ==
  ASSUME [Next]_vars, ~NetworkReset
  PROVE  finalized \subseteq finalized' /\ (stale' => stale)
<1>1. CASE Stops \/ SaveStaging
  BY <1>1, EndEffect
<1>2. CASE SaveManifest
  BY <1>2 DEF SaveManifest
<1>3. ASSUME \/ Add \/ Reset \/ Deploy \/ InitProject \/ StartTasks \/ JoinTasks
             \/ PublishSends \/ Publish \/ UNCHANGED vars
      PROVE  UNCHANGED <<finalized, stale>>
  <2>1. CASE Add
    BY <2>1 DEF Add, netVars
  <2>2. CASE Reset
    BY <2>2 DEF Reset, netVars
  <2> QED
    BY <1>3, <2>1, <2>2 DEF Deploy, InitProject, StartTasks, JoinTasks,
       PublishSends, Publish,
       vars, netVars
<1>4. ASSUME NEW p \in Paths,
             \/ ReadFile(p) \/ TaskStep(p) \/ TaskFails(p)
             \/ Edit(p) \/ Delete(p)
      PROVE  UNCHANGED <<finalized, stale>>
  BY <1>4 DEF ReadFile, TaskStep, TaskSends, TaskSucceeds, TaskFails, Edit,
     Delete, diskVars, netVars
<1>5. CASE Lands
  BY <1>5 DEF Lands, Finalize, FinalizeManifest
<1> QED
  BY <1>1, <1>2, <1>3, <1>4, <1>5 DEF Next, Progress, Setback, Lands, Stops

\* The hashes of the manifest and of the copy in memory stay truthful.
LEMMA SyncedInductive == SyncedInv /\ [Next]_vars => SyncedInv'
<1> SUFFICES ASSUME SyncedInv, [Next]_vars PROVE SyncedInv'
  OBVIOUS
<1>1. TypeInv /\ TypeInv'
  BY TypeInductive DEF SyncedInv
<1> DEFINE Synced == ~stale => Truthful(cfg) /\ (manifest # None => Truthful(manifest))
           Bare == cmd = "reset" => \A p \in Tracked(cfg) : cfg[p].hash = None
<1> SUFFICES Synced' /\ Bare'
  BY <1>1 DEF SyncedInv
<1>2. Synced /\ Bare
  BY DEF SyncedInv
<1>3. CASE NetworkReset
  BY <1>2, <1>3 DEF NetworkReset, runVars, Tracked
<1>4. CASE ~NetworkReset
  <2>1. finalized \subseteq finalized' /\ (stale' => stale)
    BY <1>4, FinalizedGrows
  <2>2. CASE UNCHANGED <<cfg, manifest, cmd>> /\ (stale => stale')
    BY <1>2, <2>1, <2>2 DEF Truthful, Tracked
  <2>3. CASE Add
    <3>1. \A p \in Paths : cfg'[p] # None /\ cfg'[p].hash # None =>
            /\ manifest[p] # None
            /\ cfg'[p].chain = manifest[p].chain
            /\ cfg'[p].hash = manifest[p].hash
      BY <1>1, <2>3, AddEffect
    <3>2. manifest # None /\ cmd' = "add" /\ UNCHANGED <<manifest, finalized, stale>>
      BY <2>3 DEF Add, diskVars, netVars
    <3> QED
      BY <1>2, <3>1, <3>2 DEF Truthful, Tracked
  <2>4. CASE Reset
    <3>1. \A p \in Paths : cfg'[p] # None => cfg'[p].hash = None
      BY <1>1, <2>4, ResetEffect
    <3>2. UNCHANGED <<manifest, finalized, stale>>
      BY <2>4 DEF Reset, diskVars, netVars
    <3> QED
      BY <1>2, <3>1, <3>2 DEF Truthful, Tracked
  <2>5. CASE Deploy
    BY <1>2, <2>5 DEF Deploy, Truthful, Tracked, diskVars, netVars
  <2>6. CASE InitProject
    BY <1>2, <2>6 DEF InitProject, Truthful, Tracked, Empty, runVars
  <2>7. ASSUME NEW p \in Paths, TaskSucceeds(p) PROVE Synced' /\ Bare'
    <3>1. /\ <<cfg'[p].chain, cfg'[p].hash>> \in finalized
          /\ \A q \in Paths \ {p} : cfg'[q] = cfg[q]
      BY <1>1, <2>7, TaskRecords DEF TaskSucceeds, Job
    <3>2. cmd = "deploy" /\ UNCHANGED <<manifest, finalized, stale, cmd>>
      BY <1>1, <2>7 DEF TaskSucceeds, diskVars, netVars, TypeInv, TypeOK, RunInv
    <3> QED
      BY <1>2, <3>1, <3>2 DEF Truthful, Tracked
  <2>8. CASE SaveManifest
    BY <1>2, <2>8 DEF SaveManifest, Truthful, Tracked
  <2>9. CASE Stops \/ SaveStaging
    <3>1. Forget /\ manifest' \in {manifest, None} /\ UNCHANGED <<finalized, stale>>
      BY <2>9, EndEffect
    <3> QED
      BY <1>2, <3>1 DEF Forget, Truthful, Tracked, Empty
  <2>10. ASSUME NEW p \in Paths,
                ReadFile(p) \/ TaskSends(p) \/ TaskFails(p) \/ Edit(p) \/ Delete(p)
         PROVE  UNCHANGED <<cfg, manifest, cmd, stale>>
    BY <2>10 DEF ReadFile, TaskSends, TaskFails, Edit, Delete, diskVars,
       netVars, runVars
  <2>11. CASE StartTasks \/ JoinTasks \/ PublishSends \/ Publish \/ UNCHANGED vars
              \/ Lands
    BY <2>2, <2>11 DEF StartTasks, JoinTasks, PublishSends, Publish, Lands,
       Finalize, FinalizeManifest, vars, diskVars,
       netVars, runVars
  <2> QED
    BY <1>4, <2>2, <2>3, <2>4, <2>5, <2>6, <2>7, <2>8, <2>9, <2>10, <2>11
       DEF Next, Progress, Setback, Lands, TaskStep, Stops
<1> QED
  BY <1>3, <1>4

\* Initially nothing is said to be synchronized.
LEMMA SyncedInitially == Init => SyncedInv
<1> SUFFICES ASSUME Init PROVE SyncedInv
  OBVIOUS
<1>1. \A p \in Tracked(manifest) : manifest[p].hash = None
  <2>1. \A p \in Paths : manifest[p] \in Legacy \cup {None}
    BY DEF Init
  <2> QED
    BY <2>1, OptionsAssumption DEF Tracked
<1> QED
  BY <1>1, TypeInitially DEF Init, SyncedInv, Truthful, Tracked, Empty

\* Whatever goes wrong, the manifest never calls a content synchronized that is
\* not in the canonical state of the chain it names, until the network is
\* reinitialized (DeployCommand.hpp:176, AddCommand.hpp:269).
THEOREM SyncedIsFinalized == Spec => []SyncedMeansFinalized
<1>1. SyncedInv => SyncedMeansFinalized
  BY DEF SyncedInv, SyncedMeansFinalized
<1> QED
  BY <1>1, SyncedInitially, SyncedInductive, PTL DEF Spec

-----------------------------------------------------------------------------
\* The selection never names a path the manifest does not track, as long as a
\* failing rename leaves the manifest there.
LEMMA TrackedInductive ==
  ASSUME "lose" \notin Faults
  PROVE  TrackedInv /\ [Next]_vars => TrackedInv'
<1> SUFFICES ASSUME TrackedInv, [Next]_vars PROVE TrackedInv'
  OBVIOUS
<1>1. TypeInv /\ TypeInv'
  BY TypeInductive DEF TrackedInv
<1> DEFINE Copy == step # "idle" => /\ Tracked(manifest) \subseteq Tracked(cfg)
                                    /\ sel \subseteq Tracked(cfg)
           Saved == step \in {"publish", "confirm", "save_staging"} => manifest = cfg
           Disk == manifest # None /\ staging \subseteq Tracked(manifest)
<1>2. Disk /\ Copy /\ Saved
  BY DEF TrackedInv
<1> SUFFICES Disk' /\ Copy' /\ Saved'
  BY <1>1 DEF TrackedInv
<1>3. CASE UNCHANGED <<manifest, staging, cfg, sel, step>>
  BY <1>2, <1>3 DEF Tracked
<1>4. CASE Add
  <2>1. /\ staging \subseteq sel' /\ sel' \subseteq Paths
        /\ \A p \in Paths : manifest[p] # None => cfg'[p] # None
        /\ \A p \in sel' \ staging : cfg'[p] # None
    BY <1>1, <1>4, AddEffect
  <2>2. step' = "save_manifest" /\ UNCHANGED <<manifest, staging>>
    BY <1>4 DEF Add, diskVars
  <2> QED
    BY <1>2, <2>1, <2>2 DEF Tracked
<1>5. CASE Reset
  <2>1. /\ sel' = Tracked(manifest)
        /\ \A p \in Paths : cfg'[p] # None <=> manifest[p] # None
    BY <1>1, <1>5, ResetEffect
  <2>2. step' = "save_manifest" /\ UNCHANGED <<manifest, staging>>
    BY <1>5 DEF Reset, diskVars
  <2> QED
    BY <1>2, <2>1, <2>2 DEF Tracked
<1>6. CASE Deploy
  BY <1>2, <1>6 DEF Deploy, diskVars, Tracked
<1>7. CASE InitProject
  BY <1>2, <1>7 DEF InitProject
<1>8. ASSUME NEW p \in Paths, TaskSucceeds(p) PROVE Disk' /\ Copy' /\ Saved'
  <2>1. cfg[p] # None /\ cfg'[p] # None /\ \A q \in Paths \ {p} : cfg'[q] = cfg[q]
    BY <1>1, <1>8, TaskRecords, TargetFields
  <2>2. step = "run" /\ UNCHANGED <<manifest, staging, sel, step>>
    BY <1>8 DEF TaskSucceeds, diskVars
  <2> QED
    BY <1>2, <2>1, <2>2 DEF Tracked
<1>9. CASE StartTasks \/ JoinTasks
  BY <1>2, <1>9 DEF StartTasks, JoinTasks, diskVars, Tracked
<1>10. CASE SaveManifest
  <2>1. cfg # None
    BY <1>1, NoneAssumption DEF TypeInv, TypeOK
  <2>2. Failed \subseteq Tracked(cfg)
    BY <1>1 DEF Failed, Tracked, TypeInv, RunInv
  <2> QED
    BY <1>2, <1>10, <2>1, <2>2 DEF SaveManifest, Tracked
<1>11. CASE PublishSends \/ Publish
  BY <1>2, <1>11 DEF PublishSends, Publish, diskVars, Tracked
<1>12. CASE Stops
  <2>1. Forget /\ UNCHANGED <<manifest, staging>>
    BY <1>12, EndEffect DEF Stops, SaveManifestFails, PublishFails,
       SaveStagingFails, Crash, diskVars
  <2> QED
    BY <1>2, <2>1 DEF Forget, Tracked
<1>13. CASE SaveStaging
  BY <1>2, <1>13 DEF SaveStaging, Forget, Tracked
<1>14. ASSUME NEW p \in Paths,
              \/ ReadFile(p) \/ TaskSends(p) \/ TaskFails(p)
              \/ Edit(p) \/ Delete(p)
       PROVE  UNCHANGED <<manifest, staging, cfg, sel, step>>
  BY <1>14 DEF ReadFile, TaskSends, TaskFails, Edit, Delete, diskVars, runVars
<1>15. CASE NetworkReset \/ UNCHANGED vars \/ Lands
  BY <1>3, <1>15 DEF NetworkReset, Lands, Finalize, FinalizeManifest, vars,
     diskVars, runVars
<1> QED
  BY <1>3, <1>4, <1>5, <1>6, <1>7, <1>8, <1>9, <1>10, <1>11, <1>12, <1>13, <1>14,
     <1>15 DEF Next, Progress, Setback, Lands, TaskStep, Stops

\* Initially nothing is selected.
LEMMA TrackedInitially == Init => TrackedInv
<1> SUFFICES ASSUME Init PROVE TrackedInv
  OBVIOUS
<1>1. manifest \in Manifests
  BY OptionsAssumption DEF Init, Manifests
<1> QED
  BY <1>1, TypeInitially, NoneAssumption DEF Init, TrackedInv

\* No deploy is refused because the selection names an untracked path, whatever
\* command was interrupted between its two writes, unless a failing rename
\* lost the manifest (DeployCommand.hpp:79).
THEOREM SelectionIsTracked ==
  ASSUME "lose" \notin Faults
  PROVE  Spec => []StagedIsTracked
<1>1. TrackedInv => StagedIsTracked
  BY DEF TrackedInv, StagedIsTracked
<1>2. TrackedInv /\ [Next]_vars => TrackedInv'
  BY TrackedInductive
<1> QED
  BY <1>1, <1>2, TrackedInitially, PTL DEF Spec

-----------------------------------------------------------------------------
\* A deploy moves the files it selected only forward.
LEMMA HandledKept ==
  ASSUME TypeInv, [Next]_vars, cmd = "deploy", cmd' = "deploy",
         \A p \in Paths : file[p] # None,
         NEW p \in Paths, Handled(p)
  PROVE  Handled(p)'
<1> USE DEF Handled
<1>1. CASE UNCHANGED <<task, seen, cfg, step>>
  BY <1>1
<1>2. ASSUME NEW q \in Paths, ReadFile(q) PROVE Handled(p)'
  <2>1. CASE q = p
    BY <1>2, <2>1 DEF ReadFile, TypeInv, TypeOK
  <2>2. CASE q # p
    BY <1>2, <2>2 DEF ReadFile, TypeInv, TypeOK
  <2> QED
    BY <2>1, <2>2
<1>3. ASSUME NEW q \in Paths, TaskSucceeds(q) PROVE Handled(p)'
  <2>1. /\ cfg'[q].hash = seen[q] /\ \A r \in Paths \ {q} : cfg'[r] = cfg[r]
        /\ seen[q] \in Contents
    BY <1>3, TaskRecords
  <2>2. /\ step = "run" /\ UNCHANGED <<seen, step>>
        /\ task'[q] = "done" /\ \A r \in Paths \ {q} : task'[r] = task[r]
    BY <1>3 DEF TaskSucceeds, TypeInv, TypeOK
  <2> QED
    BY <2>1, <2>2, NoneAssumption
<1>4. ASSUME NEW q \in Paths, TaskSends(q) \/ TaskFails(q) PROVE Handled(p)'
  BY <1>4 DEF TaskSends, TaskFails, TypeInv, TypeOK
<1>5. CASE StartTasks
  BY <1>5 DEF StartTasks
<1>6. CASE JoinTasks
  BY <1>6 DEF JoinTasks
<1>7. CASE SaveManifest \/ PublishSends \/ Publish
  BY <1>7 DEF SaveManifest, PublishSends, Publish
<1>8. CASE Stops \/ SaveStaging
  BY <1>8, EndEffect DEF Forget
<1>9. CASE Add \/ Reset \/ Deploy \/ InitProject
  BY <1>9 DEF Add, Reset, Deploy, InitProject, TypeInv, RunInv
<1>10. ASSUME NEW q \in Paths, Edit(q) \/ Delete(q) PROVE Handled(p)'
  BY <1>1, <1>10 DEF Edit, Delete, runVars
<1>11. CASE NetworkReset \/ UNCHANGED vars \/ Lands
  BY <1>1, <1>11 DEF NetworkReset, Lands, Finalize, FinalizeManifest, vars, runVars
<1> QED
  BY <1>2, <1>3, <1>4, <1>5, <1>6, <1>7, <1>8, <1>9, <1>10, <1>11
     DEF Next, Progress, Setback, Lands, TaskStep, Stops

\* When a deploy has come to its end, a selected file either failed or is
\* recorded as it was read.
LEMMA Decided ==
  ASSUME TypeInv, step \in {"save_manifest", "publish", "save_staging"},
         NEW p \in Paths, Handled(p), task[p] # "failed"
  PROVE  seen[p] # None /\ cfg[p].hash = seen[p]
BY DEF Handled, TypeInv, TypeOK, TaskStates

\* Starting and ending aside, a step leaves the command and the selection.
LEMMA CommandKept ==
  ASSUME TypeInv, [Next]_vars
  PROVE  Add \/ Reset \/ Deploy \/ cmd' = "none" \/ UNCHANGED <<cmd, staging>>
<1>1. CASE Stops \/ SaveStaging
  BY <1>1, EndEffect DEF Forget
<1>2. CASE StartTasks \/ JoinTasks \/ SaveManifest \/ PublishSends \/ Publish
  BY <1>2 DEF StartTasks, JoinTasks, SaveManifest, PublishSends, Publish, diskVars
<1>3. ASSUME NEW p \in Paths,
             \/ ReadFile(p) \/ TaskStep(p) \/ TaskFails(p)
             \/ Edit(p) \/ Delete(p)
      PROVE  UNCHANGED <<cmd, staging>>
  BY <1>3 DEF ReadFile, TaskStep, TaskSends, TaskSucceeds, TaskFails, Edit,
     Delete, diskVars, runVars
<1>4. CASE InitProject \/ NetworkReset \/ UNCHANGED vars
           \/ Lands
  BY <1>4 DEF InitProject, NetworkReset, Lands, Finalize, FinalizeManifest, vars,
     diskVars, runVars
<1> QED
  BY <1>1, <1>2, <1>3, <1>4 DEF Next, Progress, Setback, Lands, Stops

\* When nothing but errors and crashes goes wrong, DeployInv holds throughout.
LEMMA DeployInductive ==
  ASSUME Faults = {}
  PROVE  DeployInv /\ [Next]_vars => DeployInv'
<1> SUFFICES ASSUME DeployInv, [Next]_vars PROVE DeployInv'
  OBVIOUS
<1>1. /\ SyncedInv /\ SyncedInv' /\ TrackedInv /\ TrackedInv'
      /\ TypeInv /\ TypeInv'
  BY SyncedInductive, TrackedInductive, TypeInductive DEF DeployInv, SyncedInv
<1>2. ~NetworkReset /\ \A p \in Paths : ~Delete(p)
  BY DEF NetworkReset, Delete
<1>3. ~stale'
  BY <1>2, FinalizedGrows DEF DeployInv
<1>4. \A p \in Paths : file'[p] # None
  <2>1. ASSUME NEW q \in Paths, Edit(q) PROVE \A p \in Paths : file'[p] # None
    BY <1>1, <2>1, NoneAssumption DEF DeployInv, Edit, TypeInv, TypeOK
  <2>2. CASE Stops \/ SaveStaging
    BY <2>2, EndEffect DEF DeployInv
  <2>3. CASE Add
    BY <2>3 DEF DeployInv, Add, diskVars
  <2>4. CASE Reset
    BY <2>4 DEF DeployInv, Reset, diskVars
  <2>5. CASE Deploy \/ InitProject \/ StartTasks \/ JoinTasks \/ SaveManifest
             \/ PublishSends \/ Publish \/ UNCHANGED vars \/ Lands
    BY <2>5 DEF DeployInv, Deploy, InitProject, StartTasks, JoinTasks,
       SaveManifest, PublishSends, Publish, Lands, Finalize, FinalizeManifest,
       vars, diskVars
  <2>6. ASSUME NEW q \in Paths, ReadFile(q) \/ TaskStep(q) \/ TaskFails(q)
        PROVE  file' = file
    BY <2>6 DEF ReadFile, TaskStep, TaskSends, TaskSucceeds, TaskFails, diskVars
  <2> QED
    BY <1>2, <2>1, <2>2, <2>3, <2>4, <2>5, <2>6
       DEF Next, Progress, Setback, Lands, Stops, DeployInv
<1>5. ASSUME cmd' = "deploy", NEW p \in staging' PROVE Handled(p)'
  <2>1. CASE Deploy
    BY <1>1, <2>1 DEF Deploy, Handled, diskVars, TypeInv, TypeOK
  <2>2. CASE ~Deploy
    <3>1. cmd = "deploy" /\ staging' = staging
      BY <1>1, <1>5, <2>2, CommandKept DEF Add, Reset
    <3>2. p \in Paths /\ Handled(p)
      BY <1>1, <3>1 DEF DeployInv, TypeInv, TypeOK
    <3> QED
      BY <1>1, <1>5, <3>1, <3>2, HandledKept DEF DeployInv
  <2> QED
    BY <2>1, <2>2
<1> DEFINE Wide == cmd \in {"add", "reset"} => staging \subseteq sel
           Whole == cmd = "deploy" /\ step \in {"publish", "confirm"} => Failed = {}
           Ended == cmd = "deploy" /\ step = "save_staging" =>
                       /\ sel = Failed
                       /\ Failed = {} => landed
<1>6. Wide /\ Whole /\ Ended
  BY DEF DeployInv
<1>7. Wide' /\ Whole' /\ Ended'
  <2>1. CASE UNCHANGED <<staging, cmd, step, sel, task>> /\ (landed => landed')
    BY <1>6, <2>1 DEF Failed
  <2>2. CASE Add
    <3>1. staging \subseteq sel'
      BY <1>1, <2>2, AddEffect
    <3> QED
      BY <2>2, <3>1 DEF Add, diskVars
  <2>3. CASE Reset
    <3>1. staging \subseteq sel'
      BY <1>1, <2>3, ResetEffect DEF TrackedInv
    <3> QED
      BY <2>3, <3>1 DEF Reset, diskVars
  <2>4. CASE Deploy
    BY <2>4 DEF Deploy
  <2>5. ASSUME NEW p \in Paths,
               ReadFile(p) \/ TaskStep(p) \/ TaskFails(p)
        PROVE  Wide' /\ Whole' /\ Ended'
    <3>1. step \in {"read", "run"} /\ UNCHANGED <<staging, cmd, step, sel>>
      BY <2>5 DEF ReadFile, TaskStep, TaskSends, TaskSucceeds, TaskFails, diskVars
    <3> QED
      BY <1>6, <3>1
  <2>6. CASE StartTasks \/ JoinTasks
    BY <1>6, <2>6 DEF StartTasks, JoinTasks, diskVars
  <2>7. CASE SaveManifest
    <3>1. Publishes <=> cmd = "deploy" /\ Failed = {}
      BY DEF Publishes
    <3>2. Failed' = Failed
      BY <2>7 DEF SaveManifest, Failed
    <3> HIDE DEF Failed, Publishes
    <3> QED
      BY <1>6, <2>7, <3>1, <3>2 DEF SaveManifest
  <2>8. CASE PublishSends \/ Publish
    <3>1. cmd = "deploy" /\ Failed = {} /\ Failed' = Failed
      BY <1>1, <1>6, <2>8 DEF PublishSends, Publish, Failed, TypeInv, TypeOK,
         RunInv, Commands
    <3> QED
      BY <2>8, <3>1 DEF PublishSends, Publish, diskVars
  <2>9. CASE Stops \/ SaveStaging
    BY <2>9, EndEffect DEF Forget
  <2>10. CASE InitProject
    BY <1>1, <2>10 DEF InitProject, TrackedInv
  <2>11. ASSUME NEW p \in Paths, Edit(p)
         PROVE  UNCHANGED <<staging, cmd, step, sel, task>> /\ (landed => landed')
    BY <2>11 DEF Edit, netVars, runVars
  <2>12. CASE UNCHANGED vars \/ Lands
    <3>1. UNCHANGED <<staging, cmd, step, sel, task>>
      BY <2>12 DEF Lands, Finalize, FinalizeManifest, vars, diskVars, runVars
    <3>2. CASE UNCHANGED landed
      BY <2>1, <3>1, <3>2
    <3>3. CASE \E m \in offered : FinalizeManifest(m)
      <4>1. landed => landed'
        BY <3>3, Zenon DEF FinalizeManifest
      <4> QED
        BY <2>1, <3>1, <4>1
    <3> QED
      BY <2>12, <3>2, <3>3 DEF Lands, Finalize, vars, runVars
  <2> QED
    BY <1>2, <2>1, <2>2, <2>3, <2>4, <2>5, <2>6, <2>7, <2>8, <2>9, <2>10, <2>11,
       <2>12 DEF Next, Progress, Setback, Lands, Stops
<1> QED
  BY <1>1, <1>3, <1>4, <1>5, <1>7 DEF DeployInv

LEMMA DeployInvHolds ==
  ASSUME Faults = {}
  PROVE  Spec => []DeployInv
<1>1. Init => DeployInv
  <2> SUFFICES ASSUME Init PROVE DeployInv
    OBVIOUS
  <2>1. \A p \in Paths : file[p] # None
    BY NoneAssumption DEF Init
  <2> QED
    BY <2>1, SyncedInitially, TrackedInitially DEF Init, DeployInv
<1>2. DeployInv /\ [Next]_vars => DeployInv'
  BY DeployInductive
<1> QED
  BY <1>1, <1>2, PTL DEF Spec

\* Only writing the selection changes it.
LEMMA SelectionWritten ==
  ASSUME TypeInv, [Next]_vars, staging' # staging
  PROVE  SaveStaging
<1>1. CASE Stops
  BY <1>1, EndEffect DEF Stops, SaveManifestFails, PublishFails, SaveStagingFails,
     Crash, diskVars
<1>2. CASE Add
  BY <1>2 DEF Add, diskVars
<1>3. CASE Reset
  BY <1>3 DEF Reset, diskVars
<1>4. CASE Deploy \/ InitProject \/ StartTasks \/ JoinTasks \/ SaveManifest
           \/ PublishSends \/ Publish \/ NetworkReset \/ UNCHANGED vars
           \/ Lands
  BY <1>4 DEF Deploy, InitProject, StartTasks, JoinTasks, SaveManifest,
     PublishSends, Publish,
     NetworkReset, Lands, Finalize, FinalizeManifest, vars, diskVars
<1>5. ASSUME NEW p \in Paths,
             \/ ReadFile(p) \/ TaskStep(p) \/ TaskFails(p)
             \/ Edit(p) \/ Delete(p)
      PROVE  staging' = staging
  BY <1>5 DEF ReadFile, TaskStep, TaskSends, TaskSucceeds, TaskFails, Edit,
     Delete, diskVars
<1> QED
  BY <1>1, <1>2, <1>3, <1>4, <1>5 DEF Next, Progress, Setback, Lands, Stops

\* Only a deploy that has saved its manifest submits one, and the deploy chain
\* gets what was submitted.
LEMMA OnlySubmitted ==
  ASSUME TypeInv, [Next]_vars
  PROVE  /\ \/ offered' \subseteq offered
            \/ PublishSends /\ offered' \subseteq offered \cup {manifest}
         /\ published' \in {published, None} \cup offered
         /\ step # "confirm" /\ step' = "confirm" => PublishSends
<1>1. CASE PublishSends
  BY <1>1 DEF PublishSends
<1>2. CASE Lands
  BY <1>2 DEF Lands, Finalize, FinalizeManifest, runVars
<1>3. CASE Add
  BY <1>3 DEF Add, netVars
<1>4. CASE Reset
  BY <1>4 DEF Reset, netVars
<1>5. CASE InitProject \/ NetworkReset
  BY <1>5 DEF InitProject, NetworkReset, runVars
<1>6. CASE \/ Deploy \/ StartTasks \/ JoinTasks \/ Publish \/ UNCHANGED vars
  BY <1>6 DEF Deploy, StartTasks, JoinTasks, Publish, vars, netVars, runVars
<1>7. CASE SaveManifest
  BY <1>7 DEF SaveManifest
<1>8. CASE Stops \/ SaveStaging
  BY <1>8 DEF Stops, SaveManifestFails, PublishFails, SaveStaging, SaveStagingFails,
     Crash, Forget, netVars
<1>9. ASSUME NEW p \in Paths,
             \/ ReadFile(p) \/ TaskStep(p) \/ TaskFails(p)
             \/ Edit(p) \/ Delete(p)
      PROVE  UNCHANGED <<offered, published, step>>
  BY <1>9 DEF ReadFile, TaskStep, TaskSends, TaskSucceeds, TaskFails, Edit,
     Delete, netVars, runVars
<1> QED
  BY <1>1, <1>2, <1>3, <1>4, <1>5, <1>6, <1>7, <1>8, <1>9
     DEF Next, Progress, Setback, Lands, Stops

\* A path leaves the selection only with the content this deploy read from it in
\* the canonical state of its chain, unless a file or the manifest is removed
\* or the network reinitialized (DeployCommand.hpp:244-274).
THEOREM StaysSelected ==
  ASSUME Faults = {}
  PROVE  Spec => LeavesStagingOnlyWhenSynced
<1> DEFINE A == \A p \in staging \ staging' :
                  /\ seen[p] # None
                  /\ manifest[p].hash = seen[p]
                  /\ <<manifest[p].chain, seen[p]>> \in finalized
<1>1. DeployInv /\ [Next]_vars => [A]_vars
  <2> SUFFICES ASSUME DeployInv, [Next]_vars, NEW p \in staging \ staging'
               PROVE  /\ seen[p] # None
                      /\ manifest[p].hash = seen[p]
                      /\ <<manifest[p].chain, seen[p]>> \in finalized
    OBVIOUS
  <2>1. SyncedInv /\ TrackedInv /\ TypeInv
    BY DEF DeployInv, SyncedInv
  <2>2. SaveStaging
    BY <2>1, SelectionWritten
  <2>3. step = "save_staging" /\ staging' = sel /\ manifest = cfg
    BY <2>1, <2>2 DEF SaveStaging, TrackedInv
  <2>4. cmd = "deploy"
    BY <2>1, <2>3 DEF DeployInv, TypeInv, TypeOK, RunInv, Commands
  <2>5. p \in Paths /\ Handled(p) /\ task[p] # "failed"
    BY <2>1, <2>3, <2>4 DEF DeployInv, Failed, TypeInv, TypeOK
  <2>6. seen[p] # None /\ manifest[p].hash = seen[p]
    BY <2>1, <2>3, <2>5, Decided
  <2>7. p \in Tracked(manifest) /\ Truthful(manifest)
    BY <2>1 DEF TrackedInv, SyncedInv, DeployInv
  <2> QED
    BY <2>6, <2>7 DEF Truthful
<1> QED
  BY <1>1, DeployInvHolds, PTL DEF Spec, LeavesStagingOnlyWhenSynced

\* No manifest is submitted to the deploy chain in which a selected file is not
\* recorded with the content just deployed (DeployCommand.hpp:244).
THEOREM PublishedWhole ==
  ASSUME Faults = {}
  PROVE  Spec => NoPartialManifest
<1> DEFINE A == step # "confirm" /\ step' = "confirm" =>
                  \A p \in staging : manifest[p].hash = seen[p]
<1>1. DeployInv /\ [Next]_vars => [A]_vars
  <2> SUFFICES ASSUME DeployInv, [Next]_vars, step # "confirm", step' = "confirm",
                      NEW p \in staging
               PROVE  manifest[p].hash = seen[p]
    OBVIOUS
  <2>1. TrackedInv /\ TypeInv
    BY DEF DeployInv, TrackedInv
  <2>2. step = "publish" /\ manifest = cfg
    <3>1. PublishSends
      BY <2>1, OnlySubmitted
    <3> QED
      BY <2>1, <3>1 DEF TrackedInv, PublishSends
  <2>3. cmd = "deploy"
    BY <2>1, <2>2 DEF TypeInv, TypeOK, RunInv, Commands
  <2>4. p \in Paths /\ Handled(p) /\ task[p] # "failed"
    BY <2>1, <2>2, <2>3 DEF DeployInv, Failed, TypeInv, TypeOK
  <2> QED
    BY <2>1, <2>2, <2>4, Decided
<1> QED
  BY <1>1, DeployInvHolds, PTL DEF Spec, NoPartialManifest

\* The selection becomes empty only when the deploy chain has held the manifest
\* during this deploy (DeployCommand.hpp:262-267).
THEOREM EmptyMeansPublished ==
  ASSUME Faults = {}
  PROVE  Spec => UnstagedMeansPublished
<1> DEFINE A == staging # {} /\ staging' = {} => landed
<1>1. DeployInv /\ [Next]_vars => [A]_vars
  <2> SUFFICES ASSUME DeployInv, [Next]_vars, staging # {}, staging' = {}
               PROVE  landed
    OBVIOUS
  <2>1. TypeInv
    BY DEF DeployInv, TrackedInv
  <2>2. step = "save_staging" /\ sel = {}
    BY <2>1, SelectionWritten DEF SaveStaging
  <2>3. cmd = "deploy"
    BY <2>1, <2>2 DEF DeployInv, TypeInv, TypeOK, RunInv, Commands
  <2> QED
    BY <2>2, <2>3 DEF DeployInv
<1> QED
  BY <1>1, DeployInvHolds, PTL DEF Spec, UnstagedMeansPublished

-----------------------------------------------------------------------------
\* What the deploy chain holds or may come to hold is truthful on a network that
\* is not reinitialized: it was the manifest of some deploy, and what was true
\* then is true now.
LEMMA PublishedInductive ==
  ASSUME "network" \notin Faults
  PROVE  PublishedInv /\ [Next]_vars => PublishedInv'
<1> SUFFICES ASSUME PublishedInv, [Next]_vars PROVE PublishedInv'
  OBVIOUS
<1>1. SyncedInv /\ SyncedInv' /\ TypeInv /\ ~stale /\ PublishedIsTruthful
  BY SyncedInductive DEF PublishedInv, SyncedInv
<1>2. finalized \subseteq finalized' /\ ~stale'
  BY <1>1, FinalizedGrows DEF NetworkReset
<1>3. \A m : Truthful(m) => \A p \in Tracked(m) :
        m[p].hash # None => <<m[p].chain, m[p].hash>> \in finalized'
  BY <1>2 DEF Truthful
<1>4. ASSUME NEW m \in offered' \cup ({published'} \ {None}) PROVE Truthful(m)
  <2>1. CASE m \in offered \cup ({published} \ {None})
    BY <1>1, <2>1 DEF PublishedIsTruthful
  <2>2. CASE m = manifest /\ PublishSends
    BY <1>1, <2>2 DEF SyncedInv, TypeInv, RunInv, PublishSends
  <2> QED
    BY <1>1, <1>4, <2>1, <2>2, OnlySubmitted
<1>5. PublishedIsTruthful'
  BY <1>3, <1>4 DEF PublishedIsTruthful, Truthful, Tracked
<1> QED
  BY <1>1, <1>2, <1>5 DEF PublishedInv

\* However late and in whatever order manifests take effect on the deploy chain,
\* it never calls a content synchronized that is not on its chain
\* (DeployCommand.hpp:176, 262; DownloadCommand.hpp:121).
THEOREM ChainIsTruthful ==
  ASSUME "network" \notin Faults
  PROVE  Spec => []PublishedIsTruthful
<1>1. Init => PublishedInv
  BY SyncedInitially DEF Init, PublishedInv, PublishedIsTruthful
<1>2. PublishedInv => PublishedIsTruthful
  BY DEF PublishedInv
<1>3. PublishedInv /\ [Next]_vars => PublishedInv'
  BY PublishedInductive
<1> QED
  BY <1>1, <1>2, <1>3, PTL DEF Spec
=============================================================================
