---------------------------- MODULE DownloadProofs ----------------------------
(***************************************************************************)
(* Proofs about Download, for any manifests, files and number of workers.  *)
(***************************************************************************)
EXTENDS Download, SequenceTheorems, TLAPS

Active == {"fetch", "render", "emit", "open", "write"}

\* What a task has on its way.
TaskInv ==
    \A i \in DOMAIN plan :
        /\ task[i] \in Active => plan[i].chain # None
        /\ task[i] \in Active \ {"fetch"} => got[i] \in Contents
        /\ task[i] \in {"open", "write"} =>
              ~dry /\ text[i] # None /\ (text[i] = got[i] \/ "race" \in unseen)
        /\ task[i] # "done" => ~error[i]

\* What a task that ended without an error has done.
DoneInv ==
    \A i \in DOMAIN plan : task[i] = "done" /\ ~Failed(i) =>
        /\ got[i] # None
        /\ ~dry => \/ file[plan[i].path] = got[i]
                   \/ "race" \in unseen \/ "close" \in unseen

\* No two tasks share a file.
PathsInv == \A i, j \in DOMAIN plan : plan[i].path = plan[j].path => i = j

\* What holds at each step of the command.
PhaseInv ==
    /\ pc \in {"manifest", "save", "start"} =>
          \A i \in Indices : task[i] = "none" /\ ~error[i]
    /\ pc \in {"start", "wait", "config", "write_config", "report"} /\ ~dry => manifest = plan
    /\ pc \in {"save", "config", "write_config"} => ~dry
    /\ pc \in {"config", "write_config", "report"} => \A i \in DOMAIN plan : task[i] = "done"
    /\ pc = "report" /\ ~dry => conf = "board" \/ "config" \in unseen
    /\ pc # "idle" => result = "none"

DownloadInv == TypeOK /\ TaskInv /\ DoneInv /\ PathsInv /\ PhaseInv /\ ReportIsTrue

LEMMA Reconstructed ==
  ASSUME NEW b \in Boards
  PROVE  /\ Reconstruct(b) \in Seq(Targets)
         /\ Len(Reconstruct(b)) <= MaxTargets
         /\ \A i, j \in DOMAIN Reconstruct(b) :
               Reconstruct(b)[i].path = Reconstruct(b)[j].path => i = j
<1>1. b \in Seq(RemoteTargets) /\ Len(b) <= MaxTargets /\ DOMAIN b = 1..Len(b)
  BY BoardsAssumption
<1>2. \A i \in DOMAIN b : Reconstruct(b)[i] \in Targets /\ Reconstruct(b)[i].path = b[i].path
  <2> TAKE i \in DOMAIN b
  <2>1. b[i] \in RemoteTargets
    BY <1>1
  <2>2. Reconstruct(b)[i] = IF b[i].kind = UnknownKind
                            THEN [b[i] EXCEPT !.kind = "graph"] ELSE b[i]
    BY DEF Reconstruct
  <2> QED
    BY <2>1, <2>2 DEF RemoteTargets, Targets, UnknownKind, Kinds
<1>3. Reconstruct(b) \in [1..Len(b) -> Targets]
  BY <1>1, <1>2 DEF Reconstruct
<1>4. Reconstruct(b) \in Seq(Targets) /\ Len(Reconstruct(b)) = Len(b)
  BY <1>1, <1>3, SeqDef
<1> QED
  BY <1>1, <1>2, <1>4, BoardsAssumption

LEMMA PlanFacts ==
  ASSUME TypeOK
  PROVE  /\ DOMAIN plan \subseteq Indices
         /\ \A i \in DOMAIN plan : plan[i] \in Targets
         /\ plan # <<>> => 1 \in DOMAIN plan
<1>1. plan \in Seq(Targets) /\ Len(plan) <= MaxTargets
  BY DEF TypeOK
<1>2. Len(plan) \in Nat /\ DOMAIN plan = 1..Len(plan)
  BY <1>1
<1>3. plan # <<>> => Len(plan) # 0
  BY <1>1, EmptySeq
<1> QED
  BY <1>1, <1>2, <1>3, SizesAssumption DEF Indices

LEMMA NoPlan == <<>> \in Seq(Targets) /\ Len(<<>>) = 0 /\ DOMAIN <<>> = {}
OBVIOUS

LEMMA InitEstablishes == Init => DownloadInv
<1> SUFFICES ASSUME Init PROVE DownloadInv
  OBVIOUS
<1>1. TypeOK
  <2> USE NoPlan, SizesAssumption DEF Init
  <2>1. net \in [Chains -> Contents] /\ board \in Boards
    OBVIOUS
  <2>2. manifest \in Seq(Targets) /\ file \in [Paths -> Texts] /\ conf \in {"other", "board"}
    BY DEF Texts
  <2>3. pc \in Steps /\ dry \in BOOLEAN
    BY DEF Steps
  <2>4. plan \in Seq(Targets) /\ Len(plan) <= MaxTargets
    OBVIOUS
  <2>5. task \in [Indices -> TaskStates] /\ error \in [Indices -> BOOLEAN]
    BY DEF TaskStates
  <2>6. got \in [Indices -> Contents \cup {None}] /\ text \in [Indices -> Texts]
    BY DEF Texts
  <2>7. unseen = {} /\ result = "none"
    OBVIOUS
  <2> QED
    BY <2>1, <2>2, <2>3, <2>4, <2>5, <2>6, <2>7 DEF TypeOK
<1>2. TaskInv /\ DoneInv /\ PathsInv
  BY NoPlan DEF Init, TaskInv, DoneInv, PathsInv
<1>3. PhaseInv /\ ReportIsTrue
  BY NoPlan DEF Init, PhaseInv, ReportIsTrue, Ended
<1> QED
  BY <1>1, <1>2, <1>3 DEF DownloadInv

(* Types. *)

LEMMA NothingRuns ==
  ASSUME TypeOK, NoTasks
  PROVE  /\ task' \in [Indices -> TaskStates] /\ got' \in [Indices -> Contents \cup {None}]
         /\ text' \in [Indices -> Texts] /\ error' \in [Indices -> BOOLEAN]
<1>1. task' \in [Indices -> TaskStates] /\ error' \in [Indices -> BOOLEAN]
  BY DEF NoTasks, TaskStates
<1>2. got' \in [Indices -> Contents \cup {None}] /\ text' \in [Indices -> Texts]
  BY DEF NoTasks, Texts
<1> QED
  BY <1>1, <1>2

LEMMA TypeStep ==
  ASSUME TypeOK, TaskInv, [Next]_vars
  PROVE  TypeOK'
<1> USE SizesAssumption DEF TypeOK, TaskAt, Goto, FailTask, End, taskFrame, netVars, diskVars, taskVars
<1>1. CASE \E d \in BOOLEAN : Download(d)
  BY <1>1, NoPlan, NothingRuns DEF Download, Steps
<1>2. CASE FetchManifest
  BY <1>2, Reconstructed DEF FetchManifest, Steps
<1>3. CASE FetchManifestFails
  BY <1>3 DEF FetchManifestFails, Steps
<1>4. CASE SaveManifest
  BY <1>4 DEF SaveManifest, Steps
<1>5. CASE SaveManifestFails
  BY <1>5, NoPlan DEF SaveManifestFails, Steps
<1>6. CASE StartTasks
  BY <1>6 DEF StartTasks, TaskStates, Steps
<1>7. ASSUME NEW i \in Indices, Begin(i) PROVE TypeOK'
  <2> USE <1>7 DEF Begin
  <2>1. task' \in [Indices -> TaskStates]
    BY DEF TaskStates
  <2>2. error' \in [Indices -> BOOLEAN]
    OBVIOUS
  <2> QED
    BY <2>1, <2>2
<1>8. ASSUME NEW i \in Indices, Fetch(i) PROVE TypeOK'
  <2> USE <1>8 DEF Fetch
  <2>1. net[plan[i].chain] \in Contents
    BY PlanFacts DEF TaskInv, Active, Targets
  <2>2. got' \in [Indices -> Contents \cup {None}]
    BY <2>1
  <2>3. task' \in [Indices -> TaskStates]
    BY DEF TaskStates
  <2> QED
    BY <2>2, <2>3
<1>9. CASE \E i \in Indices : FetchFails(i)
  BY <1>9 DEF FetchFails, TaskStates
<1>10. CASE \E i \in Indices : Register(i)
  BY <1>10 DEF Register, TaskStates
<1>11. CASE \E i \in Indices : Rendered(i)
  BY <1>11, PlanFacts DEF Rendered, TaskStates, Texts, Active, TaskInv
<1>12. CASE \E i \in Indices : Throws(i)
  BY <1>12 DEF Throws, TaskStates
<1>13. CASE \E i \in Indices : Open(i)
  BY <1>13 DEF Open, TaskStates, Texts, Torn
<1>14. CASE \E i \in Indices : OpenFails(i)
  BY <1>14 DEF OpenFails, TaskStates, Texts, Torn
<1>15. CASE \E i \in Indices : Write(i)
  BY <1>15 DEF Write, TaskStates, Texts, Torn
<1>16. CASE \E i \in Indices : WriteFails(i)
  BY <1>16 DEF WriteFails, TaskStates
<1>17. CASE \E i \in Indices : CloseFails(i)
  BY <1>17 DEF CloseFails, TaskStates
<1>18. CASE Terminate
  <2> USE <1>18 DEF Terminate
  <2>1. plan' \in Seq(Targets) /\ Len(plan') <= MaxTargets
    BY NoPlan
  <2>2. pc' \in Steps /\ unseen' = {} /\ result' = "crashed" /\ dry' \in BOOLEAN
    BY DEF Steps
  <2> QED
    BY <2>1, <2>2, NothingRuns
<1>19. CASE Join
  BY <1>19 DEF Join, Steps
<1>20. CASE OpenConfig
  BY <1>20 DEF OpenConfig, Steps
<1>21. CASE WriteConfig
  BY <1>21 DEF WriteConfig, Steps
<1>22. CASE WriteConfigFails
  BY <1>22 DEF WriteConfigFails, Steps
<1>23. CASE Report
  BY <1>23 DEF Report, Steps
<1>24. CASE Crash
  <2> USE <1>24 DEF Crash
  <2>1. plan' \in Seq(Targets) /\ Len(plan') <= MaxTargets
    BY NoPlan
  <2>2. pc' \in Steps /\ unseen' = {} /\ result' = "crashed" /\ dry' \in BOOLEAN
    BY DEF Steps
  <2> QED
    BY <2>1, <2>2, NothingRuns
<1>25. CASE Deploy
  BY <1>25 DEF Deploy, Steps
<1>26. CASE UNCHANGED vars
  BY <1>26 DEF vars
<1> QED
  BY <1>1, <1>2, <1>3, <1>4, <1>5, <1>6, <1>7, <1>8, <1>9, <1>10, <1>11, <1>12, <1>13, <1>14, <1>15, <1>16, <1>17, <1>18, <1>19, <1>20, <1>21, <1>22, <1>23, <1>24, <1>25, <1>26 DEF Next, TaskStep, TaskFails

LEMMA StepKeeps ==
  ASSUME DownloadInv, [Next]_vars
  PROVE  DownloadInv'
<1>0. TypeOK'
  BY TypeStep DEF DownloadInv
<1>00. DOMAIN plan' \subseteq Indices
  BY <1>0, SizesAssumption DEF TypeOK, Indices
<1> USE <1>0, NoneAssumption, PlanFacts
        DEF DownloadInv, TypeOK, TaskInv, DoneInv, PathsInv, PhaseInv, ReportIsTrue,
            Ended, Failed, Indices, Texts, Steps, TaskStates, Torn, Active,
            NoTasks, End, Goto, FailTask, TaskAt, taskFrame, netVars, diskVars, taskVars
<1>1. CASE \E d \in BOOLEAN : Download(d)
  BY <1>1, NoPlan DEF Download
<1>2. CASE FetchManifest
  <2> USE <1>2 DEF FetchManifest
  <2>1. PathsInv'
    BY Reconstructed
  <2>2. TaskInv' /\ DoneInv'
    BY <1>00
  <2>3. PhaseInv' /\ ReportIsTrue'
    BY <1>00
  <2> QED
    BY <2>1, <2>2, <2>3
<1>3. CASE FetchManifestFails
  BY <1>3 DEF FetchManifestFails
<1>4. CASE SaveManifest
  BY <1>4 DEF SaveManifest
<1>5. CASE SaveManifestFails
  <2>1. TaskInv'
    BY <1>5 DEF SaveManifestFails
  <2>2. DoneInv'
    BY <1>5 DEF SaveManifestFails
  <2>3. PathsInv'
    BY <1>5 DEF SaveManifestFails
  <2>4. PhaseInv'
    BY <1>5 DEF SaveManifestFails
  <2>5. ReportIsTrue'
    BY <1>5 DEF SaveManifestFails
  <2> QED
    BY <2>1, <2>2, <2>3, <2>4, <2>5
<1>6. CASE StartTasks
  BY <1>6 DEF StartTasks
<1>7. ASSUME NEW i \in Indices, Begin(i) PROVE DownloadInv'
  <2>1. TaskInv'
    BY <1>7 DEF Begin
  <2>2. DoneInv'
    BY <1>7 DEF Begin
  <2>3. PathsInv'
    BY <1>7 DEF Begin
  <2>4. PhaseInv'
    BY <1>7 DEF Begin
  <2>5. ReportIsTrue'
    BY <1>7 DEF Begin
  <2> QED
    BY <2>1, <2>2, <2>3, <2>4, <2>5
<1>8. ASSUME NEW i \in Indices, Fetch(i) PROVE DownloadInv'
  <2>1. TaskInv'
    <3>1. net[plan[i].chain] \in Contents /\ net[plan[i].chain] # None
      BY <1>8 DEF Fetch, Targets
    <3> QED
      BY <1>8, <3>1 DEF Fetch
  <2>2. DoneInv'
    BY <1>8 DEF Fetch
  <2>3. PathsInv'
    BY <1>8 DEF Fetch
  <2>4. PhaseInv'
    BY <1>8 DEF Fetch
  <2>5. ReportIsTrue'
    BY <1>8 DEF Fetch
  <2> QED
    BY <2>1, <2>2, <2>3, <2>4, <2>5
<1>9. CASE \E i \in Indices : FetchFails(i)
  BY <1>9 DEF FetchFails
<1>10. CASE \E i \in Indices : Register(i)
  BY <1>10 DEF Register
<1>11. CASE \E i \in Indices : Rendered(i)
  BY <1>11 DEF Rendered
<1>12. CASE \E i \in Indices : Throws(i)
  BY <1>12 DEF Throws
<1>13. ASSUME NEW i \in Indices, Open(i) PROVE DownloadInv'
  <2>1. TaskInv'
    BY <1>13 DEF Open
  <2>2. DoneInv'
    BY <1>13 DEF Open
  <2>3. PathsInv'
    BY <1>13 DEF Open
  <2>4. PhaseInv'
    BY <1>13 DEF Open
  <2>5. ReportIsTrue'
    BY <1>13 DEF Open
  <2> QED
    BY <2>1, <2>2, <2>3, <2>4, <2>5
<1>14. CASE \E i \in Indices : OpenFails(i)
  BY <1>14 DEF OpenFails
<1>15. ASSUME NEW i \in Indices, Write(i) PROVE DownloadInv'
  <2>1. TaskInv'
    BY <1>15 DEF Write
  <2>2. DoneInv'
    BY <1>15 DEF Write
  <2>3. PathsInv'
    BY <1>15 DEF Write
  <2>4. PhaseInv'
    BY <1>15 DEF Write
  <2>5. ReportIsTrue'
    BY <1>15 DEF Write
  <2> QED
    BY <2>1, <2>2, <2>3, <2>4, <2>5
<1>16. CASE \E i \in Indices : WriteFails(i)
  BY <1>16 DEF WriteFails
<1>17. CASE \E i \in Indices : CloseFails(i)
  BY <1>17 DEF CloseFails
<1>18. CASE Terminate
  <2>1. TaskInv'
    BY <1>18, NoPlan DEF Terminate
  <2>2. DoneInv'
    BY <1>18, NoPlan DEF Terminate
  <2>3. PathsInv'
    BY <1>18, NoPlan DEF Terminate
  <2>4. PhaseInv'
    BY <1>18, NoPlan DEF Terminate
  <2>5. ReportIsTrue'
    BY <1>18, NoPlan DEF Terminate
  <2> QED
    BY <2>1, <2>2, <2>3, <2>4, <2>5
<1>19. CASE Join
  BY <1>19 DEF Join
<1>20. CASE OpenConfig
  BY <1>20 DEF OpenConfig
<1>21. CASE WriteConfig
  BY <1>21 DEF WriteConfig
<1>22. CASE WriteConfigFails
  BY <1>22 DEF WriteConfigFails
<1>23. CASE Report
  BY <1>23 DEF Report
<1>24. CASE Crash
  <2>1. TaskInv'
    BY <1>24, NoPlan DEF Crash
  <2>2. DoneInv'
    BY <1>24, NoPlan DEF Crash
  <2>3. PathsInv'
    BY <1>24, NoPlan DEF Crash
  <2>4. PhaseInv'
    BY <1>24, NoPlan DEF Crash
  <2>5. ReportIsTrue'
    BY <1>24, NoPlan DEF Crash
  <2> QED
    BY <2>1, <2>2, <2>3, <2>4, <2>5
<1>25. CASE Deploy
  BY <1>25 DEF Deploy
<1>26. CASE UNCHANGED vars
  BY <1>26 DEF vars
<1> QED
  BY <1>1, <1>2, <1>3, <1>4, <1>5, <1>6, <1>7, <1>8, <1>9, <1>10, <1>11, <1>12, <1>13, <1>14, <1>15, <1>16, <1>17, <1>18, <1>19, <1>20, <1>21, <1>22, <1>23, <1>24, <1>25, <1>26 DEF Next, TaskStep, TaskFails

LEMMA Invariance == Spec => []DownloadInv
<1>1. DownloadInv /\ [Next]_vars => DownloadInv'
  BY StepKeeps
<1> QED
  BY InitEstablishes, <1>1, PTL DEF Spec

\* The variables keep their types for any manifests, files and workers.
THEOREM TypeCorrect == Spec => []TypeOK
BY Invariance, PTL DEF DownloadInv

\* Whatever fails, throws or is deployed meanwhile, a download reports of each
\* target what it did with it; a file or the configuration is only otherwise
\* after a race of generators or a failing write that the code does not look at.
THEOREM ReportsHold == Spec => []ReportIsTrue
BY Invariance, PTL DEF DownloadInv

\* No step cuts a file before its new content is there, and --dry-run writes nothing.
THEOREM FilesAreSafe == Spec => TouchesOnlyWhatItHas
<1> DEFINE Careful ==
      /\ diskVars' # diskVars => ~dry
      /\ \A p \in Paths : file'[p] # file[p] =>
            \E i \in DOMAIN plan : plan[i].path = p /\ text[i] # None
<1>1. DownloadInv /\ [Next]_vars => [Careful]_vars
  <2> SUFFICES ASSUME DownloadInv, Next PROVE Careful
    OBVIOUS
  <2> USE DEF DownloadInv, TypeOK, TaskInv, PhaseInv, diskVars, netVars, taskFrame, TaskAt, Texts
  <2>1. CASE \E i \in Indices : Open(i) \/ Write(i)
    BY <2>1 DEF Open, Write
  <2>2. CASE file' = file /\ manifest' = manifest /\ conf' = conf
    BY <2>2
  <2>3. CASE SaveManifest \/ SaveManifestFails \/ OpenConfig \/ WriteConfig
    BY <2>3 DEF SaveManifest, SaveManifestFails, OpenConfig, WriteConfig
  <2> QED
    BY <2>1, <2>2, <2>3
       DEF Next, TaskStep, TaskFails, Download, FetchManifest, FetchManifestFails, StartTasks,
           Begin, Fetch, FetchFails, Register, Rendered, Throws, OpenFails, WriteFails,
           CloseFails, Terminate, Join, WriteConfigFails, Report, Crash, Deploy
<1> QED
  BY Invariance, <1>1, PTL DEF Spec, TouchesOnlyWhatItHas
=============================================================================
