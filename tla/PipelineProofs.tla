---------------------------- MODULE PipelineProofs ----------------------------
(***************************************************************************)
(* Proofs about Pipeline for every number of attempts and invocations.     *)
(*                                                                         *)
(* What a success.json of the controller's says is true because of what    *)
(* the attempt in flight has not yet done: its directory holds no such     *)
(* marker from the moment it was cleared until _finalise() writes one,     *)
(* whatever agents write there, and ok is set only by the promotion of the *)
(* report that attempt wrote.  IInv makes that explicit and is inductive.  *)
(***************************************************************************)
EXTENDS Pipeline, TLAPS

Here == dirs[Workspace]
OwnReport == [run |-> run, from |-> Workspace]

\* An invocation in flight is counted, and its stages have a sample.
Counted ==
  /\ pc # "idle" => run \in Runs
  /\ pc \in Stages => pinned \in Contents
  /\ exit = "success" => pc = "idle"

\* Only a promoted report makes ok true, and it is the one in this directory.
OkIsEarned ==
  /\ pc \in Clearing \cup Stages => ~ok
  /\ pc \in Closing /\ ok =>
       /\ [run |-> run, content |-> pinned] \in earned
       /\ Here.report = OwnReport

\* Between the clearing of the directory and the sign-off it holds no report but
\* this attempt's, no marker of the controller's, and no manifest of the controller's
\* until this attempt's.
Cleared ==
  /\ pc \in {"unsign", "unlist", "bind"} \cup Stages => Here.report \in {None, OwnReport}
  /\ pc \in {"unlist", "bind", "finalise", "manifest", "marker"} \cup Stages =>
       Here.marker \notin Markers
  /\ pc \in {"bind", "finalise", "manifest"} \cup Stages => Here.manifest \notin Manifests
  /\ pc = "marker" /\ Here.manifest \in Manifests => Here.manifest = [run |-> run, ok |-> ok]

\* After the sign-off the marker is there.
Signed ==
  pc \in {"workflow", "next", "tail"} /\ ok => Here.marker = [run |-> run, content |-> pinned]

\* The controller's markers are of this or an earlier invocation, and of this one only
\* once it has succeeded.
Dated ==
  \A d \in Dirs : dirs[d].marker \in Markers =>
    /\ dirs[d].marker.run <= run
    /\ dirs[d].marker.run = run /\ pc # "idle" => ok

MarkersTrue == MarkerEarned /\ MarkerMatchesManifest /\ MarkerBesideOwnReport /\ ExitZeroSigned

IInv == TypeOK /\ Counted /\ OkIsEarned /\ Cleared /\ Signed /\ Dated /\ MarkersTrue

\* The directory in use is one of the directories, and its files are well typed.
LEMMA WorkspaceType ==
  ASSUME TypeOK
  PROVE  Workspace \in Dirs /\ Here \in Leftovers
BY PipelineAssumption DEF TypeOK, Workspace, Dirs, Attempts, Here

\* Before the first invocation every directory is empty.
LEMMA InitIInv == Init => IInv
<1> SUFFICES ASSUME Init PROVE IInv
  OBVIOUS
<1>1. \A d \in Dirs : dirs[d] = Empty
  BY DEF Init
<1>2. 1 \in Attempts
  BY PipelineAssumption DEF Init, Attempts
<1>3. TypeOK
  <2>1. Empty \in Leftovers
    BY DEF Empty, Leftovers
  <2>2. dirs \in [Dirs -> Leftovers]
    BY <2>1 DEF Init
  <2>3. run \in 0..MaxRuns
    BY PipelineAssumption DEF Init
  <2>4. earned \subseteq Markers
    BY DEF Init
  <2> QED
    BY <1>2, <2>2, <2>3, <2>4 DEF Init, TypeOK
<1>4. Counted /\ OkIsEarned /\ Cleared /\ Signed
  BY PipelineAssumption DEF Init, Counted, OkIsEarned, Cleared, Signed, Clearing, Stages, Closing
<1>5. Dated /\ MarkersTrue
  <2>1. \A d \in Dirs : dirs[d].marker \notin Markers
    BY <1>1, NoFileAssumption DEF Empty
  <2>2. exit # "success"
    BY PipelineAssumption DEF Init
  <2> QED
    BY <2>1, <2>2 DEF Dated, MarkersTrue, MarkerEarned, MarkerMatchesManifest,
      MarkerBesideOwnReport, ExitZeroSigned
<1> QED
  BY <1>3, <1>4, <1>5 DEF IInv

\* Every step keeps the strengthening, one case per action.
LEMMA NextIInv == IInv /\ [Next]_vars => IInv'
<1> SUFFICES ASSUME IInv, [Next]_vars
             PROVE  IInv'
  OBVIOUS
<1> USE PipelineAssumption, NoFileAssumption, WorkspaceType
<1> USE DEF IInv, Counted, OkIsEarned, Cleared, Signed, Dated, MarkersTrue, MarkerEarned,
            MarkerMatchesManifest, MarkerBesideOwnReport, ExitZeroSigned, Clearing, Stages,
            Closing, Here, OwnReport
<1>1. CASE ReplaceSample
  BY <1>1 DEF ReplaceSample, TypeOK, Workspace
<1>2. CASE BatchSkip
  BY <1>2 DEF BatchSkip, TypeOK, Workspace
<1>3. CASE AgentWrites
  <2> DEFINE r == [run |-> run, from |-> Workspace]
             m == [run |-> run, content |-> None]
             n == [run |-> run, ok |-> None]
  <2>1. PICK d \in Reachable :
          \/ dirs' = [dirs EXCEPT ![d].report = r]
          \/ dirs' = [dirs EXCEPT ![d].marker = m]
          \/ dirs' = [dirs EXCEPT ![d].manifest = n]
    BY <1>3 DEF AgentWrites
  <2>2. d \in Dirs /\ (d = Workspace \/ (Workspace = 0 /\ d # 0))
    BY DEF Reachable, Workspace, TypeOK, Dirs, Attempts
  <2>3. /\ Workspace' = Workspace
        /\ run \in Runs
        /\ dirs[d] \in Leftovers
        /\ UNCHANGED <<file, run, limit, attempt, pc, pinned, ok, interrupted, exit, driver, earned>>
    BY <1>3, <2>2 DEF AgentWrites, TypeOK, Workspace
  <2>4. r \in Reports /\ m \in [run : Runs, content : {None}] /\ n \in [run : Runs, ok : {None}]
    BY <2>3 DEF Reports
  <2>5. m \notin Markers /\ n \notin Manifests
    BY DEF Markers, Manifests
  <2>6. PICK rec \in Leftovers :
          /\ dirs' = [dirs EXCEPT ![d] = rec]
          /\ rec.report \in {dirs[d].report, r}
          /\ rec.marker = dirs[d].marker \/ rec.marker \notin Markers
          /\ rec.manifest = dirs[d].manifest \/ rec.manifest \notin Manifests
    <3>1. CASE dirs' = [dirs EXCEPT ![d].report = r]
      <4> DEFINE w == [dirs[d] EXCEPT !.report = r]
      <4>1. w \in Leftovers
        BY <2>3, <2>4 DEF Leftovers
      <4>2. dirs' = [dirs EXCEPT ![d] = w]
        BY <2>2, <3>1 DEF TypeOK
      <4>3. /\ w.report = r
            /\ w.marker = dirs[d].marker
            /\ w.manifest = dirs[d].manifest
        BY <2>3 DEF Leftovers
      <4> HIDE DEF w
      <4> QED
        BY <4>1, <4>2, <4>3
    <3>2. CASE dirs' = [dirs EXCEPT ![d].marker = m]
      <4> DEFINE w == [dirs[d] EXCEPT !.marker = m]
      <4>1. w \in Leftovers
        BY <2>3, <2>4 DEF Leftovers
      <4>2. dirs' = [dirs EXCEPT ![d] = w]
        BY <2>2, <3>2 DEF TypeOK
      <4>3. /\ w.report = dirs[d].report
            /\ w.marker = m
            /\ w.manifest = dirs[d].manifest
        BY <2>3 DEF Leftovers
      <4> HIDE DEF w
      <4> QED
        BY <4>1, <4>2, <4>3, <2>5
    <3>3. CASE dirs' = [dirs EXCEPT ![d].manifest = n]
      <4> DEFINE w == [dirs[d] EXCEPT !.manifest = n]
      <4>1. w \in Leftovers
        BY <2>3, <2>4 DEF Leftovers
      <4>2. dirs' = [dirs EXCEPT ![d] = w]
        BY <2>2, <3>3 DEF TypeOK
      <4>3. /\ w.report = dirs[d].report
            /\ w.marker = dirs[d].marker
            /\ w.manifest = n
        BY <2>3 DEF Leftovers
      <4> HIDE DEF w
      <4> QED
        BY <4>1, <4>2, <4>3, <2>5
    <3> QED
      BY <2>1, <3>1, <3>2, <3>3
  <2>7. dirs'[d] = rec /\ \A e \in Dirs \ {d} : dirs'[e] = dirs[e]
    BY <2>2, <2>6 DEF TypeOK
  <2>8. TypeOK'
    BY <2>2, <2>3, <2>6 DEF TypeOK
  <2>9. pc \in Stages /\ ~ok /\ pc # "idle"
    BY <1>3 DEF AgentWrites
  <2>10. Counted' /\ OkIsEarned' /\ Signed'
    BY <2>3, <2>9
  <2>11. \A e \in Dirs : dirs'[e].marker \in Markers => dirs'[e].marker = dirs[e].marker
    BY <2>6, <2>7
  <2>12. \A e \in Dirs : dirs'[e].manifest \in Manifests => dirs'[e].manifest = dirs[e].manifest
    BY <2>6, <2>7
  <2>13. dirs'[Workspace].report \in {dirs[Workspace].report, r}
    BY <2>6, <2>7
  <2>14. Cleared'
    BY <2>3, <2>9, <2>11, <2>12, <2>13
  <2>15. Dated' /\ MarkerEarned' /\ MarkerMatchesManifest' /\ ExitZeroSigned'
    BY <2>3, <2>9, <2>11, <2>12
  <2>16. MarkerBesideOwnReport'
    <3> SUFFICES ASSUME NEW e \in Dirs, dirs'[e].marker \in Markers, dirs'[e].report # None
                 PROVE  \/ dirs'[e].report = [run |-> dirs'[e].marker.run, from |-> e]
                        \/ e # 0 /\ dirs'[e].report.from = 0
                           /\ dirs'[e].report.run > dirs'[e].marker.run
      OBVIOUS
    <3>1. dirs[e].marker = dirs'[e].marker /\ dirs[e].marker \in Markers
      BY <2>11
    <3>2. CASE dirs'[e].report = dirs[e].report
      BY <3>1, <3>2
    <3>3. CASE dirs'[e].report # dirs[e].report
      <4>1. e = d /\ dirs'[e].report = r
        BY <2>6, <2>7, <3>3
      <4>2. e # 0 /\ Workspace = 0
        BY <2>2, <2>9, <3>1, <4>1
      <4>3. dirs[e].marker.run \in Nat /\ run \in Nat
        BY <2>3, <3>1 DEF Markers, Runs
      <4>4. dirs[e].marker.run < run
        BY <2>9, <3>1, <4>3
      <4> QED
        BY <3>1, <4>1, <4>2, <4>3, <4>4
    <3> QED
      BY <3>2, <3>3
  <2> QED
    BY <2>8, <2>10, <2>14, <2>15, <2>16
<1>4. CASE RemoveReport
  BY <1>4 DEF RemoveReport, TypeOK, Workspace, Leftovers
<1>5. CASE RemoveMarker
  BY <1>5 DEF RemoveMarker, TypeOK, Workspace, Leftovers
<1>6. CASE RemoveManifest
  BY <1>6 DEF RemoveManifest, TypeOK, Workspace, Leftovers
<1>7. CASE BindSample
  BY <1>7 DEF BindSample, TypeOK, Workspace
<1>8. CASE BeginFails
  BY <1>8 DEF BeginFails, TypeOK, Workspace, Exit
<1>9. CASE StagePasses
  BY <1>9 DEF StagePasses, TypeOK, Workspace
<1>10. CASE StageFails
  BY <1>10 DEF StageFails, TypeOK, Workspace
<1>11. CASE AnalystFinishes
  BY <1>11 DEF AnalystFinishes, TypeOK, Workspace
<1>12. CASE Promote
  <2> DEFINE m == [run |-> run, content |-> pinned]
  <2>1. m \in Markers /\ earned' = earned \cup {m}
    BY <1>12 DEF Promote, Markers
  <2>2. TypeOK'
    BY <1>12, <2>1 DEF Promote, TypeOK
  <2>3. m' = m /\ Here' = Here /\ Workspace' = Workspace
    BY <1>12 DEF Promote, Workspace
  <2>4. OkIsEarned'
    BY <1>12, <2>1, <2>3 DEF Promote
  <2> QED
    BY <1>12, <2>1, <2>2, <2>3, <2>4 DEF Promote
<1>13. CASE WriteFails
  BY <1>13 DEF WriteFails, TypeOK, Workspace, Exit
<1>14. CASE WriteSpec
  BY <1>14 DEF WriteSpec, TypeOK, Workspace
<1>15. CASE WriteManifest
  <2>1. Workspace' = Workspace
    BY <1>15 DEF WriteManifest, Workspace
  <2>2. CASE UNCHANGED dirs
    BY <1>15, <2>1, <2>2 DEF WriteManifest, TypeOK
  <2>3. CASE dirs' = [dirs EXCEPT ![Workspace].manifest = [run |-> run, ok |-> ok]]
    <3> DEFINE n == [run |-> run, ok |-> ok]
    <3>1. n \in Manifests
      BY <1>15 DEF WriteManifest, TypeOK, Manifests
    <3>2. /\ Here' = [Here EXCEPT !.manifest = n]
          /\ \A d \in Dirs \ {Workspace} : dirs'[d] = dirs[d]
          /\ dirs' = [dirs EXCEPT ![Workspace] = [Here EXCEPT !.manifest = n]]
      BY <2>1, <2>3 DEF TypeOK
    <3>3. /\ Here' \in Leftovers
          /\ Here'.manifest = n
          /\ Here'.marker = Here.marker
          /\ Here'.report = Here.report
      BY <3>1, <3>2 DEF Leftovers
    <3>4. TypeOK'
      BY <1>15, <2>1, <3>2, <3>3 DEF WriteManifest, TypeOK
    <3>5. Here.marker \notin Markers
      BY <1>15 DEF WriteManifest
    <3> HIDE DEF n
    <3>6. Counted' /\ Signed'
      BY <1>15 DEF WriteManifest
    <3>7. OkIsEarned'
      BY <1>15, <2>1, <3>3 DEF WriteManifest
    <3>8. n = [run |-> run', ok |-> ok']
      BY <1>15 DEF WriteManifest, n
    <3>9. Cleared'
      BY <1>15, <3>3, <3>5, <3>8 DEF WriteManifest
    <3>10. \A d \in Dirs : dirs'[d].marker = dirs[d].marker /\ dirs'[d].report = dirs[d].report
      BY <2>1, <3>2, <3>3
    <3>11. Dated' /\ MarkerEarned' /\ MarkerBesideOwnReport'
      BY <1>15, <3>10 DEF WriteManifest
    <3>12. MarkerMatchesManifest'
      BY <2>1, <3>2, <3>3, <3>5
    <3>13. ExitZeroSigned'
      BY <1>15 DEF WriteManifest
    <3> QED
      BY <3>4, <3>6, <3>7, <3>9, <3>11, <3>12, <3>13
  <2> QED
    BY <1>15, <2>2, <2>3 DEF WriteManifest
<1>16. CASE WriteMarker
  <2>1. Workspace' = Workspace
    BY <1>16 DEF WriteMarker, Workspace
  <2>2. CASE ~ok
    BY <1>16, <2>1, <2>2 DEF WriteMarker, TypeOK
  <2>3. CASE ok
    <3> DEFINE m == [run |-> run, content |-> pinned]
    <3>1. m \in earned /\ m \in Markers
      BY <1>16, <2>3 DEF WriteMarker, TypeOK
    <3>2. dirs' = [dirs EXCEPT ![Workspace] = [Here EXCEPT !.marker = m]]
      BY <1>16, <2>3 DEF WriteMarker, TypeOK
    <3>3. /\ Here' = [Here EXCEPT !.marker = m]
          /\ \A d \in Dirs \ {Workspace} : dirs'[d] = dirs[d]
      BY <2>1, <3>2 DEF TypeOK
    <3>4. /\ Here' \in Leftovers
          /\ Here'.marker = m
          /\ Here'.manifest = Here.manifest
          /\ Here'.report = Here.report
      BY <3>1, <3>3 DEF Leftovers
    <3>5. TypeOK'
      BY <1>16, <2>1, <3>2, <3>3, <3>4 DEF WriteMarker, TypeOK
    <3>6. m.run = run /\ m = [run |-> run', content |-> pinned']
      BY <1>16 DEF WriteMarker
    <3> HIDE DEF m
    <3>7. Counted' /\ Cleared' /\ ExitZeroSigned'
      BY <1>16 DEF WriteMarker
    <3>8. OkIsEarned'
      BY <1>16, <2>1, <3>1, <3>4, <3>6 DEF WriteMarker
    <3>9. Signed'
      BY <1>16, <3>4, <3>6 DEF WriteMarker
    <3>10. Dated'
      <4> SUFFICES ASSUME NEW d \in Dirs, dirs'[d].marker \in Markers
                   PROVE  dirs'[d].marker.run <= run'
        BY <1>16, <2>3 DEF WriteMarker
      <4>1. run' = run /\ run <= run
        BY <1>16 DEF WriteMarker, TypeOK
      <4>2. CASE d = Workspace
        BY <4>1, <4>2, <2>1, <3>4, <3>6
      <4>3. CASE d # Workspace
        BY <4>1, <4>3, <3>3
      <4> QED
        BY <4>2, <4>3
    <3>11. MarkerEarned'
      BY <1>16, <2>1, <3>1, <3>3, <3>4 DEF WriteMarker
    <3>12. /\ Here.manifest \in Manifests => Here.manifest = [run |-> run, ok |-> TRUE]
           /\ Here.report = [run |-> run, from |-> Workspace]
      BY <1>16, <2>3 DEF WriteMarker
    <3>13. ASSUME NEW d \in Dirs, d # Workspace
           PROVE  dirs'[d] = dirs[d]
      BY <3>3, <3>13
    <3>14. /\ dirs'[Workspace].marker.run = run
           /\ dirs'[Workspace].report = [run |-> run, from |-> Workspace]
           /\ dirs'[Workspace].manifest \in Manifests =>
                dirs'[Workspace].manifest = [run |-> run, ok |-> TRUE]
      BY <2>1, <3>4, <3>6, <3>12
    <3>15. MarkerMatchesManifest'
      BY <3>13, <3>14, Zenon DEF IInv, MarkersTrue, MarkerMatchesManifest
    <3>16. MarkerBesideOwnReport'
      BY <3>13, <3>14, Zenon DEF IInv, MarkersTrue, MarkerBesideOwnReport
    <3> QED
      BY <3>5, <3>7, <3>8, <3>9, <3>10, <3>11, <3>15, <3>16
  <2> QED
    BY <2>2, <2>3 DEF TypeOK
<1>17. CASE WriteWorkflow
  BY <1>17 DEF WriteWorkflow, TypeOK, Workspace
<1>18. CASE NextAttempt
  BY <1>18 DEF NextAttempt, TypeOK, Workspace, Exit, Attempts
<1>19. CASE Return
  BY <1>19 DEF Return, TypeOK, Workspace, Exit
<1>20. CASE Crash
  BY <1>20 DEF Crash, TypeOK, Workspace, Exit
<1>30. ASSUME NEW n \in AttemptLimits, BatchRun(n) \/ DirectRun(n)
      PROVE  IInv'
  <2>1. /\ Launch(n)
        /\ pc = "idle"
        /\ driver' \in {"running", "idle"}
    BY <1>30 DEF BatchRun, DirectRun
  <2>2. 1 \in Attempts
    BY DEF Attempts
  <2>3. run \in Nat /\ run' = run + 1 /\ run' \in Runs
    BY <2>1 DEF Launch, TypeOK, Runs
  <2>4. TypeOK'
    <3>1. run' \in 0..MaxRuns
      BY <2>3 DEF Runs
    <3>2. attempt' \in Attempts /\ limit' \in AttemptLimits
      BY <2>1, <2>2 DEF Launch
    <3>3. dirs' \in [Dirs -> Leftovers] /\ earned' \subseteq Markers
      BY <2>1 DEF Launch, TypeOK
    <3> QED
      BY <2>1, <3>1, <3>2, <3>3 DEF Launch, TypeOK
  <2>5. Counted' /\ OkIsEarned' /\ Cleared' /\ Signed'
    BY <2>1, <2>3 DEF Launch
  <2>6. ASSUME NEW d \in Dirs, dirs'[d].marker \in Markers
        PROVE  dirs'[d].marker.run <= run' /\ dirs'[d].marker.run # run'
    <3>1. dirs[d].marker \in Markers /\ dirs[d].marker.run <= run
      BY <2>1, <2>6 DEF Launch
    <3> QED
      BY <2>1, <2>3, <3>1 DEF Launch, Markers, Runs
  <2>7. Dated'
    BY <2>6
  <2>8. MarkersTrue'
    BY <2>1 DEF Launch
  <2> QED
    BY <2>4, <2>5, <2>7, <2>8
<1>31. CASE UNCHANGED vars
  BY <1>31 DEF vars, TypeOK, Workspace
<1> QED
  BY <1>1, <1>2, <1>3, <1>4, <1>5, <1>6, <1>7, <1>8, <1>9, <1>10, <1>11, <1>12, <1>13, <1>14, <1>15, <1>16, <1>17, <1>18, <1>19, <1>20, <1>30, <1>31 DEF Next, Orchestrator

\* The strengthening holds in every run.
THEOREM AlwaysIInv == Spec => []IInv
<1>1. IInv /\ [Next]_vars => IInv'
  BY NextIInv
<1> QED
  BY <1>1, InitIInv, PTL DEF Spec

\* Whatever the batch driver, the failures and the crashes do, Pipeline's variables
\* keep their types.
THEOREM TypeCorrect == Spec => []TypeOK
<1>1. IInv => TypeOK
  BY DEF IInv
<1> QED
  BY <1>1, AlwaysIInv, PTL

\* Every success.json of the controller's was earned by a run that passed every stage on
\* the sample it names (_finalise, _promote_report), though agents may write any file
\* their write_file reaches.
THEOREM MarkerEarnedHolds == Spec => []MarkerEarned
<1>1. IInv => MarkerEarned
  BY DEF IInv, MarkersTrue
<1> QED
  BY <1>1, AlwaysIInv, PTL

\* A success.json and a manifest of the controller's that lie side by side are of one
\* successful run (the order in which _begin_attempt removes and _finalise writes), though
\* agents may overwrite either, also from the directory above.
THEOREM MarkerMatchesManifestHolds == Spec => []MarkerMatchesManifest
<1>1. IInv => MarkerMatchesManifest
  BY DEF IInv, MarkersTrue
<1> QED
  BY <1>1, AlwaysIInv, PTL

\* The analysis_report.json beside a success.json of the controller's is its own run's, or
\* a later one's that an agent of a single-pass run put below its directory, never a
\* former run's (_begin_attempt, the completion validator, write_file).
THEOREM MarkerBesideOwnReportHolds == Spec => []MarkerBesideOwnReport
<1>1. IInv => MarkerBesideOwnReport
  BY DEF IInv, MarkersTrue
<1> QED
  BY <1>1, AlwaysIInv, PTL

\* Exit code 0 is backed by the marker of this invocation (run, __main__).
THEOREM ExitZeroSignedHolds == Spec => []ExitZeroSigned
<1>1. IInv => ExitZeroSigned
  BY DEF IInv, MarkersTrue
<1> QED
  BY <1>1, AlwaysIInv, PTL

\* run() leaves its loop at the first success: no later attempt of the invocation
\* follows a signed-off one.
THEOREM NoAttemptAfterSuccessHolds == Spec => NoAttemptAfterSuccess
<1> DEFINE Unsigned == attempt' = attempt + 1 =>
                         \A d \in Dirs : dirs[d].marker \in Markers => dirs[d].marker.run # run
<1>1. IInv /\ [Next]_vars => [Unsigned]_vars
  <2> SUFFICES ASSUME IInv, Next, attempt' = attempt + 1
               PROVE  \A d \in Dirs : dirs[d].marker \in Markers => dirs[d].marker.run # run
    OBVIOUS
  <2>1. attempt \in Nat \ {0}
    BY PipelineAssumption DEF IInv, TypeOK, Attempts
  <2>2. CASE NextAttempt
    BY <2>1, <2>2 DEF NextAttempt, IInv, Dated
  <2>3. ASSUME NEW n \in AttemptLimits, BatchRun(n) \/ DirectRun(n)
        PROVE  FALSE
    BY <2>1, <2>3 DEF BatchRun, DirectRun, Launch
  <2>4. CASE UNCHANGED attempt
    BY <2>1, <2>4
  <2>5. NextAttempt \/ (\E n \in AttemptLimits : BatchRun(n) \/ DirectRun(n)) \/ UNCHANGED attempt
    BY DEF Next, Orchestrator, ReplaceSample, BatchSkip, AgentWrites, RemoveReport, RemoveMarker,
      RemoveManifest, BindSample, BeginFails, StagePasses, StageFails, AnalystFinishes, Promote,
      WriteFails, WriteSpec, WriteManifest, WriteMarker, WriteWorkflow, Return, Crash
  <2> QED
    BY <2>2, <2>3, <2>4, <2>5
<1> QED
  BY <1>1, AlwaysIInv, PTL DEF Spec, NoAttemptAfterSuccess

=============================================================================
