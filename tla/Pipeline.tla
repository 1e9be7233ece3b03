------------------------------ MODULE Pipeline ------------------------------
(***************************************************************************)
(* The invocations of the orchestrator on one sample and its workspace:    *)
(* the attempts of an invocation, the stages of an attempt, the files the  *)
(* finalisation leaves, the exit code (orchestrator.py), and the batch     *)
(* driver that decides from those files whether the sample is done         *)
(* (run_samples.sh).                                                       *)
(*                                                                         *)
(* Abstractions.  A stage passes or does not; what makes the Executor's    *)
(* pass evidence is ExecutorStage.  The sample path is the input (--binary).*)
(* Of the files of a workspace only those a later step reads are kept,     *)
(* each with the run that wrote it.  A write that fails half-way leaves    *)
(* the file: a reader only looks whether it is there.  Agents may write    *)
(* the controller's files too; theirs vouch for nothing, whatever they     *)
(* say, and have None where the controller's have a sample or an outcome.  *)
(***************************************************************************)
EXTENDS Integers, FiniteSets

CONSTANTS
  Contents,      \* what the sample path may hold
  AttemptLimits, \* the values --max-attempts is given
  MaxRuns,       \* bound of the model: invocations
  MaxStrays,     \* bound of the model: directories that hold strays of agents at a time
  None

ASSUME PipelineAssumption ==
  /\ AttemptLimits \subseteq Nat \ {0}
  /\ MaxRuns \in Nat /\ MaxStrays \in Nat
  /\ None \notin Contents /\ None \notin BOOLEAN /\ None \notin {"success", "failure"}

VARIABLES
  file,         \* external: what the sample path holds now
  dirs,         \* per attempt directory: the files a later step may read
  run,          \* the invocation, counted
  limit,        \* max_attempts
  attempt,      \* the attempt in flight
  pc,           \* where the invocation is
  pinned,       \* the sample the attempt's ledger bound
  ok,           \* what _run_single_attempt returned
  interrupted,  \* an exception that no handler in run() catches is on its way
  exit,         \* how the last invocation ended, or None
  driver,       \* what the batch driver last did with the sample
  earned        \* history: the runs that passed every stage, with their sample

vars == <<file, dirs, run, limit, attempt, pc, pinned, ok, interrupted, exit, driver, earned>>

Runs == 1..MaxRuns
Attempts == UNION {1..n : n \in AttemptLimits}
Dirs == {0} \cup Attempts   \* 0 is the flat layout of a single-pass run
Reports == [run : Runs, from : Dirs]   \* from: the directory its agent worked in
Markers == [run : Runs, content : Contents]
Manifests == [run : Runs, ok : BOOLEAN]
Leftovers == [report : Reports \cup {None},
              manifest : Manifests \cup [run : Runs, ok : {None}] \cup {None},
              marker : Markers \cup [run : Runs, content : {None}] \cup {None}]

ASSUME NoFileAssumption == None \notin Reports \cup Markers \cup Manifests

Empty == [report |-> None, manifest |-> None, marker |-> None]
Clearing == {"begin", "unsign", "unlist", "bind"}
Stages == {"scout", "architect", "executor", "analyst", "promote"}
Closing == {"finalise", "manifest", "marker", "workflow", "next", "tail"}

\* Attempts stay within their limit, files within what a run may leave.
TypeOK ==
  /\ file \in Contents
  /\ dirs \in [Dirs -> Leftovers]
  /\ run \in 0..MaxRuns
  /\ limit \in AttemptLimits
  /\ attempt \in Attempts
  /\ pc \in {"idle"} \cup Clearing \cup Stages \cup Closing
  /\ pinned \in Contents \cup {None}
  /\ ok \in BOOLEAN
  /\ interrupted \in BOOLEAN
  /\ exit \in {None, "success", "failure"}
  /\ driver \in {"idle", "running", "skipped", "succeeded", "failed"}
  /\ earned \subseteq Markers

-----------------------------------------------------------------------------
\* _attempt_workspace()
Workspace == IF limit = 1 THEN 0 ELSE attempt

Init ==
  /\ file \in Contents
  /\ dirs = [d \in Dirs |-> Empty]
  /\ run = 0
  /\ limit \in AttemptLimits
  /\ attempt = 1
  /\ pc = "idle"
  /\ pinned = None
  /\ ok = FALSE
  /\ interrupted = FALSE
  /\ exit = None
  /\ driver = "idle"
  /\ earned = {}

\* External: another sample is put in place under the same name.
ReplaceSample ==
  /\ pc = "idle"
  /\ file' \in Contents \ {file}
  /\ UNCHANGED <<dirs, run, limit, attempt, pc, pinned, ok, interrupted, exit, driver, earned>>

\* The orchestrator is started.
Launch(n) ==
  /\ run < MaxRuns
  /\ run' = run + 1
  /\ limit' = n
  /\ attempt' = 1
  /\ pc' = "begin"
  /\ ok' = FALSE
  /\ interrupted' = FALSE
  /\ exit' = None
  /\ UNCHANGED <<file, dirs, pinned, earned>>

\* The driver's criterion, in either layout.
SignedOff == \E d \in Dirs : dirs[d].marker # None

BatchSkip ==
  /\ pc = "idle"
  /\ SignedOff
  /\ driver' = "skipped"
  /\ UNCHANGED <<file, dirs, run, limit, attempt, pc, pinned, ok, interrupted, exit, earned>>

BatchRun(n) ==
  /\ pc = "idle"
  /\ ~SignedOff
  /\ driver' = "running"
  /\ Launch(n)

\* The orchestrator is started by hand, which asks for no marker.
DirectRun(n) ==
  /\ pc = "idle"
  /\ driver' = "idle"
  /\ Launch(n)

\* The process ends; a driver that waits takes the exit code.
Exit(code) ==
  /\ pc' = "idle"
  /\ exit' = code
  /\ driver' = IF driver # "running" THEN driver
               ELSE IF code = "success" THEN "succeeded" ELSE "failed"

-----------------------------------------------------------------------------
(* One attempt. *)

\* Mutant of RemoveReport: analysis_report.json is missing from the patterns.
KeepReport ==
  /\ pc = "begin"
  /\ pc' = "unsign"
  /\ pinned' = None
  /\ UNCHANGED <<file, dirs, run, limit, attempt, ok, interrupted, exit, driver, earned>>

\* _begin_attempt() clears the attempt's directory, and no other, file by file.
RemoveReport ==
  /\ pc = "begin"
  /\ pc' = "unsign"
  /\ dirs' = [dirs EXCEPT ![Workspace].report = None]
  /\ pinned' = None
  /\ UNCHANGED <<file, run, limit, attempt, ok, interrupted, exit, driver, earned>>

\* Mutant of RemoveMarker: success.json is missing from the patterns.
KeepMarker ==
  /\ pc = "unsign"
  /\ pc' = "unlist"
  /\ UNCHANGED <<file, dirs, run, limit, attempt, pinned, ok, interrupted, exit, driver, earned>>

RemoveMarker ==
  /\ pc = "unsign"
  /\ pc' = "unlist"
  /\ dirs' = [dirs EXCEPT ![Workspace].marker = None]
  /\ UNCHANGED <<file, run, limit, attempt, pinned, ok, interrupted, exit, driver, earned>>

RemoveManifest ==
  /\ pc = "unlist"
  /\ pc' = "bind"
  /\ dirs' = [dirs EXCEPT ![Workspace].manifest = None]
  /\ UNCHANGED <<file, run, limit, attempt, pinned, ok, interrupted, exit, driver, earned>>

\* The new ledger pins the sample.
BindSample ==
  /\ pc = "bind"
  /\ pc' = "scout"
  /\ pinned' = file
  /\ UNCHANGED <<file, dirs, run, limit, attempt, ok, interrupted, exit, driver, earned>>

\* A file that cannot be removed or a sample the ledger refuses ends the process,
\* on a later attempt too, and nothing is finalised.
BeginFails ==
  /\ pc \in Clearing
  /\ Exit("failure")
  /\ UNCHANGED <<file, dirs, run, limit, attempt, pinned, ok, interrupted, earned>>

\* The stage before the Analyst does what it must, and the gate lets it pass.
StagePasses ==
  /\ pc \in {"scout", "architect", "executor"}
  /\ pc' = CASE pc = "scout" -> "architect"
             [] pc = "architect" -> "executor"
             [] pc = "executor" -> "analyst"
  /\ UNCHANGED <<file, dirs, run, limit, attempt, pinned, ok, interrupted, exit, driver, earned>>

\* A stage that does not finish, a closed gate or an exception ends the attempt;
\* an interrupt ends the invocation, after the finalisation.
StageFails ==
  /\ pc \in Stages
  /\ interrupted' \in BOOLEAN
  /\ ok' = FALSE
  /\ pc' = "finalise"
  /\ UNCHANGED <<file, dirs, run, limit, attempt, pinned, exit, driver, earned>>

\* write_file confines an agent to the directory of its attempt and what is below it: that
\* of a single-pass run has those of other runs' attempts below it.
Reachable == IF limit = 1 THEN Dirs ELSE {attempt}

\* An agent's file where one of the controller's, or another run's report, belongs.
Stray(d) ==
  \/ dirs[d].report # None /\ dirs[d].report.from # d
  \/ dirs[d].marker # None /\ dirs[d].marker.content = None
  \/ dirs[d].manifest # None /\ dirs[d].manifest.ok = None

\* write_file: the agent of any stage may write any of the files, and only the trace of
\* the agents is refused.
AgentWrites ==
  /\ pc \in Stages \ {"promote"}
  /\ \E d \in Reachable :
       \/ dirs' = [dirs EXCEPT ![d].report = [run |-> run, from |-> Workspace]]
       \/ dirs' = [dirs EXCEPT ![d].marker = [run |-> run, content |-> None]]
       \/ dirs' = [dirs EXCEPT ![d].manifest = [run |-> run, ok |-> None]]
  /\ Cardinality({d \in Dirs : Stray(d)'}) <= MaxStrays
  /\ UNCHANGED <<file, run, limit, attempt, pc, pinned, ok, interrupted, exit, driver, earned>>

\* finish: the completion validator asks for the file.
AnalystFinishes ==
  /\ pc = "analyst"
  /\ dirs[Workspace].report # None
  /\ pc' = "promote"
  /\ UNCHANGED <<file, dirs, run, limit, attempt, pinned, ok, interrupted, exit, driver, earned>>

\* _promote_report(): the report is promoted and the attempt succeeds.
Promote ==
  /\ pc = "promote"
  /\ dirs[Workspace].report # None
  /\ ok' = TRUE
  /\ earned' = earned \cup {[run |-> run, content |-> pinned]}
  /\ pc' = "finalise"
  /\ UNCHANGED <<file, dirs, run, limit, attempt, pinned, interrupted, exit, driver>>

-----------------------------------------------------------------------------
(* _finalise(), step by step; a write that fails leaves it, and run(), by an *)
(* exception.                                                                *)

WriteFails ==
  /\ pc \in {"finalise", "marker", "workflow", "next", "tail"}
  /\ pc = "marker" => ok
  /\ pc \in {"next", "tail"} => limit > 1
  /\ Exit("failure")
  /\ UNCHANGED <<file, dirs, run, limit, attempt, pinned, ok, interrupted, earned>>

\* token_usage.json and environment_spec.json are written.
WriteSpec ==
  /\ pc = "finalise"
  /\ pc' = "manifest"
  /\ UNCHANGED <<file, dirs, run, limit, attempt, pinned, ok, interrupted, exit, driver, earned>>

\* run_manifest.json; here a failure is only logged.
WriteManifest ==
  /\ pc = "manifest"
  /\ pc' = "marker"
  /\ \/ dirs' = [dirs EXCEPT ![Workspace].manifest = [run |-> run, ok |-> ok]]
     \/ UNCHANGED dirs
  /\ UNCHANGED <<file, run, limit, attempt, pinned, ok, interrupted, exit, driver, earned>>

\* Mutant of WriteMarker: every finalised attempt is signed off.
WriteMarkerAlways ==
  /\ pc = "marker"
  /\ pc' = "workflow"
  /\ dirs' = [dirs EXCEPT ![Workspace].marker = [run |-> run, content |-> pinned]]
  /\ UNCHANGED <<file, run, limit, attempt, pinned, ok, interrupted, exit, driver, earned>>

\* success.json, only if ok.
WriteMarker ==
  /\ pc = "marker"
  /\ pc' = "workflow"
  /\ IF ok THEN dirs' = [dirs EXCEPT ![Workspace].marker = [run |-> run, content |-> pinned]]
     ELSE UNCHANGED dirs
  /\ UNCHANGED <<file, run, limit, attempt, pinned, ok, interrupted, exit, driver, earned>>

\* workflow.json and workflow_report.txt.
WriteWorkflow ==
  /\ pc = "workflow"
  /\ pc' = "next"
  /\ UNCHANGED <<file, dirs, run, limit, attempt, pinned, ok, interrupted, exit, driver, earned>>

\* Mutant of NextAttempt: the loop goes on after a success.
NextAttemptAnyway ==
  /\ pc = "next"
  /\ IF interrupted THEN Exit("failure") /\ UNCHANGED attempt
     ELSE /\ UNCHANGED <<exit, driver>>
          /\ IF attempt < limit THEN pc' = "begin" /\ attempt' = attempt + 1
             ELSE pc' = "tail" /\ UNCHANGED attempt
  /\ UNCHANGED <<file, dirs, run, limit, pinned, ok, interrupted, earned>>

\* Mutant of NextAttempt: range() without its upper bound's exclusion.
NextAttemptOffByOne ==
  /\ pc = "next"
  /\ IF interrupted THEN Exit("failure") /\ UNCHANGED attempt
     ELSE /\ UNCHANGED <<exit, driver>>
          /\ IF ~ok /\ attempt <= limit THEN pc' = "begin" /\ attempt' = attempt + 1
             ELSE pc' = "tail" /\ UNCHANGED attempt
  /\ UNCHANGED <<file, dirs, run, limit, pinned, ok, interrupted, earned>>

\* Mutant of NextAttempt: a failed attempt is repeated under its own number.
NextAttemptRepeats ==
  /\ pc = "next"
  /\ IF interrupted THEN Exit("failure")
     ELSE /\ UNCHANGED <<exit, driver>>
          /\ pc' = IF ~ok /\ attempt < limit THEN "begin" ELSE "tail"
  /\ UNCHANGED <<file, dirs, run, limit, attempt, pinned, ok, interrupted, earned>>

\* The end of an iteration of run(): success leaves the loop.
NextAttempt ==
  /\ pc = "next"
  /\ IF interrupted THEN Exit("failure") /\ UNCHANGED attempt
     ELSE /\ UNCHANGED <<exit, driver>>
          /\ IF ~ok /\ attempt < limit THEN pc' = "begin" /\ attempt' = attempt + 1
             ELSE pc' = "tail" /\ UNCHANGED attempt
  /\ UNCHANGED <<file, dirs, run, limit, pinned, ok, interrupted, earned>>

\* Mutant of Return: the exit code does not depend on the attempts.
ReturnSuccess ==
  /\ pc = "tail"
  /\ Exit("success")
  /\ UNCHANGED <<file, dirs, run, limit, attempt, pinned, ok, interrupted, earned>>

\* run() returns pipeline_ok, which the command line turns into the exit code.
Return ==
  /\ pc = "tail"
  /\ Exit(IF ok THEN "success" ELSE "failure")
  /\ UNCHANGED <<file, dirs, run, limit, attempt, pinned, ok, interrupted, earned>>

\* The process is killed.
Crash ==
  /\ pc # "idle"
  /\ Exit("failure")
  /\ UNCHANGED <<file, dirs, run, limit, attempt, pinned, ok, interrupted, earned>>

Orchestrator ==
  \/ RemoveReport \/ RemoveMarker \/ RemoveManifest \/ BindSample \/ BeginFails
  \/ StagePasses \/ StageFails \/ AnalystFinishes \/ Promote
  \/ WriteFails \/ WriteSpec \/ WriteManifest \/ WriteMarker \/ WriteWorkflow
  \/ NextAttempt \/ Return

Next ==
  \/ ReplaceSample
  \/ BatchSkip
  \/ \E n \in AttemptLimits : BatchRun(n) \/ DirectRun(n)
  \/ AgentWrites
  \/ Orchestrator
  \/ Crash

Spec == Init /\ [][Next]_vars /\ WF_vars(Orchestrator)

-----------------------------------------------------------------------------
\* A success.json of the controller's, in any directory of the workspace, is that of an
\* invocation in which one attempt passed every stage, on the sample it names; whatever
\* agents wrote, crashed, failed to be written or was left by earlier invocations, in
\* either layout.  What agents write themselves is FailedRunLeavesNoMarker's subject.
MarkerEarned == \A d \in Dirs : dirs[d].marker \in Markers => dirs[d].marker \in earned

\* Where a success.json and a manifest of the controller's lie side by side, they are of
\* one run and the manifest says that it succeeded.
MarkerMatchesManifest ==
  \A d \in Dirs : dirs[d].marker \in Markers /\ dirs[d].manifest \in Manifests =>
    dirs[d].manifest = [run |-> dirs[d].marker.run, ok |-> TRUE]

\* The analysis_report.json beside a success.json of the controller's was written in that
\* directory by an agent of that run, and never by a former run (INT-06, INT-07), unless an
\* agent of a later single-pass run put another below its own directory; or it is gone
\* because a later run was cut short while it cleared the directory.
MarkerBesideOwnReport ==
  \A d \in Dirs :
    LET marker == dirs[d].marker
        report == dirs[d].report
    IN  marker \in Markers /\ report # None =>
          \/ report = [run |-> marker.run, from |-> d]
          \/ d # 0 /\ report.from = 0 /\ report.run > marker.run

\* "A failed or partial run must never exit 0": exit code 0 is backed by the marker
\* this invocation wrote where its last attempt ran.
ExitZeroSigned ==
  exit = "success" => dirs[Workspace].marker = [run |-> run, content |-> pinned]

\* Once the controller has signed an attempt off, its invocation starts no other attempt
\* that could overwrite what batch tooling finds.
NoAttemptAfterSuccess ==
  [][attempt' = attempt + 1 => \A d \in Dirs : dirs[d].marker \in Markers =>
        dirs[d].marker.run # run]_vars

\* Every invocation ends, however many attempts it is allowed.
InvocationEnds == pc # "idle" ~> pc = "idle"

\* "success.json exists only for a run that actually succeeded.  Batch tooling
\* decides completion from this file": an invocation that did not exit with success
\* leaves none, by whomever it was written.
FailedRunLeavesNoMarker ==
  exit = "failure" => \A d \in Dirs : dirs[d].marker # None => dirs[d].marker.run # run

=============================================================================
