---------------------------- MODULE ExecutorStage ----------------------------
(***************************************************************************)
(* One attempt from the pinning of the sample to the orchestrator's gate   *)
(* before the Analyst: the Executor stage (agents/executor.py), the tool   *)
(* calls its agent makes (core/agent_loop.py), the ledger they go through  *)
(* (RunLedger) and the backend behind them.  The agent is an adversary: in *)
(* a loop it may make any call it is allowed, in any order, and stop.      *)
(*                                                                         *)
(* Abstractions.  cuckoo1 and cuckoo2_linux are named by their platform; a *)
(* platform without a VM (macos, android) is None.  Of a submission only   *)
(* what was uploaded, its route and its outcome count; one that never got  *)
(* into the ledger is an orphan and nothing more.  The cape_report_<id>    *)
(* files are reduced to the one the spec hands the Analyst.                *)
(* Tool calls that change nothing modelled here are left out.              *)
(* What the outside does is taken as late as somebody can see it: an       *)
(* analysis ends when its report is fetched, the lease expires and the     *)
(* sample file changes where they are looked at.                           *)
(***************************************************************************)
EXTENDS RunLedger, FiniteSets

CONSTANTS
  Backends,        \* "cape", "qemu": the backends a run may be configured with
  QemuRoutes,      \* the routes the QEMU backend can provide
  MaxRounds,       \* max_correction_rounds
  MaxCorrections,  \* MAX_CORRECTIONS_PER_TYPE
  Hints,           \* failure types an adjustment hint may name
  StaleIds,        \* task ids whose storage still holds another sample's report
  StaleContent,    \* the target of those reports
  MaxCalls,        \* bound of the model: state-changing calls per agent loop
  MaxDisturbances  \* bound of the model: changes to the sample file

FailureTypes ==
  {"service", "vm", "agent", "package", "timeout", "submission", "unknown"}

ASSUME StageAssumption ==
  /\ Backends \subseteq {"cape", "qemu"}
  /\ Drop \in QemuRoutes /\ QemuRoutes \subseteq Routes
  /\ MaxRounds \in Nat /\ MaxCorrections \in Nat
  /\ Hints \subseteq FailureTypes
  /\ StaleContent \notin Contents \cup {None}
  /\ MaxCalls \in Nat /\ MaxDisturbances \in Nat

VARIABLES
  backend,    \* the configured backend
  pc,         \* where the stage is
  loop,       \* which agent loop runs, or ran last
  calls,      \* calls made in this loop
  round,      \* correction_round
  counts,     \* _correction_counts
  issued,     \* external: what the backend was given under each id
  inflight,   \* the id a submission was answered with, until it is settled
  platform,   \* the platform the spec selects, as the VM it maps to
  downed,     \* external: the VMs a recovery destroyed and nobody started since
  spec,       \* the spec fields the controller decides on
  judged,     \* what the last _persist_report_authoritatively returned
  before,     \* tasks_before
  copy,       \* whose bytes cape_report_<id>.json of the handed report holds
  raised,     \* the stage ended by an exception
  disturbances

controlVars == <<pc, loop, calls, round, counts, raised>>
backendVars == <<backend, issued, inflight>>
reportVars == <<spec, judged, before, copy>>
hostVars == <<platform, downed>>
stageVars == <<ledgerVars, controlVars, backendVars, reportVars, hostVars, disturbances>>

Outcomes == {"signal", "silent", "invalid"}
Jobs == [content : Contents, route : Routes, status : Outcomes \cup {"queued", "failed"}]
Orphan == [content |-> None, route |-> None, status |-> "orphan"]
Qualities == [signal : BOOLEAN, verified : BOOLEAN, valid : BOOLEAN]
Loops == {"first", "adjusted", "corrected", "retry"}

\* None is no lease, no job and no verdict either.
ASSUME NoneAssumption == None \notin Leases \cup Jobs \cup Qualities

\* The rounds and the corrections of a type stay within their limits, every other
\* variable within the values the stage assigns.
StageTypeOK ==
  /\ TypeOK
  /\ backend \in Backends
  /\ pc \in {"bind", "policy", "enter", "agent", "upload", "record", "readback", "adjust",
             "validate", "correct", "destroy", "revert", "start", "cleanup", "persist",
             "judge", "leave", "done"}
  /\ loop \in Loops
  /\ calls \in 0..MaxCalls
  /\ round \in 0..MaxRounds
  /\ counts \in [FailureTypes -> 0..MaxCorrections]
  /\ issued \in [RawIds -> Jobs \cup {None, Orphan}]
  /\ inflight \in RawIds \cup {None}
  /\ platform \in VMs \cup {None}
  /\ downed \subseteq VMs
  /\ spec \in [failed : BOOLEAN, signal : BOOLEAN, reportTask : TaskIds \cup {None},
               hint : Hints \cup {None}, retryDone : BOOLEAN]
  /\ judged \in Qualities \cup {None}
  /\ before \in 0..MaxTasks
  /\ copy \in {"none", "harness", "agent"}
  /\ raised \in BOOLEAN
  /\ disturbances \in 0..MaxDisturbances

-----------------------------------------------------------------------------
(* The backend. *)

Unissued == {id \in RawIds : 0 < id /\ issued[id] = None}

\* The status an analysis may have by now.
StatusNow(id) ==
  IF issued[id].status = "queued" THEN {"queued", "signal", "silent", "failed"}
  ELSE {issued[id].status}

\* The report get_report() finds for a task in this status: its own; else one a
\* former task with this id left; else, under QEMU, the placeholder of a failed
\* detonation, which has no target.
ReportOf(id, status) ==
  IF status \in Outcomes THEN [target |-> issued[id].content, outcome |-> status]
  ELSE IF id \in StaleIds THEN [target |-> StaleContent, outcome |-> "signal"]
  ELSE IF backend = "qemu" THEN [target |-> None, outcome |-> "silent"]
  ELSE None

\* Mutant of Verified: the report's target is not compared.
VerifiedAlways(report) == report # None

\* get_report_verified(): the target's sha256 is the pinned sample's.
Verified(report) == report.target = sample.content

\* External: another writer changes the sample file between the identity check
\* and the upload (earlier, the check refuses or sees no difference).  One that is no regular
\* file any more can only be refused, which UploadRefused covers.
SampleDisturbed ==
  /\ disturbances < MaxDisturbances
  /\ pc = "upload"
  /\ DisturbSample
  /\ disk' # disk
  /\ disk'.regular
  /\ disturbances' = disturbances + 1
  /\ UNCHANGED <<controlVars, backendVars, reportVars, hostVars>>

\* External: six hours pass.
LeaseExpires ==
  /\ pc \in {"destroy", "revert", "start"}
  /\ Expire
  /\ UNCHANGED <<controlVars, backendVars, reportVars, hostVars, disturbances>>

-----------------------------------------------------------------------------
(* The attempt up to the Executor. *)

StageInit ==
  /\ Init
  /\ backend \in Backends
  /\ pc = "bind"
  /\ loop = "first"
  /\ calls = 0
  /\ round = 0
  /\ counts = [type \in FailureTypes |-> 0]
  /\ issued = [id \in RawIds |-> None]
  /\ inflight = None
  /\ platform \in VMs \cup {None}
  /\ downed = {}
  /\ spec = [failed |-> FALSE, signal |-> FALSE, reportTask |-> None, hint |-> None,
             retryDone |-> FALSE]
  /\ judged = None
  /\ before = 0
  /\ copy = "none"
  /\ raised = FALSE
  /\ disturbances = 0

\* Control moves to another place of the same loop.
Goto(place) == pc' = place /\ UNCHANGED <<loop, calls, round, counts, raised>>

\* _run_agent_loop() starts.
StartLoop(label) == pc' = "agent" /\ loop' = label /\ calls' = 0

\* The orchestrator pins the sample before any agent starts; what is not a
\* regular file ends the attempt here.
PinSample ==
  /\ pc = "bind"
  /\ \/ BindSample /\ Goto("policy")
     \/ /\ ~disk.regular
        /\ pc' = "done" /\ raised' = TRUE
        /\ UNCHANGED <<ledgerVars, loop, calls, round, counts>>
  /\ UNCHANGED <<backendVars, reportVars, hostVars, disturbances>>

\* The route of the proposed mode, or Drop where the backend cannot provide it.
PromoteNetworkPolicy ==
  /\ pc = "policy"
  /\ \E route \in Routes :
       SetRoutePolicy(IF backend = "cape" \/ route \in QemuRoutes THEN route ELSE Drop)
  /\ Goto("enter")
  /\ UNCHANGED <<backendVars, reportVars, hostVars, disturbances>>

\* run(): CAPE needs the lease of the platform's VM; no such VM is a ValueError.
Enter ==
  /\ pc = "enter"
  /\ \/ /\ backend = "cape" /\ platform # None
        /\ AcquireLease(platform)
        /\ Goto("agent")
     \/ /\ backend = "cape" /\ platform = None
        /\ pc' = "done" /\ raised' = TRUE
        /\ UNCHANGED <<ledgerVars, loop, calls, round, counts>>
     \/ /\ backend = "qemu"
        /\ Goto("agent")
        /\ UNCHANGED ledgerVars
  /\ UNCHANGED <<backendVars, reportVars, hostVars, disturbances>>

-----------------------------------------------------------------------------
(* The tool calls of the Executor's agent. *)

InLoop == pc = "agent" /\ calls < MaxCalls

\* The call ends and the loop goes on.
EndCall == pc' = "agent" /\ calls' = calls + 1 /\ UNCHANGED <<loop, round, counts, raised>>

\* cape_submit, first half: the file still has the pinned inode.
CapeSubmit ==
  /\ InLoop
  /\ IdentityMatches
  /\ Goto("upload")
  /\ UNCHANGED <<ledgerVars, backendVars, reportVars, hostVars, disturbances>>

\* submit_file() reads the file again and the backend takes it under a new id.
\* QEMU has run the analysis when it answers.  The answer may be lost.
Upload(id) ==
  /\ pc = "upload"
  /\ disk.regular
  /\ id \in Unissued /\ \A other \in Unissued : id <= other
  /\ \/ /\ \E route \in IF backend = "qemu" THEN {Drop} ELSE Routes,
              status \in IF backend = "qemu" THEN Outcomes \cup {"failed"} ELSE {"queued"} :
             issued' = [issued EXCEPT ![id] =
                          [content |-> disk.content, route |-> route, status |-> status]]
        /\ inflight' = id
        /\ Goto("record")
     \/ /\ issued' = [issued EXCEPT ![id] = Orphan]
        /\ EndCall
        /\ UNCHANGED inflight
  /\ UNCHANGED <<ledgerVars, backend, reportVars, hostVars, disturbances>>

\* The backend or the file system refuses.
UploadRefused ==
  /\ pc = "upload"
  /\ EndCall
  /\ UNCHANGED <<ledgerVars, backendVars, reportVars, hostVars, disturbances>>

\* Mutant of RecordReceipt: what the ledger refuses is kept all the same.
RecordAnyReceipt ==
  /\ pc = "record"
  /\ tasks' = Append(tasks, [id |-> inflight, content |-> sample.content, route |-> routePolicy])
  /\ UNCHANGED <<disk, sample, routePolicy, confirmed, reports, fetches, lease>>
  /\ Goto("readback")
  /\ UNCHANGED <<backendVars, reportVars, hostVars, disturbances>>

\* The receipt enters the ledger, or the ledger refuses a task the backend has.
RecordReceipt ==
  /\ pc = "record"
  /\ IF Admissible(inflight, routePolicy)
     THEN RecordTask(inflight, routePolicy) /\ Goto("readback") /\ UNCHANGED <<issued, inflight>>
     ELSE /\ issued' = [issued EXCEPT ![inflight] = Orphan]
          /\ inflight' = None
          /\ EndCall
          /\ UNCHANGED ledgerVars
  /\ UNCHANGED <<backend, reportVars, hostVars, disturbances>>

\* The route is read back from the task record; reading may fail.
ReadBackRoute ==
  /\ pc = "readback"
  /\ \E effective \in {issued[inflight].route, None} : ConfirmTaskRoute(inflight, effective)
  /\ EndCall
  /\ inflight' = None
  /\ UNCHANGED <<backend, issued, reportVars, hostVars, disturbances>>

\* cape_fetch_report saves a copy under its default name, which may be the name
\* of the report already handed over.
FetchReport ==
  /\ InLoop
  /\ spec.reportTask # None
  /\ EndCall
  /\ copy' = "agent"
  /\ UNCHANGED <<ledgerVars, backendVars, spec, judged, before, hostVars, disturbances>>

\* update_spec on the two fields of the Executor's ACL the controller branches
\* on, while a branch is still ahead.
UpdateSpec ==
  /\ InLoop
  /\ loop # "retry"
  /\ \/ \E hint \in Hints : spec' = [spec EXCEPT !.hint = hint]
     \/ spec' = [spec EXCEPT !.retryDone = TRUE]
  /\ EndCall
  /\ UNCHANGED <<ledgerVars, backendVars, judged, before, copy, hostVars, disturbances>>

\* cape_vm_start, under the same lease rule as the controller's own operations.
CapeVMStart ==
  /\ InLoop
  /\ backend = "cape"
  /\ \E v \in VMs : HoldsLease(v) /\ downed' = downed \ {v}
  /\ EndCall
  /\ UNCHANGED <<ledgerVars, backendVars, reportVars, platform, disturbances>>

\* The agent finishes or runs out of iterations.
EndLoop ==
  /\ pc = "agent"
  /\ calls' = 0
  /\ UNCHANGED <<loop, round, counts, raised>>
  /\ pc' = (CASE loop = "first" -> "adjust"
            [] loop \in {"adjusted", "corrected"} -> "validate"
            [] loop = "retry" -> IF Len(tasks) > before THEN "persist" ELSE "judge")
  /\ UNCHANGED <<ledgerVars, backendVars, reportVars, hostVars, disturbances>>

\* A fatal model error, the ValueError of a platform without a VM, a spec that
\* cannot be appended to or saved: outside the tools every exception leaves run()
\* through its finally.
StageRaises ==
  /\ pc \in {"agent", "adjust", "correct", "destroy", "revert", "start", "cleanup", "persist",
             "judge"}
  /\ pc' = "leave" /\ raised' = TRUE
  /\ UNCHANGED <<ledgerVars, loop, calls, round, counts, backendVars, reportVars, hostVars,
                 disturbances>>

-----------------------------------------------------------------------------
(* Adjustment and self-correction. *)

\* The verdict of the stage is a failure.
Fail == spec' = [spec EXCEPT !.failed = TRUE] /\ Goto("leave")

\* Pass 1 left an adjustment request: the Architect may rewrite the plan, and
\* the configuration gate accepts it or ends the stage.  The request stays.
Adjust ==
  /\ pc = "adjust"
  /\ \/ spec.hint = None /\ Goto("validate") /\ UNCHANGED <<spec, platform>>
     \/ /\ spec.hint # None
        /\ platform' \in VMs \cup {None}
        /\ \/ StartLoop("adjusted") /\ UNCHANGED <<round, counts, raised, spec>>
           \/ Fail
  /\ UNCHANGED <<ledgerVars, backendVars, judged, before, copy, downed, disturbances>>

\* The head of the correction loop: is there a task in the ledger?  Past the
\* loop nothing reads its counters, the platform or the request any more, and
\* the model forgets them.
Validate ==
  /\ pc = "validate"
  /\ \/ /\ tasks = <<>>
        /\ IF round < MaxRounds THEN pc' = "correct" /\ round' = round + 1
                              ELSE pc' = "cleanup" /\ UNCHANGED round
        /\ UNCHANGED <<loop, calls, counts, raised, platform, spec>>
     \/ /\ tasks # <<>>
        /\ pc' = "persist"
        /\ round' = 0
        /\ counts' = [type \in FailureTypes |-> 0]
        /\ platform' = None
        /\ spec' = [spec EXCEPT !.hint = None]
        /\ UNCHANGED <<loop, calls, raised>>
  /\ UNCHANGED <<ledgerVars, backendVars, judged, before, copy, downed, disturbances>>

\* What _diagnose_failure() may return while there is no task.  Services and
\* the guest's agent are probed; a failed domstate reads as a VM that is down.
Diagnoses ==
  CASE backend = "qemu" -> {"unknown", "submission"}
    [] backend = "cape" /\ platform = None -> {"service"}
    [] OTHER -> {"service", "vm"} \cup
                (IF platform \in downed THEN {}
                 ELSE {"agent", IF spec.hint = None THEN "unknown" ELSE spec.hint})

\* Fixes that leave the VMs alone: services are restarted, the budget raised,
\* or the Architect asked for another plan; each works or does not.
FixPlan(type) ==
  /\ platform' \in IF type \in {"package", "submission"} THEN VMs \cup {None} ELSE {platform}
  /\ \/ StartLoop("corrected")
     \/ type # "timeout" /\ pc' = "cleanup" /\ UNCHANGED <<loop, calls>>

\* Mutant of AttemptCorrection: no budget per failure type.
AttemptUnlimited(type) ==
  /\ pc = "correct"
  /\ type \in Diagnoses
  /\ IF type = "unknown"
     THEN Goto("cleanup") /\ UNCHANGED platform
     ELSE /\ counts' = [counts EXCEPT ![type] = @ + 1]
          /\ CASE type = "vm" -> pc' = "start" /\ UNCHANGED <<loop, calls, platform>>
               [] type = "agent" -> pc' = "destroy" /\ UNCHANGED <<loop, calls, platform>>
               [] OTHER -> FixPlan(type)
          /\ UNCHANGED <<round, raised>>
  /\ UNCHANGED <<ledgerVars, backendVars, reportVars, downed, disturbances>>

\* One correction: a budget per failure type, then the fix of that type.
AttemptCorrection(type) ==
  /\ pc = "correct"
  /\ type \in Diagnoses
  /\ IF counts[type] >= MaxCorrections \/ type = "unknown"
     THEN Goto("cleanup") /\ UNCHANGED platform
     ELSE /\ counts' = [counts EXCEPT ![type] = @ + 1]
          /\ CASE type = "vm" -> pc' = "start" /\ UNCHANGED <<loop, calls, platform>>
               [] type = "agent" -> pc' = "destroy" /\ UNCHANGED <<loop, calls, platform>>
               [] OTHER -> FixPlan(type)
          /\ UNCHANGED <<round, raised>>
  /\ UNCHANGED <<ledgerVars, backendVars, reportVars, downed, disturbances>>

\* _fix_agent_unreachable(), first step: virsh destroy.
DestroyVM ==
  /\ pc = "destroy"
  /\ \/ HoldsLease(platform) /\ downed' = downed \cup {platform} /\ Goto("revert")
     \/ UNCHANGED downed /\ Goto("cleanup")
  /\ UNCHANGED <<ledgerVars, backendVars, reportVars, platform, disturbances>>

\* Mutant of RevertVM: a failed revert counts as a fix.
RevertIgnored ==
  /\ pc = "revert"
  /\ \/ HoldsLease(platform) /\ Goto("start")
     \/ StartLoop("corrected") /\ UNCHANGED <<round, counts, raised>>
  /\ UNCHANGED <<ledgerVars, backendVars, reportVars, hostVars, disturbances>>

\* Second step: virsh snapshot-revert; a failure leaves the VM off.
RevertVM ==
  /\ pc = "revert"
  /\ \/ HoldsLease(platform) /\ Goto("start")
     \/ Goto("cleanup")
  /\ UNCHANGED <<ledgerVars, backendVars, reportVars, hostVars, disturbances>>

\* virsh start, then a look whether the VM runs (or its agent answers).
StartVM ==
  /\ pc = "start"
  /\ \/ /\ HoldsLease(platform)
        /\ downed' = downed \ {platform}
        /\ \/ StartLoop("corrected") /\ UNCHANGED <<round, counts, raised>>
           \/ Goto("cleanup")
     \/ UNCHANGED downed /\ Goto("cleanup")
  /\ UNCHANGED <<ledgerVars, backendVars, reportVars, platform, disturbances>>

\* No task after all corrections: stale reports are removed.
CleanUp ==
  /\ pc = "cleanup"
  /\ copy' = "none"
  /\ Fail
  /\ UNCHANGED <<ledgerVars, backendVars, judged, before, hostVars, disturbances>>

-----------------------------------------------------------------------------
(* The authoritative fetch and the verdict. *)

LatestTask == tasks[Len(tasks)].id

\* The report cannot be fetched.
FetchFails ==
  /\ pc = "persist"
  /\ judged' = [signal |-> FALSE, verified |-> FALSE, valid |-> TRUE]
  /\ Goto("judge")
  /\ UNCHANGED <<ledgerVars, backendVars, spec, before, copy, hostVars, disturbances>>

\* The report is fetched, compared, written and recorded.  A failure to write or
\* to record it is only logged: the spec is set as if it had been stored.
PersistReport ==
  /\ pc = "persist"
  /\ \E status \in StatusNow(LatestTask), stored \in BOOLEAN :
       LET report == ReportOf(LatestTask, status)
           verified == Verified(report)
       IN  /\ report # None
           /\ issued' = [issued EXCEPT ![LatestTask].status = status]
           /\ IF stored THEN RecordReport(LatestTask, verified) ELSE UNCHANGED ledgerVars
           /\ judged' = [signal |-> report.outcome = "signal", verified |-> verified,
                         valid |-> report.outcome # "invalid"]
           /\ spec' = [spec EXCEPT !.signal = report.outcome = "signal",
                                   !.reportTask = IF verified THEN LatestTask ELSE @]
           /\ copy' \in CASE ~verified -> {copy}
                          [] verified /\ stored -> {"harness"}
                          [] OTHER -> {"none", "harness", "agent"}
  /\ Goto("judge")
  /\ UNCHANGED <<backend, inflight, before, hostVars, disturbances>>

\* Mutant of WantsRetry: the branch has no memory of the retry it made.
WantsRetryAgain == ~judged.signal \/ ~judged.verified

\* Mutant of WantsRetry: a good report is retried too.
WantsRetryAlways == loop # "retry" /\ ~spec.retryDone

\* An empty or foreign report is worth one more run.
WantsRetry == (~judged.signal \/ ~judged.verified) /\ loop # "retry" /\ ~spec.retryDone

\* Mutant of Judge: a report of another target passes.
JudgeUnverified ==
  /\ pc = "judge"
  /\ IF judged.valid /\ WantsRetry
     THEN /\ spec' = [spec EXCEPT !.retryDone = TRUE]
          /\ before' = Len(tasks)
          /\ StartLoop("retry")
          /\ UNCHANGED <<round, counts, raised>>
     ELSE /\ UNCHANGED before
          /\ IF judged.valid THEN Goto("leave") /\ UNCHANGED spec ELSE Fail
  /\ UNCHANGED <<ledgerVars, backendVars, judged, copy, hostVars, disturbances>>

Judge ==
  /\ pc = "judge"
  /\ IF judged.valid /\ WantsRetry
     THEN /\ spec' = [spec EXCEPT !.retryDone = TRUE]
          /\ before' = Len(tasks)
          /\ StartLoop("retry")
          /\ UNCHANGED <<round, counts, raised>>
     ELSE /\ UNCHANGED before
          /\ IF judged.valid /\ judged.verified THEN Goto("leave") /\ UNCHANGED spec ELSE Fail
  /\ UNCHANGED <<ledgerVars, backendVars, judged, copy, hostVars, disturbances>>

\* Mutant of Leave: the lease is released only when nothing was raised.
LeaveUnlessRaised ==
  /\ pc = "leave"
  /\ IF backend = "cape" /\ ~raised THEN ReleaseLease ELSE UNCHANGED ledgerVars
  /\ Goto("done")
  /\ UNCHANGED <<backendVars, reportVars, hostVars, disturbances>>

\* run()'s finally.
Leave ==
  /\ pc = "leave"
  /\ IF backend = "cape" THEN ReleaseLease ELSE UNCHANGED ledgerVars
  /\ Goto("done")
  /\ UNCHANGED <<backendVars, reportVars, hostVars, disturbances>>

\* The stage is over.
Over == pc = "done" /\ UNCHANGED stageVars

Controller ==
  \/ PinSample \/ PromoteNetworkPolicy \/ Enter
  \/ CapeSubmit \/ UploadRefused \/ RecordReceipt \/ ReadBackRoute
  \/ \E id \in RawIds : Upload(id)
  \/ FetchReport \/ UpdateSpec \/ CapeVMStart \/ EndLoop \/ StageRaises
  \/ Adjust \/ Validate \/ DestroyVM \/ RevertVM \/ StartVM \/ CleanUp
  \/ \E type \in FailureTypes : AttemptCorrection(type)
  \/ FetchFails \/ PersistReport \/ Judge \/ Leave

Environment == SampleDisturbed \/ LeaseExpires

StageNext == Controller \/ Environment \/ Over

StageSpec == StageInit /\ [][StageNext]_stageVars /\ WF_stageVars(Controller)

-----------------------------------------------------------------------------
(* The gate before the Analyst, as the orchestrator evaluates it. *)

GateOpen ==
  /\ pc = "done" /\ ~raised
  /\ ~spec.failed
  /\ VerifiedReport # None
  /\ RouteVerified(VerifiedReport)
  /\ spec.signal

\* Past the gate, the task whose report counts really ran the pinned bytes, under
\* the route the controller had chosen: whatever the agent called, whenever the
\* sample file was changed (also between the identity check and the upload), and
\* whatever a former task left in the storage.
GateEvidence ==
  GateOpen =>
    LET job == issued[VerifiedReport]
    IN  job.content = sample.content /\ job.route = routePolicy

\* The Analyst can only finish with the task it was handed, and the orchestrator
\* only promotes a report that names the task the ledger verified.
Acceptable == GateOpen /\ spec.reportTask = VerifiedReport

\* A result the pipeline can still accept rests on a report with behaviour in it,
\* also when the report of a retry could not be stored and the spec and the
\* ledger name different tasks.
HandedReport == Acceptable => issued[VerifiedReport].status = "signal"

\* The Analyst then reads the bytes the controller verified and recorded, never a
\* copy the agent saved over them: "the harness copy must be the one that lands
\* last".
HarnessCopyLandsLast == Acceptable => copy = "harness"

\* A recovery that turned the VM off and did not get it running again never ends
\* in a report that passes the gate.
DestroyedVMFailsStage == GateOpen => downed = {}

\* The lease covers every place at which VMs are operated, and no way out of the
\* stage, an exception included, keeps it.
LeaseSpansStage ==
  /\ pc = "done" => lease = None
  /\ backend = "cape" /\ pc \notin {"bind", "policy", "enter", "done"} => lease # None

\* The stage's steps are, on the ledger, the calls RunLedger allows and no others.
ImplementsLedger == Spec

\* Whatever the agent, the backend and the clock do, the stage comes to an end:
\* the loops, the correction rounds and the retry are bounded together.
StageTerminates == <>(pc = "done")

\* "A run may not create unbounded CAPE work": MAX_TASKS_PER_RUN bounds what the
\* backend is given.
BackendWorkBounded == Cardinality({id \in RawIds : issued[id] # None}) <= MaxTasks

\* "Give it exactly one bounded retry ... before accepting it as a (documented)
\* genuine evasion/empty result, or as a hard failure": an empty or unverified
\* report is not the end of the stage before the retry.
RetriedBeforeGivingUp ==
  pc = "done" /\ ~raised /\ judged # None =>
    \/ loop = "retry"
    \/ ~judged.valid
    \/ judged.signal /\ judged.verified

=============================================================================
