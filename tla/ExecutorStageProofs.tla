------------------------- MODULE ExecutorStageProofs -------------------------
(***************************************************************************)
(* The Executor stage for every backend, any number of VMs, ids, routes,   *)
(* rounds, corrections and calls of the agent.  Each step of the stage is  *)
(* a call the ledger allows or leaves the ledger alone, so what is proved  *)
(* of RunLedger holds in the stage; with what the stage knows of the       *)
(* backend's jobs it gives the evidence behind the gate.                   *)
(***************************************************************************)
EXTENDS ExecutorStage, RunLedgerProofs

-----------------------------------------------------------------------------
(* The invariant. *)

\* What holds at certain places of the stage.
Placed ==
  /\ pc \in {"bind", "policy"} => tasks = << >>
  /\ pc = "record" => /\ inflight \in RawIds /\ inflight \notin Owned
                      /\ issued[inflight] \in Jobs
  /\ pc = "readback" => inflight \in Owned
  /\ pc \in {"upload", "record", "readback"} => calls < MaxCalls
  /\ pc \in {"destroy", "revert", "start"} => backend = "cape"
  /\ pc = "persist" => tasks # << >>
  /\ pc = "judge" \/ loop = "retry" => judged \in Qualities

\* The ledger's tasks are jobs of the backend, submitted under the policy.
OwnJobs ==
  /\ \A id \in Owned : issued[id] \in Jobs
  /\ \A i \in DOMAIN tasks : tasks[i].route = routePolicy

\* A target that matched is that of the job; so is a route that was verified.
JobsRan ==
  \A id \in TaskIds :
    /\ reports[id] # None /\ reports[id].matches => issued[id].content = sample.content
    /\ confirmed[id] = "verified" => issued[id].route = routePolicy

\* The lease, with the places before it is taken and the backend without VMs.
Leased ==
  /\ LeaseSpansStage
  /\ pc \in {"bind", "policy", "enter"} \/ backend = "qemu" => lease = None

IInv == StageTypeOK /\ EvidenceChain /\ Placed /\ OwnJobs /\ JobsRan /\ Leased

\* The ids of the ledger's tasks are ids the ledger admits.
LEMMA OwnedIds == TypeOK => Owned \subseteq TaskIds
<1> SUFFICES ASSUME TypeOK, NEW i \in DOMAIN tasks
             PROVE  tasks[i].id \in TaskIds
  BY DEF Owned
<1>1. tasks[i] \in Receipts
  BY DEF TypeOK
<1> QED
  BY <1>1 DEF Receipts

\* The last receipt is one of them.
LEMMA LatestOwned == TypeOK /\ tasks # << >> => LatestTask \in Owned
<1> SUFFICES ASSUME TypeOK, tasks # << >>
             PROVE  LatestTask \in Owned
  OBVIOUS
<1>1. Len(tasks) \in DOMAIN tasks
  BY DEF TypeOK
<1> QED
  BY <1>1 DEF LatestTask, Owned

-----------------------------------------------------------------------------
(* Every step of the stage, on the ledger. *)

\* The stage goes through the ledger's methods, and nothing else changes it.
LEMMA LedgerStep == IInv /\ [StageNext]_stageVars => [Next]_ledgerVars
<1> SUFFICES ASSUME IInv, [StageNext]_stageVars
             PROVE  [Next]_ledgerVars
  OBVIOUS
<1>1. CASE PinSample
  BY <1>1 DEF PinSample, Next
<1>2. CASE PromoteNetworkPolicy
  BY <1>2 DEF PromoteNetworkPolicy, SetRoutePolicy, Next
<1>3. CASE Enter
  BY <1>3 DEF Enter, AcquireLease, Next
<1>4. CASE RecordReceipt
  BY <1>4 DEF RecordReceipt, RecordTask, Admissible, TaskIds, Next
<1>5. CASE ReadBackRoute
  <2>1. inflight \in TaskIds /\ issued[inflight].route \in Routes
    BY <1>5, OwnedIds DEF ReadBackRoute, IInv, StageTypeOK, Placed, OwnJobs, Jobs
  <2> QED
    BY <1>5, <2>1 DEF ReadBackRoute, Next
<1>6. CASE PersistReport
  <2>1. LatestTask \in TaskIds
    BY <1>6, OwnedIds, LatestOwned DEF PersistReport, IInv, StageTypeOK, Placed
  <2>2. \A report : Verified(report) \in BOOLEAN
    BY DEF Verified
  <2> QED
    BY <1>6, <2>1, <2>2 DEF PersistReport, Next
<1>7. CASE Leave
  BY <1>7 DEF Leave, Next
<1>8. CASE SampleDisturbed \/ LeaseExpires
  BY <1>8 DEF SampleDisturbed, LeaseExpires, Next
<1>9. CASE \/ CapeSubmit \/ UploadRefused \/ \E id \in RawIds : Upload(id)
           \/ FetchReport \/ UpdateSpec \/ CapeVMStart \/ EndLoop \/ StageRaises
           \/ Adjust \/ Validate \/ DestroyVM \/ RevertVM \/ StartVM \/ CleanUp
           \/ \E type \in FailureTypes : AttemptCorrection(type)
           \/ FetchFails \/ Judge \/ Over \/ UNCHANGED stageVars
  BY <1>9 DEF CapeSubmit, UploadRefused, Upload, FetchReport, UpdateSpec, CapeVMStart, EndLoop,
              StageRaises, Adjust, Validate, DestroyVM, RevertVM, StartVM, CleanUp,
              AttemptCorrection, FetchFails, Judge, Over, stageVars
<1> QED
  BY <1>1, <1>2, <1>3, <1>4, <1>5, <1>6, <1>7, <1>8, <1>9 DEF StageNext, Controller, Environment

\* So the ledger's own invariants go on to hold.
LEMMA LedgerKept == IInv /\ [StageNext]_stageVars => TypeOK' /\ EvidenceChain'
BY LedgerStep, NextTypeOK, NextEvidenceChain DEF IInv, StageTypeOK

-----------------------------------------------------------------------------
(* The lease. *)

LEMMA LeaseKept == IInv /\ [StageNext]_stageVars => Leased'
<1> SUFFICES ASSUME IInv, [StageNext]_stageVars
             PROVE  Leased'
  OBVIOUS
<1>1. /\ pc = "done" => lease = None
      /\ backend = "cape" /\ pc \notin {"bind", "policy", "enter", "done"} => lease # None
      /\ pc \in {"bind", "policy", "enter"} \/ backend = "qemu" => lease = None
      /\ backend \in {"cape", "qemu"}
  BY StageAssumption DEF IInv, StageTypeOK, Leased, LeaseSpansStage
<1>2. backend' = backend
  BY DEF StageNext, Controller, Environment, PinSample, PromoteNetworkPolicy, Enter, CapeSubmit,
         UploadRefused, RecordReceipt, ReadBackRoute, Upload, FetchReport, UpdateSpec,
         CapeVMStart, EndLoop, StageRaises, Adjust, Validate, DestroyVM, RevertVM, StartVM,
         CleanUp, AttemptCorrection, FetchFails, PersistReport, Judge, Leave, SampleDisturbed,
         LeaseExpires, Over, stageVars, backendVars
<1> USE DEF Leased, LeaseSpansStage
<1>3. CASE PinSample \/ PromoteNetworkPolicy
  <2>1. lease' = lease /\ pc \in {"bind", "policy"} /\ pc' \in {"policy", "enter", "done"}
    BY <1>3 DEF PinSample, PromoteNetworkPolicy, BindSample, SetRoutePolicy, Goto, ledgerVars
  <2> QED
    BY <1>1, <1>2, <2>1
<1>4. CASE Enter
  <2>1. \/ lease' # None /\ pc' = "agent" /\ backend = "cape"
        \/ lease' = lease /\ pc' = "done" /\ backend = "cape"
        \/ lease' = lease /\ pc' = "agent" /\ backend = "qemu"
    <3>1. \A vm \in VMs : [vm |-> vm, live |-> TRUE] # None
      <4>1. \A vm \in VMs : [vm |-> vm, live |-> TRUE] \in Leases
        BY DEF Leases
      <4> QED
        BY <4>1, NoneAssumption
    <3> QED
      BY <1>4, <3>1 DEF Enter, AcquireLease, Goto, ledgerVars
  <2> QED
    BY <1>1, <1>2, <1>4, <2>1 DEF Enter
<1>5. CASE Leave
  <2>1. lease' = None /\ pc' = "done"
    BY <1>1, <1>5 DEF Leave, ReleaseLease, Goto, ledgerVars
  <2> QED
    BY <1>2, <2>1
<1>6. CASE LeaseExpires
  <2>1. pc' = pc /\ lease # None /\ pc \in {"destroy", "revert", "start"}
    BY <1>6 DEF LeaseExpires, Expire, controlVars
  <2>2. lease' # None
    <3>1. lease' \in Leases
      BY <1>6, <2>1 DEF LeaseExpires, Expire, IInv, StageTypeOK, TypeOK, Leases
    <3> QED
      BY <3>1, NoneAssumption
  <2> QED
    BY <1>1, <1>2, <2>1, <2>2
<1>7. CASE \/ CapeSubmit \/ UploadRefused \/ RecordReceipt \/ ReadBackRoute
           \/ \E id \in RawIds : Upload(id)
           \/ FetchReport \/ UpdateSpec \/ CapeVMStart \/ EndLoop \/ StageRaises
           \/ Adjust \/ Validate \/ DestroyVM \/ RevertVM \/ StartVM \/ CleanUp
           \/ \E type \in FailureTypes : AttemptCorrection(type)
           \/ FetchFails \/ PersistReport \/ Judge \/ SampleDisturbed
  <2>1. lease' = lease
    BY <1>7 DEF CapeSubmit, UploadRefused, RecordReceipt, ReadBackRoute, Upload, FetchReport,
         UpdateSpec, CapeVMStart, EndLoop, StageRaises, Adjust, Validate, DestroyVM, RevertVM,
         StartVM, CleanUp, AttemptCorrection, FetchFails, PersistReport, Judge, SampleDisturbed,
         ledgerVars, RecordTask, ConfirmTaskRoute, RecordReport, DisturbSample
  <2> DEFINE early == {"bind", "policy", "enter", "done"}
  <2>2. CASE \/ CapeSubmit \/ UploadRefused \/ RecordReceipt \/ ReadBackRoute
             \/ \E id \in RawIds : Upload(id)
             \/ FetchReport \/ UpdateSpec \/ CapeVMStart \/ EndLoop \/ StageRaises
             \/ FetchFails \/ PersistReport \/ SampleDisturbed
    <3>0. loop \in {"first", "adjusted", "corrected", "retry"}
      BY DEF IInv, StageTypeOK, Loops
    <3>1. pc \notin early /\ pc' \notin early
      BY <2>2, <3>0 DEF CapeSubmit, UploadRefused, RecordReceipt, ReadBackRoute, Upload, FetchReport,
           UpdateSpec, CapeVMStart, EndLoop, StageRaises, FetchFails, PersistReport,
           SampleDisturbed, InLoop, EndCall, Goto, controlVars
    <3> QED
      BY <1>1, <1>2, <2>1, <3>1
  <2>3. CASE \/ Adjust \/ Validate \/ DestroyVM \/ RevertVM \/ StartVM \/ CleanUp
             \/ \E type \in FailureTypes : AttemptCorrection(type)
             \/ Judge
    <3>1. pc \notin early /\ pc' \notin early
      <4>1. CASE \E type \in FailureTypes : AttemptCorrection(type)
        BY <4>1 DEF AttemptCorrection, FixPlan, StartLoop, Goto
      <4>2. CASE Adjust \/ Validate \/ DestroyVM \/ RevertVM \/ StartVM \/ CleanUp \/ Judge
        BY <4>2 DEF Adjust, Validate, DestroyVM, RevertVM, StartVM, CleanUp, Judge, Fail, Goto,
                    StartLoop
      <4> QED
        BY <2>3, <4>1, <4>2
    <3> QED
      BY <1>1, <1>2, <2>1, <3>1
  <2> QED
    BY <1>7, <2>2, <2>3
<1>8. CASE Over \/ UNCHANGED stageVars
  BY <1>1, <1>2, <1>8 DEF Over, stageVars, controlVars, ledgerVars
<1> QED
  BY <1>3, <1>4, <1>5, <1>6, <1>7, <1>8 DEF StageNext, Controller, Environment

-----------------------------------------------------------------------------
(* The types: StageTypeOK in its parts. *)

Places ==
  {"bind", "policy", "enter", "agent", "upload", "record", "readback", "adjust", "validate",
   "correct", "destroy", "revert", "start", "cleanup", "persist", "judge", "leave", "done"}

ControlTypes ==
  /\ pc \in Places
  /\ loop \in Loops
  /\ calls \in 0..MaxCalls
  /\ round \in 0..MaxRounds
  /\ counts \in [FailureTypes -> 0..MaxCorrections]
  /\ raised \in BOOLEAN

BackendTypes ==
  /\ backend \in Backends
  /\ issued \in [RawIds -> Jobs \cup {None, Orphan}]
  /\ inflight \in RawIds \cup {None}

ReportTypes ==
  /\ spec \in [failed : BOOLEAN, signal : BOOLEAN, reportTask : TaskIds \cup {None},
               hint : Hints \cup {None}, retryDone : BOOLEAN]
  /\ judged \in Qualities \cup {None}
  /\ before \in 0..MaxTasks
  /\ copy \in {"none", "harness", "agent"}

HostTypes ==
  /\ platform \in VMs \cup {None}
  /\ downed \subseteq VMs
  /\ disturbances \in 0..MaxDisturbances

LEMMA StageTypeParts ==
  StageTypeOK <=> TypeOK /\ ControlTypes /\ BackendTypes /\ ReportTypes /\ HostTypes
BY DEF StageTypeOK, Places, ControlTypes, BackendTypes, ReportTypes, HostTypes

\* A call ends within the calls of the loop, a new loop has none yet.
LEMMA CallTypes ==
  ASSUME ControlTypes
  PROVE  /\ calls < MaxCalls => calls + 1 \in 0..MaxCalls
         /\ 0 \in 0..MaxCalls /\ 0 \in 0..MaxRounds /\ 0 \in 0..MaxCorrections
         /\ round < MaxRounds => round + 1 \in 0..MaxRounds
BY StageAssumption DEF ControlTypes

LEMMA GotoTypes ==
  ASSUME NEW place \in Places, ControlTypes, Goto(place)
  PROVE  ControlTypes'
BY DEF ControlTypes, Goto

LEMMA EndCallTypes ==
  ASSUME ControlTypes, calls < MaxCalls, EndCall
  PROVE  ControlTypes'
<1>1. pc' \in Places /\ loop' \in Loops /\ raised' \in BOOLEAN
  BY DEF ControlTypes, EndCall, Places
<1>2. round' \in 0..MaxRounds /\ counts' \in [FailureTypes -> 0..MaxCorrections]
  BY DEF ControlTypes, EndCall
<1>3. calls' \in 0..MaxCalls
  BY CallTypes DEF EndCall
<1> QED
  BY <1>1, <1>2, <1>3 DEF ControlTypes

LEMMA StartLoopTypes ==
  ASSUME NEW label \in Loops, ControlTypes, StartLoop(label)
  PROVE  pc' \in Places /\ loop' \in Loops /\ calls' \in 0..MaxCalls
BY CallTypes DEF StartLoop, Places

LEMMA ControlKept == IInv /\ [StageNext]_stageVars => ControlTypes'
<1> SUFFICES ASSUME IInv, [StageNext]_stageVars
             PROVE  ControlTypes'
  OBVIOUS
<1>1. ControlTypes
  BY StageTypeParts DEF IInv
<1>2. pc \in {"upload", "record", "readback"} => calls < MaxCalls
  BY DEF IInv, Placed
<1>3. CASE PinSample \/ PromoteNetworkPolicy \/ Enter
  <2>1. CASE \E place \in Places : Goto(place)
    BY <1>1, <2>1, GotoTypes
  <2>2. CASE pc' = "done" /\ raised' = TRUE /\ UNCHANGED <<loop, calls, round, counts>>
    BY <1>1, <2>2 DEF ControlTypes, Places
  <2> QED
    BY <1>3, <2>1, <2>2 DEF PinSample, PromoteNetworkPolicy, Enter, Places
<1>4. CASE CapeSubmit \/ FetchFails \/ PersistReport \/ DestroyVM \/ RevertVM \/ CleanUp \/ Leave
  <2>1. PICK place \in Places : Goto(place)
    BY <1>4 DEF CapeSubmit, FetchFails, PersistReport, DestroyVM, RevertVM, CleanUp, Leave, Fail,
                Places
  <2> QED
    BY <1>1, <2>1, GotoTypes
<1>5. CASE \/ UploadRefused \/ RecordReceipt \/ ReadBackRoute \/ \E id \in RawIds : Upload(id)
           \/ FetchReport \/ UpdateSpec \/ CapeVMStart
  <2>1. calls < MaxCalls
    BY <1>2, <1>5 DEF UploadRefused, RecordReceipt, ReadBackRoute, Upload, FetchReport,
                      UpdateSpec, CapeVMStart, InLoop
  <2>2. EndCall \/ \E place \in Places : Goto(place)
    BY <1>5 DEF UploadRefused, RecordReceipt, ReadBackRoute, Upload, FetchReport, UpdateSpec,
                CapeVMStart, Places
  <2> QED
    BY <1>1, <2>1, <2>2, EndCallTypes, GotoTypes
<1>6. CASE EndLoop
  <2>1. pc' \in Places
    BY <1>1, <1>6 DEF EndLoop, ControlTypes, Loops, Places
  <2> QED
    BY <1>1, <1>6, <2>1, CallTypes DEF EndLoop, ControlTypes
<1>7. CASE StageRaises
  BY <1>1, <1>7 DEF StageRaises, ControlTypes, Places
<1>8. CASE Adjust \/ StartVM \/ Judge
  <2>1. \/ \E place \in Places : Goto(place)
        \/ \E label \in Loops : StartLoop(label) /\ UNCHANGED <<round, counts, raised>>
    BY <1>8 DEF Adjust, StartVM, Judge, Fail, Places, Loops
  <2> QED
    BY <1>1, <2>1, GotoTypes, StartLoopTypes DEF ControlTypes
<1>9. CASE Validate
  <2>1. pc' \in Places /\ UNCHANGED <<loop, calls, raised>>
    BY <1>9 DEF Validate, Places
  <2>2. round' \in 0..MaxRounds
    BY <1>1, <1>9, CallTypes DEF Validate, ControlTypes
  <2>3. counts' \in [FailureTypes -> 0..MaxCorrections]
    BY <1>1, <1>9, CallTypes DEF Validate, ControlTypes
  <2> QED
    BY <1>1, <2>1, <2>2, <2>3 DEF ControlTypes
<1>10. ASSUME NEW type \in FailureTypes, AttemptCorrection(type)
       PROVE  ControlTypes'
  <2>1. CASE Goto("cleanup")
    BY <1>1, <2>1, GotoTypes DEF Places
  <2>2. CASE ~(counts[type] >= MaxCorrections \/ type = "unknown")
    <3>1. UNCHANGED <<round, raised>> /\ counts' = [counts EXCEPT ![type] = @ + 1]
      BY <1>10, <2>2 DEF AttemptCorrection
    <3>2. counts' \in [FailureTypes -> 0..MaxCorrections]
      <4>1. counts[type] \in 0..MaxCorrections /\ counts[type] + 1 \in 0..MaxCorrections
        BY <1>1, <2>2, StageAssumption DEF ControlTypes
      <4> QED
        BY <1>1, <3>1, <4>1 DEF ControlTypes
    <3>3. \/ StartLoop("corrected")
          \/ pc' \in {"start", "destroy", "cleanup"} /\ UNCHANGED <<loop, calls>>
      BY <1>10, <2>2 DEF AttemptCorrection, FixPlan
    <3> QED
      BY <1>1, <3>1, <3>2, <3>3, StartLoopTypes DEF ControlTypes, Loops, Places
  <2> QED
    BY <1>10, <2>1, <2>2 DEF AttemptCorrection
<1>11. CASE SampleDisturbed \/ LeaseExpires \/ Over \/ UNCHANGED stageVars
  BY <1>1, <1>11 DEF SampleDisturbed, LeaseExpires, Over, stageVars, controlVars, ControlTypes
<1> QED
  BY <1>3, <1>4, <1>5, <1>6, <1>7, <1>8, <1>9, <1>10, <1>11 DEF StageNext, Controller, Environment

\* A report is looked up under a status the job may have.
LEMMA StatusOfJob ==
  ASSUME NEW id \in RawIds, issued[id] \in Jobs, NEW status \in StatusNow(id)
  PROVE  /\ [issued[id] EXCEPT !.status = status] \in Jobs
         /\ [issued[id] EXCEPT !.status = status].content = issued[id].content
         /\ [issued[id] EXCEPT !.status = status].route = issued[id].route
<1>1. status \in Outcomes \cup {"queued", "failed"}
  BY DEF StatusNow, Jobs, Outcomes
<1> QED
  BY <1>1 DEF Jobs

\* The steps that give the backend no work and settle none.
BackendIdle ==
  \/ PinSample \/ PromoteNetworkPolicy \/ Enter \/ CapeSubmit \/ UploadRefused
  \/ FetchReport \/ UpdateSpec \/ CapeVMStart \/ EndLoop \/ StageRaises
  \/ Adjust \/ Validate \/ DestroyVM \/ RevertVM \/ StartVM \/ CleanUp
  \/ \E type \in FailureTypes : AttemptCorrection(type)
  \/ FetchFails \/ Judge \/ Leave \/ SampleDisturbed \/ LeaseExpires \/ Over \/ UNCHANGED stageVars

LEMMA IdleBackend == BackendIdle => UNCHANGED <<backend, issued, inflight>>
<1>1. CASE \/ PinSample \/ PromoteNetworkPolicy \/ Enter \/ CapeSubmit \/ UploadRefused
           \/ FetchReport \/ UpdateSpec \/ CapeVMStart \/ EndLoop \/ StageRaises
  BY <1>1 DEF PinSample, PromoteNetworkPolicy, Enter, CapeSubmit, UploadRefused, FetchReport,
              UpdateSpec, CapeVMStart, EndLoop, StageRaises, backendVars
<1>2. CASE \/ Adjust \/ Validate \/ DestroyVM \/ RevertVM \/ StartVM \/ CleanUp
           \/ \E type \in FailureTypes : AttemptCorrection(type)
           \/ FetchFails \/ Judge \/ Leave
  BY <1>2 DEF Adjust, Validate, DestroyVM, RevertVM, StartVM, CleanUp, AttemptCorrection,
              FetchFails, Judge, Leave, backendVars
<1>3. CASE SampleDisturbed \/ LeaseExpires \/ Over \/ UNCHANGED stageVars
  BY <1>3 DEF SampleDisturbed, LeaseExpires, Over, stageVars, backendVars
<1> QED
  BY <1>1, <1>2, <1>3 DEF BackendIdle

LEMMA BackendKept == IInv /\ [StageNext]_stageVars => BackendTypes'
<1> SUFFICES ASSUME IInv, [StageNext]_stageVars
             PROVE  BackendTypes'
  OBVIOUS
<1>1. BackendTypes
  BY StageTypeParts DEF IInv
<1>2. CASE BackendIdle
  BY <1>1, <1>2, IdleBackend DEF BackendTypes
<1>3. ASSUME NEW id \in RawIds, Upload(id)
      PROVE  BackendTypes'
  <2>1. backend' = backend /\ inflight' \in {id, inflight}
    BY <1>3 DEF Upload
  <2>2. \E job \in Jobs \cup {Orphan} : issued' = [issued EXCEPT ![id] = job]
    <3>1. disk.content \in Contents
      BY DEF IInv, StageTypeOK, TypeOK, Files
    <3>2. ASSUME NEW route \in IF backend = "qemu" THEN {Drop} ELSE Routes,
                 NEW status \in IF backend = "qemu" THEN Outcomes \cup {"failed"} ELSE {"queued"}
          PROVE  [content |-> disk.content, route |-> route, status |-> status] \in Jobs
      <4>1. route \in Routes /\ status \in Outcomes \cup {"queued", "failed"}
        BY LedgerAssumption
      <4> QED
        BY <3>1, <4>1 DEF Jobs
    <3> QED
      BY <1>3, <3>2 DEF Upload
  <2>3. issued' \in [RawIds -> Jobs \cup {None, Orphan}]
    BY <1>1, <2>2 DEF BackendTypes
  <2> QED
    BY <1>1, <2>1, <2>3 DEF BackendTypes
<1>4. CASE RecordReceipt \/ ReadBackRoute
  <2>1. backend' = backend /\ inflight' \in {inflight, None}
    BY <1>4 DEF RecordReceipt, ReadBackRoute
  <2>2. issued' = issued \/ issued' = [issued EXCEPT ![inflight] = Orphan]
    BY <1>4 DEF RecordReceipt, ReadBackRoute
  <2> QED
    BY <1>1, <2>1, <2>2 DEF BackendTypes
<1>5. CASE PersistReport
  <2>1. LatestTask \in RawIds /\ issued[LatestTask] \in Jobs
    BY <1>5, OwnedIds, LatestOwned DEF PersistReport, IInv, StageTypeOK, Placed, OwnJobs, TaskIds
  <2>2. PICK status \in StatusNow(LatestTask) :
             issued' = [issued EXCEPT ![LatestTask].status = status]
    BY <1>5 DEF PersistReport
  <2>3. issued' = [issued EXCEPT ![LatestTask] = [issued[LatestTask] EXCEPT !.status = status]]
    BY <2>2
  <2>4. [issued[LatestTask] EXCEPT !.status = status] \in Jobs
    BY <2>1, StatusOfJob
  <2>5. issued' \in [RawIds -> Jobs \cup {None, Orphan}]
    BY <1>1, <2>3, <2>4 DEF BackendTypes
  <2> QED
    BY <1>1, <1>5, <2>5 DEF BackendTypes, PersistReport
<1> QED
  BY <1>2, <1>3, <1>4, <1>5 DEF StageNext, Controller, Environment, BackendIdle

LEMMA HostKept == IInv /\ [StageNext]_stageVars => HostTypes'
<1> SUFFICES ASSUME IInv, [StageNext]_stageVars
             PROVE  HostTypes'
  OBVIOUS
<1>1. HostTypes
  BY StageTypeParts DEF IInv
<1>2. disturbances' \in 0..MaxDisturbances
  <2>1. CASE SampleDisturbed
    BY <1>1, <2>1, StageAssumption DEF SampleDisturbed, HostTypes
  <2>2. CASE BackendIdle /\ ~SampleDisturbed
    <3>1. CASE \/ PinSample \/ PromoteNetworkPolicy \/ Enter \/ CapeSubmit \/ UploadRefused
               \/ FetchReport \/ UpdateSpec \/ CapeVMStart \/ EndLoop \/ StageRaises
      BY <1>1, <3>1 DEF PinSample, PromoteNetworkPolicy, Enter, CapeSubmit, UploadRefused,
                  FetchReport, UpdateSpec, CapeVMStart, EndLoop, StageRaises, HostTypes
    <3>2. CASE \/ Adjust \/ Validate \/ DestroyVM \/ RevertVM \/ StartVM \/ CleanUp
               \/ \E type \in FailureTypes : AttemptCorrection(type)
               \/ FetchFails \/ Judge \/ Leave
      BY <1>1, <3>2 DEF Adjust, Validate, DestroyVM, RevertVM, StartVM, CleanUp,
                  AttemptCorrection, FetchFails, Judge, Leave, HostTypes
    <3>3. CASE LeaseExpires \/ Over \/ UNCHANGED stageVars
      BY <1>1, <3>3 DEF LeaseExpires, Over, stageVars, HostTypes
    <3> QED
      BY <2>2, <3>1, <3>2, <3>3 DEF BackendIdle
  <2>3. CASE RecordReceipt \/ ReadBackRoute \/ PersistReport \/ \E id \in RawIds : Upload(id)
    BY <1>1, <2>3 DEF RecordReceipt, ReadBackRoute, PersistReport, Upload, HostTypes
  <2> QED
    BY <2>1, <2>2, <2>3 DEF StageNext, Controller, Environment, BackendIdle
<1>3. CASE \/ PinSample \/ PromoteNetworkPolicy \/ Enter \/ CapeSubmit \/ UploadRefused
           \/ RecordReceipt \/ ReadBackRoute \/ \E id \in RawIds : Upload(id)
           \/ FetchReport \/ UpdateSpec \/ EndLoop \/ StageRaises
  BY <1>1, <1>2, <1>3 DEF PinSample, PromoteNetworkPolicy, Enter, CapeSubmit, UploadRefused,
     RecordReceipt, ReadBackRoute, Upload, FetchReport, UpdateSpec, EndLoop, StageRaises,
     hostVars, HostTypes
<1>4. CASE \/ RevertVM \/ CleanUp \/ FetchFails \/ PersistReport \/ Judge \/ Leave
           \/ SampleDisturbed \/ LeaseExpires \/ Over \/ UNCHANGED stageVars
  BY <1>1, <1>2, <1>4 DEF RevertVM, CleanUp, FetchFails, PersistReport, Judge, Leave,
     SampleDisturbed, LeaseExpires, Over, stageVars, hostVars, HostTypes
<1>5. CASE CapeVMStart \/ Adjust \/ Validate
  BY <1>1, <1>2, <1>5 DEF CapeVMStart, Adjust, Validate, HostTypes
<1>6. CASE StartVM
  BY <1>1, <1>2, <1>6 DEF StartVM, HostTypes
<1>7. CASE DestroyVM
  <2>1. lease # None
    BY <1>7 DEF DestroyVM, IInv, Placed, Leased, LeaseSpansStage
  <2>2. HoldsLease(platform) => platform \in VMs
    BY <2>1 DEF HoldsLease, IInv, StageTypeOK, TypeOK, Leases
  <2> QED
    BY <1>1, <1>2, <1>7, <2>2 DEF DestroyVM, HostTypes
<1>8. ASSUME NEW type \in FailureTypes, AttemptCorrection(type)
      PROVE  HostTypes'
  <2>1. platform' \in VMs \cup {None} /\ downed' = downed
    BY <1>1, <1>8 DEF AttemptCorrection, FixPlan, HostTypes
  <2> QED
    BY <1>1, <1>2, <2>1 DEF HostTypes
<1> QED
  BY <1>3, <1>4, <1>5, <1>6, <1>7, <1>8 DEF StageNext, Controller, Environment

\* What is written to the spec keeps its fields' types.
Specs == [failed : BOOLEAN, signal : BOOLEAN, reportTask : TaskIds \cup {None},
          hint : Hints \cup {None}, retryDone : BOOLEAN]

LEMMA SpecFields ==
  ASSUME spec \in Specs
  PROVE  /\ [spec EXCEPT !.failed = TRUE] \in Specs
         /\ [spec EXCEPT !.retryDone = TRUE] \in Specs
         /\ \A hint \in Hints \cup {None} : [spec EXCEPT !.hint = hint] \in Specs
         /\ \A signal \in BOOLEAN, id \in TaskIds \cup {None} :
              [spec EXCEPT !.signal = signal, !.reportTask = id] \in Specs
         /\ spec.reportTask \in TaskIds \cup {None}
BY DEF Specs

LEMMA ReportKept ==
  IInv /\ [StageNext]_stageVars => ReportTypes' /\ (pc' = "judge" => judged' \in Qualities)
<1> SUFFICES ASSUME IInv, [StageNext]_stageVars
             PROVE  ReportTypes' /\ (pc' = "judge" => judged' \in Qualities)
  OBVIOUS
<1>1. ReportTypes
  BY StageTypeParts DEF IInv
<1>2. pc = "judge" \/ loop = "retry" => judged \in Qualities
  BY DEF IInv, Placed
<1>3. CASE \/ PinSample \/ PromoteNetworkPolicy \/ Enter \/ CapeSubmit \/ UploadRefused
           \/ RecordReceipt \/ ReadBackRoute \/ \E id \in RawIds : Upload(id)
           \/ CapeVMStart \/ StageRaises
  <2>1. UNCHANGED reportVars /\ pc' # "judge"
    BY <1>3 DEF PinSample, PromoteNetworkPolicy, Enter, CapeSubmit, UploadRefused,
       RecordReceipt, ReadBackRoute, Upload, CapeVMStart, StageRaises, Goto, EndCall
  <2> QED
    BY <1>1, <2>1 DEF ReportTypes, reportVars
<1>4. CASE \/ DestroyVM \/ RevertVM \/ StartVM \/ Leave
           \/ \E type \in FailureTypes : AttemptCorrection(type)
  <2>1. UNCHANGED reportVars
    BY <1>4 DEF DestroyVM, RevertVM, StartVM, Leave, AttemptCorrection
  <2>2. pc' # "judge"
    BY <1>4 DEF DestroyVM, RevertVM, StartVM, Leave, AttemptCorrection, FixPlan, Goto, StartLoop
  <2> QED
    BY <1>1, <2>1, <2>2 DEF ReportTypes, reportVars
<1>5. CASE SampleDisturbed \/ LeaseExpires \/ Over \/ UNCHANGED stageVars
  BY <1>1, <1>2, <1>5 DEF SampleDisturbed, LeaseExpires, Over, stageVars, controlVars,
     reportVars, ReportTypes
<1>6. CASE EndLoop
  <2>1. pc' = "judge" => loop = "retry"
    BY <1>6 DEF EndLoop, IInv, StageTypeOK, Loops
  <2> QED
    BY <1>1, <1>2, <1>6, <2>1 DEF EndLoop, reportVars, ReportTypes
<1>0. /\ spec \in Specs
      /\ /\ spec' \in Specs /\ judged' \in Qualities \cup {None}
         /\ before' \in 0..MaxTasks /\ copy' \in {"none", "harness", "agent"}
         => ReportTypes'
  BY <1>1 DEF ReportTypes, Specs
<1>7. CASE FetchReport \/ CleanUp \/ UpdateSpec \/ Adjust \/ Validate
  <2>1. /\ judged' = judged /\ before' = before
        /\ copy' \in {copy, "agent", "none"}
        /\ pc' # "judge"
    BY <1>7 DEF FetchReport, CleanUp, UpdateSpec, Adjust, Validate, Fail, Goto, EndCall, StartLoop
  <2>2. \/ spec' = spec
        \/ spec' = [spec EXCEPT !.failed = TRUE]
        \/ spec' = [spec EXCEPT !.retryDone = TRUE]
        \/ \E hint \in Hints \cup {None} : spec' = [spec EXCEPT !.hint = hint]
    <3>1. CASE FetchReport \/ CleanUp \/ UpdateSpec
      BY <3>1 DEF FetchReport, CleanUp, UpdateSpec, Fail
    <3>2. CASE Adjust \/ Validate
      BY <3>2 DEF Adjust, Validate, Fail
    <3> QED
      BY <1>7, <3>1, <3>2
  <2>3. spec' \in Specs
    BY <1>0, <2>2, SpecFields
  <2> QED
    BY <1>0, <1>1, <2>1, <2>3 DEF ReportTypes
<1>8. CASE Judge
  <2>1. Len(tasks) \in 0..MaxTasks
    BY LedgerAssumption DEF IInv, StageTypeOK, TypeOK, EvidenceChain, TasksDistinct
  <2>2. /\ judged' = judged /\ before' \in {before, Len(tasks)} /\ copy' = copy
        /\ pc' # "judge"
    BY <1>8 DEF Judge, Fail, Goto, StartLoop, reportVars
  <2>3. \/ spec' = spec
        \/ spec' = [spec EXCEPT !.failed = TRUE]
        \/ spec' = [spec EXCEPT !.retryDone = TRUE]
    BY <1>8 DEF Judge, Fail
  <2>4. spec' \in Specs
    BY <1>0, <2>3, SpecFields
  <2> QED
    BY <1>0, <1>1, <2>1, <2>2, <2>4 DEF ReportTypes
<1>9. CASE FetchFails
  <2>1. judged' \in Qualities
    BY <1>9 DEF FetchFails, Qualities
  <2> QED
    BY <1>1, <1>9, <2>1 DEF FetchFails, ReportTypes
<1>10. CASE PersistReport
  <2>1. PICK status \in StatusNow(LatestTask), stored \in BOOLEAN :
          LET report == ReportOf(LatestTask, status)
          IN  /\ judged' = [signal |-> report.outcome = "signal", verified |-> Verified(report),
                            valid |-> report.outcome # "invalid"]
              /\ spec' = [spec EXCEPT !.signal = report.outcome = "signal",
                                      !.reportTask = IF Verified(report) THEN LatestTask ELSE @]
              /\ copy' \in CASE ~Verified(report) -> {copy}
                             [] Verified(report) /\ stored -> {"harness"}
                             [] OTHER -> {"none", "harness", "agent"}
    BY <1>10 DEF PersistReport
  <2> DEFINE report == ReportOf(LatestTask, status)
             newest == IF Verified(report) THEN LatestTask ELSE spec.reportTask
             signal == report.outcome = "signal"
  <2>2. LatestTask \in TaskIds
    BY <1>10, OwnedIds, LatestOwned DEF PersistReport, IInv, StageTypeOK, Placed
  <2>3. Verified(report) \in BOOLEAN /\ signal \in BOOLEAN
    BY DEF Verified
  <2>4. judged' \in Qualities
    BY <2>1, <2>3 DEF Qualities
  <2>5. spec' \in Specs
    <3>1. spec' = [spec EXCEPT !.signal = signal, !.reportTask = newest]
      BY <2>1
    <3>2. newest \in TaskIds \cup {None}
      BY <1>0, <2>2, SpecFields
    <3> HIDE DEF newest, signal
    <3> QED
      BY <1>0, <2>3, <3>1, <3>2, SpecFields
  <2>6. copy' \in {"none", "harness", "agent"}
    BY <1>1, <2>1, <2>3 DEF ReportTypes
  <2>7. before' = before
    BY <1>10 DEF PersistReport
  <2> QED
    BY <1>0, <1>1, <2>4, <2>5, <2>6, <2>7 DEF ReportTypes
<1> QED
  BY <1>3, <1>4, <1>5, <1>6, <1>7, <1>8, <1>9, <1>10
  DEF StageNext, Controller, Environment

\* The types are kept.
LEMMA TypesKept == IInv /\ [StageNext]_stageVars => StageTypeOK'
<1> SUFFICES ASSUME IInv, [StageNext]_stageVars
             PROVE  StageTypeOK'
  OBVIOUS
<1>1. TypeOK' /\ ControlTypes' /\ BackendTypes' /\ ReportTypes' /\ HostTypes'
  BY LedgerKept, ControlKept, BackendKept, ReportKept, HostKept
<1> QED
  BY <1>1 DEF StageTypeOK, Places, ControlTypes, BackendTypes, ReportTypes, HostTypes

-----------------------------------------------------------------------------
(* The jobs of the ledger's tasks. *)

\* A step that gives the backend no work records nothing either; the sample is
\* pinned and the policy set before there is a task.
LEMMA IdleLedger ==
  ASSUME BackendIdle
  PROVE  /\ tasks' = tasks /\ confirmed' = confirmed /\ reports' = reports
         /\ pc \notin {"bind", "policy"} => sample' = sample /\ routePolicy' = routePolicy
<1>1. CASE PinSample \/ PromoteNetworkPolicy \/ Enter
  BY <1>1 DEF PinSample, PromoteNetworkPolicy, Enter, BindSample, SetRoutePolicy, AcquireLease,
              ledgerVars
<1>2. CASE \/ CapeSubmit \/ UploadRefused \/ FetchReport \/ UpdateSpec \/ CapeVMStart
           \/ EndLoop \/ StageRaises
  BY <1>2 DEF CapeSubmit, UploadRefused, FetchReport, UpdateSpec, CapeVMStart, EndLoop,
              StageRaises, ledgerVars
<1>3. CASE \/ Adjust \/ Validate \/ DestroyVM \/ RevertVM \/ StartVM \/ CleanUp
           \/ \E type \in FailureTypes : AttemptCorrection(type)
           \/ FetchFails \/ Judge
  BY <1>3 DEF Adjust, Validate, DestroyVM, RevertVM, StartVM, CleanUp, AttemptCorrection,
              FetchFails, Judge, ledgerVars
<1>4. CASE Leave \/ SampleDisturbed \/ LeaseExpires
  BY <1>4 DEF Leave, SampleDisturbed, LeaseExpires, ReleaseLease, DisturbSample, Expire, ledgerVars
<1>5. CASE Over \/ UNCHANGED stageVars
  BY <1>5 DEF Over, stageVars, ledgerVars
<1> QED
  BY <1>1, <1>2, <1>3, <1>4, <1>5 DEF BackendIdle

\* The receipts do not change but by RecordTask, which appends one.
LEMMA RecordedOwned ==
  ASSUME TypeOK, NEW receipt, tasks' = Append(tasks, receipt)
  PROVE  Owned' = Owned \cup {receipt.id}
<1>1. /\ DOMAIN tasks' = DOMAIN tasks \cup {Len(tasks) + 1}
      /\ \A i \in DOMAIN tasks : tasks'[i] = tasks[i]
      /\ tasks'[Len(tasks) + 1] = receipt
  BY DEF TypeOK
<1> QED
  BY <1>1 DEF Owned

\* What the report of a job says of its target is true of the job.
LEMMA VerifiedJob ==
  ASSUME IInv, NEW id \in Owned, NEW status \in StatusNow(id), Verified(ReportOf(id, status)),
         ReportOf(id, status) # None
  PROVE  issued[id].content = sample.content
<1>1. sample.content \in Contents
  <2>1. tasks # << >> /\ sample # None
    BY DEF Owned, IInv, EvidenceChain, ReceiptsNameSample
  <2> QED
    BY <2>1 DEF IInv, StageTypeOK, TypeOK, Identities
<1>2. CASE status \in Outcomes
  BY <1>2 DEF Verified, ReportOf
<1>3. CASE status \notin Outcomes
  <2>1. ReportOf(id, status).target \in {StaleContent, None}
    BY <1>3 DEF ReportOf
  <2> QED
    BY <1>1, <2>1, StageAssumption, LedgerAssumption DEF Verified
<1> QED
  BY <1>2, <1>3

LEMMA JobsKept == IInv /\ [StageNext]_stageVars => OwnJobs' /\ JobsRan'
<1> SUFFICES ASSUME IInv, [StageNext]_stageVars
             PROVE  OwnJobs' /\ JobsRan'
  OBVIOUS
<1>1. /\ TypeOK
      /\ Owned \subseteq TaskIds /\ TaskIds \subseteq RawIds
      /\ issued \in [RawIds -> Jobs \cup {None, Orphan}]
      /\ None \notin Jobs
      /\ confirmed \in [TaskIds -> {"unchecked", "verified", "refused"}]
      /\ reports \in [TaskIds -> Digests \cup {None}]
  BY OwnedIds, NoneAssumption DEF IInv, StageTypeOK, TypeOK, TaskIds
<1>2. \A id \in TaskIds : confirmed[id] # "unchecked" \/ reports[id] # None => id \in Owned
  BY DEF IInv, EvidenceChain, EvidenceOwned
<1>3. /\ \A id \in Owned : issued[id] \in Jobs
      /\ \A i \in DOMAIN tasks : tasks[i].route = routePolicy
      /\ \A id \in TaskIds :
           /\ reports[id] # None /\ reports[id].matches => issued[id].content = sample.content
           /\ confirmed[id] = "verified" => issued[id].route = routePolicy
  BY DEF IInv, OwnJobs, JobsRan
<1>4. CASE BackendIdle
  <2>1. tasks' = tasks /\ confirmed' = confirmed /\ reports' = reports /\ issued' = issued
    BY <1>4, IdleLedger, IdleBackend
  <2>2. CASE sample' = sample /\ routePolicy' = routePolicy
    BY <1>3, <2>1, <2>2 DEF OwnJobs, JobsRan, Owned
  <2>3. CASE pc \in {"bind", "policy"}
    <3>1. tasks = << >>
      BY <2>3 DEF IInv, Placed
    <3>2. Owned = {} /\ Owned' = {} /\ DOMAIN tasks' = {}
      BY <2>1, <3>1 DEF Owned
    <3>3. \A id \in TaskIds : confirmed'[id] = "unchecked" /\ reports'[id] = None
      BY <1>2, <2>1, <3>2
    <3> QED
      BY <3>2, <3>3 DEF OwnJobs, JobsRan
  <2> QED
    BY <1>4, <2>2, <2>3, IdleLedger
<1>5. ASSUME NEW id \in RawIds, Upload(id)
      PROVE  OwnJobs' /\ JobsRan'
  <2>1. UNCHANGED ledgerVars /\ issued[id] = None
    BY <1>5 DEF Upload, Unissued
  <2>2. \A other \in RawIds \ {id} : issued'[other] = issued[other]
    BY <1>1, <1>5 DEF Upload
  <2>3. id \notin Owned
    BY <1>1, <1>3, <2>1
  <2>4. \A other \in Owned : issued'[other] = issued[other]
    BY <1>1, <2>2, <2>3
  <2> QED
    BY <1>2, <1>3, <2>1, <2>4 DEF ledgerVars, OwnJobs, JobsRan, Owned
<1>6. CASE RecordReceipt
  <2>1. inflight \in RawIds /\ inflight \notin Owned /\ issued[inflight] \in Jobs
    BY <1>6 DEF RecordReceipt, IInv, Placed
  <2>2. CASE Admissible(inflight, routePolicy)
    <3> DEFINE receipt == [id |-> inflight, content |-> sample.content, route |-> routePolicy]
    <3>1. /\ tasks' = Append(tasks, receipt) /\ issued' = issued
          /\ UNCHANGED <<sample, routePolicy, confirmed, reports>>
      BY <1>6, <2>2 DEF RecordReceipt, RecordTask
    <3>2. Owned' = Owned \cup {inflight}
      BY <1>1, <3>1, RecordedOwned
    <3>3. \A i \in DOMAIN tasks' : tasks'[i].route = routePolicy
      BY <1>1, <1>3, <3>1 DEF TypeOK
    <3> QED
      BY <1>3, <2>1, <3>1, <3>2, <3>3 DEF OwnJobs, JobsRan
  <2>3. CASE ~Admissible(inflight, routePolicy)
    <3>1. UNCHANGED ledgerVars /\ issued' = [issued EXCEPT ![inflight] = Orphan]
      BY <1>6, <2>3 DEF RecordReceipt
    <3>2. \A other \in Owned : issued'[other] = issued[other]
      BY <1>1, <2>1, <3>1
    <3> QED
      BY <1>2, <1>3, <3>1, <3>2 DEF ledgerVars, OwnJobs, JobsRan, Owned
  <2> QED
    BY <2>2, <2>3
<1>7. CASE ReadBackRoute
  <2>1. PICK effective \in {issued[inflight].route, None} : ConfirmTaskRoute(inflight, effective)
    BY <1>7 DEF ReadBackRoute
  <2>2. /\ inflight \in Owned /\ issued' = issued
        /\ UNCHANGED <<sample, routePolicy, tasks, reports>>
        /\ confirmed' = [confirmed EXCEPT ![inflight] =
                           IF effective = RouteOf(inflight) THEN "verified" ELSE "refused"]
    BY <1>7, <2>1 DEF ReadBackRoute, ConfirmTaskRoute
  <2>3. RouteOf(inflight) = routePolicy
    <3>1. \E i \in DOMAIN tasks : tasks[i].id = inflight
      BY <2>2 DEF Owned
    <3> QED
      BY <1>3, <3>1 DEF RouteOf
  <2>4. routePolicy # None
    BY <1>1, LedgerAssumption DEF TypeOK
  <2>5. confirmed'[inflight] = "verified" => issued[inflight].route = routePolicy
    BY <1>1, <2>1, <2>2, <2>3, <2>4
  <2>6. \A id \in TaskIds : confirmed'[id] = "verified" => issued[id].route = routePolicy
    BY <1>1, <1>3, <2>2, <2>5
  <2> QED
    BY <1>3, <2>2, <2>6 DEF OwnJobs, JobsRan, Owned
<1>8. CASE PersistReport
  <2>1. LatestTask \in Owned
    BY <1>8, LatestOwned DEF PersistReport, IInv, StageTypeOK, Placed
  <2>2. PICK status \in StatusNow(LatestTask), stored \in BOOLEAN :
          /\ ReportOf(LatestTask, status) # None
          /\ issued' = [issued EXCEPT ![LatestTask].status = status]
          /\ IF stored THEN RecordReport(LatestTask, Verified(ReportOf(LatestTask, status)))
                       ELSE UNCHANGED ledgerVars
    BY <1>8 DEF PersistReport
  <2>3. /\ issued'[LatestTask] \in Jobs
        /\ issued'[LatestTask].content = issued[LatestTask].content
        /\ issued'[LatestTask].route = issued[LatestTask].route
        /\ \A other \in RawIds \ {LatestTask} : issued'[other] = issued[other]
    <3>1. issued[LatestTask] \in Jobs /\ LatestTask \in RawIds
      BY <1>1, <1>3, <2>1
    <3>2. issued' = [issued EXCEPT ![LatestTask] = [issued[LatestTask] EXCEPT !.status = status]]
      BY <2>2
    <3>3. /\ issued'[LatestTask] = [issued[LatestTask] EXCEPT !.status = status]
          /\ \A other \in RawIds \ {LatestTask} : issued'[other] = issued[other]
      BY <1>1, <3>1, <3>2
    <3> QED
      BY <3>1, <3>3, StatusOfJob
  <2>4. UNCHANGED <<sample, routePolicy, tasks, confirmed>>
    BY <2>2 DEF RecordReport, ledgerVars
  <2>5. Owned' = Owned
    BY <2>4 DEF Owned
  <2>6. \A id \in TaskIds :
          reports'[id] # None /\ reports'[id].matches => issued[id].content = sample.content
    <3>1. CASE stored
      <4>1. reports' = [reports EXCEPT ![LatestTask] =
                          [matches |-> Verified(ReportOf(LatestTask, status)), at |-> fetches]]
        BY <2>2, <3>1 DEF RecordReport
      <4>2. reports'[LatestTask].matches => issued[LatestTask].content = sample.content
        <5>1. reports'[LatestTask].matches = Verified(ReportOf(LatestTask, status))
          BY <1>1, <2>1, <4>1
        <5> QED
          BY <2>1, <2>2, <5>1, VerifiedJob
      <4>3. \A id \in TaskIds \ {LatestTask} : reports'[id] = reports[id]
        BY <1>1, <4>1
      <4> QED
        BY <1>3, <4>2, <4>3
    <3>2. CASE ~stored
      BY <1>3, <2>2, <3>2 DEF ledgerVars
    <3> QED
      BY <3>1, <3>2
  <2>7. OwnJobs'
    BY <1>1, <1>3, <2>3, <2>4, <2>5 DEF OwnJobs
  <2>8. JobsRan'
    BY <1>1, <1>3, <2>3, <2>4, <2>6 DEF JobsRan
  <2> QED
    BY <2>7, <2>8
<1> QED
  BY <1>4, <1>5, <1>6, <1>7, <1>8 DEF StageNext, Controller, Environment, BackendIdle

-----------------------------------------------------------------------------
(* The places. *)

\* The steps that leave the report's verdict alone.
LEMMA JudgedUnchanged ==
  ASSUME [StageNext]_stageVars, ~FetchFails, ~PersistReport
  PROVE  judged' = judged
<1>1. CASE BackendIdle /\ ~FetchFails
  <2>1. CASE \/ PinSample \/ PromoteNetworkPolicy \/ Enter \/ CapeSubmit \/ UploadRefused
             \/ CapeVMStart \/ EndLoop \/ StageRaises \/ FetchReport \/ UpdateSpec
    BY <2>1 DEF PinSample, PromoteNetworkPolicy, Enter, CapeSubmit, UploadRefused,
       CapeVMStart, EndLoop, StageRaises, FetchReport, UpdateSpec, reportVars
  <2>2. CASE \/ Adjust \/ Validate \/ DestroyVM \/ RevertVM \/ StartVM \/ CleanUp
             \/ \E type \in FailureTypes : AttemptCorrection(type)
             \/ Judge \/ Leave
    BY <2>2 DEF Adjust, Validate, DestroyVM, RevertVM, StartVM, CleanUp, AttemptCorrection,
                Judge, Leave, reportVars
  <2>3. CASE SampleDisturbed \/ LeaseExpires \/ Over \/ UNCHANGED stageVars
    BY <2>3 DEF SampleDisturbed, LeaseExpires, Over, stageVars, reportVars
  <2> QED
    BY <1>1, <2>1, <2>2, <2>3 DEF BackendIdle
<1>2. CASE RecordReceipt \/ ReadBackRoute \/ \E id \in RawIds : Upload(id)
  BY <1>2 DEF RecordReceipt, ReadBackRoute, Upload, reportVars
<1> QED
  BY <1>1, <1>2 DEF StageNext, Controller, Environment, BackendIdle

\* A retry starts, and a report is judged, after a verdict on a report.
LEMMA VerdictKept ==
  IInv /\ [StageNext]_stageVars => (pc' = "judge" \/ loop' = "retry" => judged' \in Qualities)
<1> SUFFICES ASSUME IInv, [StageNext]_stageVars, loop' = "retry"
             PROVE  judged' \in Qualities
  BY ReportKept
<1>1. CASE FetchFails \/ PersistReport
  <2>1. pc' = "judge"
    BY <1>1 DEF FetchFails, PersistReport, Goto
  <2> QED
    BY <2>1, ReportKept
<1>2. CASE ~FetchFails /\ ~PersistReport
  <2>1. judged' = judged
    BY <1>2, JudgedUnchanged
  <2>2. pc = "judge" \/ loop = "retry"
    <3>1. CASE \/ PinSample \/ PromoteNetworkPolicy \/ Enter \/ CapeSubmit \/ UploadRefused
               \/ RecordReceipt \/ ReadBackRoute \/ \E id \in RawIds : Upload(id)
               \/ CapeVMStart \/ EndLoop \/ StageRaises \/ FetchReport \/ UpdateSpec
      BY <3>1 DEF PinSample, PromoteNetworkPolicy, Enter, CapeSubmit, UploadRefused,
         RecordReceipt, ReadBackRoute, Upload, CapeVMStart, EndLoop, StageRaises, FetchReport,
         UpdateSpec, Goto, EndCall
    <3>2. CASE \/ Adjust \/ Validate \/ DestroyVM \/ RevertVM \/ StartVM \/ CleanUp
               \/ Judge \/ Leave
      BY <3>2 DEF Adjust, Validate, DestroyVM, RevertVM, StartVM, CleanUp, Judge, Leave, Goto,
                  Fail, StartLoop
    <3>3. CASE \E type \in FailureTypes : AttemptCorrection(type)
      BY <3>3 DEF AttemptCorrection, FixPlan, Goto, StartLoop
    <3>4. CASE SampleDisturbed \/ LeaseExpires \/ Over \/ UNCHANGED stageVars
      BY <3>4 DEF SampleDisturbed, LeaseExpires, Over, stageVars, controlVars
    <3> QED
      BY <1>2, <3>1, <3>2, <3>3, <3>4 DEF StageNext, Controller, Environment
  <2> QED
    BY <2>1, <2>2 DEF IInv, Placed
<1> QED
  BY <1>1, <1>2

LEMMA PlacedKept == IInv /\ [StageNext]_stageVars => Placed'
<1> SUFFICES ASSUME IInv, [StageNext]_stageVars
             PROVE  Placed'
  OBVIOUS
<1> DEFINE later == {"enter", "agent", "adjust", "validate", "correct", "cleanup", "judge",
                     "leave", "done"}
<1>1. pc' = "judge" \/ loop' = "retry" => judged' \in Qualities
  BY VerdictKept
<1>2. Placed
  BY DEF IInv
<1>3. ASSUME pc' \in later
      PROVE  Placed'
  BY <1>1, <1>3 DEF Placed
<1>4. CASE \/ PromoteNetworkPolicy \/ Enter \/ UploadRefused \/ ReadBackRoute
           \/ FetchReport \/ UpdateSpec \/ CapeVMStart \/ StageRaises \/ Adjust
           \/ CleanUp \/ FetchFails \/ PersistReport \/ Judge \/ Leave
  <2>1. pc' \in later
    BY <1>4 DEF PromoteNetworkPolicy, Enter, UploadRefused, ReadBackRoute, FetchReport,
       UpdateSpec, CapeVMStart, StageRaises, Adjust, CleanUp, FetchFails, PersistReport, Judge,
       Leave, Fail, Goto, EndCall, StartLoop
  <2> QED
    BY <1>3, <2>1
<1>5. CASE PinSample
  <2>1. tasks' = << >> /\ pc' \in {"policy", "done"}
    BY <1>2, <1>5 DEF PinSample, BindSample, Goto, ledgerVars, Placed
  <2> QED
    BY <1>1, <2>1 DEF Placed
<1>6. CASE CapeSubmit
  <2>1. pc' = "upload" /\ calls' < MaxCalls
    BY <1>6 DEF CapeSubmit, InLoop, Goto
  <2> QED
    BY <1>1, <2>1 DEF Placed
<1>7. ASSUME NEW id \in RawIds, Upload(id)
      PROVE  Placed'
  <2>1. CASE Goto("record")
    <3>1. pc' = "record" /\ calls' < MaxCalls
      BY <1>2, <1>7, <2>1 DEF Upload, Goto, Placed
    <3>2. inflight' = id /\ issued'[id] \in Jobs
      <4>1. PICK route \in Routes, status \in Outcomes \cup {"queued", "failed"} :
                   issued' = [issued EXCEPT ![id] =
                                [content |-> disk.content, route |-> route, status |-> status]]
        BY <1>7, <2>1, LedgerAssumption DEF Upload, Goto, EndCall
      <4>2. disk.content \in Contents /\ DOMAIN issued = RawIds
        BY DEF IInv, StageTypeOK, TypeOK, Files
      <4>3. [content |-> disk.content, route |-> route, status |-> status] \in Jobs
        BY <4>2 DEF Jobs
      <4>4. inflight' = id
        BY <1>7, <2>1 DEF Upload, Goto, EndCall
      <4> QED
        BY <4>1, <4>2, <4>3, <4>4
    <3>3. id \notin Owned'
      <4>1. issued[id] = None /\ tasks' = tasks
        BY <1>7 DEF Upload, Unissued, ledgerVars
      <4>2. id \notin Owned
        BY <4>1, NoneAssumption DEF IInv, OwnJobs
      <4> QED
        BY <4>1, <4>2 DEF Owned
    <3> QED
      BY <1>1, <3>1, <3>2, <3>3 DEF Placed
  <2>2. CASE EndCall
    BY <1>3, <2>2 DEF EndCall
  <2> QED
    BY <1>7, <2>1, <2>2 DEF Upload
<1>8. CASE RecordReceipt
  <2>1. CASE Admissible(inflight, routePolicy)
    <3>1. pc' = "readback" /\ calls' < MaxCalls /\ inflight' = inflight
      BY <1>2, <1>8, <2>1 DEF RecordReceipt, Goto, Placed
    <3>2. inflight \in Owned'
      <4>1. tasks' = Append(tasks, [id |-> inflight, content |-> sample.content,
                                    route |-> routePolicy])
        BY <1>8, <2>1 DEF RecordReceipt, RecordTask
      <4> QED
        BY <4>1, RecordedOwned DEF IInv, StageTypeOK
    <3> QED
      BY <1>1, <3>1, <3>2 DEF Placed
  <2>2. CASE ~Admissible(inflight, routePolicy)
    BY <1>3, <1>8, <2>2 DEF RecordReceipt, EndCall
  <2> QED
    BY <2>1, <2>2
<1>9. CASE EndLoop
  <2>0. loop \in {"first", "adjusted", "corrected", "retry"}
    BY DEF IInv, StageTypeOK, Loops
  <2>1. \/ pc' \in later
        \/ pc' = "persist" /\ Len(tasks) > before
    <3>1. pc' \in {"adjust", "validate", "judge"} \/ (pc' = "persist" /\ Len(tasks) > before)
      BY <1>9, <2>0 DEF EndLoop
    <3> QED
      BY <3>1
  <2>2. Len(tasks) > before => tasks # << >>
    BY DEF IInv, StageTypeOK, TypeOK
  <2>3. tasks' = tasks
    BY <1>9 DEF EndLoop, ledgerVars
  <2> QED
    BY <1>1, <1>3, <2>1, <2>2, <2>3 DEF Placed
<1>10. CASE Validate
  <2>1. pc' \in later \/ (pc' = "persist" /\ tasks' # << >>)
    BY <1>10 DEF Validate, ledgerVars
  <2> QED
    BY <1>1, <1>3, <2>1 DEF Placed
<1>11. ASSUME NEW type \in FailureTypes, AttemptCorrection(type)
       PROVE  Placed'
  <2>1. pc' \in later \/ (pc' \in {"start", "destroy"} /\ type \in {"vm", "agent"})
    BY <1>11 DEF AttemptCorrection, FixPlan, Goto, StartLoop
  <2>2. type \in {"vm", "agent"} => backend = "cape"
    <3>1. backend \in {"cape", "qemu"}
      BY StageAssumption DEF IInv, StageTypeOK
    <3>2. type \in Diagnoses
      BY <1>11 DEF AttemptCorrection
    <3> QED
      BY <3>1, <3>2 DEF Diagnoses
  <2>3. backend' = backend
    BY <1>11 DEF AttemptCorrection, backendVars
  <2> QED
    BY <1>1, <1>3, <2>1, <2>2, <2>3 DEF Placed
<1>12. CASE DestroyVM \/ RevertVM \/ StartVM
  <2>1. backend' = "cape" /\ pc' \in {"revert", "start"} \cup later
    BY <1>2, <1>12 DEF DestroyVM, RevertVM, StartVM, backendVars, Goto, StartLoop, Placed
  <2> QED
    BY <1>1, <1>3, <2>1 DEF Placed
<1>13. CASE SampleDisturbed \/ LeaseExpires \/ Over \/ UNCHANGED stageVars
  <2>1. UNCHANGED <<pc, loop, calls, backend, issued, inflight, judged, tasks>>
    BY <1>13 DEF SampleDisturbed, LeaseExpires, Over, stageVars, controlVars, backendVars,
       reportVars, ledgerVars, DisturbSample, Expire
  <2> QED
    BY <1>2, <2>1 DEF Placed, Owned
<1> QED
  BY <1>4, <1>5, <1>6, <1>7, <1>8, <1>9, <1>10, <1>11, <1>12, <1>13
  DEF StageNext, Controller, Environment

-----------------------------------------------------------------------------
(* The theorems. *)

LEMMA StageInitInvariant == StageInit => IInv
<1> SUFFICES ASSUME StageInit
             PROVE  IInv
  OBVIOUS
<1>1. TypeOK /\ EvidenceChain
  BY InitInvariant DEF StageInit
<1>2. ControlTypes /\ BackendTypes /\ HostTypes
  <2>1. ControlTypes
    <3>1. 0 \in 0..MaxCalls /\ 0 \in 0..MaxRounds /\ 0 \in 0..MaxCorrections
      BY StageAssumption
    <3>2. pc \in Places /\ loop \in Loops /\ raised \in BOOLEAN
      BY DEF StageInit, Places, Loops
    <3>3. counts \in [FailureTypes -> 0..MaxCorrections]
      BY <3>1 DEF StageInit
    <3>4. calls \in 0..MaxCalls /\ round \in 0..MaxRounds
      BY <3>1 DEF StageInit
    <3> QED
      BY <3>2, <3>3, <3>4 DEF ControlTypes
  <2>2. BackendTypes
    BY DEF StageInit, BackendTypes
  <2>3. HostTypes
    BY StageAssumption DEF StageInit, HostTypes
  <2> QED
    BY <2>1, <2>2, <2>3
<1>3. ReportTypes
  BY LedgerAssumption DEF StageInit, ReportTypes
<1>4. StageTypeOK
  BY <1>1, <1>2, <1>3, StageTypeParts
<1>5. Owned = {} /\ tasks = << >>
  BY DEF StageInit, Init, LedgerStart, Owned
<1>6. OwnJobs /\ JobsRan
  BY <1>5 DEF StageInit, Init, LedgerStart, OwnJobs, JobsRan
<1>7. Placed /\ Leased
  BY <1>5 DEF StageInit, Init, LedgerStart, Placed, Leased, LeaseSpansStage
<1> QED
  BY <1>1, <1>4, <1>6, <1>7 DEF IInv

LEMMA StageStep == IInv /\ [StageNext]_stageVars => IInv'
BY TypesKept, LedgerKept, PlacedKept, JobsKept, LeaseKept DEF IInv

LEMMA StageInvariant == StageSpec => []IInv
BY StageInitInvariant, StageStep, PTL DEF StageSpec

\* The variables of the Executor stage (agents/executor.py) keep their types: the
\* correction rounds, the corrections per type and the calls of a loop stay within
\* their limits for every value of those limits.
THEOREM StageTypeCorrect == StageSpec => []StageTypeOK
<1>1. IInv => StageTypeOK
  BY DEF IInv
<1> QED
  BY <1>1, StageInvariant, PTL

\* Every step of the stage, the agent's tool calls among them, is on the ledger a
\* call that run_context.py allows, or leaves it alone: the stage implements the
\* ledger's specification, so what is proved of the ledger holds in the stage.
THEOREM ImplementsLedgerHolds == StageSpec => ImplementsLedger
<1>1. StageInit => Init
  BY DEF StageInit
<1> QED
  BY <1>1, StageInvariant, LedgerStep, PTL DEF StageSpec, ImplementsLedger, Spec

\* In the stage, too, the report verified_report() hands out belongs to a receipt
\* of this run for the pinned sample and is the newest that matched.
THEOREM StageReportSound == StageSpec => []VerifiedReportSound
BY ImplementsLedgerHolds, VerifiedReportSoundHolds, PTL DEF ImplementsLedger

\* The VM lease that run() takes and gives back in its finally covers every place
\* where VMs are operated, and no way out of the stage keeps it.
THEOREM LeaseSpansStageHolds == StageSpec => []LeaseSpansStage
<1>1. IInv => LeaseSpansStage
  BY DEF IInv, Leased
<1> QED
  BY <1>1, StageInvariant, PTL

\* Past the orchestrator's gate the task whose report counts ran the pinned bytes
\* under the controller's route: for any agent, any changes of the sample file
\* and any reports of former tasks in the backend's storage.
THEOREM GateEvidenceHolds == StageSpec => []GateEvidence
<1>1. IInv => GateEvidence
  <2> SUFFICES ASSUME IInv, GateOpen
               PROVE  issued[VerifiedReport].content = sample.content
                      /\ issued[VerifiedReport].route = routePolicy
    BY DEF GateEvidence
  <2>1. VerifiedReport # None /\ RouteVerified(VerifiedReport)
    BY DEF GateOpen
  <2>2. VerifiedReport \in Matching
    <3>1. Matching # {}
      BY <2>1 DEF VerifiedReport
    <3> QED
      BY <3>1, VerifiedReportIsNewest DEF IInv, StageTypeOK
  <2> HIDE DEF VerifiedReport
  <2> QED
    BY <2>1, <2>2 DEF IInv, JobsRan, Matching, RouteVerified
<1> QED
  BY <1>1, StageInvariant, PTL

-----------------------------------------------------------------------------
(* What was handed over: the last verdict, the spec, the copy and the VMs. *)

Looping == {"agent", "upload", "record", "readback"}
Correcting == {"adjust", "validate", "correct", "destroy", "revert", "start", "cleanup"}

\* The stage has not come to its first fetch.
BeforeFetch ==
  \/ pc \in {"bind", "policy", "enter"} \cup Correcting
  \/ pc \in Looping \cup {"persist"} /\ loop # "retry"

Unfetched ==
  BeforeFetch => /\ loop # "retry"
                 /\ judged = None /\ spec.reportTask = None
                 /\ \A id \in TaskIds : reports[id] = None

\* A retry follows a verdict that was not good, and its own task comes after the
\* tasks that have a report.
InRetry == pc \in Looping \cup {"persist"} /\ loop = "retry"

Retrying ==
  InRetry =>
    /\ before <= Len(tasks)
    /\ \A id \in TaskIds : reports[id] # None => \E i \in 1..before : tasks[i].id = id
    /\ ~(judged.signal /\ judged.verified)
    /\ pc = "persist" => before < Len(tasks)

\* The last verdict, when the target matched, is about the task the spec names; the
\* copy is the controller's where the ledger names the same task.
Verdict ==
  judged # None /\ judged.verified =>
    /\ spec.reportTask \in Owned
    /\ spec.signal = judged.signal
    /\ judged.signal => /\ issued[spec.reportTask].status = "signal"
                        /\ spec.reportTask = VerifiedReport => copy = "harness"

\* The stage ends well only after a verdict on a report whose target matched.
Passed ==
  pc \in {"leave", "done"} /\ ~raised /\ ~spec.failed => judged # None /\ judged.verified

\* A VM is down only in the recovery that destroyed it, or in a stage that failed.
DownedInRecovery ==
  /\ pc \in {"revert", "start"} => downed \subseteq {platform}
  /\ pc \notin {"revert", "start", "cleanup"} =>
       downed = {} \/ (pc \in {"leave", "done"} /\ (raised \/ spec.failed))

VInv == IInv /\ Unfetched /\ Retrying /\ Verdict /\ Passed /\ DownedInRecovery

\* Only the authoritative fetch changes what the ledger knows of reports.
LEMMA ReportsStep ==
  ASSUME [StageNext]_stageVars, ~PersistReport
  PROVE  reports' = reports /\ VerifiedReport' = VerifiedReport
<1>1. reports' = reports
  <2>1. CASE BackendIdle
    BY <2>1, IdleLedger
  <2>2. CASE RecordReceipt \/ ReadBackRoute \/ \E id \in RawIds : Upload(id)
    BY <2>2 DEF RecordReceipt, ReadBackRoute, Upload, RecordTask, ConfirmTaskRoute, ledgerVars
  <2> QED
    BY <2>1, <2>2 DEF StageNext, Controller, Environment, BackendIdle
<1>2. Matching' = Matching
  BY <1>1 DEF Matching
<1>3. VerifiedReport' = VerifiedReport
  BY <1>1, <1>2 DEF VerifiedReport
<1> QED
  BY <1>1, <1>3

\* Receipts are only added.
LEMMA TasksStep ==
  ASSUME IInv, [StageNext]_stageVars
  PROVE  /\ Owned \subseteq Owned'
         /\ Len(tasks) <= Len(tasks')
         /\ \A i \in 1..Len(tasks) : tasks'[i] = tasks[i]
<1>1. TypeOK
  BY DEF IInv, StageTypeOK
<1>2. CASE tasks' = tasks
  <2>1. Owned' = Owned
    BY <1>2 DEF Owned
  <2> QED
    BY <1>1, <1>2, <2>1 DEF TypeOK
<1>3. ASSUME NEW receipt, tasks' = Append(tasks, receipt)
      PROVE  /\ Owned \subseteq Owned'
             /\ Len(tasks) <= Len(tasks')
             /\ \A i \in 1..Len(tasks) : tasks'[i] = tasks[i]
  <2>1. Owned' = Owned \cup {receipt.id}
    BY <1>1, <1>3, RecordedOwned
  <2> QED
    BY <1>1, <1>3, <2>1 DEF TypeOK
<1>4. tasks' = tasks \/ \E receipt : tasks' = Append(tasks, receipt)
  <2>1. CASE BackendIdle
    BY <2>1, IdleLedger
  <2>2. CASE RecordReceipt
    BY <2>2 DEF RecordReceipt, RecordTask, ledgerVars
  <2>3. CASE ReadBackRoute \/ PersistReport \/ \E id \in RawIds : Upload(id)
    BY <2>3 DEF ReadBackRoute, PersistReport, Upload, ConfirmTaskRoute, RecordReport, ledgerVars
  <2> QED
    BY <2>1, <2>2, <2>3 DEF StageNext, Controller, Environment, BackendIdle
<1> QED
  BY <1>2, <1>3, <1>4

\* The fields of the spec a verdict sets are set by the fetch alone.
LEMMA SpecStep ==
  ASSUME IInv, [StageNext]_stageVars, ~PersistReport
  PROVE  spec'.reportTask = spec.reportTask /\ spec'.signal = spec.signal
<1>1. spec \in Specs
  BY StageTypeParts DEF IInv, ReportTypes, Specs
<1>2. \/ spec' = spec
      \/ spec' = [spec EXCEPT !.failed = TRUE]
      \/ spec' = [spec EXCEPT !.retryDone = TRUE]
      \/ \E hint : spec' = [spec EXCEPT !.hint = hint]
  <2>1. CASE \/ PinSample \/ PromoteNetworkPolicy \/ Enter \/ CapeSubmit \/ UploadRefused
             \/ RecordReceipt \/ ReadBackRoute \/ \E id \in RawIds : Upload(id)
             \/ CapeVMStart \/ EndLoop \/ StageRaises \/ FetchReport
    BY <2>1 DEF PinSample, PromoteNetworkPolicy, Enter, CapeSubmit, UploadRefused,
       RecordReceipt, ReadBackRoute, Upload, CapeVMStart, EndLoop, StageRaises, FetchReport,
       reportVars
  <2>2. CASE \/ DestroyVM \/ RevertVM \/ StartVM \/ Leave
             \/ \E type \in FailureTypes : AttemptCorrection(type)
    BY <2>2 DEF DestroyVM, RevertVM, StartVM, Leave, AttemptCorrection, reportVars
  <2>3. CASE UpdateSpec
    BY <2>3 DEF UpdateSpec
  <2>4. CASE Adjust \/ Validate
    BY <2>4 DEF Adjust, Validate, Fail
  <2>5. CASE CleanUp \/ Judge
    BY <2>5 DEF CleanUp, Judge, Fail
  <2>6. CASE FetchFails
    BY <2>6 DEF FetchFails
  <2>7. CASE SampleDisturbed \/ LeaseExpires \/ Over \/ UNCHANGED stageVars
    BY <2>7 DEF SampleDisturbed, LeaseExpires, Over, stageVars, reportVars
  <2> QED
    BY <2>1, <2>2, <2>3, <2>4, <2>5, <2>6, <2>7 DEF StageNext, Controller, Environment
<1> QED
  BY <1>1, <1>2 DEF Specs

\* The copy is written by the fetch and the agent, and removed by the clean-up.
LEMMA CopyStep ==
  ASSUME [StageNext]_stageVars, ~PersistReport, ~FetchReport, ~CleanUp
  PROVE  copy' = copy
<1>1. CASE \/ PinSample \/ PromoteNetworkPolicy \/ Enter \/ CapeSubmit \/ UploadRefused
           \/ RecordReceipt \/ ReadBackRoute \/ \E id \in RawIds : Upload(id)
           \/ CapeVMStart \/ EndLoop \/ StageRaises \/ UpdateSpec
  BY <1>1 DEF PinSample, PromoteNetworkPolicy, Enter, CapeSubmit, UploadRefused,
     RecordReceipt, ReadBackRoute, Upload, CapeVMStart, EndLoop, StageRaises, UpdateSpec,
     reportVars
<1>2. CASE \/ DestroyVM \/ RevertVM \/ StartVM \/ Leave \/ Adjust \/ Validate \/ Judge
           \/ \E type \in FailureTypes : AttemptCorrection(type)
  BY <1>2 DEF DestroyVM, RevertVM, StartVM, Leave, Adjust, Validate, Judge, AttemptCorrection,
              reportVars
<1>3. CASE FetchFails \/ SampleDisturbed \/ LeaseExpires \/ Over \/ UNCHANGED stageVars
  BY <1>3 DEF FetchFails, SampleDisturbed, LeaseExpires, Over, stageVars, reportVars
<1> QED
  BY <1>1, <1>2, <1>3 DEF StageNext, Controller, Environment

\* An analysis that ended with behaviour stays one.
LEMMA StatusStep ==
  ASSUME IInv, [StageNext]_stageVars, NEW id \in Owned, issued[id].status = "signal"
  PROVE  issued'[id].status = "signal"
<1>1. /\ issued \in [RawIds -> Jobs \cup {None, Orphan}] /\ id \in RawIds
      /\ issued[id] \in Jobs
  BY OwnedIds DEF IInv, StageTypeOK, OwnJobs, TaskIds
<1>2. CASE BackendIdle
  BY <1>2, IdleBackend
<1>3. ASSUME NEW other \in RawIds, Upload(other)
      PROVE  issued'[id] = issued[id]
  <2>1. issued[other] = None
    BY <1>3 DEF Upload, Unissued
  <2>2. other # id
    BY <1>1, <2>1, NoneAssumption
  <2>3. \E job : issued' = [issued EXCEPT ![other] = job]
    BY <1>3 DEF Upload
  <2> QED
    BY <1>1, <2>2, <2>3
<1>4. CASE RecordReceipt
  <2>1. inflight # id
    BY <1>4 DEF RecordReceipt, IInv, Placed
  <2> QED
    BY <1>1, <1>4, <2>1 DEF RecordReceipt
<1>5. CASE ReadBackRoute
  BY <1>5 DEF ReadBackRoute
<1>6. CASE PersistReport
  <2>1. PICK status \in StatusNow(LatestTask) :
             issued' = [issued EXCEPT ![LatestTask].status = status]
    BY <1>6 DEF PersistReport
  <2>2. CASE LatestTask # id
    BY <1>1, <2>1, <2>2
  <2>3. CASE LatestTask = id
    <3>1. status = "signal"
      BY <2>3 DEF StatusNow
    <3>2. issued'[id] = [issued[id] EXCEPT !.status = status]
      BY <1>1, <2>1, <2>3
    <3> QED
      BY <1>1, <3>1, <3>2 DEF Jobs
  <2> QED
    BY <2>2, <2>3
<1> QED
  BY <1>2, <1>3, <1>4, <1>5, <1>6 DEF StageNext, Controller, Environment, BackendIdle

\* Nothing leads back to the places before the first fetch.
LEMMA BeforeFetchStep ==
  ASSUME IInv, [StageNext]_stageVars, BeforeFetch'
  PROVE  BeforeFetch /\ ~FetchFails /\ ~PersistReport
<1> DEFINE early == {"bind", "policy", "enter"} \cup Correcting
<1> USE DEF Looping, Correcting
<1>1. CASE FetchFails \/ PersistReport \/ Leave
  <2>1. pc' \notin early \cup Looping \cup {"persist"}
    BY <1>1 DEF FetchFails, PersistReport, Leave, Goto
  <2> QED
    BY <2>1 DEF BeforeFetch
<1>2. CASE \/ CapeSubmit \/ UploadRefused \/ RecordReceipt \/ ReadBackRoute
           \/ \E id \in RawIds : Upload(id)
           \/ CapeVMStart \/ UpdateSpec \/ FetchReport
  <2>1. pc \in Looping /\ pc' \in Looping /\ loop' = loop
    BY <1>2 DEF CapeSubmit, UploadRefused, RecordReceipt, ReadBackRoute, Upload, CapeVMStart,
       UpdateSpec, FetchReport, InLoop, EndCall, Goto
  <2>2. ~FetchFails /\ ~PersistReport
    BY <2>1 DEF FetchFails, PersistReport
  <2> QED
    BY <2>1, <2>2 DEF BeforeFetch
<1>3. CASE PinSample \/ PromoteNetworkPolicy \/ Enter
  <2>1. pc \in early /\ pc # "persist"
    BY <1>3 DEF PinSample, PromoteNetworkPolicy, Enter
  <2> QED
    BY <2>1 DEF BeforeFetch, FetchFails, PersistReport
<1>4. CASE Adjust \/ Validate \/ DestroyVM \/ RevertVM \/ StartVM \/ CleanUp
  <2>1. pc \in early /\ pc # "persist"
    BY <1>4 DEF Adjust, Validate, DestroyVM, RevertVM, StartVM, CleanUp
  <2> QED
    BY <2>1 DEF BeforeFetch, FetchFails, PersistReport
<1>5. CASE \E type \in FailureTypes : AttemptCorrection(type)
  <2>1. pc = "correct"
    BY <1>5 DEF AttemptCorrection
  <2> QED
    BY <2>1 DEF BeforeFetch, FetchFails, PersistReport
<1>6. CASE StageRaises
  <2>1. pc' = "leave"
    BY <1>6 DEF StageRaises
  <2> QED
    BY <2>1 DEF BeforeFetch
<1>7. CASE EndLoop
  <2>1. pc = "agent" /\ loop' = loop
    BY <1>7 DEF EndLoop
  <2>2. loop = "retry" => pc' \in {"persist", "judge"}
    BY <1>7 DEF EndLoop
  <2>3. loop # "retry"
    BY <2>1, <2>2 DEF BeforeFetch
  <2> QED
    BY <2>1, <2>3 DEF BeforeFetch, FetchFails, PersistReport
<1>8. CASE Judge
  <2>1. pc' = "leave" \/ (pc' = "agent" /\ loop' = "retry")
    BY <1>8 DEF Judge, Fail, Goto, StartLoop
  <2> QED
    BY <2>1 DEF BeforeFetch
<1>9. CASE SampleDisturbed \/ LeaseExpires \/ Over \/ UNCHANGED stageVars
  <2>1. pc' = pc /\ loop' = loop
    BY <1>9 DEF SampleDisturbed, LeaseExpires, Over, stageVars, controlVars
  <2>2. CASE SampleDisturbed \/ LeaseExpires
    <3>1. pc # "persist"
      BY <2>2 DEF SampleDisturbed, LeaseExpires
    <3> QED
      BY <2>1, <3>1 DEF BeforeFetch, FetchFails, PersistReport
  <2>3. CASE Over \/ UNCHANGED stageVars
    <3>1. ~FetchFails /\ ~PersistReport
      BY <2>1 DEF FetchFails, PersistReport, Goto
    <3> QED
      BY <2>1, <3>1 DEF BeforeFetch
  <2> QED
    BY <1>9, <2>2, <2>3
<1> QED
  BY <1>1, <1>2, <1>3, <1>4, <1>5, <1>6, <1>7, <1>8, <1>9 DEF StageNext, Controller, Environment

LEMMA UnfetchedKept == VInv /\ [StageNext]_stageVars => Unfetched'
<1> SUFFICES ASSUME VInv, [StageNext]_stageVars, BeforeFetch'
             PROVE  /\ loop' # "retry"
                    /\ judged' = None /\ spec'.reportTask = None
                    /\ \A id \in TaskIds : reports'[id] = None
  BY DEF Unfetched
<1>1. BeforeFetch /\ ~FetchFails /\ ~PersistReport
  BY BeforeFetchStep DEF VInv
<1>2. judged' = judged /\ spec'.reportTask = spec.reportTask /\ reports' = reports
  BY <1>1, JudgedUnchanged, SpecStep, ReportsStep DEF VInv
<1>3. loop' # "retry"
  <2>1. loop # "retry"
    BY <1>1 DEF VInv, Unfetched
  <2>2. loop' = "retry" => loop' = loop \/ Judge
    <3>1. CASE \/ PinSample \/ PromoteNetworkPolicy \/ Enter \/ CapeSubmit \/ UploadRefused
               \/ RecordReceipt \/ ReadBackRoute \/ \E id \in RawIds : Upload(id)
               \/ CapeVMStart \/ UpdateSpec \/ FetchReport \/ EndLoop \/ StageRaises
      BY <3>1 DEF PinSample, PromoteNetworkPolicy, Enter, CapeSubmit, UploadRefused,
         RecordReceipt, ReadBackRoute, Upload, CapeVMStart, UpdateSpec, FetchReport, EndLoop,
         StageRaises, EndCall, Goto
    <3>2. CASE Adjust \/ Validate \/ DestroyVM \/ RevertVM \/ StartVM \/ CleanUp \/ Leave
      BY <3>2 DEF Adjust, Validate, DestroyVM, RevertVM, StartVM, CleanUp, Leave, Fail, Goto,
                  StartLoop
    <3>3. CASE \E type \in FailureTypes : AttemptCorrection(type)
      BY <3>3 DEF AttemptCorrection, FixPlan, Goto, StartLoop
    <3>4. CASE SampleDisturbed \/ LeaseExpires \/ Over \/ UNCHANGED stageVars
      BY <3>4 DEF SampleDisturbed, LeaseExpires, Over, stageVars, controlVars
    <3> QED
      BY <1>1, <3>1, <3>2, <3>3, <3>4 DEF StageNext, Controller, Environment
  <2>3. ~Judge
    BY <1>1 DEF BeforeFetch, Judge, Correcting, Looping
  <2> QED
    BY <2>1, <2>2, <2>3
<1> QED
  BY <1>1, <1>2, <1>3 DEF VInv, Unfetched

\* A retry is entered from the verdict and goes on until its report is judged.
LEMMA RetryStep ==
  ASSUME IInv, Unfetched, [StageNext]_stageVars, InRetry'
  PROVE  \/ /\ InRetry /\ before' = before /\ ~FetchFails /\ ~PersistReport
            /\ pc' = "persist" => (pc = "persist" /\ tasks' = tasks) \/ before < Len(tasks')
         \/ /\ Judge /\ WantsRetry /\ before' = Len(tasks) /\ tasks' = tasks /\ pc' = "agent"
<1> USE DEF Looping
<1>0. BeforeFetch => loop # "retry"
  BY DEF Unfetched
<1>1. CASE FetchFails \/ PersistReport \/ Leave \/ StageRaises
  <2>1. pc' \notin Looping \cup {"persist"}
    BY <1>1 DEF FetchFails, PersistReport, Leave, StageRaises, Goto
  <2> QED
    BY <2>1 DEF InRetry
<1>2. CASE \/ CapeSubmit \/ UploadRefused \/ RecordReceipt \/ ReadBackRoute
           \/ \E id \in RawIds : Upload(id)
           \/ CapeVMStart \/ UpdateSpec \/ FetchReport
  <2>1. pc \in Looping /\ pc' \in Looping /\ loop' = loop
    BY <1>2 DEF CapeSubmit, UploadRefused, RecordReceipt, ReadBackRoute, Upload, CapeVMStart,
       UpdateSpec, FetchReport, InLoop, EndCall, Goto
  <2>2. before' = before
    BY <1>2 DEF CapeSubmit, UploadRefused, RecordReceipt, ReadBackRoute, Upload, CapeVMStart,
       UpdateSpec, FetchReport, reportVars
  <2>3. ~FetchFails /\ ~PersistReport
    BY <2>1 DEF FetchFails, PersistReport
  <2> QED
    BY <2>1, <2>2, <2>3 DEF InRetry
<1>3. CASE PinSample \/ PromoteNetworkPolicy \/ Enter
  <2>1. BeforeFetch /\ loop' = loop
    BY <1>3 DEF PinSample, PromoteNetworkPolicy, Enter, Goto, BeforeFetch
  <2> QED
    BY <1>0, <2>1 DEF InRetry
<1>4. CASE Adjust \/ Validate \/ DestroyVM \/ RevertVM \/ StartVM \/ CleanUp
  <2>1. BeforeFetch
    BY <1>4 DEF Adjust, Validate, DestroyVM, RevertVM, StartVM, CleanUp, BeforeFetch, Correcting
  <2>2. loop' \in {loop, "adjusted", "corrected"}
    BY <1>4 DEF Adjust, Validate, DestroyVM, RevertVM, StartVM, CleanUp, Fail, Goto, StartLoop
  <2> QED
    BY <1>0, <2>1, <2>2 DEF InRetry
<1>5. CASE \E type \in FailureTypes : AttemptCorrection(type)
  <2>1. BeforeFetch
    BY <1>5 DEF AttemptCorrection, BeforeFetch, Correcting
  <2>2. loop' \in {loop, "corrected"}
    BY <1>5 DEF AttemptCorrection, FixPlan, Goto, StartLoop
  <2> QED
    BY <1>0, <2>1, <2>2 DEF InRetry
<1>6. CASE EndLoop
  <2>1. pc = "agent" /\ loop' = loop /\ before' = before /\ tasks' = tasks
    BY <1>6 DEF EndLoop, reportVars, ledgerVars
  <2>2. loop = "retry" => pc' = IF Len(tasks) > before THEN "persist" ELSE "judge"
    BY <1>6 DEF EndLoop
  <2>3. loop = "retry" /\ pc' = "persist" => before < Len(tasks')
    <3>1. Len(tasks) \in Nat /\ before \in Int
      BY DEF IInv, StageTypeOK, TypeOK
    <3> QED
      BY <2>1, <2>2, <3>1
  <2> QED
    BY <2>1, <2>3 DEF InRetry, FetchFails, PersistReport
<1>7. CASE Judge
  <2>1. pc' = "leave" \/ (WantsRetry /\ before' = Len(tasks) /\ pc' = "agent")
    BY <1>7 DEF Judge, Fail, Goto, StartLoop
  <2>2. tasks' = tasks
    BY <1>7 DEF Judge, ledgerVars
  <2> QED
    BY <1>7, <2>1, <2>2 DEF InRetry
<1>8. CASE SampleDisturbed \/ LeaseExpires \/ Over \/ UNCHANGED stageVars
  <2>1. pc' = pc /\ loop' = loop /\ before' = before /\ tasks' = tasks
    BY <1>8 DEF SampleDisturbed, LeaseExpires, Over, stageVars, controlVars, reportVars,
       ledgerVars, DisturbSample, Expire
  <2>2. ~FetchFails /\ ~PersistReport
    BY <2>1 DEF FetchFails, PersistReport, Goto
  <2> QED
    BY <2>1, <2>2 DEF InRetry
<1> QED
  BY <1>1, <1>2, <1>3, <1>4, <1>5, <1>6, <1>7, <1>8 DEF StageNext, Controller, Environment

LEMMA RetryingKept == VInv /\ [StageNext]_stageVars => Retrying'
<1> SUFFICES ASSUME VInv, [StageNext]_stageVars, InRetry'
             PROVE  /\ before' <= Len(tasks')
                    /\ \A id \in TaskIds :
                         reports'[id] # None => \E i \in 1..before' : tasks'[i].id = id
                    /\ ~(judged'.signal /\ judged'.verified)
                    /\ pc' = "persist" => before' < Len(tasks')
  BY DEF Retrying
<1>1. Len(tasks) \in Nat /\ before \in Nat
  BY DEF VInv, IInv, StageTypeOK, TypeOK
<1>2. Len(tasks) <= Len(tasks') /\ \A i \in 1..Len(tasks) : tasks'[i] = tasks[i]
  BY TasksStep DEF VInv
<1>3. Len(tasks') \in Nat
  BY LedgerKept DEF VInv, TypeOK
<1>4. CASE /\ InRetry /\ before' = before /\ ~FetchFails /\ ~PersistReport
           /\ pc' = "persist" => (pc = "persist" /\ tasks' = tasks) \/ before < Len(tasks')
  <2>1. judged' = judged /\ reports' = reports
    BY <1>4, JudgedUnchanged, ReportsStep
  <2>2. /\ before <= Len(tasks)
        /\ \A id \in TaskIds : reports[id] # None => \E i \in 1..before : tasks[i].id = id
        /\ ~(judged.signal /\ judged.verified)
        /\ pc = "persist" => before < Len(tasks)
    BY <1>4 DEF VInv, Retrying
  <2>3. \A i \in 1..before : tasks'[i] = tasks[i]
    BY <1>1, <1>2, <2>2
  <2>4. \A id \in TaskIds : reports'[id] # None => \E i \in 1..before' : tasks'[i].id = id
    BY <1>4, <2>1, <2>2, <2>3
  <2>5. before' <= Len(tasks')
    BY <1>1, <1>2, <1>3, <1>4, <2>2
  <2>6. pc' = "persist" => before' < Len(tasks')
    BY <1>4, <2>2
  <2> QED
    BY <2>1, <2>2, <2>4, <2>5, <2>6
<1>5. CASE Judge /\ WantsRetry /\ before' = Len(tasks) /\ tasks' = tasks /\ pc' = "agent"
  <2>1. ~FetchFails /\ ~PersistReport
    BY <1>5 DEF Judge, FetchFails, PersistReport
  <2>2. judged' = judged /\ reports' = reports
    BY <2>1, JudgedUnchanged, ReportsStep
  <2>3. \A id \in TaskIds : reports[id] # None => id \in Owned
    BY DEF VInv, IInv, EvidenceChain, EvidenceOwned
  <2>4. DOMAIN tasks = 1..Len(tasks)
    BY DEF VInv, IInv, StageTypeOK, TypeOK
  <2>5. ~(judged.signal /\ judged.verified)
    BY <1>5 DEF WantsRetry
  <2> QED
    BY <1>1, <1>5, <2>2, <2>3, <2>4, <2>5 DEF Owned
<1> QED
  BY <1>4, <1>5, RetryStep DEF VInv

\* A fetch whose report matched: the verdict, the spec, the copy and the ledger go together.
LEMMA FetchVerdict ==
  ASSUME VInv, PersistReport, judged'.verified
  PROVE  /\ spec'.reportTask = LatestTask /\ LatestTask \in Owned
         /\ spec'.signal = judged'.signal
         /\ judged'.signal => issued'[LatestTask].status = "signal"
         /\ LatestTask = VerifiedReport' => copy' = "harness"
<1>1. /\ LatestTask \in Owned /\ LatestTask \in TaskIds /\ LatestTask \in RawIds
      /\ issued[LatestTask] \in Jobs
      /\ issued \in [RawIds -> Jobs \cup {None, Orphan}]
      /\ spec \in Specs
  <2>1. LatestTask \in Owned
    BY LatestOwned DEF PersistReport, VInv, IInv, StageTypeOK, Placed
  <2>2. spec \in Specs
    BY StageTypeParts DEF VInv, IInv, ReportTypes, Specs
  <2> QED
    BY <2>1, <2>2, OwnedIds DEF VInv, IInv, StageTypeOK, OwnJobs, TaskIds
<1>2. PICK status \in StatusNow(LatestTask), stored \in BOOLEAN :
        LET report == ReportOf(LatestTask, status)
        IN  /\ report # None
            /\ issued' = [issued EXCEPT ![LatestTask].status = status]
            /\ IF stored THEN RecordReport(LatestTask, Verified(report)) ELSE UNCHANGED ledgerVars
            /\ judged' = [signal |-> report.outcome = "signal", verified |-> Verified(report),
                          valid |-> report.outcome # "invalid"]
            /\ spec' = [spec EXCEPT !.signal = report.outcome = "signal",
                                    !.reportTask = IF Verified(report) THEN LatestTask ELSE @]
            /\ copy' \in CASE ~Verified(report) -> {copy}
                           [] Verified(report) /\ stored -> {"harness"}
                           [] OTHER -> {"none", "harness", "agent"}
  BY DEF PersistReport
<1> DEFINE report == ReportOf(LatestTask, status)
<1>3. Verified(report) /\ report # None
  BY <1>2
<1>4. spec'.reportTask = LatestTask /\ spec'.signal = judged'.signal
  BY <1>1, <1>2, <1>3 DEF Specs
<1>5. issued'[LatestTask].status = status
  BY <1>1, <1>2 DEF Jobs
<1>6. status \in Outcomes
  <2>1. sample.content \in Contents
    <3>1. tasks # << >> /\ sample # None
      BY <1>1 DEF Owned, VInv, IInv, EvidenceChain, ReceiptsNameSample
    <3> QED
      BY <3>1 DEF VInv, IInv, StageTypeOK, TypeOK, Identities
  <2>2. status \notin Outcomes => report.target \in {StaleContent, None}
    BY <1>3 DEF ReportOf
  <2> QED
    BY <1>3, <2>1, <2>2, StageAssumption, LedgerAssumption DEF Verified
<1>7. judged'.signal => status = "signal"
  <2>1. report.outcome = status
    BY <1>6 DEF ReportOf
  <2> QED
    BY <1>2, <2>1
<1>8. LatestTask = VerifiedReport' => copy' = "harness"
  <2>1. CASE stored
    BY <1>2, <1>3, <2>1
  <2>2. CASE ~stored
    <3>1. reports' = reports
      BY <1>2, <2>2 DEF ledgerVars
    <3>2. reports[LatestTask] = None
      <4>1. CASE loop # "retry"
        <5>1. BeforeFetch
          BY <4>1 DEF PersistReport, BeforeFetch
        <5> QED
          BY <1>1, <5>1 DEF VInv, Unfetched
      <4>2. CASE loop = "retry"
        <5>1. InRetry /\ pc = "persist"
          BY <4>2 DEF PersistReport, InRetry
        <5>2. /\ before < Len(tasks)
              /\ reports[LatestTask] # None => \E i \in 1..before : tasks[i].id = LatestTask
          BY <1>1, <5>1 DEF VInv, Retrying
        <5>3. \A i, j \in DOMAIN tasks : tasks[i].id = tasks[j].id => i = j
          BY DEF VInv, IInv, EvidenceChain, TasksDistinct
        <5>4. /\ DOMAIN tasks = 1..Len(tasks) /\ Len(tasks) \in Nat /\ before \in Nat
          BY DEF VInv, IInv, StageTypeOK, TypeOK
        <5> QED
          BY <5>2, <5>3, <5>4 DEF LatestTask
      <4> QED
        BY <4>1, <4>2
    <3>3. LatestTask \notin Matching
      BY <3>2 DEF Matching
    <3>4. VerifiedReport' = VerifiedReport
      <4>1. Matching' = Matching
        BY <3>1 DEF Matching
      <4> QED
        BY <3>1, <4>1 DEF VerifiedReport
    <3>5. VerifiedReport \in Matching \cup {None}
      <4>1. CASE Matching = {}
        BY <4>1 DEF VerifiedReport
      <4>2. CASE Matching # {}
        BY <4>2, VerifiedReportIsNewest DEF VInv, IInv, StageTypeOK
      <4> QED
        BY <4>1, <4>2
    <3>6. LatestTask # None
      BY <1>1, LedgerAssumption
    <3> QED
      BY <3>3, <3>4, <3>5, <3>6
  <2> QED
    BY <2>1, <2>2
<1> QED
  BY <1>1, <1>4, <1>5, <1>7, <1>8

LEMMA HandedKept == VInv /\ [StageNext]_stageVars => Verdict'
<1> SUFFICES ASSUME VInv, [StageNext]_stageVars, judged' # None, judged'.verified
             PROVE  /\ spec'.reportTask \in Owned'
                    /\ spec'.signal = judged'.signal
                    /\ judged'.signal => /\ issued'[spec'.reportTask].status = "signal"
                                         /\ spec'.reportTask = VerifiedReport' => copy' = "harness"
  BY DEF Verdict
<1>1. Owned \subseteq Owned'
  BY TasksStep DEF VInv
<1>2. CASE FetchFails
  BY <1>2 DEF FetchFails
<1>3. CASE PersistReport
  BY <1>1, <1>3, FetchVerdict
<1>4. CASE ~FetchFails /\ ~PersistReport
  <2>1. /\ judged' = judged /\ VerifiedReport' = VerifiedReport
        /\ spec'.reportTask = spec.reportTask /\ spec'.signal = spec.signal
    BY <1>4, JudgedUnchanged, ReportsStep, SpecStep DEF VInv
  <2>2. /\ spec.reportTask \in Owned
        /\ spec.signal = judged.signal
        /\ judged.signal => /\ issued[spec.reportTask].status = "signal"
                            /\ spec.reportTask = VerifiedReport => copy = "harness"
    BY <2>1 DEF VInv, Verdict
  <2>3. judged.signal => issued'[spec.reportTask].status = "signal"
    BY <2>2, StatusStep DEF VInv
  <2>4. ASSUME judged.signal
        PROVE  copy' = copy
    <3>1. ~FetchReport
      <4>1. CASE loop = "retry"
        BY <2>1, <2>4, <4>1 DEF FetchReport, InLoop, VInv, Retrying, InRetry, Looping
      <4>2. CASE loop # "retry"
        BY <2>1, <4>2 DEF FetchReport, InLoop, VInv, Unfetched, BeforeFetch, Looping
      <4> QED
        BY <4>1, <4>2
    <3>2. ~CleanUp
      BY <2>1 DEF CleanUp, VInv, Unfetched, BeforeFetch, Correcting
    <3> QED
      BY <1>4, <3>1, <3>2, CopyStep
  <2> QED
    BY <1>1, <2>1, <2>2, <2>3, <2>4
<1> QED
  BY <1>2, <1>3, <1>4

\* A verdict of the stage, and an exception, stay to its end.
LEMMA FailStep == spec \in Specs /\ Fail => spec'.failed /\ pc' = "leave"
BY DEF Specs, Fail, Goto

LEMMA PassedKept == VInv /\ [StageNext]_stageVars => Passed'
<1> SUFFICES ASSUME VInv, [StageNext]_stageVars,
                    pc' \in {"leave", "done"}, ~raised', ~spec'.failed
             PROVE  judged' # None /\ judged'.verified
  BY DEF Passed
<1>0. spec \in Specs /\ loop \in Loops
  BY StageTypeParts DEF VInv, IInv, ReportTypes, ControlTypes, Specs
<1>1. ~FetchFails /\ ~PersistReport
  BY DEF FetchFails, PersistReport, Goto
<1>2. judged' = judged
  BY <1>1, JudgedUnchanged
<1>3. CASE \/ PinSample \/ PromoteNetworkPolicy \/ Enter \/ CapeSubmit \/ UploadRefused
           \/ RecordReceipt \/ ReadBackRoute \/ \E id \in RawIds : Upload(id)
           \/ CapeVMStart \/ UpdateSpec \/ FetchReport \/ StageRaises
  BY <1>3 DEF PinSample, PromoteNetworkPolicy, Enter, CapeSubmit, UploadRefused, RecordReceipt,
     ReadBackRoute, Upload, CapeVMStart, UpdateSpec, FetchReport, StageRaises, EndCall, Goto
<1>4. CASE EndLoop
  BY <1>0, <1>4 DEF EndLoop, Loops
<1>5. CASE Adjust \/ CleanUp
  <2>1. Fail \/ pc' \notin {"leave", "done"}
    BY <1>5 DEF Adjust, CleanUp, Goto, StartLoop
  <2> QED
    BY <1>0, <2>1, FailStep
<1>6. CASE \/ Validate \/ DestroyVM \/ RevertVM \/ StartVM
           \/ \E type \in FailureTypes : AttemptCorrection(type)
  BY <1>6 DEF Validate, DestroyVM, RevertVM, StartVM, AttemptCorrection, FixPlan, Goto, StartLoop
<1>7. CASE Judge
  <2>1. Fail \/ pc' = "agent" \/ judged.verified
    BY <1>7 DEF Judge, StartLoop
  <2>2. judged # None
    <3>1. judged \in Qualities
      BY <1>7 DEF Judge, VInv, IInv, Placed
    <3> QED
      BY <3>1, NoneAssumption
  <2> QED
    BY <1>0, <1>2, <2>1, <2>2, FailStep
<1>8. CASE Leave \/ SampleDisturbed \/ LeaseExpires \/ Over \/ UNCHANGED stageVars
  <2>1. raised' = raised /\ spec' = spec /\ (pc' = pc \/ pc = "leave")
    BY <1>8 DEF Leave, SampleDisturbed, LeaseExpires, Over, Goto, stageVars, controlVars, reportVars
  <2> QED
    BY <1>2, <2>1 DEF VInv, Passed
<1> QED
  BY <1>1, <1>3, <1>4, <1>5, <1>6, <1>7, <1>8 DEF StageNext, Controller, Environment

\* A VM that is down keeps the stage in the recovery, or the stage has failed.
LEMMA DownedKept == VInv /\ [StageNext]_stageVars => DownedInRecovery'
<1> SUFFICES ASSUME VInv, [StageNext]_stageVars
             PROVE  DownedInRecovery'
  OBVIOUS
<1> DEFINE recovering == {"revert", "start"}
           over == {"leave", "done"}
<1>0. spec \in Specs /\ loop \in Loops
  BY StageTypeParts DEF VInv, IInv, ReportTypes, ControlTypes, Specs
<1>1. /\ pc \in recovering => downed \subseteq {platform}
      /\ pc \notin recovering \cup {"cleanup"} =>
           downed = {} \/ (pc \in over /\ (raised \/ spec.failed))
  BY DEF VInv, DownedInRecovery
<1>2. CASE \/ PinSample \/ PromoteNetworkPolicy \/ Enter \/ CapeSubmit \/ UploadRefused
           \/ RecordReceipt \/ ReadBackRoute \/ \E id \in RawIds : Upload(id)
           \/ UpdateSpec \/ FetchReport
  <2>1. pc \notin recovering \cup {"cleanup"} \cup over
    BY <1>2 DEF PinSample, PromoteNetworkPolicy, Enter, CapeSubmit, UploadRefused, RecordReceipt,
       ReadBackRoute, Upload, UpdateSpec, FetchReport, InLoop
  <2>2. downed' = downed
    BY <1>2 DEF PinSample, PromoteNetworkPolicy, Enter, CapeSubmit, UploadRefused, RecordReceipt,
       ReadBackRoute, Upload, UpdateSpec, FetchReport, hostVars
  <2> QED
    BY <1>1, <2>1, <2>2 DEF DownedInRecovery
<1>3. CASE EndLoop \/ CapeVMStart \/ Adjust \/ Validate \/ Judge \/ FetchFails \/ PersistReport
  <2>1. pc \notin recovering \cup {"cleanup"} \cup over
    BY <1>3 DEF EndLoop, CapeVMStart, Adjust, Validate, Judge, FetchFails, PersistReport, InLoop
  <2>2. downed' \subseteq downed
    BY <1>3 DEF EndLoop, CapeVMStart, Adjust, Validate, Judge, FetchFails, PersistReport, hostVars
  <2> QED
    BY <1>1, <2>1, <2>2 DEF DownedInRecovery
<1>4. CASE \E type \in FailureTypes : AttemptCorrection(type)
  <2>1. pc = "correct" /\ downed' = downed
    BY <1>4 DEF AttemptCorrection
  <2> QED
    BY <1>1, <2>1 DEF DownedInRecovery
<1>5. CASE StageRaises
  <2>1. pc' = "leave" /\ raised'
    BY <1>5 DEF StageRaises
  <2> QED
    BY <2>1 DEF DownedInRecovery
<1>6. CASE DestroyVM
  <2>1. downed = {} /\ platform' = platform
    BY <1>1, <1>6 DEF DestroyVM
  <2>2. pc' = "cleanup" \/ (pc' = "revert" /\ downed' = downed \cup {platform})
    BY <1>6 DEF DestroyVM, Goto
  <2> QED
    BY <2>1, <2>2 DEF DownedInRecovery
<1>7. CASE RevertVM
  <2>1. pc = "revert" /\ downed' = downed /\ platform' = platform
    BY <1>7 DEF RevertVM, hostVars
  <2>2. pc' \in {"start", "cleanup"}
    BY <1>7 DEF RevertVM, Goto
  <2> QED
    BY <1>1, <2>1, <2>2 DEF DownedInRecovery
<1>8. CASE StartVM
  <2>1. pc' = "cleanup" \/ (pc' = "agent" /\ downed' = downed \ {platform})
    BY <1>8 DEF StartVM, Goto, StartLoop
  <2>2. downed \subseteq {platform}
    BY <1>1, <1>8 DEF StartVM
  <2> QED
    BY <2>1, <2>2 DEF DownedInRecovery
<1>9. CASE CleanUp
  <2>1. spec'.failed /\ pc' = "leave"
    BY <1>0, <1>9, FailStep DEF CleanUp
  <2> QED
    BY <2>1 DEF DownedInRecovery
<1>10. CASE Leave
  <2>1. pc = "leave" /\ pc' = "done" /\ raised' = raised /\ spec' = spec /\ downed' = downed
    BY <1>10 DEF Leave, Goto, reportVars, hostVars
  <2> QED
    BY <1>1, <2>1 DEF DownedInRecovery
<1>11. CASE SampleDisturbed \/ LeaseExpires \/ Over \/ UNCHANGED stageVars
  <2>1. UNCHANGED <<pc, raised, spec, downed, platform>>
    BY <1>11 DEF SampleDisturbed, LeaseExpires, Over, stageVars, controlVars, reportVars, hostVars
  <2> QED
    BY <1>1, <2>1 DEF DownedInRecovery
<1> QED
  BY <1>2, <1>3, <1>4, <1>5, <1>6, <1>7, <1>8, <1>9, <1>10, <1>11
     DEF StageNext, Controller, Environment

\* What was handed over is known at every point of the stage.
LEMMA HandedInvariant == StageSpec => []VInv
<1>1. StageInit => VInv
  <2> SUFFICES ASSUME StageInit
               PROVE  VInv
    OBVIOUS
  <2>1. IInv
    BY StageInitInvariant
  <2>2. Unfetched
    BY DEF StageInit, Init, LedgerStart, Unfetched
  <2>3. Retrying /\ Verdict /\ Passed /\ DownedInRecovery
    BY DEF StageInit, Retrying, InRetry, Looping, Verdict, Passed, DownedInRecovery
  <2> QED
    BY <2>1, <2>2, <2>3 DEF VInv
<1>2. VInv /\ [StageNext]_stageVars => VInv'
  <2>1. VInv => IInv
    BY DEF VInv
  <2> QED
    BY <2>1, StageStep, UnfetchedKept, RetryingKept, HandedKept, PassedKept, DownedKept DEF VInv
<1> QED
  BY <1>1, <1>2, PTL DEF StageSpec

\* A result the pipeline can still accept rests on a report with behaviour in it:
\* _persist_report_authoritatively and the one retry of the Executor never leave
\* the spec with the signal of one report and the ledger with another, whatever
\* could not be stored, for any number of tasks and rounds.
THEOREM HandedReportHolds == StageSpec => []HandedReport
<1>1. VInv => HandedReport
  BY DEF VInv, Verdict, Passed, HandedReport, Acceptable, GateOpen
<1> QED
  BY <1>1, HandedInvariant, PTL

\* The cape_report_<id>.json the Analyst is handed holds the bytes the controller
\* verified: an agent's cape_fetch_report over the same name is always followed by
\* the controller's own copy, or the result is not accepted.
THEOREM HarnessCopyLandsLastHolds == StageSpec => []HarnessCopyLandsLast
<1>1. VInv => HarnessCopyLandsLast
  BY DEF VInv, Verdict, Passed, HarnessCopyLandsLast, Acceptable, GateOpen
<1> QED
  BY <1>1, HandedInvariant, PTL

\* A recovery (_fix_agent_unreachable) that destroyed the VM and failed to revert
\* or start it leaves no report that passes the gate, whatever the agent did
\* with the VMs in its loops.
THEOREM DestroyedVMFailsStageHolds == StageSpec => []DestroyedVMFailsStage
<1>1. VInv => DestroyedVMFailsStage
  BY DEF VInv, DownedInRecovery, DestroyedVMFailsStage, GateOpen
<1> QED
  BY <1>1, HandedInvariant, PTL

=============================================================================
