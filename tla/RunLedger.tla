------------------------------ MODULE RunLedger ------------------------------
(***************************************************************************)
(* The controller's ledger of one pipeline attempt (core/run_context.py,   *)
(* class RunContext): the pinned sample, the route policy, the receipts of *)
(* the tasks this run submitted, what the backend said of their route, the *)
(* digests of the reports the controller fetched, and the VM lease.        *)
(*                                                                         *)
(* Abstractions.  A file is its inode, its bytes (told apart as by their   *)
(* sha256) and whether it is a regular file.  A report digest keeps the    *)
(* target comparison and a position in the order of fetches, which stands  *)
(* for fetched_at.  A lease is live until an Expire step: the steps taken  *)
(* before it stand for every possible length of the TTL.  The journal, the *)
(* machine name and the pass number (the receipt's position) are left out. *)
(* disk is the file the sample path resolves to; nothing in the program    *)
(* protects it, so other writers may change it at any time.                *)
(***************************************************************************)
EXTENDS Integers, Sequences

CONSTANTS
  Contents,    \* the byte strings a sample file may hold
  Inodes,      \* the (device, inode) pairs its path may resolve to
  RawIds,      \* the integers a backend may answer a submission with
  MaxTaskId,   \* MAX_TASK_ID
  MaxTasks,    \* MAX_TASKS_PER_RUN
  Routes,      \* _VALID_ROUTES
  Drop,        \* the route policy before one is set
  VMs,         \* the analysis VMs
  MaxFetches,  \* bound of the model: reports recorded in one attempt
  None

ASSUME LedgerAssumption ==
  /\ RawIds \subseteq Int
  /\ MaxTaskId \in Nat
  /\ MaxTasks \in Nat
  /\ MaxFetches \in Nat
  /\ Drop \in Routes
  /\ None \notin Contents \cup Inodes \cup RawIds \cup Routes \cup VMs

VARIABLES
  disk,         \* external: the file at the sample's path
  sample,       \* the pinned SampleIdentity, or None
  routePolicy,  \* the route every submission carries
  tasks,        \* the receipts, in the order they were recorded
  confirmed,    \* per task: what the route read-back said
  reports,      \* per task: the digest of the last report recorded for it
  fetches,      \* reports recorded so far
  lease         \* the VM lease, or None

ledgerVars == <<disk, sample, routePolicy, tasks, confirmed, reports, fetches, lease>>

TaskIds == {n \in RawIds : 0 < n /\ n <= MaxTaskId}
Files == [inode : Inodes, content : Contents, regular : BOOLEAN]
Identities == [inode : Inodes, content : Contents]
Receipts == [id : TaskIds, content : Contents, route : Routes]
Digests == [matches : BOOLEAN, at : Nat]
Leases == [vm : VMs, live : BOOLEAN]

\* The fields of RunContext hold what its methods put there.
TypeOK ==
  /\ disk \in Files
  /\ sample \in Identities \cup {None}
  /\ routePolicy \in Routes
  /\ tasks \in Seq(Receipts)
  /\ confirmed \in [TaskIds -> {"unchecked", "verified", "refused"}]
  /\ reports \in [TaskIds -> Digests \cup {None}]
  /\ fetches \in Nat
  /\ lease \in Leases \cup {None}

-----------------------------------------------------------------------------
(* What the ledger answers. *)

Owned == {tasks[i].id : i \in DOMAIN tasks}

\* matches(): the device and inode only, never the content.
IdentityMatches == sample # None /\ disk.inode = sample.inode

RouteOf(id) == tasks[CHOOSE i \in DOMAIN tasks : tasks[i].id = id].route

RouteVerified(id) == id \in TaskIds /\ confirmed[id] = "verified"

Matching == {id \in TaskIds : reports[id] # None /\ reports[id].matches}

\* Mutant of VerifiedReport: the oldest matching digest.
VerifiedReportOldest ==
  IF Matching = {} THEN None
  ELSE CHOOSE id \in Matching : \A other \in Matching : reports[id].at <= reports[other].at

\* verified_report(): the task of the newest digest whose target matched.
VerifiedReport ==
  IF Matching = {} THEN None
  ELSE CHOOSE id \in Matching : \A other \in Matching : reports[other].at <= reports[id].at

\* require_vm_lease(): a live lease on exactly this VM.
HoldsLease(vm) == lease = [vm |-> vm, live |-> TRUE]

-----------------------------------------------------------------------------
LedgerStart ==
  /\ sample = None
  /\ routePolicy = Drop
  /\ tasks = <<>>
  /\ confirmed = [id \in TaskIds |-> "unchecked"]
  /\ reports = [id \in TaskIds |-> None]
  /\ fetches = 0
  /\ lease = None

Init == disk \in Files /\ LedgerStart

\* External: another writer edits the file in place, replaces it or removes it
\* in favour of something that is not a regular file.
DisturbSample ==
  /\ disk' \in Files
  /\ UNCHANGED <<sample, routePolicy, tasks, confirmed, reports, fetches, lease>>

\* Mutant of BindSample: the LedgerSealed check is gone.
BindSampleAgain ==
  /\ disk.regular
  /\ sample' = [inode |-> disk.inode, content |-> disk.content]
  /\ UNCHANGED <<disk, routePolicy, tasks, confirmed, reports, fetches, lease>>

BindSample ==
  /\ sample = None
  /\ disk.regular
  /\ sample' = [inode |-> disk.inode, content |-> disk.content]
  /\ UNCHANGED <<disk, routePolicy, tasks, confirmed, reports, fetches, lease>>

SetRoutePolicy(route) ==
  /\ route \in Routes
  /\ routePolicy' = route
  /\ UNCHANGED <<disk, sample, tasks, confirmed, reports, fetches, lease>>

\* Mutant of Admissible: no upper bound on the task id.
AdmissibleUnbounded(id, route) ==
  /\ 0 < id
  /\ Len(tasks) < MaxTasks
  /\ id \notin Owned
  /\ route \in Routes
  /\ sample # None

\* The conditions under which record_task does not raise LedgerRejected.
Admissible(id, route) ==
  /\ id \in TaskIds
  /\ Len(tasks) < MaxTasks
  /\ id \notin Owned
  /\ route \in Routes
  /\ sample # None

RecordTask(id, route) ==
  /\ Admissible(id, route)
  /\ tasks' = Append(tasks, [id |-> id, content |-> sample.content, route |-> route])
  /\ UNCHANGED <<disk, sample, routePolicy, confirmed, reports, fetches, lease>>

\* effective is None when the backend's task record could not be read.
ConfirmTaskRoute(id, effective) ==
  /\ id \in Owned
  /\ confirmed' = [confirmed EXCEPT ![id] =
                     IF effective = RouteOf(id) THEN "verified" ELSE "refused"]
  /\ UNCHANGED <<disk, sample, routePolicy, tasks, reports, fetches, lease>>

\* Mutant of RecordReport: require_task is not called.
RecordReportOfAnyTask(id, matches) ==
  /\ fetches < MaxFetches
  /\ reports' = [reports EXCEPT ![id] = [matches |-> matches, at |-> fetches]]
  /\ fetches' = fetches + 1
  /\ UNCHANGED <<disk, sample, routePolicy, tasks, confirmed, lease>>

RecordReport(id, matches) ==
  /\ id \in Owned
  /\ fetches < MaxFetches
  /\ reports' = [reports EXCEPT ![id] = [matches |-> matches, at |-> fetches]]
  /\ fetches' = fetches + 1
  /\ UNCHANGED <<disk, sample, routePolicy, tasks, confirmed, lease>>

AcquireLease(vm) ==
  /\ vm \in VMs
  /\ lease # None => ~lease.live
  /\ lease' = [vm |-> vm, live |-> TRUE]
  /\ UNCHANGED <<disk, sample, routePolicy, tasks, confirmed, reports, fetches>>

ReleaseLease ==
  /\ lease # None
  /\ lease' = None
  /\ UNCHANGED <<disk, sample, routePolicy, tasks, confirmed, reports, fetches>>

\* The clock passes expires_at.
Expire ==
  /\ lease # None
  /\ lease.live
  /\ lease' = [lease EXCEPT !.live = FALSE]
  /\ UNCHANGED <<disk, sample, routePolicy, tasks, confirmed, reports, fetches>>

Next ==
  \/ DisturbSample
  \/ BindSample
  \/ \E route \in Routes : SetRoutePolicy(route)
  \/ \E id \in RawIds, route \in Routes : RecordTask(id, route)
  \/ \E id \in TaskIds, effective \in Routes \cup {None} : ConfirmTaskRoute(id, effective)
  \/ \E id \in TaskIds, matches \in BOOLEAN : RecordReport(id, matches)
  \/ \E vm \in VMs : AcquireLease(vm)
  \/ ReleaseLease
  \/ Expire

Spec == Init /\ [][Next]_ledgerVars

-----------------------------------------------------------------------------
(* The chain of evidence: what the orchestrator relies on when it reads    *)
(* the ledger at the end of an attempt.                                    *)

\* record_task admits a task id once, and at most MAX_TASKS_PER_RUN of them.
TasksDistinct ==
  /\ Len(tasks) <= MaxTasks
  /\ \A i, j \in DOMAIN tasks : tasks[i].id = tasks[j].id => i = j

\* Every receipt carries the digest of the one sample the run pinned, whatever
\* happened to the file since.
ReceiptsNameSample ==
  \A i \in DOMAIN tasks : sample # None /\ tasks[i].content = sample.content

\* There is no route confirmation and no report digest of a foreign task.
EvidenceOwned ==
  \A id \in TaskIds : confirmed[id] # "unchecked" \/ reports[id] # None => id \in Owned

\* No two reports share a fetch time, so "the newest" names one report.
FetchOrder ==
  /\ \A id \in TaskIds : reports[id] # None => reports[id].at < fetches
  /\ \A id, other \in TaskIds :
        /\ reports[id] # None
        /\ reports[other] # None
        /\ reports[id].at = reports[other].at
        => id = other

\* The four facts together: from any interleaving of ledger calls and changes
\* to the sample file, what run_context.py holds stays about one sample and the
\* tasks this run submitted.
EvidenceChain == TasksDistinct /\ ReceiptsNameSample /\ EvidenceOwned /\ FetchOrder

\* The report verified_report() hands out belongs to a receipt for the pinned
\* sample, its target matched, and no matching report was fetched after it.
VerifiedReportSound ==
  VerifiedReport # None =>
    /\ \E i \in DOMAIN tasks :
         /\ tasks[i].id = VerifiedReport
         /\ sample # None
         /\ tasks[i].content = sample.content
    /\ reports[VerifiedReport].matches
    /\ \A id \in Matching \ {VerifiedReport} : reports[id].at < reports[VerifiedReport].at

\* A ledger call never rebinds the sample, and never drops or rewrites a receipt
\* it has issued: the manifest of a run is a record, not a draft.
ReceiptsAreFinal ==
  [][/\ sample # None => sample' = sample
     /\ \A i \in DOMAIN tasks : i \in DOMAIN tasks' /\ tasks'[i] = tasks[i]]_ledgerVars

=============================================================================
