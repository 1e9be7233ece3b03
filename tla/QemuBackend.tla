----------------------------- MODULE QemuBackend -----------------------------
(***************************************************************************)
(* src/core/qemu_backend.py: the synchronous submit_file of each backend   *)
(* process over a task root, its wait for the container, the reading of    *)
(* the report, the cleaning of the task directory, and the queries.        *)
(* Containers (Detonation) run on when their client is killed, be it for   *)
(* the container timeout or because the process died.                      *)
(***************************************************************************)
EXTENDS Detonation

CONSTANT MaxChanges   \* bound: changes of the sample file

ASSUME BackendAssumption == MaxChanges \in Nat

VARIABLES
  disk,     \* contents of the file at the sample path
  changes,  \* how often it has changed
  proc,     \* each process: its place in submit_file, _next, the guest planned for
  task,     \* _tasks, by the process and the number
  orphan    \* history: containers whose client was killed while they ran

vars == <<dir, box, guest, disk, changes, proc, task, orphan>>

Statuses == {"none", "pending", "reported", "failed_analysis"}

TypeOK ==
  /\ BoxTypeOK
  /\ disk \in Bytes
  /\ changes \in 0..MaxChanges
  /\ proc \in [Procs -> [pc : {"idle", "number", "copy", "meta", "start", "wait", "read",
                               "clean", "dead"},
                         next : 0..MaxTask, os : {"linux", "windows"}]]
  /\ task \in [Jobs -> [bytes : MaybeBytes, status : Statuses,
                        report : Reports \union {None}, cleaned : BOOLEAN]]
  /\ orphan \subseteq Jobs

Init ==
  /\ BoxInit
  /\ disk \in Bytes
  /\ changes = 0
  /\ proc = [p \in Procs |-> [pc |-> "idle", next |-> 0, os |-> "linux"]]
  /\ task = [j \in Jobs |-> [bytes |-> None, status |-> "none", report |-> None,
                             cleaned |-> FALSE]]
  /\ orphan = {}

Place(p, place) == proc[p].pc = place
Go(p, place) == proc' = [proc EXCEPT ![p].pc = place]
JobOf(p) == <<p, proc[p].next>>
HomeOf(p) == DirOf(JobOf(p))

-----------------------------------------------------------------------------
\* validate_submission reads the head of the file and plans for a guest.
Validate(p) ==
  /\ Place(p, "idle") /\ proc[p].next < MaxTask
  /\ OsOf[disk] # "other"
  /\ proc' = [proc EXCEPT ![p].pc = "number", ![p].os = OsOf[disk]]
  /\ UNCHANGED <<boxVars, disk, changes, task, orphan>>

\* _next += 1, and the directory of that number, which may exist.
TakeNumber(p) ==
  /\ Place(p, "number")
  /\ proc' = [proc EXCEPT ![p].pc = "copy", ![p].next = @ + 1]
  /\ UNCHANGED <<boxVars, disk, changes, task, orphan>>

\* shutil.copyfile: whatever the path holds now.
CopySample(p) ==
  /\ Place(p, "copy")
  /\ dir' = [dir EXCEPT ![HomeOf(p)].sample = disk]
  /\ task' = [task EXCEPT ![JobOf(p)].bytes = disk]
  /\ Go(p, "meta")
  /\ UNCHANGED <<box, guest, disk, changes, orphan>>

\* Mutant of WriteMeta: the hash is taken from the sample path, not from the copy.
WriteMetaOfPath(p) ==
  /\ Place(p, "meta")
  /\ dir[HomeOf(p)].sample # None
  /\ dir' = [dir EXCEPT ![HomeOf(p)].meta = disk]
  /\ task' = [task EXCEPT ![JobOf(p)].status = "pending"]
  /\ Go(p, "start")
  /\ UNCHANGED <<box, guest, disk, changes, orphan>>

\* meta.json names the hash of the copy; the task is registered.
WriteMeta(p) ==
  /\ Place(p, "meta")
  /\ dir[HomeOf(p)].sample # None
  /\ dir' = [dir EXCEPT ![HomeOf(p)].meta = dir[HomeOf(p)].sample]
  /\ task' = [task EXCEPT ![JobOf(p)].status = "pending"]
  /\ Go(p, "start")
  /\ UNCHANGED <<box, guest, disk, changes, orphan>>

\* Making the directory, copying, hashing or writing meta.json raises: submit_file ends,
\* and nothing cleans the directory.
StagingFails(p) ==
  /\ proc[p].pc \in {"copy", "meta"}
  /\ Go(p, "idle")
  /\ \E part \in IF Place(p, "copy") THEN {None, disk} ELSE {None} :
       dir' = IF part = None THEN dir ELSE [dir EXCEPT ![HomeOf(p)].sample = part]
  /\ UNCHANGED <<box, guest, disk, changes, task, orphan>>

StartContainer(p) ==
  /\ Place(p, "start")
  /\ box' = [box EXCEPT ![JobOf(p)].pc = "start", ![JobOf(p)].os = proc[p].os]
  /\ Go(p, "wait")
  /\ UNCHANGED <<dir, guest, disk, changes, task, orphan>>

\* podman itself fails: its exit code is logged, no more.
StartFails(p) ==
  /\ Place(p, "start")
  /\ Go(p, "read")
  /\ UNCHANGED <<boxVars, disk, changes, task, orphan>>

ContainerReturns(p) ==
  /\ Place(p, "wait") /\ At(JobOf(p), "gone")
  /\ Go(p, "read")
  /\ UNCHANGED <<boxVars, disk, changes, task, orphan>>

\* subprocess.TimeoutExpired: the podman client is killed, the container is not.
ContainerTimeout(p) ==
  /\ Place(p, "wait") /\ Running(JobOf(p))
  /\ orphan' = orphan \union {JobOf(p)}
  /\ Go(p, "read")
  /\ UNCHANGED <<boxVars, disk, changes, task>>

\* Mutant of ReadReport: a truncated report is taken for a failure, and the status of a
\* report is set although there is none.
ReadReportLoosely(p) ==
  /\ Place(p, "read")
  /\ Go(p, "clean")
  /\ task' = [task EXCEPT ![JobOf(p)].status = "reported",
                          ![JobOf(p)].report = dir[HomeOf(p)].report]
  /\ UNCHANGED <<boxVars, disk, changes, orphan>>

\* Whatever report.json is there is the report.  A truncated one raises (status unchanged).
ReadReport(p) ==
  LET r == dir[HomeOf(p)].report
  IN  /\ Place(p, "read")
      /\ Go(p, "clean")
      /\ task' = IF r = None
                 THEN [task EXCEPT ![JobOf(p)].status = "failed_analysis"]
                 ELSE IF r.whole
                 THEN [task EXCEPT ![JobOf(p)].status = "reported", ![JobOf(p)].report = r]
                 ELSE task
      /\ UNCHANGED <<boxVars, disk, changes, orphan>>

\* Mutant of Cleanup: the directory the archive was extracted to is left behind.
CleanupWithoutTree(p) ==
  /\ Place(p, "clean")
  /\ dir' = [dir EXCEPT ![HomeOf(p)].sample = None, ![HomeOf(p)].overlay = None,
                        ![HomeOf(p)].archive = None]
  /\ task' = [task EXCEPT ![JobOf(p)].cleaned = TRUE]
  /\ Go(p, "idle")
  /\ UNCHANGED <<box, guest, disk, changes, orphan>>

\* _cleanup_task_dir, in the finally clause: report.json and meta.json stay.
Cleanup(p) ==
  /\ Place(p, "clean")
  /\ dir' = [dir EXCEPT ![HomeOf(p)].sample = None, ![HomeOf(p)].overlay = None,
                        ![HomeOf(p)].archive = None, ![HomeOf(p)].unpacked = None]
  /\ task' = [task EXCEPT ![JobOf(p)].cleaned = TRUE]
  /\ Go(p, "idle")
  /\ UNCHANGED <<box, guest, disk, changes, orphan>>

Submission(p) ==
  \/ TakeNumber(p) \/ CopySample(p) \/ WriteMeta(p) \/ StagingFails(p) \/ StartContainer(p)
  \/ StartFails(p) \/ ContainerReturns(p) \/ ContainerTimeout(p) \/ ReadReport(p) \/ Cleanup(p)

\* The process is killed within a submission.  (Between two, it just submits no more.)
Dies(p) ==
  /\ proc[p].pc \notin {"idle", "dead"}
  /\ orphan' = IF Place(p, "wait") /\ Running(JobOf(p)) THEN orphan \union {JobOf(p)} ELSE orphan
  /\ Go(p, "dead")
  /\ UNCHANGED <<boxVars, disk, changes, task>>

\* The sample file changes.  A change that no submission can meet any more is not a step.
ChangeFile ==
  /\ changes < MaxChanges
  /\ \E p \in Procs : \/ proc[p].pc \in {"number", "copy", "meta"}
                     \/ (Place(p, "idle") /\ proc[p].next < MaxTask)
  /\ changes' = changes + 1
  /\ \E b \in Bytes \ {disk} : disk' = b
  /\ UNCHANGED <<boxVars, proc, task, orphan>>

-----------------------------------------------------------------------------
\* report_has_signal: a process of the sample, no error key, execution_valid not denied.
ExecutionValid(r) == r.root /\ ~r.error /\ ~r.invalid

\* get_report_verified: the hash the report names is the expected one.
Verified(j, expected) == task[j].report # None /\ task[j].report.target = expected

-----------------------------------------------------------------------------
Next ==
  \/ ChangeFile
  \/ \E p \in Procs : Validate(p) \/ Submission(p) \/ Dies(p)
  \/ \E j \in Jobs : /\ BoxStep(j) \/ GuestStep(j)
                     /\ UNCHANGED <<disk, changes, proc, task, orphan>>

Spec == Init /\ [][Next]_vars

-----------------------------------------------------------------------------
(***************************************************************************)
(* The service each number stands for.                                     *)
(***************************************************************************)
JobView == [j \in Jobs |->
  [st |-> CASE task[j].status = "reported" -> "reported"
            [] task[j].status = "failed_analysis" -> "failed"
            [] OTHER -> IF task[j].bytes = None THEN "none" ELSE "accepted",
   bytes |-> task[j].bytes,
   by    |-> IF task[j].report = None THEN None ELSE task[j].report.by,
   ran   |-> IF task[j].report = None THEN None ELSE task[j].report.ran]]

Service == INSTANCE DetonationService WITH job <- JobView

\* With a task root of its own, a process keeps what it promises: whatever left-over
\* container still writes, a number's report is by its own container and about the bytes
\* submitted under it (submit_file, _detonate).
ImplementsService == Service!Spec

\* A report that report_has_signal accepts, under the hash that get_report_verified
\* confirms, is of a guest that executed the very bytes submitted under that number and
\* finished the task: a file swapped after validation, a run.json half written, a lost guest
\* never count.
ValidMeansRan ==
  \A j \in Jobs, b \in Bytes :
    Verified(j, b) /\ ExecutionValid(task[j].report)
      => task[j].report.ran = b /\ task[j].bytes = b /\ task[j].report.clean

HoldsBytes(d) ==
  \/ dir[d].sample # None \/ dir[d].overlay # None
  \/ dir[d].archive # None \/ dir[d].unpacked # None

\* _cleanup_task_dir: once a submission is cleaned up, bytes of the sample are in its
\* directory only if its container had outlived the client.
BytesRemoved ==
  \A j \in Jobs : task[j].cleaned /\ HoldsBytes(DirOf(j)) => j \in orphan

\* Class docstring: get_task_status() reports the terminal outcome of the detonation, that
\* is, "reported" is said of a task whose own container wrote the report.
StatusIsOutcome ==
  \A j \in Jobs : task[j].status = "reported" => task[j].report.by = j
=============================================================================
