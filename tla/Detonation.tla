----------------------------- MODULE Detonation -----------------------------
(***************************************************************************)
(* One detonation as the analysis container and the guest in it carry it   *)
(* out: src/sandbox_infra/qemu/detonate.py (Linux), win_detonate.py        *)
(* (Windows), and the agents of the two guests.  A job is a number a       *)
(* backend process gave out; the container of a job works in a directory   *)
(* under the task root that is named by the number alone.                  *)
(*                                                                         *)
(* Time is abstract: a deadline may strike at any step that waits for one. *)
(* What a script does to a report is kept to what decides whether the      *)
(* report counts: whose it is, which bytes ran, what went wrong.           *)
(***************************************************************************)
EXTENDS Naturals

CONSTANTS
  Procs,        \* backend processes, one per orchestrator
  MaxTask,      \* bound: submissions of one process
  Bytes,        \* contents a sample file may have
  OsOf,         \* the guest each of the contents runs on, or "other"
  SharedRoot,   \* TRUE: all processes were given one task root
  None

Jobs == Procs \X (1..MaxTask)

ASSUME DetonationAssumption ==
  /\ MaxTask \in Nat
  /\ OsOf \in [Bytes -> {"linux", "windows", "other"}]
  /\ SharedRoot \in BOOLEAN
  /\ None \notin Bytes
  /\ None \notin [bytes : Bytes, exec : BOOLEAN, run : {"none", "partial", "bad", "ok"}]
  /\ None \notin [by : Jobs, target : Bytes, ran : Bytes \union {None},
                  clean : BOOLEAN,
                  root : BOOLEAN, error : BOOLEAN, invalid : BOOLEAN, whole : BOOLEAN]

\* Mutant of DirOf: a process uses one directory for all its tasks.
DirPerProcess(j) == IF SharedRoot THEN j[2] ELSE <<j[1], 1>>

\* The directory of a job: task_root / str(task_id), and every process counts alike.
DirOf(j) == IF SharedRoot THEN j[2] ELSE j
Dirs == {DirOf(j) : j \in Jobs}

VARIABLES
  dir,    \* what is in each task directory
  box,    \* the container of each job: where its script is, what it has read
  guest   \* the virtual machine in each container

boxVars == <<dir, box, guest>>

MaybeBytes == Bytes \union {None}
\* What the guest's task directory holds when it is archived.
Collections == [bytes : Bytes, exec : BOOLEAN, run : {"none", "partial", "bad", "ok"}]
\* A report: the hash it names, whether the sample's process was seen, error keys,
\* execution_valid = False; and the facts behind it: the container that wrote it, the bytes
\* that ran, whether the guest finished the task without an error.
Reports == [by : Jobs, target : Bytes, ran : MaybeBytes, clean : BOOLEAN, root : BOOLEAN,
            error : BOOLEAN, invalid : BOOLEAN, whole : BOOLEAN]

BoxTypeOK ==
  /\ dir \in [Dirs -> [sample : MaybeBytes, overlay : MaybeBytes,
                       meta : MaybeBytes,
                       archive : Collections \union {None},
                       unpacked : Collections \union {None},
                       report : Reports \union {None}]]
  /\ box \in [Jobs -> [pc : {"none", "start", "boot", "store", "execute", "poll",
                             "unpack", "shape", "write", "dump", "gone"},
                       os : {"linux", "windows"}, meta : MaybeBytes,
                       report : Reports \union {None}]]
  /\ guest \in [Jobs -> [alive : BOOLEAN, state : {"idle", "running", "done"},
                         thread : {"none", "starting", "running", "writing", "ended", "dead"},
                         sample : MaybeBytes, exec : BOOLEAN,
                         run : {"none", "partial", "bad", "ok"}]]

\* A virtual machine that is off: its memory is gone, its disk is discarded.
Off == [alive |-> FALSE, state |-> "idle", thread |-> "none", sample |-> None,
        exec |-> FALSE, run |-> "none"]

BoxInit ==
  /\ dir = [d \in Dirs |-> [sample |-> None, overlay |-> None, meta |-> None,
                            archive |-> None, unpacked |-> None, report |-> None]]
  /\ box = [j \in Jobs |-> [pc |-> "none", os |-> "linux", meta |-> None, report |-> None]]
  /\ guest = [j \in Jobs |-> Off]

Running(j) == box[j].pc \notin {"none", "gone"}
At(j, place) == box[j].pc = place
Gone == [pc |-> "gone", os |-> "linux", meta |-> None, report |-> None]
Goto(j, place) == box' = [box EXCEPT ![j].pc = place]

\* A report without evidence: the script gave up with an error.  The Linux script starts
\* from execution_valid = False, the Windows one from no such key.
ErrorReport(j) == [by |-> j, target |-> box[j].meta, ran |-> None, clean |-> FALSE,
                   root |-> FALSE, error |-> TRUE, invalid |-> box[j].os = "linux", whole |-> TRUE]
GiveUp(j) == box' = [box EXCEPT ![j].pc = "write", ![j].report = ErrorReport(j)]

\* Mutant of Shaped: missing or broken run metadata is no reason against the execution.
ShapedWithoutRun(j, c) ==
  LET seen == c # None /\ c.exec
  IN  [by |-> j, target |-> box[j].meta, ran |-> IF seen THEN c.bytes ELSE None,
       clean |-> c # None /\ c.run = "ok", root |-> seen, error |-> c # None /\ c.run = "bad",
       invalid |-> ~seen, whole |-> TRUE]

\* _execution_health and what main() adds: no root process, no run metadata, an error in it.
Shaped(j, c) ==
  LET seen == c # None /\ c.exec
  IN  [by |-> j, target |-> box[j].meta, ran |-> IF seen THEN c.bytes ELSE None,
       clean |-> c # None /\ c.run = "ok", root |-> seen, error |-> c # None /\ c.run = "bad",
       invalid |-> ~(seen /\ c.run = "ok"), whole |-> TRUE]

-----------------------------------------------------------------------------
\* The script reads meta.json and the size of the sample, makes the overlay, starts qemu.
BoxStarts(j) ==
  /\ At(j, "start")
  /\ dir[DirOf(j)].meta # None /\ dir[DirOf(j)].sample # None
  /\ box' = [box EXCEPT ![j].pc = "boot", ![j].meta = dir[DirOf(j)].meta]
  /\ guest' = [guest EXCEPT ![j].alive = TRUE]
  /\ UNCHANGED dir

GuestReady(j) ==
  /\ At(j, "boot") /\ guest[j].alive
  /\ Goto(j, "store")
  /\ UNCHANGED <<dir, guest>>

\* _wait_ready ran to its deadline, or qemu ended.
GuestNotReady(j) ==
  /\ At(j, "boot")
  /\ GiveUp(j)
  /\ UNCHANGED <<dir, guest>>

\* POST /store: the sample is read only now, and lands on the overlay.
StoreSample(j) ==
  /\ At(j, "store") /\ guest[j].alive
  /\ dir[DirOf(j)].sample # None
  /\ guest' = [guest EXCEPT ![j].sample = dir[DirOf(j)].sample]
  /\ dir' = [dir EXCEPT ![DirOf(j)].overlay = dir[DirOf(j)].sample]
  /\ Goto(j, "execute")

\* POST /execute; under Windows, the runner is stored and started.
Execute(j) ==
  /\ At(j, "execute") /\ guest[j].alive
  /\ guest' = [guest EXCEPT ![j].thread = "starting"]
  /\ Goto(j, "poll")
  /\ UNCHANGED dir

\* Windows only: an exception of _start_sample is a report, not an abort.
ExecuteRefused(j) ==
  /\ At(j, "execute") /\ box[j].os = "windows"
  /\ GiveUp(j)
  /\ UNCHANGED <<dir, guest>>

\* The agent is polled until it is done or the deadline has passed, then GET /result, which
\* it answers for a finished task only (else the script aborts); qemu is told to quit.
Collect(j) ==
  /\ At(j, "poll") /\ guest[j].alive /\ guest[j].state = "done"
  /\ dir' = [dir EXCEPT ![DirOf(j)].archive =
                [bytes |-> guest[j].sample, exec |-> guest[j].exec, run |-> guest[j].run]]
  /\ Goto(j, "unpack")
  /\ guest' = [guest EXCEPT ![j] = Off]

Unpack(j) ==
  /\ At(j, "unpack") /\ dir[DirOf(j)].archive # None
  /\ dir' = [dir EXCEPT ![DirOf(j)].unpacked = dir[DirOf(j)].archive]
  /\ Goto(j, "shape")
  /\ UNCHANGED guest

UnpackFails(j) ==
  /\ At(j, "unpack")
  /\ GiveUp(j)
  /\ UNCHANGED <<dir, guest>>

Shape(j) ==
  /\ At(j, "shape")
  /\ box' = [box EXCEPT ![j].pc = "write", ![j].report = Shaped(j, dir[DirOf(j)].unpacked)]
  /\ UNCHANGED <<dir, guest>>

\* json.dump into the open file: it exists, truncated, before it is whole.
OpenReport(j) ==
  /\ At(j, "write")
  /\ dir' = [dir EXCEPT ![DirOf(j)].report = [box[j].report EXCEPT !.whole = FALSE]]
  /\ Goto(j, "dump")
  /\ UNCHANGED guest

DumpReport(j) ==
  /\ At(j, "dump")
  /\ dir' = [dir EXCEPT ![DirOf(j)].report = box[j].report]
  /\ box' = [box EXCEPT ![j] = Gone]
  /\ guest' = [guest EXCEPT ![j] = Off]

\* An exception that main() does not catch (a missing file, a request that fails or is
\* answered 409, a full disk), or the container is killed: the script ends as it is.
BoxAborts(j) ==
  /\ Running(j)
  /\ box' = [box EXCEPT ![j] = Gone]
  /\ guest' = [guest EXCEPT ![j] = Off]
  /\ UNCHANGED dir

BoxStep(j) ==
  \/ BoxStarts(j) \/ GuestReady(j) \/ GuestNotReady(j) \/ StoreSample(j)
  \/ Execute(j) \/ ExecuteRefused(j) \/ Collect(j)
  \/ Unpack(j) \/ UnpackFails(j) \/ Shape(j) \/ OpenReport(j) \/ DumpReport(j) \/ BoxAborts(j)

-----------------------------------------------------------------------------
\* The thread of /execute has started the sample; only now is the state "running".
\* The sample is executed if its bytes are of this guest's kind, and even then may fail.
ThreadStarts(j) ==
  /\ guest[j].alive /\ guest[j].thread = "starting"
  /\ \E ran \in BOOLEAN :
       /\ ran => OsOf[guest[j].sample] = box[j].os
       /\ guest' = [guest EXCEPT ![j].thread = "running", ![j].state = "running",
                                 ![j].exec = ran]
  /\ UNCHANGED <<dir, box>>

\* Linux: the observation is over, run.json is written and the state is "done".
LinuxDone(j) ==
  /\ guest[j].alive /\ guest[j].thread = "running" /\ box[j].os = "linux"
  /\ guest' = [guest EXCEPT ![j].thread = "ended", ![j].state = "done", ![j].run = "ok"]
  /\ UNCHANGED <<dir, box>>

\* Windows: the state is "done" as soon as run.json exists, written or not.
WindowsOpensRun(j) ==
  /\ guest[j].alive /\ guest[j].thread = "running" /\ box[j].os = "windows"
  /\ guest' = [guest EXCEPT ![j].thread = "writing", ![j].state = "done", ![j].run = "partial"]
  /\ UNCHANGED <<dir, box>>

\* run.json may hold a launch, wait or export error, or too short a window.
WindowsWritesRun(j) ==
  /\ guest[j].alive /\ guest[j].thread = "writing"
  /\ \E r \in {"ok", "bad"} :
       guest' = [guest EXCEPT ![j].thread = "ended", ![j].run = r]
  /\ UNCHANGED <<dir, box>>

\* Mutant of ThreadDies: the thread reports its end in a state the scripts do not know.
ThreadDiesLoudly(j) ==
  /\ guest[j].alive /\ guest[j].thread \in {"starting", "running"}
  /\ guest' = [guest EXCEPT ![j].thread = "dead", ![j].state = "failed"]
  /\ UNCHANGED <<dir, box>>

\* An exception ends the thread and leaves the state as it was: "idle" or "running" for good.
ThreadDies(j) ==
  /\ guest[j].alive /\ guest[j].thread \in {"starting", "running"}
  /\ guest' = [guest EXCEPT ![j].thread = "dead"]
  /\ UNCHANGED <<dir, box>>

\* The guest stops answering while the host still needs it: the sample shut it down, or
\* qemu ended.
GuestDies(j) ==
  /\ guest[j].alive
  /\ box[j].pc \in {"boot", "store", "execute", "poll"}
  /\ guest' = [guest EXCEPT ![j] = Off]
  /\ UNCHANGED <<dir, box>>

GuestStep(j) ==
  \/ ThreadStarts(j) \/ LinuxDone(j) \/ WindowsOpensRun(j) \/ WindowsWritesRun(j)
  \/ ThreadDies(j) \/ GuestDies(j)
=============================================================================
