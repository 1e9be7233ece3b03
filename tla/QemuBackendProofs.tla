-------------------------- MODULE QemuBackendProofs --------------------------
(***************************************************************************)
(* The QEMU backend for any number of processes, submissions and contents. *)
(* The types hold with any task roots.  The rest is about a process with a *)
(* task root of its own: then the directory of a number is written by its  *)
(* submission and its container only, and whatever is found there, also by *)
(* a container that outlived its client, is about the bytes submitted.     *)
(***************************************************************************)
EXTENDS QemuBackend, TLAPS

-----------------------------------------------------------------------------
(* The types. *)

\* A submission has its number from the copy on.
ProcPlaced ==
  \A p \in Procs :
    /\ proc[p].pc = "number" => proc[p].next < MaxTask
    /\ proc[p].pc \in {"copy", "meta", "start", "wait", "read", "clean"} => proc[p].next # 0

\* A container that runs has read meta.json, and has a report where it writes one.
BoxPlaced ==
  \A j \in Jobs :
    /\ box[j].pc \in {"boot", "store", "execute", "poll", "unpack", "shape", "write", "dump"}
         => box[j].meta # None
    /\ box[j].pc \in {"write", "dump"} => box[j].report # None

\* Nothing is executed before the sample is in the guest.
GuestLoaded ==
  \A j \in Jobs :
    (box[j].pc = "execute" /\ guest[j].alive) \/ guest[j].thread # "none" \/ guest[j].state # "idle"
      => guest[j].sample # None

TInv == TypeOK /\ ProcPlaced /\ BoxPlaced /\ GuestLoaded

TaskDirs == [sample : MaybeBytes, overlay : MaybeBytes, meta : MaybeBytes,
             archive : Collections \union {None}, unpacked : Collections \union {None},
             report : Reports \union {None}]
Boxes == [pc : {"none", "start", "boot", "store", "execute", "poll",
                "unpack", "shape", "write", "dump", "gone"},
          os : {"linux", "windows"}, meta : MaybeBytes, report : Reports \union {None}]
Guests == [alive : BOOLEAN, state : {"idle", "running", "done"},
           thread : {"none", "starting", "running", "writing", "ended", "dead"},
           sample : MaybeBytes, exec : BOOLEAN, run : {"none", "partial", "bad", "ok"}]

LEMMA BoxTypes ==
  BoxTypeOK <=> dir \in [Dirs -> TaskDirs] /\ box \in [Jobs -> Boxes] /\ guest \in [Jobs -> Guests]
BY DEF BoxTypeOK, TaskDirs, Boxes, Guests

\* The reports a script makes are reports.
LEMMA ReportTypes ==
  ASSUME NEW j \in Jobs, box[j] \in Boxes, box[j].meta # None
  PROVE  /\ ErrorReport(j) \in Reports
         /\ \A c \in Collections \union {None} : Shaped(j, c) \in Reports
<1>1. box[j].meta \in Bytes
  BY DEF Boxes, MaybeBytes
<1>2. ErrorReport(j) \in Reports
  BY <1>1 DEF ErrorReport, Reports, MaybeBytes
<1>3. ASSUME NEW c \in Collections \union {None}
      PROVE  Shaped(j, c) \in Reports
  <2> DEFINE seen == c # None /\ c.exec
  <2>1. seen \in BOOLEAN /\ (c # None /\ c.run = "ok") \in BOOLEAN
        /\ (c # None /\ c.run = "bad") \in BOOLEAN
    BY DEF Collections
  <2>2. (IF seen THEN c.bytes ELSE None) \in MaybeBytes
    BY DEF Collections, MaybeBytes
  <2> QED
    BY <1>1, <2>1, <2>2 DEF Shaped, Reports
<1> QED
  BY <1>2, <1>3

\* A step of a container, or of the guest in it, is within its directory, its script and
\* its machine.
LEMMA BoxFrame ==
  ASSUME BoxTypeOK, NEW j \in Jobs, BoxStep(j) \/ GuestStep(j)
  PROVE  /\ \E d : dir' = [dir EXCEPT ![DirOf(j)] = d]
         /\ \E b : box' = [box EXCEPT ![j] = b]
         /\ \E g : guest' = [guest EXCEPT ![j] = g]
<1> USE BoxTypes
<1>1. DirOf(j) \in Dirs
  BY DEF Dirs
<1>2. /\ dir' = dir => \E d : dir' = [dir EXCEPT ![DirOf(j)] = d]
      /\ box' = box => \E b : box' = [box EXCEPT ![j] = b]
      /\ guest' = guest => \E g : guest' = [guest EXCEPT ![j] = g]
  <2>1. /\ dir = [dir EXCEPT ![DirOf(j)] = dir[DirOf(j)]]
        /\ box = [box EXCEPT ![j] = box[j]]
        /\ guest = [guest EXCEPT ![j] = guest[j]]
    BY <1>1
  <2> QED
    BY <2>1
<1>3. CASE BoxStarts(j) \/ GuestReady(j) \/ GuestNotReady(j) \/ StoreSample(j)
  BY <1>2, <1>3 DEF BoxStarts, GuestReady, GuestNotReady, StoreSample, GiveUp, Goto
<1>4. CASE Execute(j) \/ ExecuteRefused(j) \/ Collect(j) \/ Unpack(j) \/ UnpackFails(j)
  BY <1>2, <1>4 DEF Execute, ExecuteRefused, Collect, Unpack, UnpackFails, GiveUp, Goto
<1>5. CASE Shape(j) \/ OpenReport(j) \/ DumpReport(j) \/ BoxAborts(j)
  BY <1>2, <1>5 DEF Shape, OpenReport, DumpReport, BoxAborts, Goto
<1>6. CASE GuestStep(j)
  BY <1>2, <1>6 DEF GuestStep, ThreadStarts, LinuxDone, WindowsOpensRun, WindowsWritesRun,
                    ThreadDies, GuestDies
<1> QED
  BY <1>3, <1>4, <1>5, <1>6 DEF BoxStep

\* What a step may put in its directory, its script and its machine.
BoxFlow(j) ==
  LET d == DirOf(j) IN
  /\ Running(j) \/ (dir' = dir /\ box' = box)
  /\ box'[j] \in Boxes /\ guest'[j] \in Guests /\ dir'[d] \in TaskDirs
  /\ dir'[d].sample = dir[d].sample /\ dir'[d].meta = dir[d].meta
  /\ dir'[d].archive = dir[d].archive
     \/ (guest[j].sample # None /\ dir'[d].archive.bytes = guest[j].sample)
  /\ dir'[d].unpacked \in {dir[d].unpacked, dir[d].archive}
  /\ dir'[d].report = dir[d].report
     \/ (box[j].report # None
         /\ dir'[d].report \in {box[j].report, [box[j].report EXCEPT !.whole = FALSE]})
  /\ box'[j].meta \in {box[j].meta, None, dir[d].meta}
  /\ box'[j].report \in {box[j].report, None}
     \/ (box[j].meta # None
         /\ box'[j].report \in {ErrorReport(j), Shaped(j, dir[d].unpacked)})
  /\ guest'[j].sample \in {guest[j].sample, None}
     \/ (box[j].meta # None /\ dir[d].sample # None /\ guest'[j].sample = dir[d].sample)

LEMMA BoxFlowHolds ==
  ASSUME TInv, NEW j \in Jobs, BoxStep(j) \/ GuestStep(j)
  PROVE  BoxFlow(j)
<1> DEFINE d == DirOf(j)
<1>1. d \in Dirs /\ dir \in [Dirs -> TaskDirs] /\ box \in [Jobs -> Boxes]
      /\ guest \in [Jobs -> Guests] /\ dir[d] \in TaskDirs /\ box[j] \in Boxes
      /\ guest[j] \in Guests
  BY BoxTypes DEF Dirs, TInv, TypeOK
<1>2. /\ box[j].pc \in {"boot", "store", "execute", "poll", "unpack", "shape", "write", "dump"}
           => box[j].meta # None
      /\ box[j].pc \in {"write", "dump"} => box[j].report # None
  BY DEF TInv, BoxPlaced
<1>3. (box[j].pc = "execute" /\ guest[j].alive) \/ guest[j].thread # "none" \/ guest[j].state # "idle"
        => guest[j].sample # None
  BY DEF TInv, GuestLoaded
<1>4. CASE BoxStarts(j)
  BY <1>1, <1>4 DEF BoxStarts, At, BoxFlow, Running, Boxes, Guests, TaskDirs
<1>5. CASE GuestReady(j)
  BY <1>1, <1>5 DEF GuestReady, At, Goto, BoxFlow, Running, Boxes
<1>6. CASE StoreSample(j)
  BY <1>1, <1>2, <1>6 DEF StoreSample, At, Goto, BoxFlow, Running, Boxes, Guests, TaskDirs
<1>7. CASE Execute(j)
  BY <1>1, <1>7 DEF Execute, At, Goto, BoxFlow, Running, Boxes, Guests
<1>8. CASE GuestNotReady(j) \/ ExecuteRefused(j) \/ UnpackFails(j) \/ Shape(j)
  <2>1. Running(j) /\ box[j].meta # None /\ dir' = dir /\ guest' = guest
    BY <1>2, <1>8 DEF GuestNotReady, ExecuteRefused, UnpackFails, Shape, At, Running
  <2>2. PICK r \in {ErrorReport(j), Shaped(j, dir[d].unpacked)} :
          box' = [box EXCEPT ![j].pc = "write", ![j].report = r]
    BY <1>8 DEF GuestNotReady, ExecuteRefused, UnpackFails, Shape, GiveUp
  <2>3. r \in Reports
    BY <1>1, <2>1, <2>2, ReportTypes DEF TaskDirs
  <2>4. box'[j] \in Boxes /\ box'[j].meta = box[j].meta /\ box'[j].report = r
    BY <1>1, <2>2, <2>3 DEF Boxes
  <2> QED
    BY <1>1, <2>1, <2>2, <2>4 DEF BoxFlow
<1>9. CASE Collect(j)
  <2> DEFINE c == [bytes |-> guest[j].sample, exec |-> guest[j].exec, run |-> guest[j].run]
  <2>1. /\ Running(j) /\ guest[j].sample \in Bytes
        /\ dir' = [dir EXCEPT ![d].archive = c] /\ box' = [box EXCEPT ![j].pc = "unpack"]
        /\ guest' = [guest EXCEPT ![j] = Off]
    BY <1>1, <1>3, <1>9 DEF Collect, At, Goto, Running, Guests, MaybeBytes
  <2>2. c \in Collections
    BY <1>1, <2>1 DEF Collections, Guests
  <2>3. /\ dir'[d] \in TaskDirs /\ dir'[d].sample = dir[d].sample
        /\ dir'[d].meta = dir[d].meta /\ dir'[d].archive.bytes = guest[j].sample
        /\ dir'[d].unpacked = dir[d].unpacked /\ dir'[d].report = dir[d].report
    BY <1>1, <2>1, <2>2 DEF TaskDirs
  <2>4. box'[j] \in Boxes /\ box'[j].meta = box[j].meta /\ box'[j].report = box[j].report
    BY <1>1, <2>1 DEF Boxes
  <2>5. guest'[j] \in Guests /\ guest'[j].sample = None
    BY <1>1, <2>1 DEF Guests, Off, MaybeBytes
  <2>6. guest[j].sample # None
    BY <1>3, <1>9 DEF Collect
  <2> HIDE DEF c
  <2> QED
    BY <2>1, <2>3, <2>4, <2>5, <2>6 DEF BoxFlow
<1>10. CASE Unpack(j)
  <2>1. /\ Running(j) /\ guest' = guest
        /\ box'[j] = [box[j] EXCEPT !.pc = "shape"]
        /\ dir'[d] = [dir[d] EXCEPT !.unpacked = dir[d].archive]
    BY <1>1, <1>10 DEF Unpack, At, Goto, Running
  <2>2. box'[j] \in Boxes /\ box'[j].meta = box[j].meta /\ box'[j].report = box[j].report
    BY <1>1, <2>1 DEF Boxes
  <2> QED
    BY <1>1, <2>1, <2>2 DEF BoxFlow, TaskDirs
<1>11. CASE OpenReport(j)
  <2> DEFINE r == [box[j].report EXCEPT !.whole = FALSE]
  <2>1. /\ Running(j) /\ guest' = guest
        /\ box'[j] = [box[j] EXCEPT !.pc = "dump"]
        /\ dir'[d] = [dir[d] EXCEPT !.report = r]
        /\ box[j].report # None
    BY <1>1, <1>2, <1>11 DEF OpenReport, At, Goto, Running
  <2>2. r \in Reports
    BY <1>1, <2>1 DEF Boxes, Reports
  <2>3. box'[j] \in Boxes /\ box'[j].meta = box[j].meta /\ box'[j].report = box[j].report
    BY <1>1, <2>1 DEF Boxes
  <2>4. /\ dir'[d] \in TaskDirs /\ dir'[d].report = r
        /\ dir'[d].sample = dir[d].sample /\ dir'[d].meta = dir[d].meta
        /\ dir'[d].archive = dir[d].archive /\ dir'[d].unpacked = dir[d].unpacked
    <3> HIDE DEF r
    <3> QED
      BY <1>1, <2>1, <2>2 DEF TaskDirs
  <2> QED
    BY <1>1, <2>1, <2>3, <2>4 DEF BoxFlow
<1>12. CASE DumpReport(j)
  BY <1>1, <1>2, <1>12 DEF DumpReport, At, Off, Gone, BoxFlow, Running, Boxes, Guests, TaskDirs,
     MaybeBytes
<1>13. CASE BoxAborts(j)
  BY <1>1, <1>13 DEF BoxAborts, Off, Gone, BoxFlow, Running, Boxes, Guests, MaybeBytes
<1>14. CASE GuestStep(j)
  <2>1. dir' = dir /\ box' = box
    BY <1>14 DEF GuestStep, ThreadStarts, LinuxDone, WindowsOpensRun, WindowsWritesRun,
                 ThreadDies, GuestDies
  <2>2. guest'[j] \in Guests /\ guest'[j].sample \in {guest[j].sample, None}
    <3>1. CASE ThreadStarts(j) \/ LinuxDone(j) \/ WindowsOpensRun(j)
      BY <1>1, <3>1 DEF ThreadStarts, LinuxDone, WindowsOpensRun, Guests
    <3>2. CASE ThreadDies(j)
      BY <1>1, <3>2 DEF ThreadDies, Guests
    <3>3. CASE GuestDies(j)
      BY <1>1, <3>3 DEF GuestDies, Off, Guests, MaybeBytes
    <3>4. CASE WindowsWritesRun(j)
      <4>1. PICK r \in {"ok", "bad"} :
              guest'[j] = [guest[j] EXCEPT !.thread = "ended", !.run = r]
        BY <1>1, <3>4 DEF WindowsWritesRun
      <4> QED
        BY <1>1, <4>1 DEF Guests
    <3> QED
      BY <1>14, <3>1, <3>2, <3>3, <3>4 DEF GuestStep
  <2> QED
    BY <1>1, <2>1, <2>2 DEF BoxFlow
<1> QED
  BY <1>4, <1>5, <1>6, <1>7, <1>8, <1>9, <1>10, <1>11, <1>12, <1>13, <1>14 DEF BoxStep

LEMMA BoxTypesKept ==
  ASSUME TInv, NEW j \in Jobs, BoxStep(j) \/ GuestStep(j)
  PROVE  BoxTypeOK'
<1> DEFINE d == DirOf(j)
<1>1. d \in Dirs /\ dir \in [Dirs -> TaskDirs] /\ box \in [Jobs -> Boxes]
      /\ guest \in [Jobs -> Guests]
  BY BoxTypes DEF Dirs, TInv, TypeOK
<1>2. PICK newd : dir' = [dir EXCEPT ![d] = newd]
  BY BoxFrame DEF TInv, TypeOK
<1>3. PICK newb : box' = [box EXCEPT ![j] = newb]
  BY BoxFrame DEF TInv, TypeOK
<1>4. PICK newg : guest' = [guest EXCEPT ![j] = newg]
  BY BoxFrame DEF TInv, TypeOK
<1>5. newd = dir'[d] /\ newb = box'[j] /\ newg = guest'[j]
  BY <1>1, <1>2, <1>3, <1>4
<1>6. newd \in TaskDirs /\ newb \in Boxes /\ newg \in Guests
  BY <1>5, BoxFlowHolds DEF BoxFlow
<1>7. dir' \in [Dirs -> TaskDirs] /\ box' \in [Jobs -> Boxes] /\ guest' \in [Jobs -> Guests]
  BY <1>1, <1>2, <1>3, <1>4, <1>6
<1> QED
  BY <1>7 DEF BoxTypeOK, TaskDirs, Boxes, Guests

\* What BoxPlaced and GuestLoaded say of one job.
BoxReady(j) ==
  /\ box[j].pc \in {"boot", "store", "execute", "poll", "unpack", "shape", "write", "dump"}
       => box[j].meta # None
  /\ box[j].pc \in {"write", "dump"} => box[j].report # None
  /\ (box[j].pc = "execute" /\ guest[j].alive) \/ guest[j].thread # "none"
     \/ guest[j].state # "idle"
       => guest[j].sample # None

LEMMA ReadyParts == BoxPlaced /\ GuestLoaded <=> \A j \in Jobs : BoxReady(j)
BY DEF BoxPlaced, GuestLoaded, BoxReady

LEMMA ReadyKept ==
  ASSUME TInv, NEW j \in Jobs, BoxStep(j) \/ GuestStep(j)
  PROVE  (BoxPlaced /\ GuestLoaded)'
<1> DEFINE d == DirOf(j)
<1>1. d \in Dirs /\ dir \in [Dirs -> TaskDirs] /\ box \in [Jobs -> Boxes]
      /\ guest \in [Jobs -> Guests] /\ box[j] \in Boxes /\ guest[j] \in Guests
      /\ dir[d] \in TaskDirs
  BY BoxTypes DEF Dirs, TInv, TypeOK
<1>2. BoxReady(j)
  BY ReadyParts DEF TInv
<1>3. BoxReady(j)'
  <2>1. CASE BoxStarts(j)
    BY <1>1, <1>2, <2>1 DEF BoxStarts, At, BoxReady, Boxes, Guests
  <2>2. CASE GuestReady(j) \/ StoreSample(j)
    BY <1>1, <1>2, <2>2 DEF GuestReady, StoreSample, At, Goto, BoxReady, Boxes, Guests
  <2>3. CASE Execute(j)
    BY <1>1, <1>2, <2>3 DEF Execute, At, Goto, BoxReady, Boxes, Guests
  <2>4. CASE GuestNotReady(j) \/ ExecuteRefused(j) \/ UnpackFails(j) \/ Shape(j)
    <3>1. box[j].meta # None /\ guest' = guest
      BY <1>2, <2>4 DEF GuestNotReady, ExecuteRefused, UnpackFails, Shape, At, BoxReady
    <3>2. PICK r \in {ErrorReport(j), Shaped(j, dir[d].unpacked)} :
            box' = [box EXCEPT ![j].pc = "write", ![j].report = r]
      BY <2>4 DEF GuestNotReady, ExecuteRefused, UnpackFails, Shape, GiveUp
    <3>3. r # None
      <4>1. r \in Reports
        BY <1>1, <3>1, <3>2, ReportTypes DEF TaskDirs
      <4> QED
        BY <4>1, DetonationAssumption DEF Reports, MaybeBytes
    <3>4. box'[j].pc = "write" /\ box'[j].meta = box[j].meta /\ box'[j].report = r
      BY <1>1, <3>2 DEF Boxes
    <3> QED
      BY <1>2, <3>1, <3>3, <3>4 DEF BoxReady
  <2>5. CASE Collect(j)
    BY <1>1, <1>2, <2>5 DEF Collect, At, Goto, Off, BoxReady, Boxes, Guests
  <2>6. CASE Unpack(j) \/ OpenReport(j)
    BY <1>1, <1>2, <2>6 DEF Unpack, OpenReport, At, Goto, BoxReady, Boxes
  <2>7. CASE DumpReport(j) \/ BoxAborts(j)
    BY <1>1, <2>7 DEF DumpReport, BoxAborts, Gone, Off, BoxReady
  <2>8. CASE GuestStep(j)
    <3>1. box' = box
      BY <2>8 DEF GuestStep, ThreadStarts, LinuxDone, WindowsOpensRun, WindowsWritesRun,
                  ThreadDies, GuestDies
    <3>2. \/ guest'[j] = Off
          \/ guest[j].thread # "none" /\ guest'[j].sample = guest[j].sample
      <4>1. CASE ThreadStarts(j)
        BY <1>1, <4>1 DEF ThreadStarts, Guests
      <4>2. CASE LinuxDone(j) \/ WindowsOpensRun(j)
        BY <1>1, <4>2 DEF LinuxDone, WindowsOpensRun, Guests
      <4>3. CASE WindowsWritesRun(j)
        BY <1>1, <4>3 DEF WindowsWritesRun, Guests
      <4>4. CASE ThreadDies(j) \/ GuestDies(j)
        BY <1>1, <4>4 DEF ThreadDies, GuestDies, Guests
      <4> QED
        BY <2>8, <4>1, <4>2, <4>3, <4>4 DEF GuestStep
    <3> QED
      BY <1>2, <3>1, <3>2 DEF BoxReady, Off
  <2> QED
    BY <2>1, <2>2, <2>3, <2>4, <2>5, <2>6, <2>7, <2>8 DEF BoxStep
<1>4. \A k \in Jobs \ {j} : box'[k] = box[k] /\ guest'[k] = guest[k]
  BY <1>1, BoxFrame DEF TInv, TypeOK
<1>5. \A k \in Jobs : BoxReady(k)'
  BY <1>3, <1>4, ReadyParts DEF BoxReady, TInv
<1> QED
  BY <1>5 DEF BoxPlaced, GuestLoaded, BoxReady

Places == {"idle", "number", "copy", "meta", "start", "wait", "read", "clean", "dead"}
Numbered == {"copy", "meta", "start", "wait", "read", "clean"}
ProcRecs == [pc : Places, next : 0..MaxTask, os : {"linux", "windows"}]
TaskRecs == [bytes : MaybeBytes, status : Statuses, report : Reports \union {None},
             cleaned : BOOLEAN]

LEMMA TypeParts ==
  TypeOK <=> /\ BoxTypeOK /\ disk \in Bytes /\ changes \in 0..MaxChanges
             /\ proc \in [Procs -> ProcRecs] /\ task \in [Jobs -> TaskRecs]
             /\ orphan \subseteq Jobs
BY DEF TypeOK, Places, ProcRecs, TaskRecs

\* A submission works on a job of its process.
LEMMA OwnJob ==
  ASSUME TInv, NEW p \in Procs, proc[p].pc \in Numbered
  PROVE  JobOf(p) \in Jobs /\ HomeOf(p) \in Dirs /\ JobOf(p) = <<p, proc[p].next>>
<1>1. proc[p].next \in 0..MaxTask /\ proc[p].next # 0
  BY TypeParts DEF TInv, ProcPlaced, ProcRecs, Numbered
<1>2. proc[p].next \in 1..MaxTask
  BY <1>1, DetonationAssumption
<1> QED
  BY <1>2 DEF JobOf, HomeOf, Jobs, Dirs

\* A step of a process is within its own record.
LEMMA ProcStep ==
  ASSUME TInv, NEW p \in Procs, Validate(p) \/ Submission(p) \/ Dies(p)
  PROVE  /\ proc' = [proc EXCEPT ![p] = proc'[p]]
         /\ proc'[p] \in ProcRecs
         /\ proc'[p].pc = "number" => proc'[p].next < MaxTask
         /\ proc'[p].pc \in Numbered => proc'[p].next # 0
         /\ disk' = disk /\ changes' = changes /\ guest' = guest
<1>1. proc \in [Procs -> ProcRecs] /\ proc[p] \in ProcRecs
      /\ (proc[p].pc = "number" => proc[p].next < MaxTask)
      /\ (proc[p].pc \in Numbered => proc[p].next # 0)
  BY TypeParts DEF TInv, ProcPlaced, Numbered
<1> USE DEF Place, Go, Numbered, Places
<1>2. CASE Validate(p)
  <2>1. OsOf[disk] \in {"linux", "windows"}
    BY <1>2, DetonationAssumption DEF Validate, TInv, TypeOK
  <2>2. proc' = [proc EXCEPT ![p].pc = "number", ![p].os = OsOf[disk]] /\ proc[p].next < MaxTask
    BY <1>2 DEF Validate
  <2>3. proc'[p] \in ProcRecs /\ proc'[p].pc = "number" /\ proc'[p].next = proc[p].next
    BY <1>1, <2>1, <2>2 DEF ProcRecs
  <2> QED
    BY <1>1, <1>2, <2>2, <2>3 DEF Validate, boxVars
<1>3. CASE TakeNumber(p)
  <2>1. proc[p].next < MaxTask /\ proc[p].next \in 0..MaxTask
    BY <1>1, <1>3 DEF TakeNumber, ProcRecs
  <2>2. proc[p].next + 1 \in 0..MaxTask /\ proc[p].next + 1 # 0
    BY <2>1, DetonationAssumption
  <2>3. proc'[p] \in ProcRecs /\ proc'[p].pc = "copy" /\ proc'[p].next # 0
    BY <1>1, <1>3, <2>2 DEF TakeNumber, ProcRecs
  <2>4. proc' = [proc EXCEPT ![p] = proc'[p]]
    BY <1>1, <1>3 DEF TakeNumber
  <2> QED
    BY <1>1, <1>3, <2>3, <2>4 DEF TakeNumber, boxVars
<1>4. CASE (Submission(p) /\ ~TakeNumber(p)) \/ Dies(p)
  <2>1. \E place \in Places \ {"number"} :
          Go(p, place) /\ (place \in Numbered => proc[p].pc \in Numbered)
    <3>1. CASE CopySample(p) \/ WriteMeta(p)
      BY <3>1 DEF CopySample, WriteMeta
    <3>2. CASE StartContainer(p) \/ StartFails(p)
      BY <3>2 DEF StartContainer, StartFails
    <3>3. CASE ContainerReturns(p) \/ ContainerTimeout(p)
      BY <3>3 DEF ContainerReturns, ContainerTimeout
    <3>4. CASE ReadReport(p)
      BY <3>4 DEF ReadReport
    <3>5. CASE Cleanup(p)
      BY <3>5 DEF Cleanup
    <3>6. CASE StagingFails(p) \/ Dies(p)
      <4>1. Go(p, "idle") \/ Go(p, "dead")
        BY <3>6 DEF StagingFails, Dies
      <4> QED
        BY <4>1
    <3> QED
      BY <1>4, <3>1, <3>2, <3>3, <3>4, <3>5, <3>6 DEF Submission
  <2>2. PICK place \in Places \ {"number"} :
          /\ proc' = [proc EXCEPT ![p].pc = place]
          /\ place \in Numbered => proc[p].pc \in Numbered
    BY <2>1
  <2>3. proc'[p] \in ProcRecs /\ proc'[p].pc = place /\ proc'[p].next = proc[p].next
    BY <1>1, <2>2 DEF ProcRecs
  <2>4. proc' = [proc EXCEPT ![p] = proc'[p]]
    BY <1>1, <2>2
  <2>5. disk' = disk /\ changes' = changes /\ guest' = guest
    BY <1>4 DEF Submission, CopySample, WriteMeta, StagingFails, StartContainer, StartFails,
       ContainerReturns, ContainerTimeout, ReadReport, Cleanup, Dies, boxVars
  <2> QED
    BY <1>1, <2>2, <2>3, <2>4, <2>5
<1> QED
  BY <1>2, <1>3, <1>4

\* Only what the submission of p stages and cleans up changes in the directories.
LEMMA ProcTypes ==
  ASSUME TInv, NEW p \in Procs, Validate(p) \/ Submission(p) \/ Dies(p)
  PROVE  /\ dir' \in [Dirs -> TaskDirs] /\ task' \in [Jobs -> TaskRecs] /\ orphan' \subseteq Jobs
         /\ box' = box
            \/ (proc[p].pc \in Numbered
                /\ box' = [box EXCEPT ![JobOf(p)].pc = "start", ![JobOf(p)].os = proc[p].os])
<1>1. /\ dir \in [Dirs -> TaskDirs] /\ task \in [Jobs -> TaskRecs] /\ orphan \subseteq Jobs
      /\ disk \in MaybeBytes /\ proc[p] \in ProcRecs
  BY BoxTypes, TypeParts DEF TInv, MaybeBytes
<1>2. proc[p].pc \in Numbered =>
        JobOf(p) \in Jobs /\ HomeOf(p) \in Dirs /\ dir[HomeOf(p)] \in TaskDirs
        /\ task[JobOf(p)] \in TaskRecs
  BY <1>1, OwnJob
<1> DEFINE j == JobOf(p)
           d == HomeOf(p)
<1>3. CASE Validate(p) \/ TakeNumber(p) \/ StartFails(p) \/ ContainerReturns(p)
  BY <1>1, <1>3 DEF Validate, TakeNumber, StartFails, ContainerReturns, boxVars
<1>4. CASE CopySample(p)
  <2>1. proc[p].pc \in Numbered /\ box' = box /\ orphan' = orphan
    BY <1>4 DEF CopySample, Place, Numbered
  <2>2. dir' \in [Dirs -> TaskDirs]
    BY <1>1, <1>2, <1>4, <2>1 DEF CopySample, TaskDirs
  <2>3. task' \in [Jobs -> TaskRecs]
    BY <1>1, <1>2, <1>4, <2>1 DEF CopySample, TaskRecs
  <2> QED
    BY <1>1, <2>1, <2>2, <2>3
<1>5. CASE WriteMeta(p)
  <2>1. proc[p].pc \in Numbered /\ box' = box /\ orphan' = orphan
    BY <1>5 DEF WriteMeta, Place, Numbered
  <2>2. dir' \in [Dirs -> TaskDirs]
    <3>1. dir[d].sample \in MaybeBytes
      BY <1>2, <2>1 DEF TaskDirs
    <3>2. dir' = [dir EXCEPT ![d].meta = dir[d].sample]
      BY <1>5 DEF WriteMeta
    <3> QED
      BY <1>1, <1>2, <2>1, <3>1, <3>2 DEF TaskDirs
  <2>3. task' \in [Jobs -> TaskRecs]
    BY <1>1, <1>2, <1>5, <2>1 DEF WriteMeta, TaskRecs, Statuses
  <2> QED
    BY <1>1, <2>1, <2>2, <2>3
<1>6. CASE StagingFails(p)
  <2>1. proc[p].pc \in Numbered /\ box' = box /\ orphan' = orphan /\ task' = task
    BY <1>6 DEF StagingFails, Numbered
  <2>2. dir' = dir \/ dir' = [dir EXCEPT ![d].sample = disk]
    BY <1>6 DEF StagingFails
  <2>3. dir' \in [Dirs -> TaskDirs]
    BY <1>1, <1>2, <2>1, <2>2 DEF TaskDirs
  <2> QED
    BY <1>1, <2>1, <2>3
<1>7. CASE StartContainer(p)
  BY <1>1, <1>7 DEF StartContainer, Place, Numbered
<1>8. CASE ContainerTimeout(p) \/ Dies(p)
  <2>1. dir' = dir /\ box' = box /\ task' = task
    BY <1>8 DEF ContainerTimeout, Dies, boxVars
  <2>2. orphan' = orphan \/ (proc[p].pc \in Numbered /\ orphan' = orphan \union {j})
    BY <1>8 DEF ContainerTimeout, Dies, Place, Numbered
  <2> QED
    BY <1>1, <1>2, <2>1, <2>2
<1>9. CASE ReadReport(p)
  <2>1. proc[p].pc \in Numbered /\ dir' = dir /\ box' = box /\ orphan' = orphan
    BY <1>9 DEF ReadReport, Place, Numbered, boxVars
  <2>2. task' \in [Jobs -> TaskRecs]
    <3> DEFINE r == dir[d].report
    <3>1. r \in Reports \union {None}
      BY <1>2, <2>1 DEF TaskDirs
    <3>2. \/ task' = [task EXCEPT ![j].status = "failed_analysis"]
          \/ task' = [task EXCEPT ![j].status = "reported", ![j].report = r]
          \/ task' = task
      BY <1>9 DEF ReadReport
    <3> HIDE DEF r
    <3> QED
      BY <1>1, <1>2, <2>1, <3>1, <3>2 DEF TaskRecs, Statuses
  <2> QED
    BY <1>1, <2>1, <2>2
<1>10. CASE Cleanup(p)
  <2>1. proc[p].pc \in Numbered /\ box' = box /\ orphan' = orphan
    BY <1>10 DEF Cleanup, Place, Numbered
  <2>2. dir' \in [Dirs -> TaskDirs]
    BY <1>1, <1>2, <1>10, <2>1 DEF Cleanup, TaskDirs, MaybeBytes
  <2>3. task' \in [Jobs -> TaskRecs]
    BY <1>1, <1>2, <1>10, <2>1 DEF Cleanup, TaskRecs
  <2> QED
    BY <1>1, <2>1, <2>2, <2>3
<1> QED
  BY <1>3, <1>4, <1>5, <1>6, <1>7, <1>8, <1>9, <1>10 DEF Submission

LEMMA TInvKept == TInv /\ [Next]_vars => TInv'
<1> SUFFICES ASSUME TInv, [Next]_vars
             PROVE  TInv'
  OBVIOUS
<1>1. ASSUME NEW p \in Procs, Validate(p) \/ Submission(p) \/ Dies(p)
      PROVE  TInv'
  <2>0. /\ box \in [Jobs -> Boxes] /\ guest \in [Jobs -> Guests] /\ proc \in [Procs -> ProcRecs]
        /\ disk \in Bytes /\ changes \in 0..MaxChanges
    BY BoxTypes, TypeParts DEF TInv
  <2>1. /\ proc' = [proc EXCEPT ![p] = proc'[p]]
        /\ proc'[p] \in ProcRecs
        /\ proc'[p].pc = "number" => proc'[p].next < MaxTask
        /\ proc'[p].pc \in Numbered => proc'[p].next # 0
        /\ disk' = disk /\ changes' = changes /\ guest' = guest
    BY <1>1, ProcStep
  <2>2. proc' \in [Procs -> ProcRecs] /\ ProcPlaced'
    BY <2>0, <2>1 DEF TInv, ProcPlaced, Numbered
  <2>3. /\ dir' \in [Dirs -> TaskDirs] /\ task' \in [Jobs -> TaskRecs] /\ orphan' \subseteq Jobs
        /\ box' = box
           \/ (proc[p].pc \in Numbered
               /\ box' = [box EXCEPT ![JobOf(p)].pc = "start", ![JobOf(p)].os = proc[p].os])
    BY <1>1, ProcTypes
  <2>4. box' \in [Jobs -> Boxes] /\ \A j \in Jobs : BoxReady(j)'
    <3>1. \A j \in Jobs : BoxReady(j)
      BY ReadyParts DEF TInv
    <3>2. CASE box' = box
      BY <2>0, <2>1, <3>1, <3>2 DEF BoxReady
    <3>3. CASE /\ proc[p].pc \in Numbered
               /\ box' = [box EXCEPT ![JobOf(p)].pc = "start", ![JobOf(p)].os = proc[p].os]
      <4>1. JobOf(p) \in Jobs /\ proc[p].os \in {"linux", "windows"}
        BY <2>0, <3>3, OwnJob DEF ProcRecs
      <4>2. box' \in [Jobs -> Boxes]
        <5> DEFINE J == JobOf(p)
                   B == [box[J] EXCEPT !.pc = "start", !.os = proc[p].os]
        <5>1. B \in Boxes
          BY <2>0, <4>1 DEF Boxes
        <5>2. box' = [box EXCEPT ![J] = B]
          BY <2>0, <3>3, <4>1
        <5> QED
          BY <2>0, <4>1, <5>1, <5>2
      <4>3. box'[JobOf(p)].pc = "start" /\ \A j \in Jobs \ {JobOf(p)} : box'[j] = box[j]
        BY <2>0, <3>3, <4>1 DEF Boxes
      <4> QED
        BY <2>1, <3>1, <4>2, <4>3 DEF BoxReady
    <3> QED
      BY <2>3, <3>2, <3>3
  <2>5. BoxTypeOK'
    BY <2>0, <2>1, <2>3, <2>4 DEF BoxTypeOK, TaskDirs, Boxes, Guests
  <2>6. TypeOK'
    BY <2>0, <2>1, <2>2, <2>3, <2>5 DEF TypeOK, ProcRecs, Places, TaskRecs
  <2> QED
    BY <2>2, <2>4, <2>6 DEF TInv, BoxPlaced, GuestLoaded, BoxReady
<1>2. ASSUME NEW j \in Jobs, BoxStep(j) \/ GuestStep(j), UNCHANGED <<disk, changes, proc, task, orphan>>
      PROVE  TInv'
  BY <1>2, BoxTypesKept, ReadyKept DEF TInv, TypeOK, ProcPlaced
<1>3. CASE ChangeFile
  <2>1. changes' \in 0..MaxChanges /\ disk' \in Bytes
    BY <1>3, BackendAssumption DEF ChangeFile, TInv, TypeOK
  <2> QED
    BY <1>3, <2>1 DEF ChangeFile, boxVars, TInv, TypeOK, BoxTypeOK, ProcPlaced, BoxPlaced, GuestLoaded
<1>4. CASE UNCHANGED vars
  BY <1>4 DEF vars, TInv, TypeOK, BoxTypeOK, ProcPlaced, BoxPlaced, GuestLoaded
<1> QED
  BY <1>1, <1>2, <1>3, <1>4 DEF Next

LEMMA InitTInv == Init => TInv
<1> SUFFICES ASSUME Init
             PROVE  TInv
  OBVIOUS
<1>1. BoxTypeOK
  BY DEF Init, BoxInit, BoxTypeOK, Off, MaybeBytes
<1>2. TypeOK
  BY <1>1, BackendAssumption, DetonationAssumption DEF Init, TypeOK, Statuses, MaybeBytes
<1>3. ProcPlaced /\ BoxPlaced /\ GuestLoaded
  BY DEF Init, BoxInit, ProcPlaced, BoxPlaced, GuestLoaded, Off
<1> QED
  BY <1>2, <1>3 DEF TInv

LEMMA TypesInvariant == Spec => []TInv
BY InitTInv, TInvKept, PTL DEF Spec

\* submit_file, the container scripts and the guest agents keep their types, with one
\* task root for all processes as with one for each: no step uses a number, a hash, a
\* sample or a report before it is there.
THEOREM BackendTypeCorrect == Spec => []TypeOK
<1>1. TInv => TypeOK
  BY DEF TInv
<1> QED
  BY <1>1, TypesInvariant, PTL

-----------------------------------------------------------------------------
(* A task root of one's own. *)

\* A report is by the container of the number, names the bytes submitted under it, and
\* when it counts as a valid execution it is of a guest that ran them to the end.
Sound(r, j) ==
  /\ r.by = j /\ r.target = task[j].bytes
  /\ r.ran \in {None, task[j].bytes}
  /\ ExecutionValid(r) => r.clean /\ r.ran = task[j].bytes

\* What the submission, its container and the guest in it hold are the submitted bytes.
BytesKept ==
  \A j \in Jobs :
    /\ task[j].bytes # None => dir[j].sample \in {None, task[j].bytes}
    /\ {dir[j].meta, box[j].meta, guest[j].sample} \subseteq {None, task[j].bytes}
    /\ \A c \in {dir[j].archive, dir[j].unpacked} : c # None => c.bytes = task[j].bytes

ReportsSound ==
  \A j \in Jobs :
    \A r \in {box[j].report, dir[j].report, task[j].report} : r # None => Sound(r, j)

\* The record of a number no submission has used yet.
Unused(j) ==
  task[j].bytes = None /\ task[j].status = "none" /\ task[j].report = None /\ ~task[j].cleaned

\* Where a submission is, and what _tasks says of its number.
TasksPlaced ==
  /\ \A p \in Procs, n \in 1..MaxTask : proc[p].next < n => Unused(<<p, n>>)
  /\ \A p \in Procs :
       /\ Place(p, "copy") => Unused(JobOf(p))
       /\ Place(p, "meta") => task[JobOf(p)].status = "none"
       /\ proc[p].pc \in {"start", "wait", "read"} => task[JobOf(p)].status = "pending"
       /\ proc[p].pc \in {"meta", "start", "wait", "read"} => task[JobOf(p)].bytes # None
       /\ proc[p].pc \in {"meta", "start", "wait", "read", "clean"} => ~task[JobOf(p)].cleaned
  /\ \A j \in Jobs : task[j].report # None => task[j].status = "reported"

\* A container whose client does not wait for it has outlived it.
Attended ==
  \A j \in Jobs : Running(j) => j \in orphan \/ (Place(j[1], "wait") /\ proc[j[1]].next = j[2])

OwnInv == TInv /\ BytesKept /\ ReportsSound /\ TasksPlaced /\ Attended /\ BytesRemoved

\* With task roots of their own, the directories are named by the jobs.
LEMMA OwnDirs == ~SharedRoot => Dirs = Jobs /\ \A j : DirOf(j) = j
BY DEF Dirs, DirOf

\* What BytesKept and ReportsSound say of one job.
Holding(j) ==
  /\ task[j].bytes # None => dir[j].sample \in {None, task[j].bytes}
  /\ dir[j].meta \in {None, task[j].bytes}
  /\ box[j].meta \in {None, task[j].bytes}
  /\ guest[j].sample \in {None, task[j].bytes}
  /\ dir[j].archive # None => dir[j].archive.bytes = task[j].bytes
  /\ dir[j].unpacked # None => dir[j].unpacked.bytes = task[j].bytes

Sounds(j) ==
  /\ box[j].report # None => Sound(box[j].report, j)
  /\ dir[j].report # None => Sound(dir[j].report, j)
  /\ task[j].report # None => Sound(task[j].report, j)

LEMMA HoldingParts ==
  (BytesKept /\ ReportsSound) <=> \A j \in Jobs : Holding(j) /\ Sounds(j)
BY DEF BytesKept, ReportsSound, Holding, Sounds

\* What a script writes is sound when what it has read is.
LEMMA ScriptReports ==
  ASSUME NEW j \in Jobs, Holding(j), box[j].meta # None
  PROVE  Sound(ErrorReport(j), j) /\ Sound(Shaped(j, dir[j].unpacked), j)
<1>1. box[j].meta = task[j].bytes
  BY DEF Holding
<1>2. Sound(ErrorReport(j), j)
  BY <1>1 DEF Sound, ErrorReport, ExecutionValid
<1>3. Sound(Shaped(j, dir[j].unpacked), j)
  <2> DEFINE c == dir[j].unpacked
  <2>1. c # None => c.bytes = task[j].bytes
    BY DEF Holding
  <2> HIDE DEF c
  <2>2. Sound(Shaped(j, c), j)
    BY <1>1, <2>1 DEF Sound, Shaped, ExecutionValid
  <2> QED
    BY <2>2 DEF c
<1> QED
  BY <1>2, <1>3

LEMMA TruncatedSound ==
  ASSUME NEW j \in Jobs, NEW r \in Reports, Sound(r, j)
  PROVE  Sound([r EXCEPT !.whole = FALSE], j)
BY DEF Sound, Reports, ExecutionValid

\* A container, running on or not, only ever adds what is about the submitted bytes.
LEMMA BoxKeepsBytes ==
  ASSUME TInv, BytesKept, ReportsSound, ~SharedRoot, NEW j \in Jobs, BoxStep(j) \/ GuestStep(j),
         UNCHANGED task
  PROVE  (BytesKept /\ ReportsSound)'
<1>1. /\ dir \in [Jobs -> TaskDirs] /\ box \in [Jobs -> Boxes] /\ guest \in [Jobs -> Guests]
      /\ task[j] \in TaskRecs /\ DirOf(j) = j
  BY BoxTypes, TypeParts, OwnDirs DEF TInv
<1>2. \A k \in Jobs : Holding(k) /\ Sounds(k)
  BY HoldingParts
<1>3. BoxFlow(j)
  BY BoxFlowHolds
<1>4. \A k \in Jobs \ {j} : dir'[k] = dir[k] /\ box'[k] = box[k] /\ guest'[k] = guest[k]
  BY <1>1, BoxFrame DEF TInv, TypeOK
<1>5. \A k \in Jobs \ {j} : Holding(k)' /\ Sounds(k)'
  BY <1>2, <1>4 DEF Holding, Sounds, Sound
<1>6. Holding(j)'
  <2>1. Holding(j)
    BY <1>2
  <2>2. box'[j].meta \in {None, task[j].bytes} /\ dir'[j].meta \in {None, task[j].bytes}
    BY <1>1, <1>3, <2>1 DEF BoxFlow, Holding
  <2>3. task[j].bytes # None => dir'[j].sample \in {None, task[j].bytes}
    BY <1>1, <1>3, <2>1 DEF BoxFlow, Holding
  <2>4. guest'[j].sample \in {None, task[j].bytes}
    BY <1>1, <1>3, <2>1 DEF BoxFlow, Holding
  <2>5. dir'[j].archive # None => dir'[j].archive.bytes = task[j].bytes
    BY <1>1, <1>3, <2>1 DEF BoxFlow, Holding
  <2>6. dir'[j].unpacked # None => dir'[j].unpacked.bytes = task[j].bytes
    BY <1>1, <1>3, <2>1 DEF BoxFlow, Holding
  <2> QED
    BY <2>2, <2>3, <2>4, <2>5, <2>6 DEF Holding
<1>7. Sounds(j)'
  <2>1. Sounds(j) /\ Holding(j)
    BY <1>2
  <2>2. \A r : Sound(r, j)' <=> Sound(r, j)
    BY DEF Sound, ExecutionValid
  <2>3. box'[j].report # None => Sound(box'[j].report, j)
    BY <1>1, <1>3, <2>1, ScriptReports DEF BoxFlow, Sounds
  <2>4. dir'[j].report # None => Sound(dir'[j].report, j)
    <3>1. CASE dir'[j].report = dir[j].report
      BY <2>1, <3>1 DEF Sounds
    <3>2. CASE /\ box[j].report # None
               /\ dir'[j].report \in {box[j].report, [box[j].report EXCEPT !.whole = FALSE]}
      <4>1. box[j].report \in Reports /\ Sound(box[j].report, j)
        BY <1>1, <2>1, <3>2 DEF Boxes, Sounds
      <4> QED
        BY <3>2, <4>1, TruncatedSound
    <3> QED
      BY <1>1, <1>3, <3>1, <3>2 DEF BoxFlow
  <2> QED
    BY <2>1, <2>2, <2>3, <2>4 DEF Sounds
<1>8. \A k \in Jobs : Holding(k)' /\ Sounds(k)'
  BY <1>5, <1>6, <1>7
<1> QED
  BY <1>8 DEF BytesKept, ReportsSound, Holding, Sounds

\* Whatever a process does, it does to the job of its submission.
LEMMA ProcFrame ==
  ASSUME TInv, NEW p \in Procs, Validate(p) \/ Submission(p) \/ Dies(p), ~SharedRoot
  PROVE  /\ \A k \in Jobs : proc[p].pc \in Numbered /\ k # JobOf(p)
              => dir'[k] = dir[k] /\ task'[k] = task[k] /\ box'[k] = box[k]
         /\ proc[p].pc \notin Numbered => UNCHANGED <<dir, task, box>>
<1>1. /\ dir \in [Jobs -> TaskDirs] /\ task \in [Jobs -> TaskRecs] /\ box \in [Jobs -> Boxes]
      /\ HomeOf(p) = JobOf(p)
  BY BoxTypes, TypeParts, OwnDirs DEF TInv, HomeOf
<1>2. CASE Validate(p) \/ TakeNumber(p) \/ StartFails(p) \/ ContainerReturns(p)
           \/ ContainerTimeout(p) \/ Dies(p)
  BY <1>2 DEF Validate, TakeNumber, StartFails, ContainerReturns, ContainerTimeout, Dies, boxVars
<1>3. CASE CopySample(p) \/ WriteMeta(p)
  BY <1>1, <1>3 DEF CopySample, WriteMeta, Place, Numbered
<1>4. CASE StagingFails(p)
  <2>1. dir' = dir \/ dir' = [dir EXCEPT ![HomeOf(p)].sample = disk]
    BY <1>4 DEF StagingFails
  <2> QED
    BY <1>1, <1>4, <2>1 DEF StagingFails, Numbered
<1>5. CASE StartContainer(p)
  BY <1>1, <1>5 DEF StartContainer, Place, Numbered
<1>6. CASE ReadReport(p)
  <2>1. \/ task' = [task EXCEPT ![JobOf(p)].status = "failed_analysis"]
        \/ task' = [task EXCEPT ![JobOf(p)].status = "reported",
                                ![JobOf(p)].report = dir[HomeOf(p)].report]
        \/ task' = task
    BY <1>6 DEF ReadReport
  <2> QED
    BY <1>1, <1>6, <2>1 DEF ReadReport, Place, Numbered, boxVars
<1>7. CASE Cleanup(p)
  BY <1>1, <1>7 DEF Cleanup, Place, Numbered
<1> QED
  BY <1>2, <1>3, <1>4, <1>5, <1>6, <1>7 DEF Submission

\* What a submission stages, reads and removes is about its bytes, too.
LEMMA ProcKeepsBytes ==
  ASSUME TInv, BytesKept, ReportsSound, TasksPlaced, ~SharedRoot,
         NEW p \in Procs, Validate(p) \/ Submission(p) \/ Dies(p)
  PROVE  (BytesKept /\ ReportsSound)'
<1>1. /\ dir \in [Jobs -> TaskDirs] /\ task \in [Jobs -> TaskRecs] /\ box \in [Jobs -> Boxes]
      /\ disk \in Bytes /\ guest' = guest /\ HomeOf(p) = JobOf(p)
  BY BoxTypes, TypeParts, OwnDirs, ProcStep DEF TInv, HomeOf
<1>2. \A k \in Jobs : Holding(k) /\ Sounds(k)
  BY HoldingParts
<1>3. ASSUME NEW k \in Jobs, dir'[k] = dir[k], task'[k] = task[k], box'[k] = box[k]
      PROVE  Holding(k)' /\ Sounds(k)'
  BY <1>1, <1>2, <1>3 DEF Holding, Sounds, Sound
<1>4. ASSUME NEW j \in Jobs, j = JobOf(p), proc[p].pc \in Numbered
      PROVE  Holding(j)' /\ Sounds(j)'
  <2>1. /\ HomeOf(p) = j /\ JobOf(p) = j /\ dir[j] \in TaskDirs /\ task[j] \in TaskRecs /\ box[j] \in Boxes
        /\ Holding(j) /\ Sounds(j)
    BY <1>1, <1>2, <1>4
  <2>2. ~Validate(p) /\ ~TakeNumber(p)
    BY <1>4 DEF Validate, TakeNumber, Place, Numbered
  <2>3. CASE CopySample(p)
    <3>1. task[j].bytes = None /\ task[j].report = None
      BY <2>1, <2>3 DEF CopySample, TasksPlaced, Unused
    <3>2. /\ dir[j].meta = None /\ box[j].meta = None /\ guest[j].sample = None
          /\ dir[j].archive = None /\ dir[j].unpacked = None
      <4>1. dir[j].archive # None => dir[j].archive.bytes \in Bytes
        BY <2>1 DEF TaskDirs, Collections
      <4>2. dir[j].unpacked # None => dir[j].unpacked.bytes \in Bytes
        BY <2>1 DEF TaskDirs, Collections
      <4> QED
        BY <2>1, <3>1, <4>1, <4>2, DetonationAssumption DEF Holding
    <3>3. box[j].report = None /\ dir[j].report = None
      <4>1. \A r \in Reports : r.target \in Bytes
        BY DEF Reports
      <4>2. box[j].report \in Reports \union {None} /\ dir[j].report \in Reports \union {None}
        BY <2>1 DEF TaskDirs, Boxes
      <4> QED
        BY <2>1, <3>1, <4>1, <4>2, DetonationAssumption DEF Sounds, Sound
    <3>4. /\ dir'[j] = [dir[j] EXCEPT !.sample = disk] /\ task'[j] = [task[j] EXCEPT !.bytes = disk]
          /\ box' = box
      BY <1>1, <2>1, <2>3 DEF CopySample
    <3>5. /\ dir'[j].sample = disk /\ task'[j].bytes = disk /\ task'[j].report = None
          /\ dir'[j].meta = None /\ dir'[j].archive = None /\ dir'[j].unpacked = None
          /\ dir'[j].report = None
      BY <2>1, <3>1, <3>2, <3>3, <3>4 DEF TaskDirs, TaskRecs
    <3> QED
      BY <1>1, <3>2, <3>3, <3>4, <3>5 DEF Holding, Sounds
  <2>4. ASSUME /\ box'[j].meta = box[j].meta /\ box'[j].report = box[j].report
               /\ task'[j].bytes = task[j].bytes /\ task'[j].report \in {task[j].report, dir[j].report}
               /\ dir'[j].report = dir[j].report
               /\ dir'[j].archive \in {dir[j].archive, None}
               /\ dir'[j].unpacked \in {dir[j].unpacked, None}
               /\ \/ dir'[j].sample \in {dir[j].sample, None}
                  \/ task[j].bytes = None
               /\ dir'[j].meta = dir[j].meta
                  \/ (task[j].bytes # None /\ dir[j].sample # None /\ dir'[j].meta = dir[j].sample)
        PROVE  Holding(j)' /\ Sounds(j)'
    <3>1. Holding(j)'
      BY <1>1, <2>1, <2>4 DEF Holding
    <3>2. \A r : Sound(r, j)' <=> Sound(r, j)
      BY <2>4 DEF Sound, ExecutionValid
    <3>3. Sounds(j)'
      BY <2>1, <2>4, <3>2 DEF Sounds
    <3> QED
      BY <3>1, <3>3
  <2>5. CASE WriteMeta(p)
    <3>1. task[j].bytes # None /\ dir[j].sample # None /\ box' = box
      BY <1>1, <2>1, <2>5 DEF WriteMeta, TasksPlaced, Place
    <3>2. dir'[j] = [dir[j] EXCEPT !.meta = dir[j].sample]
          /\ task'[j] = [task[j] EXCEPT !.status = "pending"]
      BY <1>1, <2>1, <2>5 DEF WriteMeta
    <3> QED
      BY <2>1, <2>4, <3>1, <3>2 DEF TaskDirs, TaskRecs
  <2>6. CASE StagingFails(p)
    <3>1. task' = task /\ box' = box
      BY <2>6 DEF StagingFails
    <3>2. dir' = dir \/ (Place(p, "copy") /\ dir' = [dir EXCEPT ![j].sample = disk])
      BY <1>1, <2>1, <2>6 DEF StagingFails
    <3>3. Place(p, "copy") => task[j].bytes = None
      BY <2>1 DEF TasksPlaced, Unused
    <3> QED
      BY <1>1, <2>1, <2>4, <3>1, <3>2, <3>3 DEF TaskDirs
  <2>7. CASE StartContainer(p)
    <3>1. dir' = dir /\ task' = task
      BY <2>7 DEF StartContainer
    <3>2. box'[j].meta = box[j].meta /\ box'[j].report = box[j].report
      BY <1>1, <2>1, <2>7 DEF StartContainer, Boxes
    <3> QED
      BY <2>4, <3>1, <3>2
  <2>8. CASE StartFails(p) \/ ContainerReturns(p) \/ ContainerTimeout(p) \/ Dies(p)
    BY <1>3, <2>1, <2>8 DEF StartFails, ContainerReturns, ContainerTimeout, Dies, boxVars
  <2>9. CASE ReadReport(p)
    <3>1. dir' = dir /\ box' = box
      BY <2>9 DEF ReadReport, boxVars
    <3>2. \/ task' = [task EXCEPT ![j].status = "failed_analysis"]
          \/ task' = [task EXCEPT ![j].status = "reported", ![j].report = dir[j].report]
          \/ task' = task
      BY <1>1, <2>1, <2>9 DEF ReadReport
    <3>3. task'[j].bytes = task[j].bytes /\ task'[j].report \in {task[j].report, dir[j].report}
      <4> DEFINE r == dir[j].report
      <4>1. \/ task' = [task EXCEPT ![j].status = "failed_analysis"]
            \/ task' = [task EXCEPT ![j].status = "reported", ![j].report = r]
            \/ task' = task
        BY <3>2
      <4> HIDE DEF r
      <4>2. task'[j].bytes = task[j].bytes /\ task'[j].report \in {task[j].report, r}
        BY <1>1, <2>1, <4>1 DEF TaskRecs
      <4> QED
        BY <4>2 DEF r
    <3> QED
      BY <2>4, <3>1, <3>3
  <2>10. CASE Cleanup(p)
    <3>1. box' = box
      BY <2>10 DEF Cleanup
    <3>2. task'[j] = [task[j] EXCEPT !.cleaned = TRUE]
      BY <1>1, <2>1, <2>10 DEF Cleanup
    <3>3. dir'[j] = [dir[j] EXCEPT !.sample = None, !.overlay = None, !.archive = None,
                                   !.unpacked = None]
      BY <1>1, <2>1, <2>10 DEF Cleanup
    <3> QED
      BY <2>1, <2>4, <3>1, <3>2, <3>3 DEF TaskDirs, TaskRecs
  <2> QED
    BY <2>2, <2>3, <2>5, <2>6, <2>7, <2>8, <2>9, <2>10 DEF Submission
<1>5. \A k \in Jobs : Holding(k)' /\ Sounds(k)'
  <2> SUFFICES ASSUME NEW k \in Jobs
               PROVE  Holding(k)' /\ Sounds(k)'
    OBVIOUS
  <2>1. CASE proc[p].pc \notin Numbered \/ k # JobOf(p)
    BY <1>3, <2>1, ProcFrame
  <2>2. CASE proc[p].pc \in Numbered /\ k = JobOf(p)
    BY <1>4, <2>2
  <2> QED
    BY <2>1, <2>2
<1> QED
  BY <1>5 DEF BytesKept, ReportsSound, Holding, Sounds

\* What TasksPlaced says of one process, and of one job.
ProcTasks(p) ==
  /\ \A n \in 1..MaxTask : proc[p].next < n => Unused(<<p, n>>)
  /\ proc[p].pc = "copy" => Unused(JobOf(p))
  /\ proc[p].pc = "meta" => task[JobOf(p)].status = "none"
  /\ proc[p].pc \in {"start", "wait", "read"} => task[JobOf(p)].status = "pending"
  /\ proc[p].pc \in {"meta", "start", "wait", "read"} => task[JobOf(p)].bytes # None
  /\ proc[p].pc \in {"meta", "start", "wait", "read", "clean"} => ~task[JobOf(p)].cleaned

ReportedOnly(j) == task[j].report # None => task[j].status = "reported"

LEMMA TasksParts ==
  TasksPlaced <=> (\A p \in Procs : ProcTasks(p)) /\ (\A j \in Jobs : ReportedOnly(j))
BY DEF TasksPlaced, ProcTasks, ReportedOnly, Place

LEMMA TasksPlacedKept ==
  ASSUME TInv, TasksPlaced, ~SharedRoot, NEW p \in Procs, Validate(p) \/ Submission(p) \/ Dies(p)
  PROVE  TasksPlaced'
<1>1. /\ task \in [Jobs -> TaskRecs] /\ proc \in [Procs -> ProcRecs]
      /\ proc' = [proc EXCEPT ![p] = proc'[p]]
  BY TypeParts, ProcStep DEF TInv
<1>2. /\ \A q \in Procs : ProcTasks(q)
      /\ \A k \in Jobs : ReportedOnly(k)
  BY TasksParts
<1>3. \A k \in Jobs : k # JobOf(p) => task'[k] = task[k]
  BY ProcFrame
<1>4. ASSUME NEW q \in Procs, q # p
      PROVE  ProcTasks(q)'
  <2>1. ProcTasks(q) /\ proc'[q] = proc[q]
    BY <1>1, <1>2, <1>4
  <2>2. \A n \in 1..MaxTask : task'[<<q, n>>] = task[<<q, n>>]
    BY <1>3, <1>4 DEF JobOf, Jobs
  <2>3. proc[q].pc \in Numbered => task'[JobOf(q)] = task[JobOf(q)]
    BY <1>3, <1>4, OwnJob DEF JobOf
  <2>4. JobOf(q)' = JobOf(q)
    BY <2>1 DEF JobOf
  <2> QED
    BY <2>1, <2>2, <2>3, <2>4 DEF ProcTasks, Unused, Numbered
<1>5. ProcTasks(p)' /\ \A k \in Jobs : ReportedOnly(k)'
  <2>0. ProcTasks(p) /\ proc[p] \in ProcRecs
    BY <1>1, <1>2
  <2>1. CASE proc[p].pc \notin Numbered
    <3>1. task' = task
      BY <2>1, ProcFrame
    <3>2. CASE Validate(p) \/ (Dies(p) /\ ~Validate(p))
      <4>1. proc'[p].next = proc[p].next /\ proc'[p].pc \in {"number", "dead"}
        BY <1>1, <3>2 DEF Validate, Dies, Go, ProcRecs
      <4> QED
        BY <1>2, <2>0, <3>1, <4>1 DEF ProcTasks, Unused, ReportedOnly
    <3>3. CASE TakeNumber(p)
      <4>1. proc[p].next < MaxTask /\ proc[p].next \in Nat
        BY <2>0, <3>3 DEF TakeNumber, Place, TInv, ProcPlaced, ProcRecs
      <4>2. proc'[p].next = proc[p].next + 1 /\ proc'[p].pc = "copy"
        BY <1>1, <3>3 DEF TakeNumber, ProcRecs
      <4>3. proc[p].next + 1 \in 1..MaxTask /\ proc[p].next < proc[p].next + 1
        BY <4>1, DetonationAssumption
      <4>4. Unused(<<p, proc[p].next + 1>>)
        BY <2>0, <4>3 DEF ProcTasks
      <4>5. Unused(JobOf(p))'
        BY <3>1, <4>2, <4>4 DEF JobOf, Unused
      <4>6. \A n \in 1..MaxTask : proc'[p].next < n => Unused(<<p, n>>)
        BY <2>0, <4>1, <4>2 DEF ProcTasks
      <4> QED
        BY <1>2, <3>1, <4>2, <4>5, <4>6 DEF ProcTasks, Unused, ReportedOnly
    <3> QED
      BY <2>1, <3>2, <3>3 DEF Submission, CopySample, WriteMeta, StagingFails, StartContainer,
         StartFails, ContainerReturns, ContainerTimeout, ReadReport, Cleanup, Place, Numbered
  <2>2. ASSUME NEW j \in Jobs, j = JobOf(p), proc[p].pc \in Numbered
        PROVE  ProcTasks(p)' /\ ReportedOnly(j)'
    <3>1. task[j] \in TaskRecs /\ ReportedOnly(j) /\ ~Validate(p) /\ ~TakeNumber(p)
      BY <1>1, <1>2, <2>2 DEF Validate, TakeNumber, Place, Numbered
    <3>2. ASSUME proc'[p].next = proc[p].next,
                 proc'[p].pc = "meta" => task'[j].status = "none",
                 proc'[p].pc \in {"start", "wait", "read"} => task'[j].status = "pending",
                 proc'[p].pc \in {"meta", "start", "wait", "read"} => task'[j].bytes # None,
                 proc'[p].pc \in {"meta", "start", "wait", "read", "clean"} => ~task'[j].cleaned,
                 proc'[p].pc # "copy"
          PROVE  ProcTasks(p)'
      <4>1. JobOf(p)' = j
        BY <2>2, <3>2 DEF JobOf
      <4>2. \A n \in 1..MaxTask : proc[p].next < n => task'[<<p, n>>] = task[<<p, n>>]
        <5>1. proc[p].next \in Nat
          BY <2>0 DEF ProcRecs
        <5>2. \A n \in 1..MaxTask : proc[p].next < n => <<p, n>> # JobOf(p) /\ <<p, n>> \in Jobs
          BY <5>1 DEF JobOf, Jobs
        <5> QED
          BY <1>3, <5>2
      <4>3. \A n \in 1..MaxTask : proc'[p].next < n => Unused(<<p, n>>)'
        BY <2>0, <3>2, <4>2 DEF ProcTasks, Unused
      <4> QED
        BY <3>2, <4>1, <4>3 DEF ProcTasks
    <3>3. ASSUME NEW place, Go(p, place)
          PROVE  proc'[p].pc = place /\ proc'[p].next = proc[p].next
      BY <1>1, <3>3 DEF Go, ProcRecs
    <3>4. CASE CopySample(p)
      <4>1. proc'[p].pc = "meta" /\ proc'[p].next = proc[p].next /\ Unused(j)
        BY <2>0, <2>2, <3>3, <3>4 DEF CopySample, Place, ProcTasks
      <4>2. task'[j] = [task[j] EXCEPT !.bytes = disk] /\ disk # None
        BY <1>1, <2>2, <3>4, DetonationAssumption DEF CopySample, TInv, TypeOK
      <4>3. task'[j].bytes # None /\ task'[j].status = "none" /\ ~task'[j].cleaned
            /\ task'[j].report = None
        BY <3>1, <4>1, <4>2 DEF TaskRecs, Unused
      <4> QED
        BY <3>2, <4>1, <4>3 DEF ReportedOnly
    <3>5. CASE WriteMeta(p)
      <4>1. /\ proc'[p].pc = "start" /\ proc'[p].next = proc[p].next
            /\ task[j].status = "none" /\ task[j].bytes # None /\ ~task[j].cleaned
        BY <2>0, <2>2, <3>3, <3>5 DEF WriteMeta, Place, ProcTasks
      <4>2. task'[j] = [task[j] EXCEPT !.status = "pending"]
        BY <1>1, <2>2, <3>5 DEF WriteMeta
      <4>3. /\ task'[j].bytes # None /\ task'[j].status = "pending" /\ ~task'[j].cleaned
            /\ task'[j].report = None
        BY <3>1, <4>1, <4>2 DEF TaskRecs, ReportedOnly
      <4> QED
        BY <3>2, <4>1, <4>3 DEF ReportedOnly
    <3>6. CASE StagingFails(p) \/ Dies(p)
      <4>1. proc'[p].pc \in {"idle", "dead"} /\ proc'[p].next = proc[p].next /\ task' = task
        BY <3>3, <3>6 DEF StagingFails, Dies
      <4> QED
        BY <3>1, <3>2, <4>1 DEF ReportedOnly
    <3>7. CASE StartContainer(p) \/ StartFails(p) \/ ContainerReturns(p) \/ ContainerTimeout(p)
      <4>1. proc'[p].pc \in {"wait", "read"} /\ proc'[p].next = proc[p].next /\ task' = task
        BY <3>3, <3>7 DEF StartContainer, StartFails, ContainerReturns, ContainerTimeout
      <4>2. proc[p].pc \in {"start", "wait"}
        BY <3>7 DEF StartContainer, StartFails, ContainerReturns, ContainerTimeout, Place
      <4>3. task[j].status = "pending" /\ task[j].bytes # None /\ ~task[j].cleaned
        BY <2>0, <2>2, <4>2 DEF ProcTasks
      <4> QED
        BY <3>1, <3>2, <4>1, <4>3 DEF ReportedOnly
    <3>8. CASE ReadReport(p)
      <4> DEFINE r == dir[HomeOf(p)].report
      <4>1. /\ proc'[p].pc = "clean" /\ proc'[p].next = proc[p].next
            /\ task[j].status = "pending" /\ ~task[j].cleaned
        BY <2>0, <2>2, <3>3, <3>8 DEF ReadReport, Place, ProcTasks
      <4>2. \/ task' = [task EXCEPT ![j].status = "failed_analysis"]
            \/ task' = [task EXCEPT ![j].status = "reported", ![j].report = r]
            \/ task' = task
        BY <2>2, <3>8 DEF ReadReport
      <4> HIDE DEF r
      <4>3. ~task'[j].cleaned /\ (task'[j].report # None => task'[j].status = "reported")
        BY <1>1, <3>1, <4>1, <4>2 DEF TaskRecs, ReportedOnly
      <4> QED
        BY <3>2, <4>1, <4>3 DEF ReportedOnly
    <3>9. CASE Cleanup(p)
      <4>1. proc'[p].pc = "idle" /\ proc'[p].next = proc[p].next
        BY <3>3, <3>9 DEF Cleanup
      <4>2. task'[j] = [task[j] EXCEPT !.cleaned = TRUE]
        BY <1>1, <2>2, <3>9 DEF Cleanup
      <4> QED
        BY <3>1, <3>2, <4>1, <4>2 DEF TaskRecs, ReportedOnly
    <3> QED
      BY <3>1, <3>4, <3>5, <3>6, <3>7, <3>8, <3>9 DEF Submission
  <2>3. ASSUME proc[p].pc \in Numbered
        PROVE  ProcTasks(p)' /\ \A k \in Jobs : ReportedOnly(k)'
    <3>1. JobOf(p) \in Jobs
      BY <2>3, OwnJob
    <3>2. PICK j \in Jobs : j = JobOf(p)
      BY <3>1
    <3>3. ProcTasks(p)' /\ ReportedOnly(j)'
      BY <2>2, <2>3, <3>2
    <3> QED
      BY <1>2, <1>3, <3>2, <3>3 DEF ReportedOnly
  <2> QED
    BY <2>1, <2>3
<1> QED
  BY <1>4, <1>5 DEF TasksPlaced, ProcTasks, ReportedOnly, Place

\* A container is left alone only by a client that was killed.
LEMMA AttendedKept ==
  ASSUME TInv, Attended, ~SharedRoot, NEW p \in Procs, Validate(p) \/ Submission(p) \/ Dies(p)
  PROVE  Attended' /\ orphan \subseteq orphan'
<1>1. /\ box \in [Jobs -> Boxes] /\ proc \in [Procs -> ProcRecs]
      /\ proc' = [proc EXCEPT ![p] = proc'[p]]
  BY BoxTypes, TypeParts, ProcStep DEF TInv
<1>2. orphan \subseteq orphan'
  BY DEF Validate, Submission, TakeNumber, CopySample, WriteMeta, StagingFails, StartContainer,
     StartFails, ContainerReturns, ContainerTimeout, ReadReport, Cleanup, Dies
<1>3. \A k \in Jobs : Running(k) => k \in orphan \/ (proc[k[1]].pc = "wait" /\ proc[k[1]].next = k[2])
  BY DEF Attended, Place
<1>4. ASSUME NEW k \in Jobs, box'[k].pc \notin {"none", "gone"}
      PROVE  k \in orphan' \/ (proc'[k[1]].pc = "wait" /\ proc'[k[1]].next = k[2])
  <2>1. k = <<k[1], k[2]>> /\ k[1] \in Procs
    BY DEF Jobs
  <2>2. CASE k[1] # p
    <3>1. k # JobOf(p)
      BY <2>2 DEF JobOf
    <3>2. box'[k] = box[k]
      BY <3>1, ProcFrame
    <3>3. proc'[k[1]] = proc[k[1]]
      BY <1>1, <2>1, <2>2
    <3> QED
      BY <1>2, <1>3, <1>4, <3>2, <3>3 DEF Running
  <2>3. CASE k[1] = p
    <3>1. ASSUME NEW place, Go(p, place)
          PROVE  proc'[p].pc = place /\ proc'[p].next = proc[p].next
      BY <1>1, <3>1 DEF Go, ProcRecs
    <3>2. CASE StartContainer(p)
      <4>1. proc'[p].pc = "wait" /\ proc'[p].next = proc[p].next /\ orphan' = orphan
            /\ proc[p].pc = "start"
        BY <3>1, <3>2 DEF StartContainer, Place
      <4>2. CASE k = JobOf(p)
        BY <2>1, <2>3, <4>1, <4>2 DEF JobOf
      <4>3. CASE k # JobOf(p)
        <5>1. box'[k] = box[k]
          BY <4>3, ProcFrame
        <5> QED
          BY <1>2, <1>3, <1>4, <2>3, <4>1, <5>1 DEF Running
      <4> QED
        BY <4>2, <4>3
    <3>3. CASE ~StartContainer(p)
      <4>1. box' = box
        BY <3>3 DEF Validate, Submission, TakeNumber, CopySample, WriteMeta, StagingFails,
           StartFails, ContainerReturns, ContainerTimeout, ReadReport, Cleanup, Dies, boxVars
      <4>2. Running(k)
        BY <1>4, <4>1 DEF Running
      <4>3. ASSUME proc[p].pc = "wait", proc[p].next = k[2]
            PROVE  k \in orphan'
        <5>1. k = JobOf(p)
          BY <2>1, <2>3, <4>3 DEF JobOf
        <5>2. ContainerReturns(p) \/ ContainerTimeout(p) \/ Dies(p)
          BY <3>3, <4>3 DEF Validate, Submission, TakeNumber, CopySample, WriteMeta, StagingFails,
             StartFails, ReadReport, Cleanup, Place
        <5>3. ~ContainerReturns(p)
          BY <4>2, <5>1 DEF ContainerReturns, At, Running
        <5>4. orphan' = orphan \union {k}
          BY <4>2, <4>3, <5>1, <5>2, <5>3 DEF ContainerTimeout, Dies, Place
        <5> QED
          BY <5>4
      <4> QED
        BY <1>2, <1>3, <2>3, <4>2, <4>3
    <3> QED
      BY <3>2, <3>3
  <2> QED
    BY <2>2, <2>3
<1> QED
  BY <1>2, <1>4 DEF Attended, Running, Place

\* The directory of a cleaned task fills again only by a container that was left alone.
LEMMA ProcRemoves ==
  ASSUME TInv, TasksPlaced, BytesRemoved, ~SharedRoot, orphan \subseteq orphan',
         NEW p \in Procs, Validate(p) \/ Submission(p) \/ Dies(p)
  PROVE  BytesRemoved'
<1>1. /\ dir \in [Jobs -> TaskDirs] /\ task \in [Jobs -> TaskRecs] /\ HomeOf(p) = JobOf(p)
      /\ proc[p] \in ProcRecs
  BY BoxTypes, TypeParts, OwnDirs DEF TInv, HomeOf
<1> DEFINE Holds(d) == d.sample # None \/ d.overlay # None \/ d.archive # None \/ d.unpacked # None
<1>2. \A k \in Jobs : task[k].cleaned /\ Holds(dir[k]) => k \in orphan
  BY OwnDirs DEF BytesRemoved, HoldsBytes
<1>3. ASSUME NEW k \in Jobs, task'[k].cleaned, Holds(dir'[k])
      PROVE  k \in orphan'
  <2>1. CASE dir'[k] = dir[k] /\ task'[k].cleaned = task[k].cleaned
    BY <1>2, <1>3, <2>1
  <2>2. CASE proc[p].pc \in Numbered /\ k = JobOf(p)
    <3>1. CASE CopySample(p) \/ WriteMeta(p)
      <4>1. ~task[k].cleaned
        BY <2>2, <3>1 DEF CopySample, WriteMeta, TasksPlaced, Unused, Place
      <4>2. task'[k].cleaned = task[k].cleaned
        BY <1>1, <2>2, <3>1 DEF CopySample, WriteMeta, TaskRecs
      <4> QED
        BY <1>3, <4>1, <4>2
    <3>2. CASE StagingFails(p)
      <4>1. ~task[k].cleaned
        BY <2>2, <3>2 DEF StagingFails, TasksPlaced, Unused, Place
      <4> QED
        BY <1>3, <3>2, <4>1 DEF StagingFails
    <3>3. CASE StartContainer(p) \/ StartFails(p) \/ ContainerReturns(p) \/ ContainerTimeout(p)
               \/ Dies(p)
      BY <2>1, <3>3 DEF StartContainer, StartFails, ContainerReturns, ContainerTimeout, Dies, boxVars
    <3>4. CASE ReadReport(p)
      <4> DEFINE r == dir[HomeOf(p)].report
      <4>1. dir' = dir
        BY <3>4 DEF ReadReport, boxVars
      <4>2. \/ task' = [task EXCEPT ![k].status = "failed_analysis"]
            \/ task' = [task EXCEPT ![k].status = "reported", ![k].report = r]
            \/ task' = task
        BY <2>2, <3>4 DEF ReadReport
      <4> HIDE DEF r
      <4>3. task'[k].cleaned = task[k].cleaned
        BY <1>1, <4>2 DEF TaskRecs
      <4> QED
        BY <2>1, <4>1, <4>3
    <3>5. CASE Cleanup(p)
      <4>1. dir'[k] = [dir[k] EXCEPT !.sample = None, !.overlay = None, !.archive = None,
                                     !.unpacked = None]
        BY <1>1, <2>2, <3>5 DEF Cleanup
      <4> QED
        BY <1>1, <1>3, <4>1 DEF TaskDirs
    <3> QED
      BY <2>2, <3>1, <3>2, <3>3, <3>4, <3>5 DEF Submission, Validate, TakeNumber, Place, Numbered
  <2> QED
    BY <2>1, <2>2, ProcFrame
<1> QED
  BY <1>3, OwnDirs DEF BytesRemoved, HoldsBytes

LEMMA BoxRemoves ==
  ASSUME TInv, TasksPlaced, Attended, BytesRemoved, ~SharedRoot,
         NEW j \in Jobs, BoxStep(j) \/ GuestStep(j), UNCHANGED <<proc, task, orphan>>
  PROVE  Attended' /\ BytesRemoved'
<1>1. dir \in [Jobs -> TaskDirs] /\ box \in [Jobs -> Boxes] /\ DirOf(j) = j
  BY BoxTypes, TypeParts, OwnDirs DEF TInv
<1>2. \A k \in Jobs \ {j} : dir'[k] = dir[k] /\ box'[k] = box[k]
  BY <1>1, BoxFrame DEF TInv, TypeOK
<1>3. Running(j) \/ (dir' = dir /\ box' = box)
  BY BoxFlowHolds DEF BoxFlow
<1>4. Attended'
  <2>1. \A k \in Jobs : Running(k)' => Running(k)
    BY <1>2, <1>3 DEF Running
  <2> QED
    BY <2>1 DEF Attended, Place
<1>5. BytesRemoved'
  <2>1. Running(j) => j \in orphan \/ ~task[j].cleaned
    <3> SUFFICES ASSUME Place(j[1], "wait"), proc[j[1]].next = j[2]
                 PROVE  ~task[j].cleaned
      BY DEF Attended
    <3>1. j[1] \in Procs /\ j = JobOf(j[1])
      BY DEF JobOf, Jobs
    <3> QED
      BY <3>1 DEF TasksPlaced, Place
  <2>2. \A k \in Jobs : task[k].cleaned /\ HoldsBytes(k) => k \in orphan
    BY OwnDirs DEF BytesRemoved
  <2>3. \A k \in Jobs \ {j} : HoldsBytes(k)' <=> HoldsBytes(k)
    BY <1>2 DEF HoldsBytes
  <2>4. dir' = dir => (HoldsBytes(j)' <=> HoldsBytes(j))
    BY DEF HoldsBytes
  <2>5. \A k \in Jobs : task'[k].cleaned /\ HoldsBytes(k)' => k \in orphan'
    BY <1>3, <2>1, <2>2, <2>3, <2>4
  <2> QED
    BY <2>5, OwnDirs DEF BytesRemoved
<1> QED
  BY <1>4, <1>5

LEMMA OwnInvKept == ~SharedRoot /\ OwnInv /\ [Next]_vars => OwnInv'
<1> SUFFICES ASSUME ~SharedRoot, OwnInv, [Next]_vars
             PROVE  OwnInv'
  OBVIOUS
<1>1. TInv'
  BY TInvKept DEF OwnInv
<1>2. ASSUME NEW p \in Procs, Validate(p) \/ Submission(p) \/ Dies(p)
      PROVE  OwnInv'
  BY <1>1, <1>2, ProcKeepsBytes, TasksPlacedKept, AttendedKept, ProcRemoves DEF OwnInv
<1>3. ASSUME NEW j \in Jobs, BoxStep(j) \/ GuestStep(j), UNCHANGED <<disk, changes, proc, task, orphan>>
      PROVE  OwnInv'
  <2>1. TasksPlaced'
    BY <1>3 DEF OwnInv, TasksPlaced, Unused, Place, JobOf
  <2> QED
    BY <1>1, <1>3, <2>1, BoxKeepsBytes, BoxRemoves DEF OwnInv
<1>4. CASE ChangeFile \/ UNCHANGED vars
  <2>1. UNCHANGED <<dir, box, guest, proc, task, orphan>>
    BY <1>4 DEF ChangeFile, boxVars, vars
  <2>2. (BytesKept /\ ReportsSound)'
    BY <2>1 DEF OwnInv, BytesKept, ReportsSound, Sound, ExecutionValid
  <2>3. TasksPlaced' /\ Attended' /\ BytesRemoved'
    BY <2>1 DEF OwnInv, TasksPlaced, Unused, Place, JobOf, Attended, Running, BytesRemoved, HoldsBytes
  <2> QED
    BY <1>1, <2>2, <2>3 DEF OwnInv
<1> QED
  BY <1>2, <1>3, <1>4 DEF Next

LEMMA InitOwnInv == ~SharedRoot /\ Init => OwnInv
<1> SUFFICES ASSUME ~SharedRoot, Init
             PROVE  OwnInv
  OBVIOUS
<1>1. TInv
  BY InitTInv
<1>2. /\ proc = [p \in Procs |-> [pc |-> "idle", next |-> 0, os |-> "linux"]]
      /\ task = [j \in Jobs |-> [bytes |-> None, status |-> "none", report |-> None,
                                 cleaned |-> FALSE]]
      /\ box = [j \in Jobs |-> [pc |-> "none", os |-> "linux", meta |-> None, report |-> None]]
      /\ guest = [j \in Jobs |-> Off]
      /\ dir = [d \in Dirs |-> [sample |-> None, overlay |-> None, meta |-> None,
                                archive |-> None, unpacked |-> None, report |-> None]]
  BY DEF Init, BoxInit
<1>3. TasksPlaced /\ Attended /\ BytesRemoved
  BY <1>2 DEF TasksPlaced, Unused, Place, Jobs, Attended, Running, BytesRemoved
<1>4. BytesKept /\ ReportsSound
  BY <1>2, OwnDirs DEF BytesKept, ReportsSound, Off
<1> QED
  BY <1>1, <1>3, <1>4 DEF OwnInv
LEMMA OwnInvariant == ASSUME ~SharedRoot PROVE Spec => []OwnInv
BY InitOwnInv, OwnInvKept, PTL DEF Spec

\* A report that report_has_signal accepts under the hash get_report_verified confirms is
\* of a guest that executed the very bytes submitted under that number and finished: for
\* any number of processes with task roots of their own and any left-over containers.
THEOREM ValidMeansRanHolds == ASSUME ~SharedRoot PROVE Spec => []ValidMeansRan
<1>1. OwnInv => ValidMeansRan
  BY DEF OwnInv, ReportsSound, Sound, Verified, ValidMeansRan
<1> QED
  BY <1>1, OwnInvariant, PTL

\* _cleanup_task_dir removes the sample, the overlay, the archive and the tree for good,
\* unless the container was still running when its client was killed.
THEOREM BytesRemovedHolds == ASSUME ~SharedRoot PROVE Spec => []BytesRemoved
<1>1. OwnInv => BytesRemoved
  BY DEF OwnInv
<1> QED
  BY <1>1, OwnInvariant, PTL

-----------------------------------------------------------------------------
(* The service. *)

ViewOf(t) ==
  [st |-> CASE t.status = "reported" -> "reported"
            [] t.status = "failed_analysis" -> "failed"
            [] OTHER -> IF t.bytes = None THEN "none" ELSE "accepted",
   bytes |-> t.bytes,
   by    |-> IF t.report = None THEN None ELSE t.report.by,
   ran   |-> IF t.report = None THEN None ELSE t.report.ran]

LEMMA Viewed == JobView = [j \in Jobs |-> ViewOf(task[j])]
BY DEF JobView, ViewOf

\* Every step of the backend, its containers and their guests is a step of the service on
\* the number concerned, or none.
LEMMA ServiceStep ==
  ~SharedRoot /\ OwnInv /\ [Next]_vars => [Service!Next]_JobView
<1> SUFFICES ASSUME ~SharedRoot, OwnInv, [Next]_vars
             PROVE  [Service!Next]_JobView
  OBVIOUS
<1>1. CASE task' = task
  BY <1>1 DEF JobView
<1>2. ASSUME NEW p \in Procs, Validate(p) \/ Submission(p) \/ Dies(p), proc[p].pc \in Numbered
      PROVE  [Service!Next]_JobView
  <2>0. TInv /\ TasksPlaced /\ ReportsSound
    BY DEF OwnInv
  <2>1. PICK j \in Jobs : j = JobOf(p)
    BY <1>2, <2>0, OwnJob
  <2>2. /\ task \in [Jobs -> TaskRecs] /\ task[j] \in TaskRecs /\ dir[j] \in TaskDirs
        /\ HomeOf(p) = j
    BY <2>0, <2>1, BoxTypes, TypeParts, OwnDirs DEF TInv, HomeOf
  <2>3. \A k \in Jobs \ {j} : task'[k] = task[k]
    BY <1>2, <2>0, <2>1, ProcFrame
  <2>4. ASSUME NEW view, ViewOf(task'[j]) = view
        PROVE  JobView' = [JobView EXCEPT ![j] = view]
    <3>1. JobView' = [k \in Jobs |-> ViewOf(task'[k])]
      BY DEF JobView, ViewOf
    <3>2. JobView = [k \in Jobs |-> ViewOf(task[k])]
      BY Viewed
    <3> QED
      BY <2>3, <2>4, <3>1, <3>2
  <2>5. JobView[j] = ViewOf(task[j])
    BY Viewed
  <2>6. CASE ViewOf(task'[j]) = ViewOf(task[j])
    <3>1. JobView' = JobView
      BY <2>4, <2>5, <2>6, Viewed
    <3> QED
      BY <3>1
  <2>7. CASE CopySample(p)
    <3>1. Unused(j) /\ disk \in Bytes
      BY <2>0, <2>1, <2>7 DEF CopySample, TasksPlaced, TInv, TypeOK
    <3>2. task'[j] = [task[j] EXCEPT !.bytes = disk]
      BY <2>1, <2>2, <2>7 DEF CopySample
    <3>3. ViewOf(task[j]) = Service!Fresh
      BY <3>1 DEF Unused, ViewOf, Service!Fresh
    <3>4. ViewOf(task'[j]) = [Service!Fresh EXCEPT !.st = "accepted", !.bytes = disk]
      <4>1. task'[j].bytes = disk /\ task'[j].status = "none" /\ task'[j].report = None
        BY <2>2, <3>1, <3>2 DEF Unused, TaskRecs
      <4>2. ViewOf(task'[j]) = [st |-> "accepted", bytes |-> disk, by |-> None, ran |-> None]
        BY <3>1, <4>1, DetonationAssumption DEF ViewOf
      <4> QED
        <5>1. Service!Fresh = [st |-> "none", bytes |-> None, by |-> None, ran |-> None]
          BY DEF Service!Fresh
        <5>2. [Service!Fresh EXCEPT !.st = "accepted", !.bytes = disk]
                = [st |-> "accepted", bytes |-> disk, by |-> None, ran |-> None]
          <6> DEFINE v == Service!Fresh
                     w == [v EXCEPT !.st = "accepted"]
          <6> HIDE DEF v
          <6>1. v = [st |-> "none", bytes |-> None, by |-> None, ran |-> None]
            BY <5>1 DEF v
          <6>2. w = [st |-> "accepted", bytes |-> None, by |-> None, ran |-> None]
            BY <6>1
          <6>3. [v EXCEPT !.st = "accepted", !.bytes = disk] = [w EXCEPT !.bytes = disk]
            OBVIOUS
          <6> HIDE DEF w
          <6>4. [w EXCEPT !.bytes = disk]
                  = [st |-> "accepted", bytes |-> disk, by |-> None, ran |-> None]
            BY <6>2
          <6> QED
            BY <6>3, <6>4 DEF v
        <5> QED
          BY <4>2, <5>2
    <3>5. JobView' = [JobView EXCEPT ![j].st = "accepted", ![j].bytes = disk]
      BY <2>4, <2>5, <3>3, <3>4, Viewed
    <3> QED
      BY <2>5, <3>1, <3>3, <3>5 DEF Service!Next, Service!Accept
  <2>8. CASE WriteMeta(p) \/ Cleanup(p)
    <3>1. \/ task'[j] = [task[j] EXCEPT !.cleaned = TRUE]
          \/ task[j].status = "none" /\ task'[j] = [task[j] EXCEPT !.status = "pending"]
      BY <2>0, <2>1, <2>2, <2>8 DEF WriteMeta, Cleanup, TasksPlaced
    <3>2. ViewOf(task'[j]) = ViewOf(task[j])
      BY <2>2, <3>1 DEF ViewOf, TaskRecs
    <3> QED
      BY <2>6, <3>2
  <2>9. CASE ReadReport(p)
    <3> DEFINE r == dir[HomeOf(p)].report
    <3>1. task[j].status = "pending" /\ task[j].bytes # None /\ task[j].report = None
      BY <2>0, <2>1, <2>9 DEF ReadReport, TasksPlaced, Place
    <3>2. r # None => r.by = j /\ r.ran \in {None, task[j].bytes}
      BY <2>0, <2>2 DEF ReportsSound, Sound
    <3>3. \/ task' = [task EXCEPT ![j].status = "failed_analysis"]
          \/ r # None /\ task' = [task EXCEPT ![j].status = "reported", ![j].report = r]
          \/ task' = task
      BY <2>1, <2>9 DEF ReadReport
    <3> HIDE DEF r
    <3>4. ViewOf(task[j]) = [st |-> "accepted", bytes |-> task[j].bytes, by |-> None, ran |-> None]
      BY <3>1 DEF ViewOf
    <3>5. CASE task' = [task EXCEPT ![j].status = "failed_analysis"]
      <4>1. ViewOf(task'[j]) = [st |-> "failed", bytes |-> task[j].bytes, by |-> None, ran |-> None]
        <5>1. task'[j] = [task[j] EXCEPT !.status = "failed_analysis"]
          BY <2>2, <3>5
        <5> QED
          BY <2>2, <3>1, <5>1 DEF ViewOf, TaskRecs
      <4>2. JobView' = [JobView EXCEPT ![j].st = "failed"]
        BY <2>4, <2>5, <3>4, <4>1, Viewed
      <4> QED
        <5>1. JobView[j].st = "accepted"
          BY <2>5, <3>4
        <5>2. Service!Fail(j)
          BY <4>2, <5>1 DEF Service!Fail
        <5> QED
          BY <5>2 DEF Service!Next
    <3>6. CASE r # None /\ task' = [task EXCEPT ![j].status = "reported", ![j].report = r]
      <4>1. ViewOf(task'[j]) = [st |-> "reported", bytes |-> task[j].bytes, by |-> j, ran |-> r.ran]
        <5>1. task'[j] = [task[j] EXCEPT !.status = "reported", !.report = r]
          BY <2>2, <3>6
        <5>2. task'[j].status = "reported" /\ task'[j].report = r /\ task'[j].bytes = task[j].bytes
          BY <2>2, <5>1 DEF TaskRecs
        <5> QED
          BY <3>2, <3>6, <5>2 DEF ViewOf
      <4>2. JobView' = [JobView EXCEPT ![j].st = "reported", ![j].by = j, ![j].ran = r.ran]
        <5> DEFINE seen == r.ran
        <5>1. ViewOf(task'[j]) = [JobView[j] EXCEPT !.st = "reported", !.by = j, !.ran = seen]
          <6>1. JobView[j] = [st |-> "accepted", bytes |-> task[j].bytes, by |-> None, ran |-> None]
            BY <2>5, <3>4
          <6>2. [JobView[j] EXCEPT !.st = "reported", !.by = j, !.ran = seen]
                  = [st |-> "reported", bytes |-> task[j].bytes, by |-> j, ran |-> seen]
            <7> DEFINE v == JobView[j]
                       w == [v EXCEPT !.st = "reported"]
                       x == [w EXCEPT !.by = j]
                       b == task[j].bytes
            <7> HIDE DEF v, b
            <7>1. v = [st |-> "accepted", bytes |-> b, by |-> None, ran |-> None]
              BY <6>1 DEF v, b
            <7>2. w = [st |-> "reported", bytes |-> b, by |-> None, ran |-> None]
              BY <7>1
            <7>3. [v EXCEPT !.st = "reported", !.by = j, !.ran = seen] = [x EXCEPT !.ran = seen]
              OBVIOUS
            <7> HIDE DEF w
            <7>4. x = [st |-> "reported", bytes |-> b, by |-> j, ran |-> None]
              BY <7>2
            <7> HIDE DEF x
            <7>5. [x EXCEPT !.ran = seen] = [st |-> "reported", bytes |-> b, by |-> j, ran |-> seen]
              BY <7>4
            <7> QED
              BY <7>3, <7>5 DEF v, b
          <6> QED
            BY <4>1, <6>2
        <5>2. JobView' = [JobView EXCEPT ![j] = ViewOf(task'[j])]
          BY <2>4
        <5>3. JobView = [k \in Jobs |-> ViewOf(task[k])]
          BY Viewed
        <5> HIDE DEF seen
        <5>4. JobView' = [JobView EXCEPT ![j].st = "reported", ![j].by = j, ![j].ran = seen]
          BY <5>1, <5>2, <5>3
        <5> QED
          BY <5>4 DEF seen
      <4>3. r.ran \in {JobView[j].bytes, None} /\ JobView[j].st = "accepted"
        BY <2>5, <3>2, <3>4, <3>6
      <4> QED
        BY <4>2, <4>3 DEF Service!Next, Service!Report
    <3> QED
      BY <1>1, <3>3, <3>5, <3>6
  <2>10. CASE ~CopySample(p) /\ ~WriteMeta(p) /\ ~Cleanup(p) /\ ~ReadReport(p)
    BY <1>1, <1>2, <2>10 DEF Validate, Submission, TakeNumber, StagingFails, StartContainer,
       StartFails, ContainerReturns, ContainerTimeout, Dies
  <2> QED
    BY <2>7, <2>8, <2>9, <2>10
<1>3. ASSUME NEW p \in Procs, Validate(p) \/ Submission(p) \/ Dies(p), proc[p].pc \notin Numbered
      PROVE  task' = task
  BY <1>3, ProcFrame DEF OwnInv
<1>4. CASE ChangeFile \/ UNCHANGED vars
  BY <1>1, <1>4 DEF ChangeFile, vars
<1> QED
  BY <1>1, <1>2, <1>3, <1>4 DEF Next

\* With a task root of its own the backend is the service DetonationService describes:
\* every number is bound once to the bytes copied under it (submit_file) and ends at most
\* once, failed or with a report of its own container about these bytes.
THEOREM ImplementsServiceHolds == ASSUME ~SharedRoot PROVE Spec => ImplementsService
<1>1. Init => Service!Init
  BY DEF Init, JobView, Service!Init, Service!Fresh
<1> QED
  BY <1>1, OwnInvariant, ServiceStep, PTL DEF Spec, ImplementsService, Service!Spec

=============================================================================
