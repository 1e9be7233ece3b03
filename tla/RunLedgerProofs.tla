--------------------------- MODULE RunLedgerProofs ---------------------------
(***************************************************************************)
(* The ledger's invariants for every number of tasks, ids, routes and      *)
(* files.  EvidenceChain is inductive together with TypeOK; soundness of   *)
(* verified_report() follows from it and from the existence of a newest    *)
(* digest, which rests on the well-foundedness of the naturals.            *)
(***************************************************************************)
EXTENDS RunLedger, TLAPS, SequenceTheorems, WellFoundedInduction

\* A non-empty set whose time stamps are bounded has a newest element.
LEMMA NewestExists ==
  ASSUME NEW S, S # {},
         NEW stamp, \A s \in S : stamp[s] \in Nat,
         NEW bound \in Nat, \A s \in S : stamp[s] < bound
  PROVE  \E m \in S : \A s \in S : stamp[s] <= stamp[m]
<1> DEFINE T == {bound - stamp[s] : s \in S}
           R == OpToRel(<, Nat)
<1>1. T \subseteq Nat
  BY SMT
<1>2. T # {}
  OBVIOUS
<1>3. IsWellFoundedOn(R, Nat)
  BY NatLessThanWellFounded
<1> HIDE DEF R, T
<1>4. PICK x \in T : \A y \in T : ~ (<<y, x>> \in R)
  BY <1>1, <1>2, <1>3, WFMin
<1> USE DEF R, T
<1>5. PICK m \in S : x = bound - stamp[m]
  BY DEF T
<1>6. ASSUME NEW s \in S
      PROVE  stamp[s] <= stamp[m]
  <2>1. ~ (<<bound - stamp[s], x>> \in R)
    BY <1>4 DEF T
  <2>2. bound - stamp[s] \in Nat /\ x \in Nat
    OBVIOUS
  <2>3. ~ (bound - stamp[s] < x)
    BY <2>1, <2>2 DEF OpToRel, R
  <2> QED
    BY <2>3, <1>5, SMT
<1> QED
  BY <1>6

-----------------------------------------------------------------------------
\* Every step keeps the ledger's values in their types.
LEMMA NextTypeOK == TypeOK /\ [Next]_ledgerVars => TypeOK'
<1> SUFFICES ASSUME TypeOK, [Next]_ledgerVars
             PROVE  TypeOK'
  OBVIOUS
<1> USE LedgerAssumption DEF TypeOK
<1>1. CASE DisturbSample
  BY <1>1 DEF DisturbSample
<1>2. CASE BindSample
  BY <1>2 DEF BindSample, Files, Identities
<1>3. ASSUME NEW route \in Routes, SetRoutePolicy(route)
      PROVE  TypeOK'
  BY <1>3 DEF SetRoutePolicy
<1>4. ASSUME NEW id \in RawIds, NEW route \in Routes, RecordTask(id, route)
      PROVE  TypeOK'
  <2>1. [id |-> id, content |-> sample.content, route |-> route] \in Receipts
    BY <1>4 DEF RecordTask, Admissible, Identities, Receipts
  <2> QED
    BY <1>4, <2>1 DEF RecordTask
<1>5. ASSUME NEW id \in TaskIds, NEW effective \in Routes \cup {None},
             ConfirmTaskRoute(id, effective)
      PROVE  TypeOK'
  BY <1>5 DEF ConfirmTaskRoute
<1>6. ASSUME NEW id \in TaskIds, NEW matches \in BOOLEAN, RecordReport(id, matches)
      PROVE  TypeOK'
  BY <1>6 DEF RecordReport, Digests
<1>7. ASSUME NEW vm \in VMs, AcquireLease(vm)
      PROVE  TypeOK'
  BY <1>7 DEF AcquireLease, Leases
<1>8. CASE ReleaseLease
  BY <1>8 DEF ReleaseLease
<1>9. CASE Expire
  BY <1>9 DEF Expire, Leases
<1>10. CASE UNCHANGED ledgerVars
  BY <1>10 DEF ledgerVars
<1> QED
  BY <1>1, <1>2, <1>3, <1>4, <1>5, <1>6, <1>7, <1>8, <1>9, <1>10 DEF Next

\* The initial ledger is well typed and holds no evidence.
LEMMA InitInvariant == Init => TypeOK /\ EvidenceChain
<1> SUFFICES ASSUME Init PROVE TypeOK /\ EvidenceChain
  OBVIOUS
<1>1. TypeOK
  BY LedgerAssumption DEF Init, LedgerStart, TypeOK
<1>2. EvidenceChain
  BY LedgerAssumption DEF Init, LedgerStart, EvidenceChain, TasksDistinct, ReceiptsNameSample,
     EvidenceOwned, FetchOrder
<1> QED
  BY <1>1, <1>2

\* A step that leaves tasks and the sample alone keeps the facts about receipts.
LEMMA ReceiptFrame ==
  ASSUME EvidenceChain, tasks' = tasks, sample' = sample
  PROVE  TasksDistinct' /\ ReceiptsNameSample' /\ Owned' = Owned
BY DEF EvidenceChain, TasksDistinct, ReceiptsNameSample, Owned

\* Recording a task extends the receipts with an id that was not owned.
LEMMA RecordTaskReceipts ==
  ASSUME TypeOK, EvidenceChain, NEW id \in RawIds, NEW route \in Routes, RecordTask(id, route)
  PROVE  /\ TasksDistinct'
         /\ ReceiptsNameSample'
         /\ Owned \subseteq Owned'
<1> DEFINE r == [id |-> id, content |-> sample.content, route |-> route]
<1>1. tasks' = Append(tasks, r) /\ tasks \in Seq(Receipts) /\ r \in Receipts
  BY DEF RecordTask, Admissible, TypeOK, Identities, Receipts
<1>2. /\ Len(tasks') = Len(tasks) + 1
      /\ DOMAIN tasks' = 1 .. (Len(tasks) + 1)
      /\ DOMAIN tasks = 1 .. Len(tasks)
      /\ Len(tasks) \in Nat
      /\ \A i \in DOMAIN tasks : tasks'[i] = tasks[i]
      /\ tasks'[Len(tasks) + 1] = r
  BY <1>1
<1>3. id \notin Owned /\ Len(tasks) < MaxTasks /\ sample # None /\ sample' = sample
  BY DEF RecordTask, Admissible
<1>4. TasksDistinct'
  <2>1. Len(tasks') <= MaxTasks
    BY <1>2, <1>3, LedgerAssumption
  <2>2. ASSUME NEW i \in DOMAIN tasks', NEW j \in DOMAIN tasks', tasks'[i].id = tasks'[j].id
        PROVE  i = j
    <3>1. CASE i \in DOMAIN tasks /\ j \in DOMAIN tasks
      BY <3>1, <2>2, <1>2 DEF EvidenceChain, TasksDistinct
    <3>2. CASE i = Len(tasks) + 1 /\ j \in DOMAIN tasks
      BY <3>2, <2>2, <1>2, <1>3 DEF Owned
    <3>3. CASE i \in DOMAIN tasks /\ j = Len(tasks) + 1
      BY <3>3, <2>2, <1>2, <1>3 DEF Owned
    <3>4. CASE i = Len(tasks) + 1 /\ j = Len(tasks) + 1
      BY <3>4
    <3> QED
      BY <3>1, <3>2, <3>3, <3>4, <1>2
  <2> QED
    BY <2>1, <2>2 DEF TasksDistinct
<1>5. ReceiptsNameSample'
  <2>1. ASSUME NEW i \in DOMAIN tasks'
        PROVE  tasks'[i].content = sample.content
    <3>1. CASE i \in DOMAIN tasks
      BY <3>1, <1>2 DEF EvidenceChain, ReceiptsNameSample
    <3>2. CASE i = Len(tasks) + 1
      BY <3>2, <1>2
    <3> QED
      BY <3>1, <3>2, <1>2
  <2> QED
    BY <2>1, <1>3 DEF ReceiptsNameSample
<1>6. Owned \subseteq Owned'
  BY <1>2 DEF Owned
<1> QED
  BY <1>4, <1>5, <1>6

\* EvidenceChain is inductive relative to the types.
LEMMA NextEvidenceChain == TypeOK /\ EvidenceChain /\ [Next]_ledgerVars => EvidenceChain'
<1> SUFFICES ASSUME TypeOK, EvidenceChain, [Next]_ledgerVars
             PROVE  EvidenceChain'
  OBVIOUS
<1>1. CASE DisturbSample \/ (\E vm \in VMs : AcquireLease(vm)) \/ ReleaseLease \/ Expire
           \/ (\E route \in Routes : SetRoutePolicy(route)) \/ UNCHANGED ledgerVars
  <2>1. /\ tasks' = tasks /\ sample' = sample /\ confirmed' = confirmed
        /\ reports' = reports /\ fetches' = fetches
    BY <1>1 DEF DisturbSample, AcquireLease, ReleaseLease, Expire, SetRoutePolicy, ledgerVars
  <2> QED
    BY <2>1, ReceiptFrame DEF EvidenceChain, EvidenceOwned, FetchOrder
<1>2. CASE BindSample
  <2>1. DOMAIN tasks = {} /\ tasks' = tasks /\ confirmed' = confirmed
        /\ reports' = reports /\ fetches' = fetches
    BY <1>2 DEF BindSample, EvidenceChain, ReceiptsNameSample
  <2> QED
    BY <2>1 DEF EvidenceChain, TasksDistinct, ReceiptsNameSample, EvidenceOwned, FetchOrder, Owned
<1>3. ASSUME NEW id \in RawIds, NEW route \in Routes, RecordTask(id, route)
      PROVE  EvidenceChain'
  <2>1. confirmed' = confirmed /\ reports' = reports /\ fetches' = fetches
    BY <1>3 DEF RecordTask
  <2> QED
    BY <1>3, <2>1, RecordTaskReceipts DEF EvidenceChain, EvidenceOwned, FetchOrder
<1>4. ASSUME NEW id \in TaskIds, NEW effective \in Routes \cup {None},
             ConfirmTaskRoute(id, effective)
      PROVE  EvidenceChain'
  <2>1. /\ tasks' = tasks /\ sample' = sample /\ reports' = reports /\ fetches' = fetches
        /\ id \in Owned
        /\ \A other \in TaskIds \ {id} : confirmed'[other] = confirmed[other]
    BY <1>4 DEF ConfirmTaskRoute, TypeOK
  <2> QED
    BY <2>1, ReceiptFrame DEF EvidenceChain, EvidenceOwned, FetchOrder
<1>5. ASSUME NEW id \in TaskIds, NEW matches \in BOOLEAN, RecordReport(id, matches)
      PROVE  EvidenceChain'
  <2>1. /\ tasks' = tasks /\ sample' = sample /\ confirmed' = confirmed
        /\ fetches' = fetches + 1 /\ fetches \in Nat
        /\ id \in Owned
        /\ reports'[id] = [matches |-> matches, at |-> fetches]
        /\ \A other \in TaskIds \ {id} : reports'[other] = reports[other]
    BY <1>5 DEF RecordReport, TypeOK
  <2>2. EvidenceOwned'
    BY <2>1, ReceiptFrame DEF EvidenceChain, EvidenceOwned
  <2>3. \A other \in TaskIds : reports[other] # None => reports[other].at \in Nat
    BY DEF TypeOK, Digests
  <2>4. FetchOrder'
    BY <2>1, <2>3 DEF EvidenceChain, FetchOrder
  <2> QED
    BY <2>1, <2>2, <2>4, ReceiptFrame DEF EvidenceChain
<1> QED
  BY <1>1, <1>2, <1>3, <1>4, <1>5 DEF Next

\* In any run of ledger calls, interleaved with changes to the sample file, the
\* ledger's values stay in their types.
THEOREM TypeCorrect == Spec => []TypeOK
<1>1. Init => TypeOK
  BY InitInvariant
<1>2. TypeOK /\ [Next]_ledgerVars => TypeOK'
  BY NextTypeOK
<1> QED
  BY <1>1, <1>2, PTL DEF Spec

\* Receipts, confirmations and reports stay about one sample and about tasks
\* this run submitted (record_task, confirm_task_route, record_report).
THEOREM EvidenceChainHolds == Spec => []EvidenceChain
<1>1. Init => TypeOK /\ EvidenceChain
  BY InitInvariant
<1>2. (TypeOK /\ EvidenceChain) /\ [Next]_ledgerVars => (TypeOK /\ EvidenceChain)'
  BY NextTypeOK, NextEvidenceChain
<1> QED
  BY <1>1, <1>2, PTL DEF Spec

-----------------------------------------------------------------------------
\* When some digest matched, verified_report() names the newest of them.
LEMMA VerifiedReportIsNewest ==
  ASSUME TypeOK, EvidenceChain, Matching # {}
  PROVE  /\ VerifiedReport \in Matching
         /\ \A id \in Matching : reports[id].at <= reports[VerifiedReport].at
<1> DEFINE stamp == [id \in Matching |-> reports[id].at]
<1>1. fetches \in Nat /\ \A id \in Matching : stamp[id] \in Nat /\ stamp[id] < fetches
  BY DEF TypeOK, Matching, Digests, EvidenceChain, FetchOrder
<1> HIDE DEF stamp
<1>2. \E m \in Matching : \A id \in Matching : stamp[id] <= stamp[m]
  BY <1>1, NewestExists
<1> USE DEF stamp
<1>3. \E m \in Matching : \A id \in Matching : reports[id].at <= reports[m].at
  BY <1>2
<1> QED
  BY <1>3 DEF VerifiedReport

\* The invariant that the orchestrator's gate reads.
LEMMA EvidenceImpliesSound == TypeOK /\ EvidenceChain => VerifiedReportSound
<1> SUFFICES ASSUME TypeOK, EvidenceChain, VerifiedReport # None
             PROVE  /\ \E i \in DOMAIN tasks :
                          /\ tasks[i].id = VerifiedReport
                          /\ sample # None
                          /\ tasks[i].content = sample.content
                    /\ reports[VerifiedReport].matches
                    /\ \A id \in Matching \ {VerifiedReport} :
                          reports[id].at < reports[VerifiedReport].at
  BY DEF VerifiedReportSound
<1>1. Matching # {}
  BY DEF VerifiedReport
<1>2. /\ VerifiedReport \in Matching
      /\ \A id \in Matching : reports[id].at <= reports[VerifiedReport].at
  BY <1>1, VerifiedReportIsNewest
<1> HIDE DEF VerifiedReport
<1>3. VerifiedReport \in TaskIds /\ reports[VerifiedReport] # None /\ reports[VerifiedReport].matches
  BY <1>2 DEF Matching
<1>4. VerifiedReport \in Owned
  BY <1>3 DEF EvidenceChain, EvidenceOwned
<1>5. \E i \in DOMAIN tasks : /\ tasks[i].id = VerifiedReport
                              /\ sample # None
                              /\ tasks[i].content = sample.content
  BY <1>4 DEF Owned, EvidenceChain, ReceiptsNameSample
<1>6. ASSUME NEW id \in Matching \ {VerifiedReport}
      PROVE  reports[id].at < reports[VerifiedReport].at
  <2>1. /\ id \in TaskIds /\ reports[id] # None
        /\ reports[id].at \in Nat /\ reports[VerifiedReport].at \in Nat
    BY <1>3 DEF Matching, TypeOK, Digests
  <2>2. reports[id].at # reports[VerifiedReport].at
    BY <2>1, <1>3 DEF EvidenceChain, FetchOrder
  <2> QED
    BY <2>1, <2>2, <1>2
<1> QED
  BY <1>3, <1>5, <1>6

\* The report verified_report() hands out is always the newest matching report
\* of a receipt for the pinned sample.
THEOREM VerifiedReportSoundHolds == Spec => []VerifiedReportSound
BY TypeCorrect, EvidenceChainHolds, EvidenceImpliesSound, PTL

\* No ledger call rebinds the sample or rewrites an issued receipt.
THEOREM ReceiptsAreFinalHolds == Spec => ReceiptsAreFinal
<1> DEFINE Final == /\ sample # None => sample' = sample
                    /\ \A i \in DOMAIN tasks : i \in DOMAIN tasks' /\ tasks'[i] = tasks[i]
<1>1. TypeOK /\ [Next]_ledgerVars => [Final]_ledgerVars
  <2> SUFFICES ASSUME TypeOK, Next PROVE Final
    OBVIOUS
  <2>1. CASE \E id \in RawIds, route \in Routes : RecordTask(id, route)
    <3>1. PICK id \in RawIds, route \in Routes : RecordTask(id, route)
      BY <2>1
    <3>2. /\ sample' = sample
          /\ tasks \in Seq(Receipts)
          /\ tasks' = Append(tasks, [id |-> id, content |-> sample.content, route |-> route])
      BY <3>1 DEF RecordTask, TypeOK
    <3> QED
      BY <3>2
  <2>2. CASE BindSample
    BY <2>2 DEF BindSample
  <2>3. CASE ~ BindSample /\ ~ (\E id \in RawIds, route \in Routes : RecordTask(id, route))
    <3>1. sample' = sample /\ tasks' = tasks
      BY <2>3 DEF Next, DisturbSample, SetRoutePolicy, ConfirmTaskRoute, RecordReport,
         AcquireLease, ReleaseLease, Expire
    <3> QED
      BY <3>1
  <2> QED
    BY <2>1, <2>2, <2>3
<1>2. Spec => [][Final]_ledgerVars
  BY <1>1, TypeCorrect, PTL DEF Spec
<1> QED
  BY <1>2 DEF ReceiptsAreFinal

=============================================================================
