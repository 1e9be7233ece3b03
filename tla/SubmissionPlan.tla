--------------------------- MODULE SubmissionPlan ---------------------------
(***************************************************************************)
(* The submission plan of one attempt, from the Scout's proposals to the   *)
(* Executor's last submission: who writes it into the shared document, the *)
(* gate it passes before the Executor reads it (core/backend_contract.py), *)
(* and the corrections that change it afterwards (orchestrator.py,         *)
(* agents/architect.py, agents/executor.py).                               *)
(*                                                                         *)
(* Abstractions.  A loop of an agent is any series of allowed writes (a    *)
(* refused one changes nothing) and ends, with finish() or without.  The   *)
(* option string is the set of its tokens.  What the gate finds in the     *)
(* machine or the sample file, and what a diagnosis finds in the backend,  *)
(* is open.                                                                *)
(***************************************************************************)
EXTENDS EnvSpec, FiniteSets

CONSTANTS
  Backends,      \* "cape", "qemu": the configured backend
  Leaves,        \* the paths of the document that are kept
  Offered,       \* per leaf: the values an agent may try to write
  Writes,        \* bound: writes in one loop of an agent, by loop
  MaxRounds,     \* max_correction_rounds
  MaxPerType     \* MAX_CORRECTIONS_PER_TYPE

ASSUME PlanAssumption ==
  /\ Backends \subseteq {"cape", "qemu"}
  /\ MaxRounds \in Nat /\ MaxPerType \in Nat

VARIABLES
  doc,      \* the document: a value per leaf
  backend,  \* the configured backend
  pc,       \* where the attempt is
  purpose,  \* what the current loop of the Architect or of the Executor is for
  left,     \* writes left to the current loop
  finished, \* the Architect's last loop ended with finish()
  package,  \* the package before an adjustment of it
  task,     \* the ledger holds a task
  rounds,   \* correction_round
  counts    \* _correction_counts, of the failures whose fix changes the plan

vars == <<doc, backend, pc, purpose, left, finished, package, task, rounds, counts>>

Target == <<"sample", "os_target">>
Proposed == <<"network", "proposed_mode">>
Mode == <<"network", "mode">>
Enforced == <<"cape_submission", "network_mode_enforced">>
Package == <<"cape_submission", "package">>
Platform == <<"cape_submission", "platform">>
Timeout == <<"cape_submission", "timeout">>
Options == <<"cape_submission", "options">>
Error == <<"cape_submission", "error">>
Hint == <<"pass1", "adjustment_needed">>
Corrections == <<"executor", "corrections">>

\* Paths are sequences and not empty, and what agents offer are values.
ASSUME LeavesAssumption ==
  /\ {Target, Proposed, Mode, Enforced, Package, Platform, Timeout, Options, Error, Hint,
      Corrections} \subseteq Leaves
  /\ \A leaf \in Leaves : leaf \in Seq({leaf[i] : i \in DOMAIN leaf}) /\ leaf # << >>
  /\ \A leaf \in Leaves : \A v \in Offered[leaf] :
       v \in {Null, Object, List} \/ IsOf(v, "int") \/ IsOf(v, "text")
  /\ Writes \in [{"scout", "architect", "adjust", "executor"} -> Nat]

Agents == [scout |-> "Scout", architect |-> "Architect", executor |-> "Executor"]
Fixes == {"package", "timeout", "error"}
NetworkTokens == {"network=none", "network=internet"}

\* Every leaf holds a value of some type, and a timeout, also one that a fix of
\* the controller computed, is within the bounds agents are held to.
PlanTypeOK ==
  /\ DOMAIN doc = Leaves
  /\ \A leaf \in Leaves : doc[leaf][1] \in {"null", "object", "list", "int", "text"}
  /\ IsOf(doc[Timeout], "int") => doc[Timeout][2] \in FieldBounds(Timeout)
  /\ doc[Corrections] \in {Null, List, Object}
  /\ backend \in Backends
  /\ pc \in DOMAIN Agents \union {"promote", "enforce", "gate", "hint", "validate", "diagnose",
                                  "judge", "done", "failed"}
  /\ purpose \in {"plan", "hint", "package", "error", "first", "corrected", "last"}
  /\ left \in Nat
  /\ finished \in BOOLEAN /\ task \in BOOLEAN
  /\ rounds \in 0..MaxRounds
  /\ counts \in [Fixes -> 0..MaxPerType]

Init ==
  /\ doc = [leaf \in Leaves |-> Null]
  /\ backend \in Backends
  /\ pc = "scout"
  /\ purpose = "plan"
  /\ left = Writes["scout"]
  /\ finished = FALSE
  /\ package = Null
  /\ task = FALSE
  /\ rounds = 0
  /\ counts = [f \in Fixes |-> 0]

-----------------------------------------------------------------------------
(* The loops of the agents. *)

\* update_spec or append_spec of an agent: a leaf, a name below one, or a whole branch.
AgentWrites ==
  /\ pc \in DOMAIN Agents
  /\ left > 0
  /\ \E leaf \in Leaves :
       \E path \in {leaf, Append(leaf, "x"), Front(leaf)}, v \in Offered[leaf] :
         /\ CheckWrite(path, v, Agents[pc])
         /\ doc' = Put(doc, path, v)
  /\ left' = left - 1
  /\ UNCHANGED <<backend, pc, purpose, finished, package, task, rounds, counts>>

Goto(place) == pc' = place /\ UNCHANGED <<purpose, left>>

Loop(agent, why) ==
  /\ pc' = agent
  /\ purpose' = why
  /\ left' = Writes[IF agent = "architect" /\ why # "plan" THEN "adjust" ELSE agent]

ScoutEnds ==
  /\ pc = "scout"
  /\ Goto("promote")
  /\ UNCHANGED <<doc, backend, finished, package, task, rounds, counts>>

ArchitectEnds ==
  /\ pc = "architect"
  /\ finished' \in BOOLEAN
  /\ Goto("enforce")
  /\ UNCHANGED <<doc, backend, package, task, rounds, counts>>

\* cape_submit puts its receipt into the ledger.
Submit ==
  /\ pc = "executor"
  /\ ~task
  /\ task' = TRUE
  /\ UNCHANGED <<doc, backend, pc, purpose, left, finished, package, rounds, counts>>

ExecutorEnds ==
  /\ pc = "executor"
  /\ CASE purpose = "first" -> Goto("hint")
       [] purpose = "corrected" -> Goto("validate")
       [] purpose = "last" -> Goto("done")
  /\ UNCHANGED <<doc, backend, finished, package, task, rounds, counts>>

\* The Scout does not finish, or the model of a loop cannot be reached.
LoopFails ==
  /\ pc \in DOMAIN Agents
  /\ Goto("failed")
  /\ UNCHANGED <<doc, backend, finished, package, task, rounds, counts>>

-----------------------------------------------------------------------------
(* The controller. *)

\* _promote_network_policy(): an object is not hashable, and ends the attempt.
Promote ==
  /\ pc = "promote"
  /\ IF IsOf(doc[Proposed], "object")
       THEN Goto("failed") /\ UNCHANGED doc
       ELSE /\ doc' = [doc EXCEPT ![Mode] = IF doc[Proposed] # Null THEN doc[Proposed]
                                            ELSE Text("isolated")]
            /\ Loop("architect", "plan")
  /\ UNCHANGED <<backend, finished, package, task, rounds, counts>>

\* _NETWORK_MODE_TO_CAPE and its default.
PolicyToken(mode) ==
  IF mode \in {Text("fakenet"), Text("nat"), Text("internet")} THEN "network=internet"
                                                               ELSE "network=none"

EnforcedToken == IF backend = "qemu" THEN "network=none" ELSE PolicyToken(doc[Mode])

\* Mutant of EnforcedOptions: the policy's token is added, the agent's are left.
OptionsWithToken ==
  LET given == IF Truthy(doc[Options]) THEN doc[Options][2] ELSE {} IN
  Words(given \union IF backend = "qemu" THEN {} ELSE {EnforcedToken})

EnforcedOptions ==
  LET given == IF Truthy(doc[Options]) THEN doc[Options][2] ELSE {} IN
  Words((given \ NetworkTokens) \union IF backend = "qemu" THEN {} ELSE {EnforcedToken})

\* _enforce_network_policy(), at the end of every loop of the Architect: an
\* object has no split(), and ends the attempt.
Enforce ==
  /\ pc = "enforce"
  /\ IF IsOf(doc[Options], "object")
       THEN Goto("failed") /\ UNCHANGED doc
       ELSE /\ doc' = [doc EXCEPT ![Options] = EnforcedOptions,
                                  ![Enforced] = Text(EnforcedToken)]
            /\ Goto("gate")
  /\ UNCHANGED <<backend, finished, package, task, rounds, counts>>

\* Mutant of Configured: the platform is not compared with the target.
ConfiguredForAny ==
  /\ ~Truthy(doc[Error])
  /\ \A field \in {Package, Platform} : IsOf(doc[field], "text") /\ doc[field] # Text(" ")
  /\ IsOf(doc[Timeout], "int") /\ doc[Timeout][2] > 0

\* submission_problems() finds nothing in the plan itself.
Configured ==
  /\ ~Truthy(doc[Error])
  /\ \A field \in {Package, Platform} : IsOf(doc[field], "text") /\ doc[field] # Text(" ")
  /\ IsOf(doc[Timeout], "int") /\ doc[Timeout][2] > 0
  /\ doc[Target] \in {Text(os) : os \in {"linux", "windows", "android", "macos"}} =>
       doc[Platform] = doc[Target]

\* _record_correction() appends; what is not a list raises.
Recordable == doc[Corrections] \in {Null, List}
Record == doc' = [doc EXCEPT ![Corrections] = List]

\* The gate of the orchestrator, and the one of _adjust_submission().  A fix
\* records its correction, and a new package must be another one.
Gate ==
  /\ pc = "gate"
  /\ \E verdict \in BOOLEAN :
       LET valid == Configured /\ verdict /\ finished IN
       CASE purpose = "plan" ->
              /\ IF valid THEN Loop("executor", "first") ELSE Goto("failed")
              /\ UNCHANGED doc
         [] purpose = "hint" ->
              /\ IF valid THEN Loop("executor", "corrected") ELSE Goto("failed")
              /\ UNCHANGED doc
         [] purpose \in {"package", "error"} ->
              IF ~Recordable THEN Goto("failed") /\ UNCHANGED doc
              ELSE /\ Record
                   /\ IF valid /\ (purpose = "package" => doc[Package] # package)
                        THEN Loop("executor", "corrected") ELSE Goto("failed")
  /\ finished' = FALSE
  /\ package' = Null
  /\ UNCHANGED <<backend, task, rounds, counts>>

\* The Executor's agent asked for an adjustment in pass 1.
ReadHint ==
  /\ pc = "hint"
  /\ IF Truthy(doc[Hint]) THEN Loop("architect", "hint") ELSE Goto("validate")
  /\ UNCHANGED <<doc, backend, finished, package, task, rounds, counts>>

Validate ==
  /\ pc = "validate"
  /\ IF task THEN Goto("judge") /\ UNCHANGED rounds
     ELSE IF rounds < MaxRounds THEN Goto("diagnose") /\ rounds' = rounds + 1
     ELSE Goto("failed") /\ UNCHANGED rounds
  /\ UNCHANGED <<doc, backend, finished, package, task, counts>>

\* Mutant of Extended: the timeout grows without a limit.
ExtendedFreely(plan) == [plan EXCEPT ![Timeout] = Number(plan[Timeout][2] + 60)]

\* The changes of _fix_timeout_no_data(): the gate is not passed again.
Extended(plan) ==
  [plan EXCEPT
     ![Timeout] = Number(IF plan[Timeout][2] + 60 < 300 THEN plan[Timeout][2] + 60 ELSE 300),
     ![Options] = Words(@[2] \union IF backend = "qemu" THEN {} ELSE {"force-sleepskip=1", "human=1"})]

ExtendTimeout(why) ==
  IF Recordable
    THEN /\ doc' = [Extended(doc) EXCEPT ![Corrections] = List]
         /\ Loop("executor", why)
    ELSE doc' = Extended(doc) /\ Goto("failed")

\* What _diagnose_failure() may return while there is no task.  QEMU has no
\* task to look at; CAPE's own checks come before the hint of the agent.
Diagnoses ==
  IF backend = "qemu" THEN {"error", "unknown"}
  ELSE {"host"} \union
       CASE doc[Hint] = Text("WRONG_PACKAGE") -> {"package"}
         [] doc[Hint] = Text("TIMEOUT") -> {"timeout"}
         [] IsOf(doc[Hint], "int") -> {"raise"}
         [] OTHER -> {"unknown"}

\* A failure type has a budget of its own; the four of the host are open.
Correct ==
  /\ pc = "diagnose"
  /\ \E failure \in Diagnoses :
       IF failure \notin Fixes
         THEN /\ \/ Goto("failed") /\ UNCHANGED doc
                 \/ failure = "host" /\ Recordable /\ Record /\ Loop("executor", "corrected")
              /\ UNCHANGED <<package, counts>>
       ELSE IF counts[failure] = MaxPerType
         THEN Goto("failed") /\ UNCHANGED <<doc, package, counts>>
         ELSE /\ counts' = [counts EXCEPT ![failure] = @ + 1]
              /\ IF failure = "timeout"
                   THEN ExtendTimeout("corrected") /\ UNCHANGED package
                   ELSE /\ Loop("architect", failure)
                        /\ package' = IF failure = "package" THEN doc[Package] ELSE package
                        /\ UNCHANGED doc
  /\ UNCHANGED <<backend, finished, task, rounds>>

\* The report of the task: good, not executed, or without data, once.
Judge ==
  /\ pc = "judge"
  /\ \/ (Goto("done") \/ Goto("failed")) /\ UNCHANGED doc
     \/ ExtendTimeout("last")
  /\ UNCHANGED <<backend, finished, package, task, rounds, counts>>

Ended ==
  /\ pc \in {"done", "failed"}
  /\ UNCHANGED vars

Next ==
  \/ AgentWrites \/ ScoutEnds \/ ArchitectEnds \/ Submit \/ ExecutorEnds \/ LoopFails
  \/ Promote \/ Enforce \/ Gate \/ ReadHint \/ Validate \/ Correct \/ Judge \/ Ended

Spec == Init /\ [][Next]_vars

-----------------------------------------------------------------------------
\* Whenever the Executor's agent may submit, the plan it reads is one the gate
\* would pass, and its timeout is within the bounds of the policy: whichever
\* way the plan came to be, through the gate or through a fix that skips it.
PlanReady ==
  pc = "executor" =>
    /\ ~Truthy(doc[Error])
    /\ IsOf(doc[Package], "text") /\ doc[Package] # Text(" ")
    /\ IsOf(doc[Timeout], "int") /\ doc[Timeout][2] \in FieldBounds(Timeout)
    /\ IsOf(doc[Platform], "text")
    /\ doc[Target] \in {Text("linux"), Text("windows")} => doc[Platform] = doc[Target]

\* The network token of the plan, and the record of it, are those of the mode
\* the controller decided, and the mode is the Scout's valid proposal or the
\* closed default: no later adjustment, and no token of an agent, gets through.
PolicyReachesPlan ==
  pc = "executor" =>
    /\ doc[Mode] = IF doc[Proposed] # Null THEN doc[Proposed] ELSE Text("isolated")
    /\ doc[Enforced] = Text(EnforcedToken)
    /\ doc[Options][2] \intersect NetworkTokens =
         IF backend = "qemu" THEN {} ELSE {EnforcedToken}

\* No loop of an agent changes what the controller owns, not by a write to the
\* path, below it, or over a branch that holds it.
ControllerFieldsKept ==
  [][(pc \in DOMAIN Agents) =>
       \A leaf \in Leaves : OwnedByController(leaf) => doc'[leaf] = doc[leaf]]_vars
=============================================================================
