# TLA+ models of SandboxGen

SandboxGen runs a malware sample through a pipeline of LLM agents (Scout,
Architect, Executor, Analyst) that prepare, run and interpret one sandbox
analysis. A deterministic controller stands between the agents and the world: it
keeps a ledger of what was submitted, decides which report counts, and signs
off a run. The models here are of that controller. An agent is an adversary in
them: it may make any call it is allowed, in any order, any number of times up
to a bound.

Paths are relative to the repository root.

## 1. Inventory

| Part | State it keeps | Operations | What makes it correct |
|---|---|---|---|
| Run context, `src/core/run_context.py` | pinned sample, route policy, receipts, route confirmations, report digests, VM lease | `bind_sample`, `set_route_policy`, `record_task`, `confirm_task_route`, `record_report`, `verified_report`, `acquire/require/release_vm_lease` | receipts are final, of one sample, within the cap; evidence only of own tasks; the report that counts is the newest whose target matched |
| Executor, `src/agents/executor.py` | correction round and counts, spec fields, lease | two passes, `_validate`, `_diagnose_failure`, the fixes, `_persist_report_authoritatively`, retry, verdict | what passes ran the pinned bytes; a destroyed VM never passes; the lease is held wherever VMs are touched and always given back; the stage ends |
| Agent loop, `src/core/agent_loop.py` | messages, counters, trace | `run`, tool dispatch, protocol recovery, trimming, forced finalisation | the loop ends; completed means delivered; the conversation keeps the task; a call in a reply is found |
| Orchestrator, `src/orchestrator.py` | attempts, their directories, failure history | `run`, `_begin_attempt`, `_run_single_attempt`, `_promote_report`, `_finalise` | a success marker is earned and fits the files beside it; exit 0 only for a signed run |
| Batch runner, `src/run_samples.sh` | counters, the workspace it looks into | main loop | a sample is done when, and only when, it is signed off |
| CAPE client, `src/core/cape_client.py` | REST session | submit, status, report with storage fallbacks, target check | a report is of the task and of the sample |
| QEMU backend, `src/core/qemu_backend.py` | task counter, task directories | synchronous `submit_file`, the CAPE client's queries | as above; sample bytes are removed |
| Host operations, `src/core/host_ops.py` | none of its own | VM and service commands under the lease rule | no VM is touched without a live lease on it |
| Report validation, `src/core/report_validation.py` | none | `validate_report`, `completion_problems` | an accepted report names the verified task |
| Spec policy and environment spec, `src/core/spec_policy.py`, `src/core/env_spec.py` | `environment_spec.json` | `check_write`, `set`, `append`, save | a role writes only its fields, and not around an owned one |
| Backend contract, `src/core/backend_contract.py` | none | `submission_problems` | a plan the backend cannot honour is not run, corrections included |
| LLM backend, `src/core/llm_backend.py` | budgets, usage | `chat` with retries and quota cycles | a request ends within its budget; incomplete usage is not called complete |
| Scout, Architect, Analyst, `src/agents/` | spec fields, notes, report | one agent loop each, `_enforce_network_policy` | the plan carries the controller's network policy; the Analyst's report rests on the verified one |
| Guest agents and detonation runners, `src/sandbox_infra/qemu/` | guest task, container, collected archive | upload, execute, poll, collect, shape the report | evidence is of the bytes submitted, and of a finished task |
| Scripts, preprocessing, logging, redaction, release tooling | files | sequential | not modelled |

How they interact. `run_samples.sh` starts the orchestrator as a process and
reads its exit code and `success.json`. The orchestrator creates a ledger per
attempt, pins the sample, and runs the four agents in turn as plain calls; the
ledger is passed to the Executor, its tools and the host operations. Agents act
only by tool calls, executed one after the other by `AgentLoop`. Agents and
controller share the environment spec and the attempt's directory. The backend
(CAPE over REST, or QEMU in a container) and the sample file are outside and
change on their own.

What is hard here: the file under the sample path and the clock change between a
check and its use; a backend's answer may be lost or its storage may hold an old
report under the same id; agents write the spec and files the controller later
reads; any write or command may fail half-way through a recovery; a process may
die between two files; loops, corrections, retries and attempts nest. The list
with lines is `hazards` in `PROJECT.json`.

## 2. Modules

```
RunLedger ── EXTENDS ── ExecutorStage ── MCExecutorStage
    │ │                    (implements RunLedger)
    │ └── RunLedgerProofs ─────┴── ExecutorStageProofs
    └── MCRunLedger
Pipeline ── MCPipeline
    └── PipelineProofs
Detonation ── EXTENDS ── QemuBackend ── MCQemuBackend
                            │ (implements DetonationService)
                            └── QemuBackendProofs
LLMClient ── EXTENDS ── AgentLoop ── MCAgentLoop
                            └── AgentLoopProofs ── ContextProofs
ReplyScanner ── ReplyScannerProofs
EnvSpec ── EXTENDS ── SubmissionPlan ── MCSubmissionPlan
                            └── SubmissionPlanProofs
```

**RunLedger** is `RunContext`. One variable per field; one action per method;
the guards are the conditions under which the method does not raise. `disk` is
the file the sample path resolves to, which anybody may change. `fetched_at` is
a position in the order of fetches (the code takes it from the wall clock, and a clock
that is set back between two fetches is not covered); the TTL of the lease is a step `Expire` that
may come at any time. It is used twice: on its own, with calls in any order (its
`Spec` is what the ledger promises to any caller), and as the abstract
specification that the Executor stage implements.

**ExecutorStage** is one attempt from the pinning of the sample to the
orchestrator's gate before the Analyst. `pc` is the place in
`ExecutorAgent.run/_run`, or in the one tool call that has several steps
(`cape_submit`: identity check, upload, receipt, route read-back are separate
steps because the sample file and the answer may change in between). The
recovery of an unreachable guest is three steps (destroy, revert, start), since
each can fail and the lease can run out between them. `issued` records what the
backend really was given under each id; the ledger never sees it, so the
properties can compare the ledger's belief with it. `downed` are the VMs a
recovery destroyed and nobody started. `StageRaises` is an exception at any
place outside the tools, which leaves through the `finally` of `run()`.

**Pipeline** is a sequence of invocations on one sample name and its workspace:
the batch runner or a person starts the orchestrator, with one attempt (files in
the workspace itself) or several (`attempt_N/`). The removal of old files and
the writes of `_finalise` are one step each; between any two the process may
die, and each may fail. `earned` is a history variable: runs in which every
stage passed, with their sample. An agent may write the report, the marker and the
manifest of every directory its `write_file` reaches (`Reachable`): its own, and in a
single-pass run those of other runs' attempts, which lie below. Nothing in the code
refuses these, so a file keeps who wrote it: one of an agent's where the controller's
belongs (`content` or `ok` is `None`) vouches for nothing, and the properties are about
the controller's. That a directory of another name would do for `attempt_*` in the batch
runner's test adds nothing to this, as a marker of an agent in any of `Dirs` is enough.

**Detonation** is one detonation below the backend: the container's script
(`detonate.py`, `win_detonate.py`), the guest's agent and the thread of its task,
and the task directory they work in. One step per point where another actor may
come between: the script reads `meta.json` when it starts and the sample only when
it uploads it; the Windows agent says "done" when `run.json` exists, and its runner
writes the file later; the thread may die and leave the state as it was; the
container may end anywhere. A report keeps what decides whether it counts (the hash
it names, whether the sample was seen running, errors) and the facts behind it
(which container wrote it, which bytes ran, whether the guest finished).

**QemuBackend** is `submit_file` of each process: validate, number, copy, hash and
`meta.json`, container, wait or time out, read, clean. Numbers start again in every
process, and `DirOf` says whether processes share a task root. A timed-out or dead
client leaves its container running; `orphan` remembers which. The module ends with
the promise it implements: **DetonationService**, in which a number is accepted once,
is bound to the bytes taken then, and ends at most once, as a failure or with a
report by its own container about these bytes. The mapping (`JobView`) takes the
status from `_tasks` and author and evidence from the report read.

**LLMClient** is `chat`: attempts, classified failures, back-off, `Retry-After`,
quota cycles, empty replies with a growing token budget, refusals, the deadline, and
whether the usage totals are said to be complete. `usage.owed` is a history of what they
lack: it is set when a request is sent, by which the provider may use tokens, and goes
only when its tokens are counted and those of all before it were. Time is counted in
ticks of 5 s.

**AgentLoop** is `AgentLoop.run` on that client: the head of an iteration (clock,
trimming, checkpoint), the request, a malformed reply or one with calls, the calls
one by one, `finish()` with the Analyst's validator, and the forced finalisation. A
`KeyboardInterrupt`, which neither `chat` nor `run` catches, leaves from any place
(`Interrupted`) and abandons the request under way as it is. A
message is its kind and its size. Calls are kept to what they do to the report that
the validator looks at; what they do elsewhere is in the other modules.

**ReplyScanner** is the loop of `_scan_json_objects` and the tag test, over
replies of a few kinds of characters followed by a well-formed call.

**EnvSpec** holds the complete tables of `spec_policy.py` (owned paths, role
prefixes, types, enumerations, bounds), `CheckWrite`, and what `set` does to the
document. A path is a sequence of names, a value a tuple that starts with its type,
an option string the set of its tokens.

**SubmissionPlan** is the life of the plan in that document: Scout's proposals,
`_promote_network_policy`, the Architect's loop and its enforcement of the network
mode, the gate (`submission_problems`), the Executor's loops, adjustments, and the
corrections, of which `_fix_timeout_no_data` changes the plan after the gate. A loop
of an agent is any series of writes the policy allows, and then an end, a finish or
an exception, which is what `AgentLoop` says of one.

### Assumptions of the models

* Reports left under a reused task id are of *another* sample (`StageAssumption`;
  the case `CAPEClient.get_report_verified` is written for). A left-over report of
  the *same* sample passes every check by design of the target comparison. Under
  QEMU this takes two processes with the same task root and sample, and a failed
  detonation: `QemuBackend` has it, with the finding `stale_report`. The run `qemu` is
  of a process with a task root of its own, as `README.md:53` and
  `docs/configuration.md:11` ask for.
* One Executor at a time per VM, and one orchestrator at a time per workspace.
* The task-present branches of `_diagnose_failure` and `_fix_report_missing` are
  absent: corrections only run while the ledger holds no task, and then these
  branches are unreachable.
* Report schema checks, static results, and what `submission_problems` finds in the
  machine list or the sample file are verdicts that may go either way.
* A guest is sent one `/execute`: the runner sends no second one, so the window in
  which the busy check would let two in is not modelled.
* An entry of a role's write list matches whole names (`passes`, not `passes_x`, which
  the code's prefix test also allows and nothing reads); the size and name limits of a
  write are left out. A write to a branch takes the leaves below it away.
* Reading a file a process is writing gives the old content, a truncated one or the
  new one; reports and `run.json` are the files for which this is modelled.

## 3. What the runs check

| Run | Bounds | Distinct states | What it shows |
|---|---|---|---|
| `ledger` | 2 byte strings, 2 inodes, answers 0..4 with valid ids 1..3, cap 2, 2 routes, 1 VM, 3 fetches | about 390,000 | see below |
| `executor` | 2 byte strings, 3 ids, cap 2, 2 routes, 2 VMs or none, both backends, 2 fetches, 2 rounds, 1 correction per type, 2 calls per agent loop, 1 change of the file, an old report under id 2 | about 1,310,000 | see below |
| `pipeline` | 2 invocations, 1 or 2 attempts each, 2 samples, agents' strays in 1 directory at a time | about 526,000 | see below |
| `qemu` | 1 process, 2 submissions, an ELF and a PE file, 1 change of the file | about 952,000 | see below |
| `agent_loop` | 3 attempts, request budget 4 ticks, requests of up to 2 ticks, waits of up to 6, 2 iterations, 3 finalisations, 2 errors in a row, 2 calls per reply, 2 reports, context limit 12 | about 516,000 | see below |
| `plan` | both backends; 2 writes of Scout, 4 of Architect, 1 per adjustment, 1 per loop of the Executor; 2 rounds, 1 correction per type | about 540,000 | see below |
| `backend_work`, `empty_retry`, `failed_marker`, `stale_report`, `wall_overrun`, `call_swallowed` | smaller | up to the counterexample | the findings of section 5 |

`ledger`. `EvidenceChain`: ids are distinct and within the cap, receipts are of
the pinned sample, confirmations and digests only of own tasks, fetch times order
the digests. `VerifiedReportSound`: what `verified_report()` returns is a receipt
of the pinned sample whose target matched, and no matching digest is newer.
`ReceiptsAreFinal`: no call rebinds the sample or changes a receipt. Two inodes
with two contents give every combination the identity check can and cannot tell
apart; two tasks and three fetches allow a digest to be overwritten and the
newest to be of either task; 0 and 4 are the values beside the id range.

`executor`. `GateEvidence`: past the gate, the counted task's job ran the pinned
bytes under the chosen route. `HandedReport`: whatever is acceptable rests on a
report with behaviour in it, also when storing a report failed.
`HarnessCopyLandsLast`: the file the Analyst is handed holds what the controller
verified, not an agent's later copy. `DestroyedVMFailsStage`, `LeaseSpansStage`:
see their comments. `ImplementsLedger`: each step of the stage is a `RunLedger`
step or leaves the ledger alone; no part of the stage goes around the ledger.
`StageTerminates`: the stage ends. Two calls per loop are one submission and one
call around it; with up to five loops in a row this fills the cap of two and
leaves a third id to a submission the ledger refuses. Two correction rounds with
one correction per type exercise both limits (the code has 5 rounds and 3 corrections
per type, `executor.py:843` and `42`). One change of the file is enough to put foreign bytes under the pinned
inode; a second could only restore what the first did.

`pipeline`. `MarkerEarned`, `MarkerMatchesManifest`, `MarkerBesideOwnReport`: what the
controller left in a directory fits together, whatever crashed, whichever layout
earlier runs used, and whatever agents wrote over or beside it; a marker that an agent
wrote is outside these, and is what `failed_marker` is about. The one report of another
run that may lie beside a controller's marker is a later one's, put below its own
directory by an agent of a single-pass run. `ExitZeroSigned`: exit 0 means that this
invocation wrote its marker. `NoAttemptAfterSuccess`; `InvocationEnds`. Two invocations
are one to sign and one to be cut short over its files or to meddle with them; the
properties are about one directory and what two runs left in it, and section 4 proves
the safety ones for any number of runs. `MaxStrays` bounds the directories that hold
agents' files where the controller's or another run's belong to one at a time, which
keeps the run small for the same reason (the proofs hold for any bound; with two
directories the run passes too, over 2.6 million states).

`qemu`. `ValidMeansRan`: a report that `report_has_signal` accepts, under the hash that
`get_report_verified` confirms, is of a guest that executed the submitted bytes and
finished; `BytesRemoved`: after the clean-up, sample bytes are in the task directory
only if its container outlived the client; `ImplementsService`: the promise above,
left-over containers included. Two submissions let the container of the first write
while the second runs; two kinds of file and one change let a PE file be detonated in
the guest planned for an ELF; a second change would only undo the first.

`agent_loop`. `CompletedDelivers`: a stage that ends as completed has one valid report,
the same in the spec and the workspace, whatever calls follow `finish()` in the same
reply; `ContextKept`: trimming never drops the task or the finalising instruction and
holds the limit but for the checkpoint; `TokensSurvive`: what one request needed, the
next is given; `OverrunIsOneRequest`: a logical request outlasts its budget by at most
the request under way; `UsageIsHonest`: while the totals are called complete they lack the tokens of no request
but one under way, or under way when the stage was interrupted (section 5);
`LoopEnds`. Three attempts under a budget of four ticks exercise a wait after each
failure, waits that reach the deadline and those that do not, and a last attempt after
two waits; two iterations are one with a checkpoint and one at the limit; a big result of 5
under a limit of 12 makes every branch of the trimming happen, before and in the forced
finalisation. The code's numbers are larger (5 attempts, 20 to 60 iterations) and
enter the model only through comparisons. `Horizon` keeps the stage's clock finite: the
pass run needs to know only that it is spent.

`plan`. `PlanReady`: whenever the Executor's agent may submit, the plan would pass the
gate and its timeout is one the policy allows, also after fixes that skip the gate;
`PolicyReachesPlan`: network mode, its record and the tokens in the options are the
controller's; `ControllerFieldsKept`: no write of an agent, to a path, below it or over
a branch, changes what the controller owns. `PlanTypeOK` includes the bound of the
timeout everywhere. Four writes are what the Architect needs to fill in package,
platform, timeout and options; two rounds with one correction per type reach a second
fix after a first and both limits. Values are those the comparisons tell apart: 5, 10
and 1800 for the timeout are below the bounds and at them, and 1800 is beyond the 300
of the fix.

Deadlock is checked in `ledger`, `executor`, `pipeline` and `plan`; `Over`, `BatchSkip`,
`DirectRun` and `Ended` let finished systems rest. It is off (`CHECK_DEADLOCK FALSE`) for
`QemuBackend` and `AgentLoop`: a process that submits no more and a stage that has ended
stop there, as the code does; `LoopEnds` says that a stage stops nowhere else.

Fairness. `WF` on `Controller`, on `Orchestrator` and on the `Next` of `AgentLoop`
(which has no steps of others: the model's answer is the outcome of a request, and a
request ends by the timeouts of its phases, a tool by its own), that is, on the
code's own steps taken together: the process is one thread that always has a next
statement, its loops are bounded by iteration and wall-clock limits, and its
subprocesses and requests have timeouts. Nothing is assumed of the environment:
it need not change the file, expire the lease, or crash, and the liveness
properties hold whether it does or not. In `Pipeline` the writes of an agent are
not part of the fair steps, so they do not count as progress of a stage.
`QemuBackend`, `DetonationService` and `SubmissionPlan` state no fairness; all that is
checked of them is safety.

Each property has a mutant in `PROJECT.json`: an operator beside the definition
it mutates, with a plausible mistake in that code, under which the run fails.

## 4. What is proved

`RunLedgerProofs`, for any contents, inodes, ids, routes, VMs, caps and number of
fetches, from `LedgerAssumption` (numbers are numbers, `Drop` is a route, `None`
is none of the values):

* `TypeCorrect`: `Spec => []TypeOK`. `TypeOK` is inductive.
* `EvidenceChainHolds`: `TypeOK /\ EvidenceChain` is inductive; the one hard step is
  `RecordTask`, whose effect on the receipts is the lemma `RecordTaskReceipts`.
* `VerifiedReportSoundHolds`: follows from the two and from the lemma `NewestExists`
  (a non-empty set of bounded stamps has a newest element), which rests on the
  well-foundedness of the naturals; `CHOOSE` in `VerifiedReport` then picks an
  element that exists, and `FetchOrder` makes it unique.
* `ReceiptsAreFinalHolds`: step by step from `TypeOK`.

`ExecutorStageProofs`, for either backend and any VMs, ids, routes, rounds, corrections,
calls of the agent and changes of the sample file, from `StageAssumption` and
`NoneAssumption`. `LedgerStep` shows that every step of the stage is a step of `RunLedger`
or leaves the ledger alone, so `ImplementsLedgerHolds` and, from the ledger's own theorems,
`StageReportSound`. `GateEvidence` needs to know what the backend really ran; `IInv` adds to
the types and to `EvidenceChain`:

* `Placed`: what holds at a place, for example that the id a submission was answered with
  is no receipt's yet and is one of the backend's jobs;
* `OwnJobs`: every receipt's task is a job of the backend, submitted under the policy;
* `JobsRan`: a report that matched is of a job with the pinned bytes, a verified route is
  the job's (`VerifiedJob`: the leftovers of other tasks never match);
* `Leased`: `LeaseSpansStage`, and no lease before `Enter` or without VMs.

`StageTypeCorrect`, `LeaseSpansStageHolds` and `GateEvidenceHolds` follow. What the stage
hands on depends on more than the ledger: the verdict it acted on, the spec field and the
copy in the workspace, which a retry changes at different steps. `VInv` adds to `IInv`:

* `Unfetched`: before the first fetch nothing was judged or reported;
* `Retrying`: a retry follows a verdict that was not good, and the task it submits comes
  after every task that has a report, so a retry's report that could not be stored
  is never mistaken for the ledger's;
* `Verdict`: after a verdict whose target matched, the spec names the task judged, and
  where the ledger names the same one the copy is the controller's;
* `Passed`: the stage ends well only after such a verdict;
* `DownedInRecovery`: a VM is down only in the recovery that destroyed it, or in a
  stage that failed.

`HandedReportHolds`, `HarnessCopyLandsLastHolds` and `DestroyedVMFailsStageHolds` follow.

`QemuBackendProofs`, for any processes, submissions, contents and changes of the sample
file, from `DetonationAssumption` and `BackendAssumption`. `BackendTypeCorrect` holds with any
task roots; its invariant `TInv` adds to the types which places of the process, the
script and the guest have a number, a `meta.json` or a sample. The other three
have the hypothesis `~SharedRoot`, a task root for each process, which the
repository's configuration asks for; without it `StatusIsOutcome` fails (finding
`stale_report`), and TLC finds `BytesRemoved` violated too, by a second process that
submits under the number of the first. With it, `OwnInv` adds:

* `BytesKept`: whatever bytes are in a directory, its script or its guest are those of
  the number's submission, as taken;
* `ReportsSound`: a report, wherever it is on its way, is by the number's own container
  and names those bytes, and one that counts is of a guest that ran them to the end;
* `TasksPlaced`: the state of a number agrees with the place of its process;
* `Attended`: a container that runs has its client waiting for it, or is an orphan;
* `BytesRemoved`.

`ValidMeansRanHolds` and `BytesRemovedHolds` follow, and `ImplementsServiceHolds` maps each step
of the processes, the containers and the guests to a step of `DetonationService` or to
a stutter.

`PipelineProofs`, for any samples, attempt limits and number of invocations, from
`PipelineAssumption` and `NoFileAssumption` (`None` is no content, outcome or file), and
for any `MaxStrays`. The properties are not inductive: a marker is only earned
because `ok` was, `ok` only because the run is in `earned`, and the directory in
use holds nothing of another run's controller while an attempt is past its clearing, though
agents write into it all the time. `IInv` adds to the types and the four properties:

* `Counted`: attempt and invocation stay within their limits;
* `OkIsEarned`: a set `ok` belongs to a run in `earned` with the pinned sample, whose report
  is in the directory in use;
* `Cleared`: between each removal and the sign-off, the report is this attempt's or none,
  and marker and manifest are not the controller's but for this attempt's manifest: what
  lies there is an agent's or nothing;
* `Signed`: after the sign-off the marker in the directory in use is the controller's, of
  this run and the pinned sample, over whatever an agent had put there;
* `Dated`: no marker of the controller's is of a later run, and one of this run implies
  `ok`. So whatever an agent of a single-pass run puts below its directory is later than
  the markers there, which `MarkerBesideOwnReport` needs.

`NextIInv` has one step per action. `AlwaysIInv` and the six theorems about
`TypeOK`, `MarkerEarned`, `MarkerMatchesManifest`, `MarkerBesideOwnReport`,
`ExitZeroSigned` and `NoAttemptAfterSuccess` follow.

`AgentLoopProofs`, for any request budget, time costs, back-off, numbers of attempts,
iterations and errors, message sizes and limits, from `ClientAssumption` and
`LoopAssumption` (`DelayAssumption`, that the bound leaves every wait a length, is for the
runs: without it a request would simply stop). `IInv` is `LoopTypeOK` and:

* `InBudget`: a request is only sent while time is left, so what is left is never
  further below zero than the longest request; a wait comes only while an attempt is left;
* `AtRest`: outside the request of an iteration the client is in its initial place, unless
  an interrupt abandoned the request;
* `Counted`: the loop's counters are within their limits while an iteration is under way;
* `UsageIsHonest` and `CompletedDelivers`, which are preserved by each step given these.

`ContextProofs` proves `ContextKept` on top of that `IInv`. The size of a conversation is a fold
over its messages, and the library's induction theorems cannot be used on it (they
take an operator). Two lemmas state induction for sets instead of predicates: a set of
naturals with 0 and all successors is `Nat` (`EveryNatural`, from well-foundedness), and a
family of subsets of a finite set that is closed under adding an element has them all
(`EverySubset`). With these the fold has a solution (`SumExists`) that does not depend on
the order (`SumWithout`, `SumsAgree`), is bounded by the number of messages times the
largest (`SumBounded`) and grows by an appended message's size (`CharsOfAppend`);
`BoundedFits`, `BoundedKinds` and `TrimmedKeeps` say what trimming leaves. The invariant `Context` is

* `Opened`: the task opens the conversation;
* `Instructed`: in the forced finalisation the instruction is at most two messages per
  round from the end;
* `Within`: the model is asked within the limit, but for the checkpoint.

`ContextKeptHolds` has the hypothesis `Finalisations <= 3`. The code's number is 3
(`agent_loop.py:245`), and the bound is needed: each round may add two messages and
trimming keeps the last six, so with 4 TLC finds a last round asked without its
instruction.

`ReplyScannerProofs`, for prose of any length: `CallExtractedHolds` says that prose with
stray braces, or with stray quotation marks and tags, but not with both kinds, never
swallows the call after it. `IInv` says what the scanner knows at each token of the
prose (`InProse`) and of the call (`InCall`). It marks the edge of the finding
`call_swallowed`: only the two together do it.

`SubmissionPlanProofs`, for any leaves, any values agents offer for them, any number of
writes, rounds and corrections, from `PlanAssumption` and `LeavesAssumption`. Two
arguments meet. One is about the tables: no entry of a role's write list is above, at or
below a path the controller owns (`TablesApart`), paths below two that part do part
(`BelowApart`), so an allowed write leaves owned leaves alone (`AllowedKeepsOwned`);
likewise the Executor's list has nothing in the plan's sections (`ExecutorKeepsPlan`)
and the Architect's not the proposal (`ArchitectKeepsProposal`). The other is how far the
plan is at each place (`Stages`): the mode is decided from the Architect on, the token is
in the plan from the gate on, and the plan is ready from the Executor on, the fixes that
skip the gate included (`ExtendedKeeps`). `ControllerFieldsKept`, `PlanTypeOK`,
`PlanReady` and `PolicyReachesPlan` follow.

Only model-checked: the three liveness properties (`LoopEnds`, `StageTerminates`,
`InvocationEnds`), which need fairness and are outside the proof system's reach, as is
anything with `ENABLED`. Every invariant, action property and refinement that a passing
run checks is also stated by a theorem. Not proved, as they are false: the properties of the
runs that expect a violation (`CallExtracted` is proved under its hypothesis only).

## 5. Where code and documentation disagree

* `backend_work`: `run_context.py:229` says that a run may not create unbounded CAPE
  work. The cap is in `record_task`, which `cape_submit` calls after the backend has
  taken the file; submissions past the cap, or with a lost answer, are not bounded
  by it (only by the iterations of the loop).
* `empty_retry`: `executor.py:911` says that an empty result gets exactly one retry
  before it is accepted. The flag that remembers the retry is a spec field the
  Executor's agent may set (`spec_policy.py:177`), so there may be none.
* `failed_marker`: `orchestrator.py:721` says that `success.json` exists only for a run
  that succeeded, and `run_samples.sh:85` that a sample is skipped only if the controller
  signed it off. `write_file` refuses agents only `agent_trace.jsonl`
  (`agent_loop.py:1094`), and `_finalise` removes nothing: a marker an agent wrote stays
  when its run fails, and the batch runner skips the sample next time. The run's trace is
  this, with a crash as the failure. A marker of the controller's stays likewise: it is
  written before `workflow.json`, `workflow_report.txt` and the last `token_usage.json`,
  and if one of these fails, or the process dies there, the exit is a failure.
* `stale_report`: `qemu_backend.py:102` says that `get_task_status()` reports the terminal
  outcome, failures included. Numbers start again in every process and the clean-up
  keeps `report.json`, so with a shared task root (`run_samples.sh:103` passes one
  configuration to every sample) a detonation that leaves no report is `reported` with
  the report of an earlier one. If that was of the same sample, nothing later notices.
* `wall_overrun`: the comment at `agent_loop.py:258` bounds the overrun of a stage by its
  longest single tool or model call. The clock is read at the head of a normal iteration
  only: the calls of a reply add up, and the forced finalisation makes up to three more
  requests.
* `call_swallowed`: the docstring at `agent_loop.py:799` says that an unmatched brace in the
  prose cannot swallow the call after it. Together with a quotation mark it does. The
  test beside it tries the two one at a time, and one at a time they are harmless, for
  prose of any length (`CallExtractedHolds`).

Four more, without a run:

* After a `KeyboardInterrupt` during a request, which `llm_backend.py:465` does not catch,
  `_finalise` (`orchestrator.py:563-566`) writes `token_usage.json` with `usage_complete`
  true although the request's tokens are missing. No document says otherwise;
  `UsageIsHonest` shows that this is the only way.
* `_fix_timeout_no_data` (`executor.py:509-511`), which "extends" the timeout, lowers one
  above 300 to 300; the plan stays a valid one.
* The guest's teardown may take a little longer than the 90 s `detonate.py:306` grants it.
* Scout's fallback scan, which `scout.py:788` says cannot mistake another run's leftovers
  for this sample, looks into `downloads/`, which a single-attempt run with `--url` or
  `--repo` shares with the run before it in that workspace (`orchestrator.py:288` does not
  clear it).

## 6. Plan

Done: the modules above, their runs, and the proofs of section 4. Next, in order of
importance:

1. Scout's pinning of a sample it downloaded (`scout.py:740-804`), with the orchestrator's
   second `bind_sample`.
2. `env_spec.save` failing after the write to memory (`env_spec.py:260`): memory and file
   differ until the next save that succeeds.
3. The CAPE client's docker fallbacks, as further sources of a report.

Not to be modelled: logging, redaction, formatting and prompts (no state that
decides anything), installation and image scripts (sequences of external
commands), sample downloads, and the guests' operating systems.
