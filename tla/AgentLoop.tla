----------------------------- MODULE AgentLoop -----------------------------
(***************************************************************************)
(* src/core/agent_loop.py: AgentLoop.run, the stage of an agent, on top of *)
(* the LLM client: iterations, the conversation and its trimming, protocol *)
(* errors, the calls of a reply one after the other, finish() and the      *)
(* validator of the Analyst, and the forced finalisation.  A call is kept  *)
(* to what it does to the report the validator looks at; every other tool  *)
(* only takes time and leaves a result in the conversation.                *)
(***************************************************************************)
EXTENDS LLMClient, SequencesExt

CONSTANTS
  MaxIterations,    \* max_iterations
  MinIterations,    \* min_iterations
  Finalisations,    \* FINALIZATION_ITERATIONS
  CheckpointWindow, \* CHECKPOINT_WINDOW
  ErrorLimit,       \* max_consecutive_protocol_errors
  DefaultTokens,    \* DEFAULT_AGENT_MAX_TOKENS
  StageTokens,      \* max_tokens of the stage
  MaxWall,          \* max_wall_seconds
  ContextLimit,     \* MAX_CONTEXT_CHARS
  Reports,          \* valid contents of analysis.report and of analysis_report.json
  None,             \* anything else there
  MaxCalls,         \* bound: calls of one reply
  LongestTool,      \* bound: the time of one call
  Horizon,          \* bound: how far below zero the stage's clock is kept
  BigResult         \* size of a long tool result; every other message has size 1

ASSUME LoopAssumption ==
  /\ MaxIterations \in Nat /\ MinIterations \in Nat /\ Finalisations \in Nat
  /\ CheckpointWindow \in Nat /\ ErrorLimit \in Nat \ {0}
  /\ DefaultTokens \in 1..MaxTokens /\ StageTokens \in Nat \ {0}
  /\ MaxWall \in Nat /\ ContextLimit \in Nat /\ MaxCalls \in Nat \ {0}
  /\ LongestTool \in Nat /\ Horizon \in Nat /\ BigResult \in Nat
  /\ None \notin Reports

VARIABLES
  loop,      \* the place in run() and _force_finalize(), the counters, the outcome
  messages,  \* the conversation: what each message is and its size
  output,    \* the report in the spec and the one in the workspace
  wall       \* what is left of the stage's time

vars == <<chat, usage, loop, messages, output, wall>>

Kinds == {"task", "checkpoint", "reply", "result", "repair", "finalise", "trimmed"}

LoopTypeOK ==
  /\ ClientTypeOK
  /\ loop \in [pc : {"head", "chat", "tools", "done", "raised", "interrupted"}, phase : {"normal", "final"},
               iteration : 1..(MaxIterations + 1), extra : 0..(Finalisations + 1),
               errors : 0..(ErrorLimit + Finalisations), tokens : 1..MaxTokens,
               retained : 1..MaxTokens, calls : 0..MaxCalls, big : BOOLEAN,
               finished : BOOLEAN,
               reason : {"iteration_budget_exhausted", "wall_time_exhausted", "protocol_stalled"}]
  /\ messages \in Seq([kind : Kinds, size : 0..(1 + BigResult)])
  /\ output \in [spec : Reports \union {None}, file : Reports \union {None}]
  /\ wall \in (0 - Horizon)..MaxWall

Message(kind) == [kind |-> kind, size |-> 1]
Capped(tokens) == Min({tokens, MaxTokens})

Init ==
  /\ ClientInit
  /\ loop = [pc |-> "head", phase |-> "normal", iteration |-> 1, extra |-> 0, errors |-> 0,
             tokens |-> Capped(StageTokens), retained |-> Capped(StageTokens), calls |-> 0,
             big |-> FALSE, finished |-> FALSE, reason |-> "iteration_budget_exhausted"]
  /\ messages = <<Message("task")>>
  /\ output = [spec |-> None, file |-> None]
  /\ wall = MaxWall

Elapse(d) == wall' = Max({wall - d, 0 - Horizon})

-----------------------------------------------------------------------------
\* _estimate_chars.
Chars(ms) == FoldSeq(LAMBDA m, n : m.size + n, 0, ms)

\* _bound_message_contents: every message is cut to its share of the limit.
Bounded(ms) ==
  [i \in DOMAIN ms |-> [ms[i] EXCEPT !.size = Min({@, ContextLimit \div Len(ms)})]]

\* The first message and the latest of the others stay; of those between, the oldest go.
TrimKeeping(latest, ms) ==
  LET last    == Len(ms) - latest
      recent  == SubSeq(ms, last + 1, Len(ms))
      Keep(n) == <<ms[1]>> \o SubSeq(ms, 2 + n, last) \o recent
      fits    == {n \in 0..(last - 1) : Chars(Keep(n)) <= ContextLimit}
      dropped == Min(fits \union {last - 1})
      kept    == IF dropped = last - 1 THEN <<ms[1], Message("trimmed")>> \o recent
                 ELSE Keep(dropped)
  IN  IF Chars(ms) <= ContextLimit THEN ms
      ELSE IF Len(ms) <= latest + 1 THEN Bounded(ms)
      ELSE IF Chars(kept) <= ContextLimit THEN kept
      ELSE Bounded(kept)

\* Mutant of Trimmed: fewer of the latest messages are kept.
TrimmedToFour(ms) == TrimKeeping(4, ms)

\* _trim_messages: the task and the last six messages are always kept.
Trimmed(ms) == TrimKeeping(6, ms)

-----------------------------------------------------------------------------
At(place, phase) == loop.pc = place /\ loop.phase = phase

\* _chat: the request is given the tokens that an earlier one of the stage needed.
Ask(tokens) ==
  chat' = Chat(Capped(Max({tokens, loop.retained})))

\* _force_finalize: the conversation is trimmed and the instruction put after it.
Finalise(ms, tokens, reason) ==
  /\ loop' = [loop EXCEPT !.pc = "head", !.phase = "final", !.extra = 1, !.errors = 0,
                          !.tokens = Capped(Max({tokens, DefaultTokens})), !.reason = reason,
                          !.retained = Max({@, tokens})]
  /\ messages' = Append(Trimmed(ms), Message("finalise"))

WallSpent ==
  /\ At("head", "normal") /\ loop.iteration <= MaxIterations /\ wall <= 0
  /\ Finalise(messages, loop.tokens, "wall_time_exhausted")
  /\ UNCHANGED <<chat, usage, output, wall>>

IterationsSpent ==
  /\ At("head", "normal") /\ loop.iteration > MaxIterations
  /\ Finalise(messages, loop.tokens, "iteration_budget_exhausted")
  /\ UNCHANGED <<chat, usage, output, wall>>

\* Trim, announce the end when it is near, ask the model.
Iterate ==
  LET remaining == MaxIterations - loop.iteration
  IN  /\ At("head", "normal") /\ remaining >= 0 /\ wall > 0
      /\ messages' = IF remaining \in 1..CheckpointWindow
                     THEN Append(Trimmed(messages), Message("checkpoint"))
                     ELSE Trimmed(messages)
      /\ Ask(loop.tokens)
      /\ loop' = [loop EXCEPT !.pc = "chat"]
      /\ UNCHANGED <<usage, output, wall>>

\* One of the few requests of the forced finalisation; the clock is not looked at.
IterateFinal ==
  /\ At("head", "final") /\ loop.extra <= Finalisations
  /\ messages' = Trimmed(messages)
  /\ Ask(loop.tokens)
  /\ loop' = [loop EXCEPT !.pc = "chat"]
  /\ UNCHANGED <<usage, output, wall>>

FinalisationSpent ==
  /\ At("head", "final") /\ loop.extra > Finalisations
  /\ loop' = [loop EXCEPT !.pc = "done"]
  /\ UNCHANGED <<chat, usage, messages, output, wall>>

AskingModel ==
  /\ loop.pc = "chat" /\ chat.pc \in {"ready", "sent", "wait"}
  /\ \E d \in 0..Max({LongestRequest, LongestDelay + 1, QuotaWait + 1}) :
       ClientStep(d) /\ Elapse(d)
  /\ UNCHANGED <<loop, messages, output>>

\* Mutant of ModelFails: a logical request that failed is made again.
ModelFailsRetried ==
  /\ loop.pc = "chat" /\ chat.pc = "raised"
  /\ Ask(loop.tokens)
  /\ UNCHANGED <<usage, loop, messages, output, wall>>

\* chat() raises, and run() does not catch it.
ModelFails ==
  /\ loop.pc = "chat" /\ chat.pc = "raised"
  /\ chat' = Idle
  /\ loop' = [loop EXCEPT !.pc = "raised"]
  /\ UNCHANGED <<usage, messages, output, wall>>

\* Mutant of Retained: what the client had to raise is forgotten.
RetainedAsAsked == Capped(Max({loop.tokens, loop.retained}))

\* _retained_max_tokens after a reply.
Retained == Capped(Max({loop.tokens, loop.retained, chat.tokens}))

\* The place after an iteration.
NextRound(l) ==
  IF l.phase = "normal" THEN [l EXCEPT !.pc = "head", !.iteration = @ + 1]
                        ELSE [l EXCEPT !.pc = "head", !.extra = @ + 1]

\* Mutant of Malformed: tokens are doubled without the ceiling, and errors never stall.
MalformedUnbounded ==
  LET tokens == IF chat.cut THEN 2 * Retained ELSE Retained
  IN  /\ loop.pc = "chat" /\ chat.pc = "answered"
      /\ loop' = NextRound([loop EXCEPT !.errors = @ + 1, !.tokens = tokens, !.retained = tokens])
      /\ messages' = messages \o <<Message("reply"), Message("repair")>>
      /\ chat' = Idle
      /\ UNCHANGED <<usage, output, wall>>

\* No valid call in the reply: _recover_protocol_error, and after some in a row the end.
Malformed ==
  LET tokens == IF chat.cut THEN Capped(2 * Retained) ELSE Retained
      spoken == messages \o <<Message("reply"), Message("repair")>>
      stalls == loop.phase = "normal" /\ loop.errors + 1 >= ErrorLimit
  IN  /\ loop.pc = "chat" /\ chat.pc = "answered"
      /\ IF stalls THEN Finalise(spoken, tokens, "protocol_stalled")
                   ELSE /\ loop' = NextRound([loop EXCEPT !.errors = @ + 1, !.tokens = tokens,
                                                          !.retained = tokens])
                        /\ messages' = spoken
      /\ chat' = Idle
      /\ UNCHANGED <<usage, output, wall>>

\* A reply with a valid call; its calls follow one by one.
Parsed ==
  /\ loop.pc = "chat" /\ chat.pc = "answered"
  /\ loop' = [loop EXCEPT !.pc = "tools", !.errors = 0, !.retained = Retained]
  /\ chat' = Idle
  /\ UNCHANGED <<usage, messages, output, wall>>

-----------------------------------------------------------------------------

\* Mutant of Calling: the reply is worked off although finish() was accepted.
CallingOn == loop.pc = "tools" /\ loop.calls < MaxCalls

\* The next call of the reply is executed, unless finish() was accepted.
Calling == loop.pc = "tools" /\ ~loop.finished /\ loop.calls < MaxCalls
Called  == [loop EXCEPT !.calls = @ + 1]

\* Any tool that leaves the report alone.  In the forced finalisation only reading the spec
\* and logging are left, which take no time, like a call refused by schema or role.
Explore ==
  /\ Calling
  /\ \E big \in BOOLEAN, d \in 0..LongestTool :
       /\ loop.phase = "final" => d = 0
       /\ loop' = [Called EXCEPT !.big = @ \/ big]
       /\ Elapse(d)
  /\ UNCHANGED <<chat, usage, messages, output>>

\* update_spec of analysis.report, write_file of analysis_report.json.
WriteSpec ==
  /\ Calling
  /\ \E r \in Reports \union {None} : output' = [output EXCEPT !.spec = r]
  /\ loop' = Called
  /\ UNCHANGED <<chat, usage, messages, wall>>

WriteFile ==
  /\ Calling
  /\ \E r \in Reports \union {None} : output' = [output EXCEPT !.file = r]
  /\ loop' = Called
  /\ UNCHANGED <<chat, usage, messages, wall>>

\* completion_problems: both places hold the same valid report.
Complete == output.spec # None /\ output.file = output.spec

\* finish(): too early, incomplete, or accepted; the calls after it are not executed.
Finish ==
  /\ Calling
  /\ loop' = IF /\ loop.phase = "final" \/ loop.iteration >= MinIterations
                /\ Complete
             THEN [Called EXCEPT !.finished = TRUE] ELSE Called
  /\ UNCHANGED <<chat, usage, messages, output, wall>>

\* The results go into the conversation, and the next iteration or the end follows.
EndOfReply ==
  /\ loop.pc = "tools" /\ loop.calls > 0
  /\ messages' = messages \o <<Message("reply"),
                   [kind |-> "result", size |-> IF loop.big THEN 1 + BigResult ELSE 1]>>
  /\ loop' = IF loop.finished THEN [loop EXCEPT !.pc = "done"]
             ELSE NextRound([loop EXCEPT !.calls = 0, !.big = FALSE])
  /\ UNCHANGED <<chat, usage, output, wall>>

\* Writing the log of the stage fails: the exception leaves run().
LogFails ==
  /\ loop.pc \in {"head", "tools"}
  /\ loop' = [loop EXCEPT !.pc = "raised"]
  /\ UNCHANGED <<chat, usage, messages, output, wall>>

\* KeyboardInterrupt, which neither chat() nor run() catches: the request under way, if
\* there is one, is abandoned as it is, and the controller goes on to its finalisation.
\* A reply that has come, and is counted, is taken over first.
Interrupted ==
  /\ loop.pc \in {"head", "chat", "tools"} /\ chat.pc # "answered"
  /\ loop' = [loop EXCEPT !.pc = "interrupted"]
  /\ UNCHANGED <<chat, usage, messages, output, wall>>

Next ==
  \/ WallSpent \/ IterationsSpent \/ Iterate \/ IterateFinal \/ FinalisationSpent
  \/ AskingModel \/ ModelFails \/ Malformed \/ Parsed
  \/ Explore \/ WriteSpec \/ WriteFile \/ Finish \/ EndOfReply \/ LogFails
  \/ Interrupted

\* run() is one thread, every request ends by the timeouts of its phases, every tool by its own.
Spec == Init /\ [][Next]_vars /\ WF_vars(Next)

-----------------------------------------------------------------------------
\* completion_problems and the break after finish(): a stage that ends as completed leaves
\* one valid report, the same in the spec and in the workspace, whatever calls the reply
\* with finish() still held and whichever way the stage came to its end.
CompletedDelivers ==
  loop.finished => output.spec # None /\ output.file = output.spec

\* _trim_messages: whenever the model is asked, the task opens the conversation, the
\* instruction of a forced finalisation is still in it, and it is within the limit but for
\* the checkpoint.
ContextKept ==
  loop.pc = "chat" =>
    /\ messages[1].kind = "task"
    /\ loop.phase = "final" => \E i \in DOMAIN messages : messages[i].kind = "finalise"
    /\ Chars(messages) <= ContextLimit + 1

\* __init__: a token budget expanded inside a provider retry survives the next tool round:
\* within a stage no request is given fewer tokens than the one before needed.
TokensSurvive ==
  [][loop.retained' >= loop.retained /\ (chat.pc = "answered" => loop'.retained >= chat.tokens)]_vars

\* run: a stage ends, with an outcome or an exception, however the model answers.
LoopEnds == <>(loop.pc \in {"done", "raised", "interrupted"})

\* Comment at _DEFAULT_MAX_WALL_SECONDS: the stage overruns its time by no more than the
\* longest single tool or model call.
WallOverrunBounded ==
  wall >= 0 - Max({LongestTool, RetryBudget + LongestRequest})
=============================================================================
