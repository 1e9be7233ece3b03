----------------------------- MODULE LLMClient -----------------------------
(***************************************************************************)
(* src/core/llm_backend.py: one logical request (chat) with its attempts,  *)
(* its waits and its budget.  Time is counted in ticks that the requests   *)
(* and the waits take; what is left of the budget may go below zero, for a *)
(* request that is under way is not interrupted.  Prompts and replies are  *)
(* data; of a reply there is whether it is empty and why it ended.         *)
(***************************************************************************)
EXTENDS Integers, FiniteSetsExt

CONSTANTS
  Attempts,        \* max_retries, the first attempt included
  RetryBudget,     \* retry_budget_s
  QuotaWait,       \* quota_cycle_wait_s, 0 if not configured
  MaxTokens,       \* the ceiling of chat() and of the agent loop, 16384
  LongestRequest,  \* bound: the time of one request
  LongestDelay     \* bound: the time jitter and Retry-After may make of a wait

ASSUME ClientAssumption ==
  /\ Attempts \in Nat \ {0} /\ RetryBudget \in Nat \ {0} /\ MaxTokens \in Nat \ {0}
  /\ QuotaWait \in Nat /\ LongestRequest \in Nat /\ LongestDelay \in Nat

VARIABLES
  chat,    \* the logical request under way
  usage    \* complete: get_usage says so; owed: a request was sent, and the totals lack its tokens

clientVars == <<chat, usage>>

Reasons == {"retry", "rate_limit", "quota_cycle", "empty_response"}

ClientTypeOK ==
  /\ chat \in [pc : {"idle", "ready", "sent", "wait", "answered", "raised"},
               attempt : 0..Attempts, tokens : 0..MaxTokens,
               left : Int,
               why : Reasons, cut : BOOLEAN]
  /\ usage \in [complete : BOOLEAN, owed : BOOLEAN]

Idle == [pc |-> "idle", attempt |-> 0, tokens |-> 0, left |-> 0, why |-> "retry", cut |-> FALSE]

ClientInit ==
  /\ chat = Idle
  /\ usage = [complete |-> TRUE, owed |-> FALSE]

\* chat() is called; the budget starts.
Chat(tokens) ==
  [Idle EXCEPT !.pc = "ready", !.attempt = 1, !.tokens = tokens, !.left = RetryBudget]

Raise == chat' = [Idle EXCEPT !.pc = "raised"]

\* The shortest wait after an attempt, in ticks of 5 s: 5 s or, when the rate is limited,
\* 15 s, doubled with every attempt up to 60 s or 120 s.  A quota wait is what is configured.
Backoff(why, attempt) ==
  IF why = "rate_limit" THEN Min({3 * 2^(attempt - 1), 24}) ELSE Min({2^(attempt - 1), 12})
Delays(why, attempt) ==
  IF why = "quota_cycle" THEN {QuotaWait} ELSE Backoff(why, attempt)..LongestDelay

\* The bound leaves every wait a length; after the last attempt there is none.
ASSUME DelayAssumption ==
  \A attempt \in 1..(Attempts - 1) : Backoff("rate_limit", attempt) <= LongestDelay

-----------------------------------------------------------------------------
\* From here on the provider may use tokens.
Send ==
  /\ chat.pc = "ready" /\ chat.left > 0
  /\ chat' = [chat EXCEPT !.pc = "sent"]
  /\ usage' = [usage EXCEPT !.owed = TRUE]

\* The clock ran on during the wait: no attempt any more.
OutOfBudget ==
  /\ chat.pc = "ready" /\ chat.left <= 0
  /\ Raise
  /\ UNCHANGED usage

\* Mutant of RequestFails: a failed request is taken to have used no tokens.
FailureIsFree(d, kind) ==
  /\ chat.pc = "sent"
  /\ UNCHANGED usage
  /\ IF \/ kind = "fatal" \/ chat.attempt = Attempts
        \/ kind = "quota_cycle" /\ QuotaWait = 0
     THEN Raise
     ELSE chat' = [chat EXCEPT !.pc = "wait", !.why = kind, !.left = @ - d]

\* An exception of the SDK after d ticks.  What the provider used is not known.
RequestFails(d, kind) ==
  /\ chat.pc = "sent"
  /\ usage' = [usage EXCEPT !.complete = FALSE]
  /\ IF \/ kind = "fatal" \/ chat.attempt = Attempts
        \/ kind = "quota_cycle" /\ QuotaWait = 0
     THEN Raise
     ELSE chat' = [chat EXCEPT !.pc = "wait", !.why = kind, !.left = @ - d]

\* A reply may come without usage fields; what earlier requests owe, it does not pay.
CountUsage(known) ==
  usage' = IF known THEN [usage EXCEPT !.owed = ~usage.complete]
                    ELSE [usage EXCEPT !.complete = FALSE]

\* A refusal, or an empty last reply, is an error; else more tokens are allowed next time.
RepliesEmpty(d, known, refusal) ==
  /\ chat.pc = "sent"
  /\ CountUsage(known)
  /\ IF refusal \/ chat.attempt = Attempts
     THEN Raise
     ELSE chat' = [chat EXCEPT !.pc = "wait", !.why = "empty_response", !.left = @ - d,
                               !.tokens = Min({2 * @, MaxTokens})]

\* cut: the finish reason is length or max_tokens.
Replies(known, cut) ==
  /\ chat.pc = "sent"
  /\ CountUsage(known)
  /\ chat' = [chat EXCEPT !.pc = "answered", !.cut = cut]

NextAttempt(d) ==
  chat' = [chat EXCEPT !.pc = "ready", !.attempt = @ + 1, !.left = @ - d, !.why = "retry"]

\* Mutant of WaitForRetry: the wait is not held against the budget.
WaitRegardless(delay, late) ==
  /\ chat.pc = "wait"
  /\ NextAttempt(delay + late)
  /\ UNCHANGED usage

\* wait_for_retry: a wait that reaches the deadline is not begun.  A sleep may be late.
WaitForRetry(delay, late) ==
  /\ chat.pc = "wait"
  /\ IF delay >= chat.left
     THEN Raise
     ELSE NextAttempt(delay + late)
  /\ UNCHANGED usage

\* Writing the trace of an attempt fails (_trace_attempt): chat() ends there.  Before the
\* request and in a wait there is nothing to count; the trace of a reply is written after
\* its usage is counted.
TraceFails(known) ==
  /\ chat.pc \in {"ready", "sent", "wait"}
  /\ IF chat.pc = "sent" THEN CountUsage(known) ELSE UNCHANGED usage
  /\ Raise

ClientStep(d) ==
  \/ /\ d = 0
     /\ Send \/ OutOfBudget \/ \E known \in BOOLEAN : TraceFails(known)
  \/ /\ d \in 0..LongestRequest
     /\ \/ \E kind \in {"retry", "rate_limit", "quota_cycle", "fatal"} : RequestFails(d, kind)
        \/ \E known, refusal \in BOOLEAN : RepliesEmpty(d, known, refusal)
        \/ \E known, cut \in BOOLEAN : Replies(known, cut)
  \/ \E delay \in Delays(chat.why, chat.attempt), late \in {0, 1} :
       /\ d = IF delay >= chat.left THEN 0 ELSE delay + late
       /\ WaitForRetry(delay, late)

-----------------------------------------------------------------------------
\* chat: however requests fail and waits grow, a logical request outlasts its budget by no
\* more than one request that was under way.
OverrunIsOneRequest == chat.left >= 0 - LongestRequest

\* get_usage: while usage_complete, and with it the cost, is said, the totals lack the tokens
\* of no request but one that is under way, or was when the stage was interrupted (chat()
\* catches no KeyboardInterrupt): every other way out of a request counts its tokens or
\* gives the claim up, through retries, empty replies and traces that cannot be written.
UsageIsHonest == usage.complete /\ usage.owed => chat.pc = "sent"
=============================================================================
