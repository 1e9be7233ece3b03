--------------------------- MODULE AgentLoopProofs ---------------------------
(***************************************************************************)
(* A stage for every number of attempts, iterations, calls and tokens and  *)
(* every limit of the conversation: the types, the budget of a request,    *)
(* the usage, the tokens that survive a round, and what a completed stage  *)
(* leaves behind.                                                          *)
(***************************************************************************)
EXTENDS AgentLoop, TLAPS, SequenceTheorems, WellFoundedInduction

\* What Min and Max return on two or three numbers.
LEMMA MinOfTwo ==
  ASSUME NEW a \in Int, NEW b \in Int
  PROVE  Min({a, b}) = IF a <= b THEN a ELSE b
<1>1. \E m \in {a, b} : \A y \in {a, b} : m <= y
  BY SMT
<1>2. Min({a, b}) \in {a, b} /\ \A y \in {a, b} : Min({a, b}) <= y
  BY <1>1, Zenon DEF Min
<1> QED
  BY <1>2

LEMMA MaxOfTwo ==
  ASSUME NEW a \in Int, NEW b \in Int
  PROVE  Max({a, b}) = IF a >= b THEN a ELSE b
<1>1. \E m \in {a, b} : \A y \in {a, b} : m >= y
  BY SMT
<1>2. Max({a, b}) \in {a, b} /\ \A y \in {a, b} : Max({a, b}) >= y
  BY <1>1, Zenon DEF Max
<1> QED
  BY <1>2

LEMMA MaxOfThree ==
  ASSUME NEW a \in Int, NEW b \in Int, NEW c \in Int
  PROVE  /\ Max({a, b, c}) \in {a, b, c}
         /\ Max({a, b, c}) >= a /\ Max({a, b, c}) >= b /\ Max({a, b, c}) >= c
<1>1. \E m \in {a, b, c} : \A y \in {a, b, c} : m >= y
  BY SMT
<1>2. Max({a, b, c}) \in {a, b, c} /\ \A y \in {a, b, c} : Max({a, b, c}) >= y
  BY <1>1, Zenon DEF Max
<1> QED
  BY <1>2

\* A non-empty set of naturals has the least element that Min picks.
LEMMA MinOfNaturals ==
  ASSUME NEW S, S \subseteq Nat, S # {}
  PROVE  Min(S) \in S
<1>1. IsWellFoundedOn(OpToRel(<, Nat), Nat)
  BY NatLessThanWellFounded
<1>2. PICK x \in S : \A y \in S : ~ (<<y, x>> \in OpToRel(<, Nat))
  BY <1>1, WFMin, Zenon
<1>3. ASSUME NEW y \in S
      PROVE  x <= y
  <2>1. x \in Nat /\ y \in Nat
    OBVIOUS
  <2>2. ~ (y < x)
    BY <1>2, <2>1 DEF OpToRel
  <2> QED
    BY <2>1, <2>2, SMT
<1>4. \E m \in S : \A y \in S : m <= y
  BY <1>3
<1> QED
  BY <1>4, Zenon DEF Min

-----------------------------------------------------------------------------
Messages == [kind : Kinds, size : 0..(1 + BigResult)]

LEMMA MessageType ==
  ASSUME NEW kind \in Kinds
  PROVE  Message(kind) \in Messages
BY LoopAssumption DEF Message, Messages

LEMMA BoundedType ==
  ASSUME NEW ms \in Seq(Messages)
  PROVE  Bounded(ms) \in Seq(Messages)
<1> DEFINE share == ContextLimit \div Len(ms)
           cut(i) == [ms[i] EXCEPT !.size = Min({@, share})]
<1>1. ASSUME NEW i \in 1..Len(ms)
      PROVE  cut(i) \in Messages
  <2>1. ms[i] \in Messages
    OBVIOUS
  <2>2. Len(ms) \in Nat \ {0} /\ ContextLimit \in Nat
    BY LoopAssumption
  <2>3. share \in Nat
    BY <2>2, SMT
  <2>4. ms[i].size \in 0..(1 + BigResult) /\ BigResult \in Nat
    BY <2>1, LoopAssumption DEF Messages
  <2>5. Min({ms[i].size, share}) \in 0..(1 + BigResult)
    BY <2>3, <2>4, MinOfTwo
  <2> QED
    BY <2>1, <2>5 DEF Messages
<1> HIDE DEF cut
<1>2. [i \in 1..Len(ms) |-> cut(i)] \in Seq(Messages)
  BY <1>1, LenProperties, IsASeq
<1> USE DEF cut
<1>3. DOMAIN ms = 1..Len(ms)
  OBVIOUS
<1> QED
  BY <1>2, <1>3 DEF Bounded

\* Trimming keeps a conversation a conversation.
LEMMA TrimmedType ==
  ASSUME NEW ms \in Seq(Messages)
  PROVE  Trimmed(ms) \in Seq(Messages)
<1> DEFINE last == Len(ms) - 6
           recent == SubSeq(ms, last + 1, Len(ms))
           Keep(n) == <<ms[1]>> \o SubSeq(ms, 2 + n, last) \o recent
           fits == {n \in 0..(last - 1) : Chars(Keep(n)) <= ContextLimit}
           dropped == Min(fits \union {last - 1})
           kept == IF dropped = last - 1 THEN <<ms[1], Message("trimmed")>> \o recent
                   ELSE Keep(dropped)
<1>1. CASE Chars(ms) <= ContextLimit
  <2>1. Trimmed(ms) = ms
    BY <1>1, Zenon DEF Trimmed, TrimKeeping
  <2> QED
    BY <2>1
<1>2. CASE ~(Chars(ms) <= ContextLimit) /\ Len(ms) <= 6 + 1
  <2>1. Trimmed(ms) = Bounded(ms)
    BY <1>2, Zenon DEF Trimmed, TrimKeeping
  <2> QED
    BY <2>1, BoundedType
<1>3. CASE ~(Chars(ms) <= ContextLimit) /\ ~(Len(ms) <= 6 + 1)
  <2>1. last \in Nat /\ last >= 2 /\ Len(ms) \in Nat
    BY <1>3
  <2>2. ms[1] \in Messages
    BY <1>3
  <2>3. recent \in Seq(Messages)
    BY <2>1
  <2>4. dropped \in fits \union {last - 1}
    <3>1. fits \union {last - 1} \subseteq Nat
      BY <2>1
    <3> HIDE DEF fits, last
    <3> QED
      BY <3>1, MinOfNaturals, Zenon
  <2>5. dropped \in 0..(last - 1)
    BY <2>4, <2>1
  <2>6. Keep(dropped) \in Seq(Messages)
    <3> HIDE DEF dropped, recent
    <3>1. SubSeq(ms, 2 + dropped, last) \in Seq(Messages)
      BY <2>1, <2>5
    <3>2. <<ms[1]>> \in Seq(Messages)
      BY <2>2
    <3> QED
      BY <3>1, <3>2, <2>3
  <2>7. <<ms[1], Message("trimmed")>> \o recent \in Seq(Messages)
    <3>1. Message("trimmed") \in Messages
      BY MessageType DEF Kinds
    <3> HIDE DEF recent
    <3> QED
      BY <3>1, <2>2, <2>3
  <2>8. kept \in Seq(Messages)
    <3> HIDE DEF dropped, Keep, recent, last
    <3> QED
      BY <2>6, <2>7
  <2>9. Trimmed(ms) = IF Chars(kept) <= ContextLimit THEN kept ELSE Bounded(kept)
    BY <1>3, Zenon DEF Trimmed, TrimKeeping
  <2> HIDE DEF kept
  <2> QED
    BY <2>8, <2>9, BoundedType
<1> QED
  BY <1>1, <1>2, <1>3

-----------------------------------------------------------------------------
\* A request is sent only while budget is left, and no attempt follows the last.
InBudget ==
  /\ chat.left >= 0 - LongestRequest
  /\ chat.pc = "sent" => chat.left > 0
  /\ chat.pc = "wait" => chat.attempt < Attempts

\* The client is at rest but for the request of the current iteration, which an interrupt
\* leaves as it is.
AtRest == loop.pc \notin {"chat", "interrupted"} => chat = Idle

\* The counters are below their limits while an iteration is under way.
Counted ==
  /\ loop.phase = "normal" =>
       /\ loop.pc \in {"chat", "tools"} => loop.iteration <= MaxIterations
       /\ loop.errors < ErrorLimit
  /\ loop.phase = "final" =>
       /\ loop.pc \in {"chat", "tools"} => loop.extra <= Finalisations
       /\ loop.errors < loop.extra

IInv == LoopTypeOK /\ InBudget /\ UsageIsHonest /\ AtRest /\ Counted /\ CompletedDelivers

\* Types that the steps name again and again.
Loops ==
  [pc : {"head", "chat", "tools", "done", "raised", "interrupted"}, phase : {"normal", "final"},
   iteration : 1..(MaxIterations + 1), extra : 0..(Finalisations + 1),
   errors : 0..(ErrorLimit + Finalisations), tokens : 1..MaxTokens,
   retained : 1..MaxTokens, calls : 0..MaxCalls, big : BOOLEAN, finished : BOOLEAN,
   reason : {"iteration_budget_exhausted", "wall_time_exhausted", "protocol_stalled"}]

Chats ==
  [pc : {"idle", "ready", "sent", "wait", "answered", "raised"}, attempt : 0..Attempts,
   tokens : 0..MaxTokens, left : Int, why : Reasons, cut : BOOLEAN]

LEMMA CappedType ==
  ASSUME NEW tokens \in Nat \ {0}
  PROVE  Capped(tokens) \in 1..MaxTokens
BY ClientAssumption, MinOfTwo DEF Capped

LEMMA IdleType == Idle \in Chats
BY ClientAssumption DEF Idle, Chats, Reasons

\* A request stays of its type when a field gets another value of the field's type.
LEMMA ChatFields ==
  ASSUME NEW c \in Chats
  PROVE  /\ [c EXCEPT !.pc = "ready"] \in Chats
         /\ [c EXCEPT !.pc = "wait"] \in Chats
         /\ \A x \in 0..Attempts : [c EXCEPT !.attempt = x] \in Chats
         /\ \A x \in 0..MaxTokens : [c EXCEPT !.tokens = x] \in Chats
         /\ \A x \in Int : [c EXCEPT !.left = x] \in Chats
         /\ \A x \in Reasons : [c EXCEPT !.why = x] \in Chats
BY DEF Chats

LEMMA InitIInv == Init => IInv
<1> SUFFICES ASSUME Init
             PROVE  IInv
  OBVIOUS
<1> USE DEF Init
<1>1. ClientTypeOK
  BY IdleType DEF ClientTypeOK, ClientInit, Chats
<1>2. loop \in Loops
  BY LoopAssumption, CappedType DEF Loops
<1>3. messages \in Seq(Messages)
  <2>1. Message("task") \in Messages
    BY MessageType DEF Kinds
  <2> QED
    BY <2>1
<1>4. output \in [spec : Reports \union {None}, file : Reports \union {None}]
  OBVIOUS
<1>5. wall \in (0 - Horizon)..MaxWall
  BY LoopAssumption
<1>6. LoopTypeOK
  BY <1>1, <1>2, <1>3, <1>4, <1>5 DEF LoopTypeOK, Loops, Messages
<1>7. InBudget
  BY ClientAssumption DEF InBudget, ClientInit, Idle
<1>8. UsageIsHonest /\ AtRest /\ CompletedDelivers
  BY DEF UsageIsHonest, AtRest, CompletedDelivers, ClientInit
<1>9. Counted
  BY LoopAssumption DEF Counted
<1> QED
  BY <1>6, <1>7, <1>8, <1>9 DEF IInv

-----------------------------------------------------------------------------
(* The client. *)

\* What the client keeps on its own.
ClientInv == ClientTypeOK /\ InBudget /\ UsageIsHonest

LEMMA RaiseKeeps ==
  ASSUME ClientInv, Raise,
         usage' \in [complete : BOOLEAN, owed : BOOLEAN], UsageIsHonest'
  PROVE  ClientInv'
<1>1. chat' = [Idle EXCEPT !.pc = "raised"]
  BY DEF Raise
<1>2. chat' \in Chats
  BY <1>1, IdleType DEF Chats
<1>3. chat'.left = 0 /\ chat'.pc = "raised"
  BY <1>1 DEF Idle
<1> QED
  BY <1>2, <1>3, ClientAssumption DEF Chats, ClientInv, ClientTypeOK, InBudget

LEMMA CountUsageKeeps ==
  ASSUME ClientInv, NEW known \in BOOLEAN, CountUsage(known)
  PROVE  usage' \in [complete : BOOLEAN, owed : BOOLEAN] /\ UsageIsHonest'
BY DEF CountUsage, ClientInv, ClientTypeOK, UsageIsHonest

LEMMA RequestFailsKeeps ==
  ASSUME ClientInv, NEW d \in 0..LongestRequest,
         NEW kind \in {"retry", "rate_limit", "quota_cycle", "fatal"}, RequestFails(d, kind)
  PROVE  ClientInv'
<1>1. usage' \in [complete : BOOLEAN, owed : BOOLEAN] /\ UsageIsHonest'
  BY DEF RequestFails, ClientInv, ClientTypeOK, UsageIsHonest
<1>2. CASE \/ kind = "fatal" \/ chat.attempt = Attempts
           \/ kind = "quota_cycle" /\ QuotaWait = 0
  BY <1>1, <1>2, RaiseKeeps DEF RequestFails
<1>3. CASE ~(\/ kind = "fatal" \/ chat.attempt = Attempts
             \/ kind = "quota_cycle" /\ QuotaWait = 0)
  <2>1. /\ chat' = [chat EXCEPT !.pc = "wait", !.why = kind, !.left = @ - d]
        /\ chat.pc = "sent"
    BY <1>3 DEF RequestFails
  <2>2. kind \in Reasons
    BY <1>3 DEF Reasons
  <2>3. chat \in Chats /\ chat.left > 0
    BY <2>1 DEF ClientInv, ClientTypeOK, InBudget, Chats
  <2>4. chat' \in Chats
    <3>1. chat.left - d \in Int
      BY <2>3 DEF Chats
    <3> QED
      BY <2>1, <2>2, <2>3, <3>1, ChatFields, Zenon
  <2>5. chat'.left = chat.left - d /\ chat'.pc = "wait" /\ chat'.attempt = chat.attempt
    BY <2>1, <2>3 DEF Chats
  <2>6. chat.attempt < Attempts
    BY <1>3, <2>3, ClientAssumption DEF Chats
  <2>7. InBudget'
    BY <2>3, <2>5, <2>6, ClientAssumption DEF InBudget, Chats
  <2> QED
    BY <1>1, <2>4, <2>7 DEF ClientInv, ClientTypeOK, Chats
<1> QED
  BY <1>2, <1>3

LEMMA RepliesEmptyKeeps ==
  ASSUME ClientInv, NEW d \in 0..LongestRequest, NEW known \in BOOLEAN,
         NEW refusal \in BOOLEAN, RepliesEmpty(d, known, refusal)
  PROVE  ClientInv'
<1>1. usage' \in [complete : BOOLEAN, owed : BOOLEAN] /\ UsageIsHonest'
  BY CountUsageKeeps DEF RepliesEmpty
<1>2. CASE refusal \/ chat.attempt = Attempts
  BY <1>1, <1>2, RaiseKeeps DEF RepliesEmpty
<1>3. CASE ~(refusal \/ chat.attempt = Attempts)
  <2>1. /\ chat' = [chat EXCEPT !.pc = "wait", !.why = "empty_response", !.left = @ - d,
                                !.tokens = Min({2 * @, MaxTokens})]
        /\ chat.pc = "sent"
    BY <1>3 DEF RepliesEmpty
  <2>2. chat.tokens \in 0..MaxTokens
    BY DEF ClientInv, ClientTypeOK
  <2>3. Min({2 * chat.tokens, MaxTokens}) \in 0..MaxTokens
    BY <2>2, MinOfTwo, ClientAssumption
  <2>4. chat \in Chats /\ chat.left > 0
    BY <2>1 DEF ClientInv, ClientTypeOK, InBudget, Chats
  <2>5. chat' \in Chats
    <3>1. chat.left - d \in Int /\ "empty_response" \in Reasons
      BY <2>4 DEF Chats, Reasons
    <3> QED
      BY <2>1, <2>3, <2>4, <3>1, ChatFields, Zenon
  <2>6. chat'.left = chat.left - d /\ chat'.pc = "wait" /\ chat'.attempt = chat.attempt
    BY <2>1, <2>4 DEF Chats
  <2>7. chat.attempt < Attempts
    BY <1>3, <2>4, ClientAssumption DEF Chats
  <2>8. InBudget'
    BY <2>4, <2>6, <2>7, ClientAssumption DEF InBudget, Chats
  <2> QED
    BY <1>1, <2>5, <2>8 DEF ClientInv, ClientTypeOK, Chats
<1> QED
  BY <1>2, <1>3

LEMMA WaitForRetryKeeps ==
  ASSUME ClientInv, NEW delay \in Int, NEW late \in {0, 1}, WaitForRetry(delay, late)
  PROVE  ClientInv'
<1>1. usage' \in [complete : BOOLEAN, owed : BOOLEAN] /\ UsageIsHonest'
  BY DEF WaitForRetry, ClientInv, ClientTypeOK, UsageIsHonest
<1>2. CASE delay >= chat.left
  BY <1>1, <1>2, RaiseKeeps DEF WaitForRetry
<1>3. CASE ~(delay >= chat.left)
  <2>1. /\ chat' = [chat EXCEPT !.pc = "ready", !.attempt = @ + 1,
                                !.left = @ - (delay + late), !.why = "retry"]
        /\ chat.pc = "wait"
    BY <1>3 DEF WaitForRetry, NextAttempt
  <2>2. chat.left - (delay + late) \in Nat
    BY <1>3 DEF ClientInv, ClientTypeOK
  <2>3. chat \in Chats /\ chat.attempt < Attempts
    BY <2>1 DEF ClientInv, ClientTypeOK, InBudget, Chats
  <2>4. chat' \in Chats
    <3>1. chat.attempt + 1 \in 0..Attempts /\ "retry" \in Reasons
      BY <2>3, ClientAssumption DEF Chats, Reasons
    <3>2. chat.left - (delay + late) \in Int
      BY <2>3 DEF Chats
    <3> QED
      BY <2>1, <2>3, <3>1, <3>2, ChatFields, Zenon
  <2>5. chat'.left \in Nat /\ chat'.pc = "ready"
    BY <2>1, <2>2, <2>3 DEF Chats
  <2>6. InBudget'
    BY <2>5, ClientAssumption DEF InBudget
  <2> QED
    BY <1>1, <2>4, <2>6 DEF ClientInv, ClientTypeOK, Chats
<1> QED
  BY <1>2, <1>3

LEMMA ClientStepKeeps ==
  ASSUME ClientInv, NEW d \in Nat, ClientStep(d)
  PROVE  ClientInv'
<1>1. CASE Send
  BY <1>1 DEF Send, ClientInv, ClientTypeOK, InBudget, UsageIsHonest
<1>2. CASE OutOfBudget
  BY <1>2, RaiseKeeps DEF OutOfBudget, ClientInv, ClientTypeOK, UsageIsHonest
<1>3. ASSUME NEW known \in BOOLEAN, TraceFails(known)
      PROVE  ClientInv'
  <2>1. usage' \in [complete : BOOLEAN, owed : BOOLEAN] /\ UsageIsHonest'
    <3>1. CASE chat.pc = "sent"
      BY <1>3, <3>1, CountUsageKeeps DEF TraceFails
    <3>2. CASE chat.pc # "sent"
      BY <1>3, <3>2 DEF TraceFails, ClientInv, ClientTypeOK, UsageIsHonest
    <3> QED
      BY <3>1, <3>2
  <2> QED
    BY <1>3, <2>1, RaiseKeeps DEF TraceFails
<1>4. ASSUME d \in 0..LongestRequest,
             NEW kind \in {"retry", "rate_limit", "quota_cycle", "fatal"}, RequestFails(d, kind)
      PROVE  ClientInv'
  BY <1>4, RequestFailsKeeps
<1>5. ASSUME d \in 0..LongestRequest, NEW known \in BOOLEAN, NEW refusal \in BOOLEAN,
             RepliesEmpty(d, known, refusal)
      PROVE  ClientInv'
  BY <1>5, RepliesEmptyKeeps
<1>6. ASSUME NEW known \in BOOLEAN, NEW cut \in BOOLEAN, Replies(known, cut)
      PROVE  ClientInv'
  <2>1. usage' \in [complete : BOOLEAN, owed : BOOLEAN] /\ UsageIsHonest'
    BY <1>6, CountUsageKeeps DEF Replies
  <2> QED
    BY <1>6, <2>1 DEF Replies, ClientInv, ClientTypeOK, InBudget
<1>7. ASSUME NEW delay \in Delays(chat.why, chat.attempt), NEW late \in {0, 1},
             WaitForRetry(delay, late)
      PROVE  ClientInv'
  <2>1. delay \in Int
    BY ClientAssumption DEF Delays
  <2> QED
    BY <1>7, <2>1, WaitForRetryKeeps
<1> QED
  BY <1>1, <1>2, <1>3, <1>4, <1>5, <1>6, <1>7 DEF ClientStep

-----------------------------------------------------------------------------
(* The loop. *)

\* The loop's record stays of its type when a field gets another value of the field's type.
LEMMA LoopFields ==
  ASSUME NEW l \in Loops
  PROVE  /\ \A x \in {"chat", "tools", "done", "raised", "interrupted"} : [l EXCEPT !.pc = x] \in Loops
         /\ [l EXCEPT !.pc = "head"] \in Loops
         /\ [l EXCEPT !.phase = "final"] \in Loops
         /\ \A x \in 1..(MaxIterations + 1) : [l EXCEPT !.iteration = x] \in Loops
         /\ \A x \in 0..(Finalisations + 1) : [l EXCEPT !.extra = x] \in Loops
         /\ \A x \in 0..(ErrorLimit + Finalisations) : [l EXCEPT !.errors = x] \in Loops
         /\ \A x \in 1..MaxTokens : [l EXCEPT !.tokens = x] \in Loops
         /\ \A x \in 1..MaxTokens : [l EXCEPT !.retained = x] \in Loops
         /\ \A x \in 0..MaxCalls : [l EXCEPT !.calls = x] \in Loops
         /\ \A x \in BOOLEAN : [l EXCEPT !.big = x] \in Loops
         /\ \A x \in BOOLEAN : [l EXCEPT !.finished = x] \in Loops
BY DEF Loops

\* The parts of the invariant, with the types by their names.
LEMMA IInvParts ==
  IInv <=> /\ ClientInv
           /\ loop \in Loops
           /\ messages \in Seq(Messages)
           /\ output \in [spec : Reports \union {None}, file : Reports \union {None}]
           /\ wall \in (0 - Horizon)..MaxWall
           /\ AtRest /\ Counted /\ CompletedDelivers
BY DEF IInv, LoopTypeOK, ClientInv, Loops, Messages

LEMMA IInvPartsNext ==
  IInv' <=> /\ ClientInv'
            /\ loop' \in Loops
            /\ messages' \in Seq(Messages)
            /\ output' \in [spec : Reports \union {None}, file : Reports \union {None}]
            /\ wall' \in (0 - Horizon)..MaxWall
            /\ AtRest' /\ Counted' /\ CompletedDelivers'
BY DEF IInv, LoopTypeOK, ClientInv, Loops, Messages

LEMMA ElapseType ==
  ASSUME wall \in (0 - Horizon)..MaxWall, NEW d \in Nat, Elapse(d)
  PROVE  wall' \in (0 - Horizon)..MaxWall
<1>1. wall - d \in Int /\ 0 - Horizon \in Int
  BY LoopAssumption
<1>2. Max({wall - d, 0 - Horizon}) = IF wall - d >= 0 - Horizon THEN wall - d ELSE 0 - Horizon
  BY <1>1, MaxOfTwo
<1> QED
  BY <1>2, LoopAssumption DEF Elapse

LEMMA ClientUnchanged ==
  ASSUME ClientInv, UNCHANGED <<chat, usage>>
  PROVE  ClientInv'
BY DEF ClientInv, ClientTypeOK, InBudget, UsageIsHonest

LEMMA ClientRests ==
  ASSUME ClientInv, chat.pc # "sent", chat' = Idle, UNCHANGED usage
  PROVE  ClientInv'
<1>1. chat' \in Chats
  BY IdleType
<1>2. InBudget'
  BY ClientAssumption DEF InBudget, Idle
<1> QED
  BY <1>1, <1>2 DEF ClientInv, ClientTypeOK, Chats, UsageIsHonest

\* A request of the stage is in bounds.
LEMMA AskKeeps ==
  ASSUME ClientInv, chat.pc # "sent", loop \in Loops, Ask(loop.tokens), UNCHANGED usage
  PROVE  ClientInv'
<1> DEFINE tokens == Capped(Max({loop.tokens, loop.retained}))
<1>1. loop.tokens \in 1..MaxTokens /\ loop.retained \in 1..MaxTokens
  BY DEF Loops
<1>2. Max({loop.tokens, loop.retained}) \in Nat \ {0}
  BY <1>1, MaxOfTwo, ClientAssumption
<1>3. tokens \in 0..MaxTokens
  BY <1>2, CappedType, ClientAssumption
<1>4. chat' = [pc |-> "ready", attempt |-> 1, tokens |-> tokens, left |-> RetryBudget,
               why |-> "retry", cut |-> FALSE]
  BY DEF Ask, Chat, Idle
<1> HIDE DEF tokens
<1>5. chat' \in Chats
  BY <1>3, <1>4, ClientAssumption DEF Chats, Reasons
<1>6. InBudget'
  BY <1>4, ClientAssumption DEF InBudget
<1> QED
  BY <1>5, <1>6 DEF ClientInv, ClientTypeOK, Chats, UsageIsHonest

\* What the next round starts from is in bounds, and enough for the last request.
LEMMA RetainedType ==
  ASSUME ClientInv, loop \in Loops
  PROVE  /\ Retained \in 1..MaxTokens
         /\ Retained >= loop.retained /\ Retained >= chat.tokens
<1>1. /\ loop.tokens \in 1..MaxTokens /\ loop.retained \in 1..MaxTokens
      /\ chat.tokens \in 0..MaxTokens /\ MaxTokens \in Nat
  BY ClientAssumption DEF Loops, ClientInv, ClientTypeOK
<1> DEFINE most == Max({loop.tokens, loop.retained, chat.tokens})
<1>2. /\ most \in {loop.tokens, loop.retained, chat.tokens}
      /\ most >= loop.tokens /\ most >= loop.retained /\ most >= chat.tokens
  <2>1. loop.tokens \in Int /\ loop.retained \in Int /\ chat.tokens \in Int
    BY <1>1
  <2> QED
    BY <2>1, MaxOfThree, Zenon
<1> HIDE DEF most
<1>3. most \in 1..MaxTokens
  BY <1>1, <1>2
<1>4. Capped(most) = most
  BY <1>1, <1>3, MinOfTwo DEF Capped
<1> QED
  BY <1>2, <1>3, <1>4 DEF Retained, most

\* Entering the forced finalisation.
LEMMA FinaliseKeeps ==
  ASSUME loop \in Loops, NEW ms \in Seq(Messages), NEW tokens \in 1..MaxTokens,
         NEW reason \in {"iteration_budget_exhausted", "wall_time_exhausted", "protocol_stalled"},
         Finalise(ms, tokens, reason)
  PROVE  /\ loop' \in Loops
         /\ messages' \in Seq(Messages)
         /\ loop'.pc = "head" /\ loop'.phase = "final"
         /\ loop'.errors = 0 /\ loop'.extra = 1
         /\ loop'.finished = loop.finished
         /\ loop'.retained >= loop.retained /\ loop'.retained >= tokens
<1> DEFINE budget == Capped(Max({tokens, DefaultTokens}))
           kept == Max({loop.retained, tokens})
<1>1. /\ loop.retained \in 1..MaxTokens /\ DefaultTokens \in 1..MaxTokens /\ MaxTokens \in Nat
      /\ tokens \in 1..MaxTokens
  BY ClientAssumption, LoopAssumption DEF Loops
<1>2. Max({tokens, DefaultTokens}) \in Nat \ {0}
  BY <1>1, MaxOfTwo
<1>3. budget \in 1..MaxTokens
  BY <1>2, CappedType
<1>4. kept \in 1..MaxTokens /\ kept >= loop.retained /\ kept >= tokens
  BY <1>1, MaxOfTwo
<1>5. loop' = [pc |-> "head", phase |-> "final", iteration |-> loop.iteration, extra |-> 1,
               errors |-> 0, tokens |-> budget, retained |-> kept, calls |-> loop.calls,
               big |-> loop.big, finished |-> loop.finished, reason |-> reason]
  BY DEF Finalise, Loops
<1>6. 1 \in 0..(Finalisations + 1) /\ 0 \in 0..(ErrorLimit + Finalisations)
  BY LoopAssumption
<1>7. messages' \in Seq(Messages)
  <2>1. Message("finalise") \in Messages /\ Trimmed(ms) \in Seq(Messages)
    BY MessageType, TrimmedType DEF Kinds
  <2> QED
    BY <2>1 DEF Finalise
<1> HIDE DEF budget, kept
<1>8. loop' \in Loops
  BY <1>3, <1>4, <1>5, <1>6 DEF Loops
<1> QED
  BY <1>4, <1>5, <1>7, <1>8

\* The round after this one is within the limits.
LEMMA NextRoundType ==
  ASSUME NEW l \in Loops,
         l.phase = "normal" => l.iteration <= MaxIterations,
         l.phase = "final" => l.extra <= Finalisations
  PROVE  /\ NextRound(l) \in Loops
         /\ NextRound(l).pc = "head" /\ NextRound(l).phase = l.phase
         /\ NextRound(l).errors = l.errors
         /\ NextRound(l).finished = l.finished
         /\ NextRound(l).retained = l.retained
         /\ l.phase = "final" => NextRound(l).extra = l.extra + 1
<1>1. CASE l.phase = "normal"
  <2>1. NextRound(l) = [l EXCEPT !.pc = "head", !.iteration = @ + 1]
    BY <1>1 DEF NextRound
  <2>2. l.iteration + 1 \in 1..(MaxIterations + 1)
    BY <1>1, LoopAssumption DEF Loops
  <2>3. NextRound(l) \in Loops
    <3>1. [l EXCEPT !.pc = "head"] \in Loops
      BY LoopFields, Zenon
    <3>2. NextRound(l) = [[l EXCEPT !.pc = "head"] EXCEPT !.iteration = l.iteration + 1]
      BY <2>1
    <3> QED
      BY <2>2, <3>1, <3>2, LoopFields, ZenonT(40)
  <2> QED
    BY <1>1, <2>1, <2>3 DEF Loops
<1>2. CASE l.phase = "final"
  <2>1. NextRound(l) = [l EXCEPT !.pc = "head", !.extra = @ + 1]
    BY <1>2 DEF NextRound
  <2>2. l.extra + 1 \in 0..(Finalisations + 1)
    BY <1>2, LoopAssumption DEF Loops
  <2>3. NextRound(l) \in Loops
    <3>1. [l EXCEPT !.pc = "head"] \in Loops
      BY LoopFields, Zenon
    <3>2. NextRound(l) = [[l EXCEPT !.pc = "head"] EXCEPT !.extra = l.extra + 1]
      BY <2>1
    <3> QED
      BY <2>2, <3>1, <3>2, LoopFields, ZenonT(40)
  <2> QED
    BY <1>2, <2>1, <2>3 DEF Loops
<1> QED
  BY <1>1, <1>2 DEF Loops

\* The forced finalisation starts with the invariant.
LEMMA FinaliseIInv ==
  ASSUME IInv, NEW ms \in Seq(Messages), NEW tokens \in 1..MaxTokens,
         NEW reason \in {"iteration_budget_exhausted", "wall_time_exhausted", "protocol_stalled"},
         Finalise(ms, tokens, reason), ClientInv', chat' = Idle, UNCHANGED <<output, wall>>
  PROVE  IInv'
<1>1. /\ loop \in Loops /\ CompletedDelivers
      /\ output \in [spec : Reports \union {None}, file : Reports \union {None}]
      /\ wall \in (0 - Horizon)..MaxWall
  BY IInvParts
<1>2. /\ loop' \in Loops /\ messages' \in Seq(Messages)
      /\ loop'.pc = "head" /\ loop'.phase = "final"
      /\ loop'.errors = 0 /\ loop'.extra = 1 /\ loop'.finished = loop.finished
  BY <1>1, FinaliseKeeps
<1>3. AtRest' /\ Counted'
  BY <1>2 DEF AtRest, Counted
<1>4. CompletedDelivers'
  BY <1>1, <1>2 DEF CompletedDelivers
<1> QED
  BY <1>1, <1>2, <1>3, <1>4, IInvPartsNext

\* A malformed reply, before and in the forced finalisation.
LEMMA MalformedKeeps ==
  ASSUME IInv, Malformed
  PROVE  IInv' /\ loop'.retained >= loop.retained /\ loop'.retained >= chat.tokens
<1> DEFINE tokens == IF chat.cut THEN Capped(2 * Retained) ELSE Retained
           spoken == messages \o <<Message("reply"), Message("repair")>>
           stalls == loop.phase = "normal" /\ loop.errors + 1 >= ErrorLimit
           repaired == [loop EXCEPT !.errors = @ + 1, !.tokens = tokens, !.retained = tokens]
<1>1. /\ ClientInv /\ loop \in Loops /\ messages \in Seq(Messages)
      /\ output \in [spec : Reports \union {None}, file : Reports \union {None}]
      /\ wall \in (0 - Horizon)..MaxWall
      /\ Counted /\ CompletedDelivers
  BY IInvParts
<1>2. /\ loop.pc = "chat" /\ chat.pc # "sent" /\ chat' = Idle
      /\ UNCHANGED <<usage, output, wall>>
      /\ IF stalls THEN Finalise(spoken, tokens, "protocol_stalled")
                   ELSE loop' = NextRound(repaired) /\ messages' = spoken
  BY DEF Malformed
<1>3. ClientInv'
  BY <1>1, <1>2, ClientRests
<1>4. /\ tokens \in 1..MaxTokens
      /\ tokens >= loop.retained /\ tokens >= chat.tokens
  <2>1. /\ Retained \in 1..MaxTokens
        /\ Retained >= loop.retained /\ Retained >= chat.tokens
    BY <1>1, RetainedType
  <2>2. Capped(2 * Retained) \in 1..MaxTokens /\ Capped(2 * Retained) >= Retained
    <3>1. 2 * Retained \in Nat \ {0} /\ MaxTokens \in Int
      BY <2>1, ClientAssumption
    <3>2. Capped(2 * Retained) = IF 2 * Retained <= MaxTokens THEN 2 * Retained ELSE MaxTokens
      BY <3>1, MinOfTwo DEF Capped
    <3> QED
      BY <2>1, <3>1, <3>2
  <2>3. /\ loop.retained \in Int /\ chat.tokens \in Int
    BY <1>1 DEF Loops, ClientInv, ClientTypeOK
  <2> QED
    BY <2>1, <2>2, <2>3
<1>5. spoken \in Seq(Messages)
  <2>1. Message("reply") \in Messages /\ Message("repair") \in Messages
    BY MessageType DEF Kinds
  <2> QED
    BY <1>1, <2>1
<1> HIDE DEF tokens, spoken
<1>6. CASE stalls
  <2>1. Finalise(spoken, tokens, "protocol_stalled")
    BY <1>2, <1>6
  <2>2. loop'.retained >= loop.retained /\ loop'.retained >= tokens /\ loop' \in Loops
    BY <1>1, <1>4, <1>5, <2>1, FinaliseKeeps
  <2>3. IInv'
    BY <1>2, <1>3, <1>4, <1>5, <2>1, FinaliseIInv
  <2>4. loop'.retained >= chat.tokens
    BY <1>1, <1>4, <2>2, SMTT(30) DEF Loops, ClientInv, ClientTypeOK
  <2> QED
    BY <2>2, <2>3, <2>4
<1>7. CASE ~stalls
  <2>1. loop' = NextRound(repaired) /\ messages' = spoken
    BY <1>2, <1>7
  <2>2. /\ loop.phase = "normal" => loop.iteration <= MaxIterations /\ loop.errors + 1 < ErrorLimit
        /\ loop.phase = "final" => loop.extra <= Finalisations /\ loop.errors < loop.extra
    <3>1. loop.errors \in Nat /\ ErrorLimit \in Nat
      BY <1>1, LoopAssumption DEF Loops
    <3>2. loop.phase = "normal" => loop.iteration <= MaxIterations
      BY <1>1, <1>2 DEF Counted
    <3>3. loop.phase = "normal" => loop.errors + 1 < ErrorLimit
      BY <1>7, <3>1
    <3>4. loop.phase = "final" => loop.extra <= Finalisations /\ loop.errors < loop.extra
      BY <1>1, <1>2 DEF Counted
    <3> QED
      BY <3>2, <3>3, <3>4
  <2>3. loop.errors + 1 \in 0..(ErrorLimit + Finalisations)
    BY <1>1, <2>2, LoopAssumption, SMTT(30) DEF Loops
  <2>4. repaired \in Loops
    BY <1>1, <1>4, <2>3, LoopFields, Zenon
  <2>5. /\ repaired.phase = loop.phase /\ repaired.iteration = loop.iteration
        /\ repaired.extra = loop.extra /\ repaired.errors = loop.errors + 1
        /\ repaired.finished = loop.finished /\ repaired.retained = tokens
    BY <1>1 DEF Loops
  <2> HIDE DEF repaired
  <2>6. /\ loop' \in Loops /\ loop'.pc = "head" /\ loop'.phase = loop.phase
        /\ loop'.errors = loop.errors + 1 /\ loop'.finished = loop.finished
        /\ loop'.retained = tokens
        /\ loop.phase = "final" => loop'.extra = loop.extra + 1
    BY <2>1, <2>2, <2>4, <2>5, NextRoundType
  <2>7. AtRest'
    BY <1>2 DEF AtRest
  <2>8. Counted'
    BY <1>1, <2>2, <2>6 DEF Counted, Loops
  <2>9. CompletedDelivers'
    BY <1>1, <1>2, <2>6 DEF CompletedDelivers
  <2> QED
    BY <1>1, <1>2, <1>3, <1>4, <1>5, <2>1, <2>6, <2>7, <2>8, <2>9, IInvPartsNext
<1> QED
  BY <1>6, <1>7

\* One more call of a reply.
LEMMA CalledType ==
  ASSUME loop \in Loops, Calling
  PROVE  /\ Called \in Loops
         /\ Called.pc = "tools" /\ Called.phase = loop.phase /\ ~Called.finished
         /\ Called.iteration = loop.iteration /\ Called.extra = loop.extra
         /\ Called.errors = loop.errors /\ Called.retained = loop.retained
<1>1. loop.calls + 1 \in 0..MaxCalls
  BY LoopAssumption DEF Calling, Loops
<1>2. Called \in Loops
  BY <1>1, LoopFields, Zenon DEF Called
<1> QED
  BY <1>2 DEF Called, Calling, Loops

\* A step that changes neither counters nor the place keeps what is said of them.
LEMMA SamePlace ==
  ASSUME IInv, loop'.pc = loop.pc, loop'.phase = loop.phase, loop'.iteration = loop.iteration,
         loop'.extra = loop.extra, loop'.errors = loop.errors, loop.pc = "tools", UNCHANGED chat
  PROVE  AtRest' /\ Counted'
BY DEF IInv, AtRest, Counted

\* Every step keeps the invariant.
LEMMA NextIInv == IInv /\ [Next]_vars => IInv'
<1> SUFFICES ASSUME IInv, [Next]_vars
             PROVE  IInv'
  OBVIOUS
<1> DEFINE Output == [spec : Reports \union {None}, file : Reports \union {None}]
           Clock == (0 - Horizon)..MaxWall
<1>0. /\ ClientInv /\ loop \in Loops /\ messages \in Seq(Messages)
      /\ output \in Output /\ wall \in Clock
      /\ AtRest /\ Counted /\ CompletedDelivers
      /\ loop.tokens \in 1..MaxTokens
  BY IInvParts DEF Loops
<1>1. CASE WallSpent
  <2>1. chat' = Idle /\ ClientInv'
    BY <1>0, <1>1, ClientUnchanged DEF WallSpent, At, AtRest
  <2> QED
    BY <1>0, <1>1, <2>1, FinaliseIInv DEF WallSpent
<1>2. CASE IterationsSpent
  <2>1. chat' = Idle /\ ClientInv'
    BY <1>0, <1>2, ClientUnchanged DEF IterationsSpent, At, AtRest
  <2> QED
    BY <1>0, <1>2, <2>1, FinaliseIInv DEF IterationsSpent
<1>3. CASE Iterate
  <2>1. loop.phase = "normal" /\ loop.iteration <= MaxIterations
    <3>1. loop.phase = "normal" /\ MaxIterations - loop.iteration >= 0
      BY <1>3, Zenon DEF Iterate, At
    <3>2. loop.iteration \in Int /\ MaxIterations \in Int
      BY <1>0, LoopAssumption DEF Loops
    <3> QED
      BY <3>1, <3>2
  <2>2. loop' = [loop EXCEPT !.pc = "chat"] /\ loop' \in Loops
    BY <1>0, <1>3, LoopFields DEF Iterate
  <2>3. ClientInv'
    <3>1. chat.pc # "sent"
      BY <1>0, <1>3 DEF Iterate, At, AtRest, Idle
    <3> QED
      BY <1>0, <1>3, <3>1, AskKeeps DEF Iterate
  <2>4. messages' \in Seq(Messages)
    <3>1. Message("checkpoint") \in Messages /\ Trimmed(messages) \in Seq(Messages)
      BY <1>0, MessageType, TrimmedType DEF Kinds
    <3> QED
      BY <1>3, <3>1 DEF Iterate
  <2>5. AtRest' /\ Counted' /\ CompletedDelivers'
    BY <1>0, <1>3, <2>1, <2>2 DEF AtRest, Counted, CompletedDelivers, Loops, Iterate
  <2> QED
    BY <1>0, <1>3, <2>2, <2>3, <2>4, <2>5, IInvPartsNext DEF Iterate
<1>4. CASE IterateFinal
  <2>1. loop.phase = "final" /\ loop.extra <= Finalisations
    BY <1>4 DEF IterateFinal, At
  <2>2. loop' = [loop EXCEPT !.pc = "chat"] /\ loop' \in Loops
    BY <1>0, <1>4, LoopFields DEF IterateFinal
  <2>3. ClientInv'
    <3>1. chat.pc # "sent"
      BY <1>0, <1>4 DEF IterateFinal, At, AtRest, Idle
    <3> QED
      BY <1>0, <1>4, <3>1, AskKeeps DEF IterateFinal
  <2>4. messages' \in Seq(Messages)
    BY <1>0, <1>4, TrimmedType DEF IterateFinal
  <2>5. AtRest' /\ Counted' /\ CompletedDelivers'
    BY <1>0, <1>4, <2>1, <2>2 DEF AtRest, Counted, CompletedDelivers, Loops, IterateFinal
  <2> QED
    BY <1>0, <1>4, <2>2, <2>3, <2>4, <2>5, IInvPartsNext DEF IterateFinal
<1>5. CASE FinalisationSpent
  <2>1. loop' = [loop EXCEPT !.pc = "done"] /\ loop' \in Loops
    BY <1>0, <1>5, LoopFields DEF FinalisationSpent
  <2>2. ClientInv'
    BY <1>0, <1>5, ClientUnchanged DEF FinalisationSpent
  <2>3. AtRest' /\ Counted' /\ CompletedDelivers'
    BY <1>0, <1>5, <2>1
       DEF AtRest, Counted, CompletedDelivers, Loops, FinalisationSpent, At
  <2> QED
    BY <1>0, <1>5, <2>1, <2>2, <2>3, IInvPartsNext DEF FinalisationSpent
<1>6. CASE AskingModel
  <2>1. PICK d \in 0..Max({LongestRequest, LongestDelay + 1, QuotaWait + 1}) :
          ClientStep(d) /\ Elapse(d)
    BY <1>6 DEF AskingModel
  <2>2. d \in Nat
    <3>1. /\ LongestRequest \in Int /\ LongestDelay + 1 \in Int /\ QuotaWait + 1 \in Int
      BY ClientAssumption
    <3>2. Max({LongestRequest, LongestDelay + 1, QuotaWait + 1})
            \in {LongestRequest, LongestDelay + 1, QuotaWait + 1}
      BY <3>1, MaxOfThree, Zenon
    <3> QED
      BY <3>1, <3>2
  <2>3. ClientInv'
    BY <1>0, <2>1, <2>2, ClientStepKeeps
  <2>4. wall' \in Clock
    BY <1>0, <2>1, <2>2, ElapseType
  <2>5. AtRest' /\ Counted' /\ CompletedDelivers'
    BY <1>0, <1>6 DEF AtRest, Counted, CompletedDelivers, AskingModel
  <2> QED
    BY <1>0, <1>6, <2>3, <2>4, <2>5, IInvPartsNext DEF AskingModel
<1>7. CASE ModelFails
  <2>1. loop' = [loop EXCEPT !.pc = "raised"] /\ loop' \in Loops
    BY <1>0, <1>7, LoopFields DEF ModelFails
  <2>2. ClientInv'
    BY <1>0, <1>7, ClientRests DEF ModelFails
  <2>3. AtRest' /\ Counted' /\ CompletedDelivers'
    BY <1>0, <1>7, <2>1 DEF AtRest, Counted, CompletedDelivers, Loops, ModelFails
  <2> QED
    BY <1>0, <1>7, <2>1, <2>2, <2>3, IInvPartsNext DEF ModelFails
<1>8. CASE Malformed
  BY <1>8, MalformedKeeps
<1>9. CASE Parsed
  <2>1. loop' = [loop EXCEPT !.pc = "tools", !.errors = 0, !.retained = Retained]
    BY <1>9 DEF Parsed
  <2>2. Retained \in 1..MaxTokens /\ 0 \in 0..(ErrorLimit + Finalisations)
    BY <1>0, RetainedType, LoopAssumption
  <2>3. loop' \in Loops
    BY <1>0, <2>1, <2>2, LoopFields, Zenon
  <2>4. ClientInv'
    BY <1>0, <1>9, ClientRests DEF Parsed
  <2>5. /\ loop'.pc = "tools" /\ loop'.errors = 0 /\ loop'.phase = loop.phase
        /\ loop'.iteration = loop.iteration /\ loop'.extra = loop.extra
        /\ loop'.finished = loop.finished
    BY <1>0, <2>1 DEF Loops
  <2>6. Counted'
    <3>1. loop.errors \in Nat /\ loop.extra \in Int /\ ErrorLimit > 0
      BY <1>0, LoopAssumption DEF Loops
    <3>2. /\ loop.phase = "normal" => loop.iteration <= MaxIterations
          /\ loop.phase = "final" => loop.extra <= Finalisations /\ loop.errors < loop.extra
      BY <1>0, <1>9 DEF Counted, Parsed
    <3> QED
      BY <2>5, <3>1, <3>2 DEF Counted
  <2>7. AtRest' /\ CompletedDelivers'
    BY <1>0, <1>9, <2>5 DEF AtRest, CompletedDelivers, Parsed
  <2> QED
    BY <1>0, <1>9, <2>3, <2>4, <2>6, <2>7, IInvPartsNext DEF Parsed
<1>10. CASE Explore
  <2>1. PICK big \in BOOLEAN, d \in 0..LongestTool :
          loop' = [Called EXCEPT !.big = @ \/ big] /\ Elapse(d)
    BY <1>10 DEF Explore
  <2>2. Calling /\ loop.pc = "tools" /\ UNCHANGED <<chat, usage, messages, output>>
    BY <1>10 DEF Explore, Calling
  <2>3. /\ Called \in Loops /\ Called.pc = "tools" /\ Called.phase = loop.phase
        /\ ~Called.finished /\ Called.iteration = loop.iteration
        /\ Called.extra = loop.extra /\ Called.errors = loop.errors
    BY <1>0, <2>2, CalledType
  <2>4. /\ loop' \in Loops
        /\ loop'.pc = "tools" /\ loop'.phase = loop.phase /\ ~loop'.finished
        /\ loop'.iteration = loop.iteration /\ loop'.extra = loop.extra
        /\ loop'.errors = loop.errors
    BY <2>1, <2>3 DEF Loops
  <2>5. wall' \in Clock
    BY <1>0, <2>1, ElapseType, LoopAssumption
  <2>6. AtRest' /\ Counted'
    BY <2>2, <2>4, SamePlace
  <2>7. ClientInv' /\ CompletedDelivers'
    BY <1>0, <2>2, <2>4, ClientUnchanged DEF CompletedDelivers
  <2> QED
    BY <1>0, <2>2, <2>4, <2>5, <2>6, <2>7, IInvPartsNext
<1>11. CASE WriteSpec \/ WriteFile
  <2>1. /\ Calling /\ loop.pc = "tools" /\ loop' = Called
        /\ output' \in Output /\ UNCHANGED <<chat, usage, messages, wall>>
    BY <1>0, <1>11 DEF WriteSpec, WriteFile, Calling
  <2>2. /\ loop' \in Loops /\ loop'.pc = "tools" /\ loop'.phase = loop.phase
        /\ ~loop'.finished /\ loop'.iteration = loop.iteration
        /\ loop'.extra = loop.extra /\ loop'.errors = loop.errors
    BY <1>0, <2>1, CalledType
  <2>3. AtRest' /\ Counted'
    BY <2>1, <2>2, SamePlace
  <2>4. ClientInv' /\ CompletedDelivers'
    BY <1>0, <2>1, <2>2, ClientUnchanged DEF CompletedDelivers
  <2> QED
    BY <1>0, <2>1, <2>2, <2>3, <2>4, IInvPartsNext
<1>12. CASE Finish
  <2>1. /\ Calling /\ loop.pc = "tools" /\ UNCHANGED <<chat, usage, messages, output, wall>>
        /\ \/ loop' = Called
           \/ loop' = [Called EXCEPT !.finished = TRUE] /\ Complete
    BY <1>12 DEF Finish, Calling
  <2>2. /\ Called \in Loops /\ Called.pc = "tools" /\ Called.phase = loop.phase
        /\ ~Called.finished /\ Called.iteration = loop.iteration
        /\ Called.extra = loop.extra /\ Called.errors = loop.errors
    BY <1>0, <2>1, CalledType
  <2>3. /\ loop' \in Loops
        /\ loop'.pc = "tools" /\ loop'.phase = loop.phase
        /\ loop'.finished => Complete
        /\ loop'.iteration = loop.iteration /\ loop'.extra = loop.extra
        /\ loop'.errors = loop.errors
    BY <2>1, <2>2 DEF Loops
  <2>4. AtRest' /\ Counted'
    BY <2>1, <2>3, SamePlace
  <2>5. ClientInv' /\ CompletedDelivers'
    BY <1>0, <2>1, <2>3, ClientUnchanged DEF CompletedDelivers, Complete
  <2> QED
    BY <1>0, <2>1, <2>3, <2>4, <2>5, IInvPartsNext
<1>13. CASE EndOfReply
  <2> DEFINE rested == [loop EXCEPT !.calls = 0, !.big = FALSE]
  <2>1. /\ loop.pc = "tools" /\ UNCHANGED <<chat, usage, output, wall>>
        /\ loop' = IF loop.finished THEN [loop EXCEPT !.pc = "done"] ELSE NextRound(rested)
    BY <1>13 DEF EndOfReply
  <2>2. /\ loop.phase = "normal" => loop.iteration <= MaxIterations /\ loop.errors < ErrorLimit
        /\ loop.phase = "final" => loop.extra <= Finalisations /\ loop.errors < loop.extra
    BY <1>0, <2>1 DEF Counted
  <2>3. messages' \in Seq(Messages)
    <3>1. Message("reply") \in Messages
      BY MessageType DEF Kinds
    <3>2. [kind |-> "result", size |-> IF loop.big THEN 1 + BigResult ELSE 1] \in Messages
      BY LoopAssumption DEF Messages, Kinds
    <3> QED
      BY <1>0, <1>13, <3>1, <3>2 DEF EndOfReply
  <2>4. ClientInv'
    BY <1>0, <2>1, ClientUnchanged
  <2>5. CASE loop.finished
    <3>1. loop' = [loop EXCEPT !.pc = "done"] /\ loop' \in Loops
      BY <1>0, <2>1, <2>5, LoopFields
    <3>2. AtRest' /\ Counted' /\ CompletedDelivers'
      BY <1>0, <2>1, <3>1 DEF AtRest, Counted, CompletedDelivers, Loops
    <3> QED
      BY <1>0, <2>1, <2>3, <2>4, <3>1, <3>2, IInvPartsNext
  <2>6. CASE ~loop.finished
    <3>1. 0 \in 0..MaxCalls
      BY LoopAssumption
    <3>2. rested \in Loops
      BY <1>0, <3>1, LoopFields, Zenon
    <3>3. /\ rested.phase = loop.phase /\ rested.iteration = loop.iteration
          /\ rested.extra = loop.extra /\ rested.errors = loop.errors
          /\ rested.finished = loop.finished
      BY <1>0 DEF Loops
    <3> HIDE DEF rested
    <3>4. /\ loop' \in Loops /\ loop'.pc = "head" /\ loop'.phase = loop.phase
          /\ loop'.errors = loop.errors /\ ~loop'.finished
          /\ loop.phase = "final" => loop'.extra = loop.extra + 1
      BY <2>1, <2>2, <2>6, <3>2, <3>3, NextRoundType
    <3>5. Counted'
      BY <1>0, <2>2, <3>4 DEF Counted, Loops
    <3>6. AtRest' /\ CompletedDelivers'
      BY <1>0, <2>1, <3>4 DEF AtRest, CompletedDelivers
    <3> QED
      BY <1>0, <2>1, <2>3, <2>4, <3>4, <3>5, <3>6, IInvPartsNext
  <2> QED
    BY <2>5, <2>6
<1>14. CASE LogFails
  <2>1. loop' = [loop EXCEPT !.pc = "raised"] /\ loop' \in Loops
    BY <1>0, <1>14, LoopFields DEF LogFails
  <2>2. ClientInv'
    BY <1>0, <1>14, ClientUnchanged DEF LogFails
  <2>3. AtRest' /\ Counted' /\ CompletedDelivers'
    BY <1>0, <1>14, <2>1 DEF AtRest, Counted, CompletedDelivers, Loops, LogFails
  <2> QED
    BY <1>0, <1>14, <2>1, <2>2, <2>3, IInvPartsNext DEF LogFails
<1>15. CASE Interrupted
  <2>1. loop' = [loop EXCEPT !.pc = "interrupted"] /\ loop' \in Loops
    BY <1>0, <1>15, LoopFields DEF Interrupted
  <2>2. ClientInv'
    BY <1>0, <1>15, ClientUnchanged DEF Interrupted
  <2>3. AtRest' /\ Counted' /\ CompletedDelivers'
    BY <1>0, <1>15, <2>1 DEF AtRest, Counted, CompletedDelivers, Loops, Interrupted
  <2> QED
    BY <1>0, <1>15, <2>1, <2>2, <2>3, IInvPartsNext DEF Interrupted
<1>16. CASE UNCHANGED vars
  <2>1. ClientInv'
    BY <1>0, <1>16, ClientUnchanged DEF vars
  <2>2. AtRest' /\ Counted' /\ CompletedDelivers'
    BY <1>0, <1>16 DEF vars, AtRest, Counted, CompletedDelivers
  <2> QED
    BY <1>0, <1>16, <2>1, <2>2, IInvPartsNext DEF vars
<1> QED
  BY <1>1, <1>2, <1>3, <1>4, <1>5, <1>6, <1>7, <1>8, <1>9, <1>10, <1>11, <1>12, <1>13,
     <1>14, <1>15, <1>16 DEF Next

-----------------------------------------------------------------------------
LEMMA AlwaysIInv == Spec => []IInv
BY InitIInv, NextIInv, PTL DEF Spec

\* Every variable of a stage and of its client keeps its type: counters stay within their
\* limits, token budgets within the ceiling, and trimming yields conversations.
THEOREM LoopTypeCorrect == Spec => []LoopTypeOK
<1>1. IInv => LoopTypeOK
  BY DEF IInv
<1> QED
  BY <1>1, AlwaysIInv, PTL

\* A logical request outlasts its budget by no more than one request, for every budget,
\* number of attempts, back-off and quota wait.
THEOREM OverrunIsOneRequestHolds == Spec => []OverrunIsOneRequest
<1>1. IInv => OverrunIsOneRequest
  BY DEF IInv, InBudget, OverrunIsOneRequest
<1> QED
  BY <1>1, AlwaysIInv, PTL

\* While the usage is called complete, its totals lack the tokens of no request but one under
\* way, or cut off by an interrupt of the stage (chat, get_usage).
THEOREM UsageIsHonestHolds == Spec => []UsageIsHonest
<1>1. IInv => UsageIsHonest
  BY DEF IInv
<1> QED
  BY <1>1, AlwaysIInv, PTL

\* A stage that completed leaves one valid report in both places.
THEOREM CompletedDeliversHolds == Spec => []CompletedDelivers
<1>1. IInv => CompletedDelivers
  BY DEF IInv
<1> QED
  BY <1>1, AlwaysIInv, PTL

\* No request of a stage is given fewer tokens than an earlier one needed.
THEOREM TokensSurviveHolds == Spec => TokensSurvive
<1> DEFINE Survive == /\ loop.retained' >= loop.retained
                      /\ chat.pc = "answered" => loop'.retained >= chat.tokens
<1>1. IInv /\ [Next]_vars => [Survive]_vars
  <2> SUFFICES ASSUME IInv, Next
               PROVE  Survive
    OBVIOUS
  <2>0. /\ ClientInv /\ loop \in Loops /\ messages \in Seq(Messages) /\ AtRest
        /\ loop.tokens \in 1..MaxTokens /\ loop.retained \in 1..MaxTokens
    BY IInvParts DEF Loops
  <2>1. CASE Malformed
    BY <2>1, MalformedKeeps
  <2>2. CASE Parsed
    <3>1. Retained >= loop.retained /\ Retained >= chat.tokens
      BY <2>0, RetainedType
    <3> QED
      BY <2>0, <2>2, <3>1 DEF Parsed, Loops
  <2>3. CASE WallSpent \/ IterationsSpent
    <3>1. chat.pc # "answered"
      BY <2>0, <2>3 DEF WallSpent, IterationsSpent, At, AtRest, Idle
    <3>2. \E reason \in {"wall_time_exhausted", "iteration_budget_exhausted"} :
            Finalise(messages, loop.tokens, reason)
      BY <2>3 DEF WallSpent, IterationsSpent
    <3> QED
      BY <2>0, <3>1, <3>2, FinaliseKeeps
  <2>4. CASE Explore \/ WriteSpec \/ WriteFile \/ Finish
    <3>1. Calling /\ chat.pc # "answered"
      BY <2>0, <2>4 DEF Explore, WriteSpec, WriteFile, Finish, Calling, AtRest, Idle
    <3>2. Called \in Loops /\ Called.retained = loop.retained
      BY <2>0, <3>1, CalledType
    <3>3. loop'.retained = Called.retained
      BY <2>4, <3>2 DEF Explore, WriteSpec, WriteFile, Finish, Loops
    <3> QED
      BY <2>0, <3>1, <3>2, <3>3
  <2>5. CASE EndOfReply
    <3>1. loop.pc = "tools" /\ chat.pc # "answered"
      BY <2>0, <2>5 DEF EndOfReply, AtRest, Idle
    <3>2. loop'.retained = loop.retained
      BY <2>0, <2>5 DEF EndOfReply, NextRound, Loops
    <3> QED
      BY <2>0, <3>1, <3>2
  <2>6. CASE Iterate \/ IterateFinal \/ FinalisationSpent \/ LogFails
    <3>1. chat.pc # "answered"
      BY <2>0, <2>6 DEF Iterate, IterateFinal, FinalisationSpent, LogFails, At, AtRest, Idle
    <3>2. loop'.retained = loop.retained
      BY <2>0, <2>6 DEF Iterate, IterateFinal, FinalisationSpent, LogFails, Loops
    <3> QED
      BY <2>0, <3>1, <3>2
  <2>7. CASE AskingModel \/ ModelFails
    <3>1. chat.pc # "answered"
      BY <2>7 DEF AskingModel, ModelFails
    <3>2. loop'.retained = loop.retained
      BY <2>0, <2>7 DEF AskingModel, ModelFails, Loops
    <3> QED
      BY <2>0, <3>1, <3>2
  <2>8. CASE Interrupted
    BY <2>0, <2>8 DEF Interrupted, Loops
  <2> QED
    BY <2>1, <2>2, <2>3, <2>4, <2>5, <2>6, <2>7, <2>8 DEF Next
<1> QED
  BY <1>1, AlwaysIInv, PTL DEF Spec, TokensSurvive
=============================================================================
