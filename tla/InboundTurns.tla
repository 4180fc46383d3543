---------------------------- MODULE InboundTurns ----------------------------
(***************************************************************************)
(* One Instagram conversation of the agent runtime: how the bubbles a      *)
(* client sends become bot turns.                                          *)
(*                                                                         *)
(*   webhook handler  ->  coalesce timer  ->  flush  ->  turn queue        *)
(*   ->  drain loop  ->  one Claude turn  ->  Instagram reply              *)
(*                                                                         *)
(* The rows of the message table are durable; the coalesce state, the      *)
(* promise tail that serializes turns and the locals of the running turn   *)
(* live in the Node process and die with it.  Every await of the code is a *)
(* point where another handler may run, so each stretch of code between    *)
(* two awaits is one action.  A row's position in "messages" is its        *)
(* createdAt: "Len(messages)" is the clock, and "createdAt >= now" is      *)
(* "position > Len(messages)".                                             *)
(***************************************************************************)
EXTENDS Naturals, Sequences, FiniteSets

CONSTANTS
  Flushes,         \* flushConversation calls that can be pending at once
  Forced,          \* runForcedManagerBotTurn calls that can be pending at once
  MaxDrain,        \* MAX_DRAIN_ITERATIONS
  MaxBatch,        \* MAX_PENDING_INBOUND_BATCH
  MaxAttempts,     \* CONVERSATION_RETRY_MAX_BOT_ATTEMPTS
  MaxFallbacks,    \* AGENT_FALLBACK_MAX_BEFORE_HANDOFF
  CoalesceEnabled, \* INBOUND_COALESCE_ENABLED
  RetryEnabled,    \* CONVERSATION_RETRY_ENABLED, with Claude available
  ClaudeOutcomes,  \* what a Claude turn may decide, a subset of Plans
  History,         \* the rows of the conversation when the model starts
  Budget           \* how often each environment event happens (the bound)

Workers == Flushes \cup Forced
Plans   == {"reply", "fallback", "silence", "handoff", "order"}
Events  == {"client", "reaction", "manager", "toggle", "forced", "expire",
            "gone", "throw", "crash"}

ASSUME WorkersAssumption ==
  /\ Flushes \cap Forced = {}
  /\ Workers \cap {"free", "skipped", "done", "idle", "clear", "flush"} = {}

ASSUME BoundsAssumption ==
  /\ MaxDrain \in Nat \ {0}
  /\ MaxBatch \in Nat \ {0}
  /\ MaxAttempts \in Nat
  /\ MaxFallbacks \in Nat
  /\ CoalesceEnabled \in BOOLEAN
  /\ RetryEnabled \in BOOLEAN
  /\ ClaudeOutcomes \subseteq Plans
  /\ Budget \in [Events -> Nat]

ASSUME HistoryAssumption ==
  History \in Seq([kind : {"client", "reaction", "bot", "fallback", "note", "manager"},
                   claim : {"free", "skipped", "done"}])

VARIABLES
  (* durable: the database *)
  messages,      \* rows of the conversation, in createdAt order
  conversation,  \* conversation.state
  (* in memory: inbound-coalesce.ts and conversation-turn-queue.ts *)
  webhooks,      \* rows whose handler has not reached scheduleInboundBotTurn
  armed,         \* silence timer set, i.e. burstStartedAt # null
  flushing,      \* CoalesceState.flushing
  dirty,         \* CoalesceState.dirty
  tail,          \* the promise tail: calls in the order they will run
  (* in memory: locals of the calls *)
  pc,            \* where each call is
  round,         \* drain iterations finished
  since,         \* onlyAfter of the next load (0: none)
  seen,          \* rows the last load returned
  gate,          \* turnGateAt
  batch,         \* rows joined into the user message of the turn
  started,       \* turnStartedAt
  plan,          \* what Claude decided
  verdict,       \* BotTurnOutcome
  wasDirty,      \* the flag saved by the finally block of a flush
  (* in memory: conversation-retry.ts and the manager's reply route *)
  retry,         \* progress of retryConversationBotReply
  retryIds,      \* claimClearIds
  manager,       \* progress of POST /:id/reply
  managerSaw,    \* the conversation state that route read first
  (* the environment's budget, and what only the properties look at *)
  budget,
  answered,      \* rows claimed for a delivered reply and not given back since
  overtaken,     \* flushes past their guard when the conversation left the bot
  abandoned      \* rows dropped when a call rejected, when the client could not be
                 \* written to, or by a crash of this or an earlier process

durable  == <<messages, conversation>>
coalesce == <<webhooks, armed, flushing, dirty, tail>>
frame    == <<round, since, seen, gate, batch, started, plan, verdict>>
locals   == <<pc, frame, wasDirty>>
others   == <<retry, retryIds, manager, managerSaw>>
ghosts   == <<answered, overtaken, abandoned>>
vars     == <<durable, coalesce, locals, others, budget, ghosts>>

-----------------------------------------------------------------------------
(* Rows and the queries the code runs on them.                             *)

Kinds   == {"client", "reaction", "bot", "fallback", "note", "manager"}
Claims  == {"free", "skipped", "done"} \cup Workers
Row     == [kind : Kinds, claim : Claims]
Inbound == {"client", "reaction"}
RealOut == {"bot", "manager"}

NewRow(k) == [kind |-> k, claim |-> "free"]
Rows(K)   == {i \in DOMAIN messages : messages[i].kind \in K}
Held(w)   == {i \in DOMAIN messages : messages[i].claim = w}
Latest(S) == IF S = {} THEN 0 ELSE CHOOSE m \in S : \A i \in S : i <= m
Oldest(S, n) == {i \in S : Cardinality({j \in S : j < i}) < n}

\* updateMany({where: id in S, data: {claudeTurnId: c}})
SetClaim(S, c) ==
  [i \in DOMAIN messages |->
     IF i \in S THEN [messages[i] EXCEPT !.claim = c] ELSE messages[i]]

\* resolvePendingInboundFloor over the two findFirst queries of the load.
Floor(after) ==
  LET claimed == {i \in Rows(Inbound) : messages[i].claim # "free"}
      base    == IF claimed # {} THEN Latest(claimed) ELSE Latest(Rows(RealOut))
  IN  Latest({base, after})

\* loadPendingInbound({onlyAfter: after}), before "take".
Pending(after) ==
  {i \in Rows(Inbound) :
     /\ messages[i].claim = "free"
     /\ i >= Floor(after)
     /\ i > after}

\* Defective: the state of the conversation is not part of the test.
TurnValidUnlessManagerWrote(w) ==
  /\ \A i \in Rows({"manager"}) : i <= started[w]

\* isBotTurnStillValid
TurnStillValid(w) ==
  /\ w \in Forced \/ conversation = "bot"
  /\ \A i \in Rows({"manager"}) : i <= started[w]

\* countConsecutiveBotFallbacks
ConsecutiveFallbacks ==
  Cardinality({i \in Rows({"fallback"}) : i > Latest(Rows({"bot"}))})

\* shouldSuppressDuplicateCustomerFallback
AlreadyToldToWait ==
  \E i \in Rows({"fallback"}) : i > Latest(Rows(Inbound))

\* evaluateConversationRetryNeed; the age window is left to the scheduler.
RetryNeeded ==
  LET last == Latest(Rows(Inbound))
  IN  /\ last # 0
      /\ \A i \in Rows(RealOut) : i < last
      /\ Cardinality({i \in Rows({"fallback", "note"}) : i > last}) < MaxAttempts

\* claimClearIds of retryConversationBotReply
Unanswered ==
  {i \in Rows(Inbound) : \A j \in Rows(RealOut) : j < i}

\* Bubbles nobody has done with.
Open == {i \in Rows(Inbound) : messages[i].claim \in {"free"} \cup Workers}

\* The n newest bubbles.
Newest(n) == {i \in Rows(Inbound) : Cardinality({j \in Rows(Inbound) : j > i}) < n}

\* loadUnansweredClientBatch looks at the last twelve bubbles; with none of them
\* to answer it takes the last four.
UnansweredBatch ==
  IF Unanswered \cap Newest(12) # {} THEN Unanswered \cap Newest(12) ELSE Newest(4)

-----------------------------------------------------------------------------
\* Inside handleIncomingMessageImpl.
TurnPhases == {"read", "return", "delay", "prompt", "claude", "asking", "guard", "order",
               "late", "outbound", "takeover", "send", "persist"}

\* The turn will not test the conversation again before it sends.
PastGuard == {"order", "late", "outbound", "takeover", "send", "persist"}

\* Inside the callback that runConversationTurnSerialized runs.
Running == TurnPhases \cup {"load", "claim", "finish", "settle"}

Phases == Running \cup {"idle", "queued", "rearm"}

Verdicts == {"completed", "skipped", "released", "deferred", "failed"}

\* The outcomes after which the drain loop writes on the rows of the turn.
Writing == {"skipped", "released", "deferred"}

Spend(e) == /\ budget[e] > 0
            /\ budget' = [budget EXCEPT ![e] = @ - 1]

GoTo(w, p) == pc' = [pc EXCEPT ![w] = p]

Return(w, v) == /\ verdict' = [verdict EXCEPT ![w] = v]
                /\ GoTo(w, "finish")

\* conversation.update({state}), with what the properties note about it.
SetState(st) ==
  /\ conversation' = st
  /\ overtaken' = CASE st = "bot"           -> {}
                     [] st # "bot" /\ conversation = "bot" ->
                          {f \in Flushes : pc[f] \in PastGuard}
                     [] OTHER                -> overtaken

\* The locals of a turn die when its function returns.
Forget(w) ==
  /\ round'   = [round EXCEPT ![w] = 0]
  /\ since'   = [since EXCEPT ![w] = 0]
  /\ seen'    = [seen EXCEPT ![w] = {}]
  /\ gate'    = [gate EXCEPT ![w] = 0]
  /\ batch'   = [batch EXCEPT ![w] = {}]
  /\ started' = [started EXCEPT ![w] = 0]
  /\ plan'    = [plan EXCEPT ![w] = "reply"]
  /\ verdict' = [verdict EXCEPT ![w] = "completed"]

Init ==
  /\ messages = History
  /\ conversation = "bot"
  /\ webhooks = {}
  /\ armed = FALSE /\ flushing = FALSE /\ dirty = FALSE
  /\ tail = <<>>
  /\ pc = [w \in Workers |-> "idle"]
  /\ round = [w \in Workers |-> 0]
  /\ since = [w \in Workers |-> 0]
  /\ seen = [w \in Workers |-> {}]
  /\ gate = [w \in Workers |-> 0]
  /\ batch = [w \in Workers |-> {}]
  /\ started = [w \in Workers |-> 0]
  /\ plan = [w \in Workers |-> "reply"]
  /\ verdict = [w \in Workers |-> "completed"]
  /\ wasDirty = [w \in Workers |-> FALSE]
  /\ retry = "idle" /\ retryIds = {}
  /\ manager = "idle" /\ managerSaw = "bot"
  /\ budget = Budget
  /\ answered = {} /\ overtaken = {}
  /\ abandoned = {i \in Rows(Inbound) : messages[i].claim = "free"}

-----------------------------------------------------------------------------
(* Webhooks: the client writes or reacts.                                  *)

\* processMessageEvent up to message.create.
ClientMessage ==
  /\ Spend("client")
  /\ messages' = Append(messages, NewRow("client"))
  /\ webhooks' = webhooks \cup {Len(messages) + 1}
  /\ UNCHANGED <<conversation, armed, flushing, dirty, tail, locals, others, ghosts>>

\* processReactionEvent: stored as already skipped, never scheduled.
ReactionEvent ==
  /\ Spend("reaction")
  /\ messages' = Append(messages, [kind |-> "reaction", claim |-> "skipped"])
  /\ UNCHANGED <<conversation, coalesce, locals, others, ghosts>>

\* The synchronous head of flushConversation, then the promise tail.
StartFlush(f) ==
  /\ pc[f] = "idle"
  /\ GoTo(f, "queued")
  /\ tail' = Append(tail, f)
  /\ armed' = FALSE /\ flushing' = TRUE /\ dirty' = FALSE

\* Defective: a bubble that arrives during a flush leaves no mark.
ScheduleDropsWhileFlushing(i) ==
  /\ i \in webhooks
  /\ webhooks' = webhooks \ {i}
  /\ \/ /\ flushing
        /\ dirty' = dirty
        /\ UNCHANGED <<armed, flushing, tail, pc>>
     \/ /\ ~flushing /\ CoalesceEnabled
        /\ armed' = TRUE
        /\ UNCHANGED <<dirty, flushing, tail, pc>>
     \/ /\ ~flushing /\ ~CoalesceEnabled
        /\ \E f \in Flushes : StartFlush(f)
  /\ UNCHANGED <<durable, frame, wasDirty, others, budget, ghosts>>

\* The end of processMessageEvent: scheduleInboundBotTurn.
ScheduleInboundBotTurn(i) ==
  /\ i \in webhooks
  /\ webhooks' = webhooks \ {i}
  /\ \/ /\ flushing
        /\ dirty' = TRUE
        /\ UNCHANGED <<armed, flushing, tail, pc>>
     \/ /\ ~flushing /\ CoalesceEnabled
        /\ armed' = TRUE
        /\ UNCHANGED <<dirty, flushing, tail, pc>>
     \/ /\ ~flushing /\ ~CoalesceEnabled
        /\ \E f \in Flushes : StartFlush(f)
  /\ UNCHANGED <<durable, frame, wasDirty, others, budget, ghosts>>

\* A call between message.create and scheduleInboundBotTurn rejects, or the
\* client has no access to the bot.  With its own bubble the handler drops what
\* a turn that deferred to that bubble has given back, or will.
WebhookEnds(i) ==
  /\ Spend("throw")
  /\ i \in webhooks
  /\ webhooks' = webhooks \ {i}
  /\ abandoned' = abandoned \cup (Open \ webhooks')
  /\ UNCHANGED <<durable, armed, flushing, dirty, tail, locals, others, answered, overtaken>>

\* The silence or max-wait timer set by armTimers.
FireTimer(f) ==
  /\ armed
  /\ StartFlush(f)
  /\ UNCHANGED <<durable, webhooks, frame, wasDirty, others, budget, ghosts>>

-----------------------------------------------------------------------------
(* The turn queue and the drain loop.                                      *)

\* runForcedManagerBotTurn, with the rows its caller picked before it queued.
ForceTurn(w) ==
  /\ Spend("forced")
  /\ pc[w] = "idle"
  /\ GoTo(w, "queued")
  /\ tail' = Append(tail, w)
  /\ batch' = [batch EXCEPT ![w] = UnansweredBatch]
  /\ UNCHANGED <<durable, webhooks, armed, flushing, dirty, round, since, seen, gate,
                 started, plan, verdict, wasDirty, others, ghosts>>

\* Defective: the callback does not wait for its predecessor.
BeginTurnAtOnce(w) ==
  /\ pc[w] = "queued"
  /\ GoTo(w, IF w \in Forced THEN "read" ELSE "load")
  /\ UNCHANGED <<durable, coalesce, frame, wasDirty, others, budget, ghosts>>

\* runConversationTurnSerialized: the callback runs once its predecessor ended.
BeginTurn(w) ==
  /\ pc[w] = "queued"
  /\ tail[1] = w
  /\ GoTo(w, IF w \in Forced THEN "read" ELSE "load")
  /\ UNCHANGED <<durable, coalesce, frame, wasDirty, others, budget, ghosts>>

LoadPending(f) ==
  /\ pc[f] = "load"
  /\ seen' = [seen EXCEPT ![f] = Oldest(Pending(since[f]), MaxBatch)]
  /\ GoTo(f, IF seen'[f] = {} THEN "settle" ELSE "claim")
  /\ UNCHANGED <<durable, coalesce, round, since, gate, batch, started, plan, verdict,
                 wasDirty, others, budget, ghosts>>

\* claimInboundMessages, joinInboundBatch, turnGateAt.
ClaimBatch(f) ==
  /\ pc[f] = "claim"
  /\ LET got == {i \in seen[f] : messages[i].claim = "free"}
     IN  /\ messages' = SetClaim(got, f)
         /\ GoTo(f, IF got = {} THEN "settle" ELSE "read")
  /\ batch' = [batch EXCEPT ![f] = seen[f]]
  /\ seen' = [seen EXCEPT ![f] = {}]
  /\ gate' = [gate EXCEPT ![f] = Len(messages)]
  /\ UNCHANGED <<conversation, coalesce, round, since, started, plan, verdict,
                 wasDirty, others, budget, ghosts>>

\* Steps 1 to 3 of handleIncomingMessageImpl.
ReadConversation(w) ==
  /\ pc[w] = "read"
  /\ \/ /\ w \in Flushes
        /\ \A i \in batch[w] : messages[i].kind = "reaction"
        /\ Return(w, "completed")
     \/ /\ w \in Forced \/ \E i \in batch[w] : messages[i].kind = "client"
        /\ w \in Forced \/ conversation = "bot"
        /\ GoTo(w, "delay") /\ UNCHANGED verdict
     \/ /\ w \in Flushes /\ conversation # "bot"
        /\ \E i \in batch[w] : messages[i].kind = "client"
        /\ Return(w, "skipped")
  /\ UNCHANGED <<durable, coalesce, round, since, seen, gate, batch, started, plan,
                 wasDirty, others, budget, ghosts>>

\* The conversation is gone, or its client has no Instagram id.
ConversationGone(w) ==
  /\ Spend("gone")
  /\ pc[w] = "read"
  /\ Return(w, "released")
  /\ UNCHANGED <<durable, coalesce, round, since, seen, gate, batch, started, plan,
                 wasDirty, others, ghosts>>

\* The handoff has been idle for longer than the timeout.
HandoffExpired(w) ==
  /\ Spend("expire")
  /\ pc[w] = "read" /\ w \in Flushes
  /\ conversation = "handoff"
  /\ \E i \in batch[w] : messages[i].kind = "client"
  /\ GoTo(w, "return")
  /\ UNCHANGED <<durable, coalesce, frame, wasDirty, others, ghosts>>

\* The update of autoReturnHandoffToBotIfExpired: by then the state it tested is old.
HandoffAutoReturn(w) ==
  /\ pc[w] = "return"
  /\ SetState("bot")
  /\ GoTo(w, "delay")
  /\ UNCHANGED <<messages, coalesce, frame, wasDirty, others, budget, answered, abandoned>>

\* absorbLateInboundIntoTurn, after the response delay and before Claude.
AbsorbLateInbound(w) ==
  /\ pc[w] \in {"delay", "prompt"}
  /\ LET extra == Oldest(Pending(0), MaxBatch)
     IN  /\ messages' = SetClaim(extra, w)
         /\ batch' = [batch EXCEPT
              ![w] = IF extra = {} THEN @ ELSE Oldest(Held(w) \cup extra, MaxBatch)]
  /\ GoTo(w, IF pc[w] = "delay" THEN "prompt" ELSE "claude")
  /\ UNCHANGED <<conversation, coalesce, round, since, seen, gate, started, plan,
                 verdict, wasDirty, others, budget, ghosts>>

\* turnStartedAt, then the call to Claude.
AskClaude(w) ==
  /\ pc[w] = "claude"
  /\ started' = [started EXCEPT ![w] = Len(messages)]
  /\ GoTo(w, "asking")
  /\ UNCHANGED <<durable, coalesce, round, since, seen, gate, batch, plan, verdict,
                 wasDirty, others, budget, ghosts>>

\* A manager's turn ignores request_handoff and answers instead.
ClaudeAnswers(w) ==
  /\ pc[w] = "asking"
  /\ \E p \in ClaudeOutcomes :
       plan' = [plan EXCEPT ![w] = IF w \in Forced /\ p = "handoff" THEN "reply" ELSE p]
  /\ GoTo(w, "guard")
  /\ UNCHANGED <<durable, coalesce, round, since, seen, gate, batch, started, verdict,
                 wasDirty, others, budget, ghosts>>

-----------------------------------------------------------------------------
(* From Claude's answer to the end of the turn.                            *)

\* Where a turn goes once isBotTurnStillValid let it act.
AfterGuard(w) ==
  CASE plan[w] = "handoff" -> "takeover"
    [] plan[w] = "order"   -> "order"
    [] OTHER               -> IF w \in Forced THEN "outbound" ELSE "late"

\* isBotTurnStillValid, before terminal tools and again before a plain reply.
Guard(w) ==
  /\ pc[w] = "guard"
  /\ \/ /\ TurnStillValid(w)
        /\ GoTo(w, AfterGuard(w)) /\ UNCHANGED verdict
     \/ /\ ~TurnStillValid(w)
        /\ Return(w, IF plan[w] \in {"handoff", "order"} THEN "completed" ELSE "skipped")
  /\ UNCHANGED <<durable, coalesce, round, since, seen, gate, batch, started, plan,
                 wasDirty, others, budget, ghosts>>

\* handleCollectOrder tests the state once more.  A refused order, for that or
\* for its arguments, leaves the turn to go on as a reply; an order that already
\* stands ends the turn with nothing sent.
OrderGate(w) ==
  /\ pc[w] = "order"
  /\ \/ /\ w \in Forced \/ conversation = "bot"
        /\ GoTo(w, "send") /\ UNCHANGED <<plan, verdict>>
     \/ /\ w \in Forced \/ conversation = "bot"
        /\ Return(w, "completed") /\ UNCHANGED plan
     \/ /\ plan' = [plan EXCEPT ![w] = "reply"]
        /\ GoTo(w, "guard") /\ UNCHANGED verdict
  /\ UNCHANGED <<durable, coalesce, round, since, seen, gate, batch, started,
                 wasDirty, others, budget, ghosts>>

\* Defective: the second load is left out.
LateCheckForgotten(f) ==
  /\ pc[f] = "late"
  /\ GoTo(f, "outbound") /\ UNCHANGED verdict
  /\ UNCHANGED <<durable, coalesce, round, since, seen, gate, batch, started, plan,
                 wasDirty, others, budget, ghosts>>

\* The second load of the turn: any late bubble defers the reply.
LateCheck(f) ==
  /\ pc[f] = "late"
  /\ \/ /\ Pending(0) # {}
        /\ Return(f, "deferred")
     \/ /\ Pending(0) = {}
        /\ GoTo(f, "outbound") /\ UNCHANGED verdict
  /\ UNCHANGED <<durable, coalesce, round, since, seen, gate, batch, started, plan,
                 wasDirty, others, budget, ghosts>>

\* What is left to decide: silence, a manager after too many fallbacks, a
\* fallback the client has already been told (the admin note), or a send.
ChooseOutbound(w) ==
  /\ pc[w] = "outbound"
  /\ CASE plan[w] = "silence" ->
            /\ Return(w, IF w \in Forced THEN "failed" ELSE "completed")
            /\ UNCHANGED plan
       [] plan[w] = "fallback" /\ w \in Flushes
            /\ ConsecutiveFallbacks >= MaxFallbacks ->
            /\ plan' = [plan EXCEPT ![w] = "handoff"]
            /\ GoTo(w, "guard") /\ UNCHANGED verdict
       [] plan[w] = "fallback" /\ AlreadyToldToWait
            /\ (w \in Forced \/ ConsecutiveFallbacks < MaxFallbacks) ->
            /\ plan' = [plan EXCEPT ![w] = "note"]
            /\ GoTo(w, "persist") /\ UNCHANGED verdict
       [] plan[w] = "fallback" /\ w \in Forced /\ ~AlreadyToldToWait ->
            Return(w, "failed") /\ UNCHANGED plan
       [] OTHER -> GoTo(w, "send") /\ UNCHANGED <<plan, verdict>>
  /\ UNCHANGED <<durable, coalesce, round, since, seen, gate, batch, started,
                 wasDirty, others, budget, ghosts>>

\* performManagerHandoff writes the state without testing it again.
Takeover(w) ==
  /\ pc[w] = "takeover"
  /\ SetState("handoff")
  /\ GoTo(w, "send")
  /\ UNCHANGED <<messages, coalesce, frame, wasDirty, others, budget, answered, abandoned>>

\* sendText; a failure is logged and the turn goes on.
Send(w) ==
  /\ pc[w] = "send"
  /\ \/ /\ plan[w] \in {"reply", "order"}
        /\ answered' = answered \cup (batch[w] \cap Held(w))
     \/ UNCHANGED answered
  /\ GoTo(w, "persist")
  /\ UNCHANGED <<durable, coalesce, frame, wasDirty, others, budget, overtaken, abandoned>>

\* persistIgOutboundMessage, or the admin note of a suppressed fallback.
Persist(w) ==
  /\ pc[w] = "persist"
  /\ messages' = Append(messages, NewRow(
       IF plan[w] \in {"fallback", "note"} THEN plan[w] ELSE "bot"))
  /\ Return(w, IF w \in Forced /\ plan[w] = "note" THEN "failed" ELSE "completed")
  /\ UNCHANGED <<conversation, coalesce, round, since, seen, gate, batch, started, plan,
                 wasDirty, others, budget, ghosts>>

\* Defective: an answered batch is released too.
ClaimAfterReleasing(v) ==
  CASE v = "skipped" -> "skipped"
    [] OTHER         -> "free"

\* What the drain loop writes on the rows of a turn that returned.
ClaimAfter(v) ==
  CASE v = "skipped"                 -> "skipped"
    [] v \in {"released", "deferred"} -> "free"
    [] OTHER                         -> "done"

\* Defective: the loop runs once more than MAX_DRAIN_ITERATIONS.
FinishOneTooMany(f) ==
  /\ pc[f] = "finish" /\ f \in Flushes
  /\ messages' = SetClaim(Held(f), ClaimAfter(verdict[f]))
  /\ since' = [since EXCEPT ![f] = IF verdict[f] = "deferred" THEN 0 ELSE gate[f]]
  /\ round' = [round EXCEPT ![f] = @ + 1]
  /\ abandoned' = IF verdict[f] = "released" THEN abandoned \cup Held(f) ELSE abandoned
  /\ overtaken' = overtaken \ {f}
  /\ batch' = [batch EXCEPT ![f] = {}]
  /\ started' = [started EXCEPT ![f] = 0]
  /\ GoTo(f, IF round'[f] <= MaxDrain THEN "load" ELSE "settle")
  /\ UNCHANGED <<conversation, coalesce, seen, gate, plan, verdict, wasDirty, others,
                 budget, answered>>

\* The end of one iteration of drainPendingInboundTurns.
Finish(f) ==
  /\ pc[f] = "finish" /\ f \in Flushes
  /\ messages' = SetClaim(Held(f), ClaimAfter(verdict[f]))
  /\ since' = [since EXCEPT ![f] = IF verdict[f] = "deferred" THEN 0 ELSE gate[f]]
  /\ round' = [round EXCEPT ![f] = @ + 1]
  /\ abandoned' = IF verdict[f] = "released" THEN abandoned \cup Held(f) ELSE abandoned
  /\ overtaken' = overtaken \ {f}
  /\ batch' = [batch EXCEPT ![f] = {}]
  /\ started' = [started EXCEPT ![f] = 0]
  /\ GoTo(f, IF round'[f] < MaxDrain THEN "load" ELSE "settle")
  /\ UNCHANGED <<conversation, coalesce, seen, gate, plan, verdict, wasDirty, others,
                 budget, answered>>

\* runForcedManagerBotTurn returns; nothing is written on the rows it absorbed.
FinishForced(w) ==
  /\ pc[w] = "finish" /\ w \in Forced
  /\ messages' = SetClaim(Held(w), "done")
  /\ tail' = Tail(tail)
  /\ GoTo(w, "idle") /\ Forget(w)
  /\ UNCHANGED <<conversation, webhooks, armed, flushing, dirty, wasDirty, others, budget,
                 ghosts>>

\* Defective: the catch block of the drain loop does not release.
ThrowKeepsClaims(w) ==
  /\ Spend("throw")
  /\ \/ /\ w \in Flushes /\ pc[w] \in TurnPhases
        /\ UNCHANGED messages
        /\ abandoned' = abandoned \cup Held(w)
        /\ GoTo(w, "settle") /\ UNCHANGED tail
     \/ /\ w \in Forced /\ pc[w] \in TurnPhases
        /\ messages' = SetClaim(Held(w), "done")
        /\ tail' = Tail(tail)
        /\ GoTo(w, "idle") /\ UNCHANGED abandoned
  /\ overtaken' = overtaken \ {w}
  /\ Forget(w)
  /\ UNCHANGED <<conversation, webhooks, armed, flushing, dirty, wasDirty, others, answered>>

\* An await inside the turn rejects, or the write on its rows after it.  The
\* release in the catch block may reject too; then, as when the process dies,
\* the rows stay claimed by a turn that is over.
Throw(w) ==
  /\ Spend("throw")
  /\ \/ /\ w \in Flushes
        /\ pc[w] \in TurnPhases \/ (pc[w] = "finish" /\ verdict[w] \in Writing)
        /\ \E c \in {"done", IF pc[w] = "finish" THEN ClaimAfter(verdict[w]) ELSE "free"} :
             /\ messages' = SetClaim(Held(w), c)
             /\ answered' = IF c = "free" THEN answered \ Held(w) ELSE answered
        /\ abandoned' = abandoned \cup Held(w)
        /\ GoTo(w, "settle") /\ UNCHANGED tail
     \/ /\ w \in Forced /\ pc[w] \in TurnPhases
        /\ messages' = SetClaim(Held(w), "done")
        /\ tail' = Tail(tail)
        /\ GoTo(w, "idle") /\ UNCHANGED <<answered, abandoned>>
  /\ overtaken' = overtaken \ {w}
  /\ Forget(w)
  /\ UNCHANGED <<conversation, webhooks, armed, flushing, dirty, wasDirty, others>>

\* What a failed load leaves to nobody.
Unread == {i \in Rows(Inbound) : messages[i].claim = "free"} \ webhooks

\* The load or the claim of the drain loop rejects, outside its try block.  A
\* claim that was written all the same is ClaimBatch, then a Throw that
\* releases nothing.
DrainThrows(f) ==
  /\ Spend("throw")
  /\ pc[f] \in {"load", "claim"}
  /\ abandoned' = abandoned \cup Unread
  /\ GoTo(f, "settle") /\ Forget(f)
  /\ UNCHANGED <<durable, coalesce, wasDirty, others, answered, overtaken>>

\* Defective: the flag is read after it was reset.
SettleForgetsDirty(f) ==
  /\ pc[f] = "settle"
  /\ wasDirty' = [wasDirty EXCEPT ![f] = FALSE]
  /\ flushing' = FALSE /\ dirty' = FALSE
  /\ tail' = Tail(tail)
  /\ GoTo(f, "rearm") /\ Forget(f)
  /\ UNCHANGED <<durable, webhooks, armed, others, budget, ghosts>>

\* The finally block of flushConversation, up to its await.
Settle(f) ==
  /\ pc[f] = "settle"
  /\ wasDirty' = [wasDirty EXCEPT ![f] = dirty]
  /\ flushing' = FALSE /\ dirty' = FALSE
  /\ tail' = Tail(tail)
  /\ GoTo(f, "rearm") /\ Forget(f)
  /\ UNCHANGED <<durable, webhooks, armed, others, budget, ghosts>>

\* shouldRearmCoalesceAfterFlush, then the flush promise settles.
Rearm(f) ==
  /\ pc[f] = "rearm"
  /\ LET again == wasDirty[f] /\ Pending(0) # {}
     IN  \/ /\ again /\ ~CoalesceEnabled
           /\ GoTo(f, "queued")
           /\ tail' = Append(tail, f)
           /\ armed' = FALSE /\ flushing' = TRUE /\ dirty' = FALSE
        \/ /\ again => CoalesceEnabled
           /\ armed' = (armed \/ again)
           /\ GoTo(f, "idle")
           /\ UNCHANGED <<tail, flushing, dirty>>
  /\ wasDirty' = [wasDirty EXCEPT ![f] = FALSE]
  /\ retry' = IF retry = f THEN "idle" ELSE retry
  /\ UNCHANGED <<durable, webhooks, frame, retryIds, manager, managerSaw, budget, ghosts>>

\* The load of the finally block rejects: the flag is spent and nothing re-arms.
RearmThrows(f) ==
  /\ Spend("throw")
  /\ pc[f] = "rearm"
  /\ abandoned' = abandoned \cup Unread
  /\ GoTo(f, "idle")
  /\ wasDirty' = [wasDirty EXCEPT ![f] = FALSE]
  /\ retry' = IF retry = f THEN "idle" ELSE retry
  /\ UNCHANGED <<durable, coalesce, frame, retryIds, manager, managerSaw, answered, overtaken>>

-----------------------------------------------------------------------------
(* The retry monitor, the manager's routes, and the end of the process.    *)

\* retryConversationBotReply up to its first write.
RetryEvaluate ==
  /\ RetryEnabled
  /\ retry = "idle"
  /\ conversation = "bot"
  /\ RetryNeeded
  /\ retry' = "clear"
  /\ retryIds' = Unanswered
  /\ UNCHANGED <<durable, coalesce, locals, manager, managerSaw, budget, ghosts>>

\* Defective: the claims a dead process left are not cleared.
RetryClearNothing ==
  /\ retry = "clear"
  /\ UNCHANGED messages
  /\ retry' = "flush"
  /\ UNCHANGED <<conversation, coalesce, locals, retryIds, manager, managerSaw, budget,
                 ghosts>>

\* clearInboundClaims, whoever holds the rows.
RetryClear ==
  /\ retry = "clear"
  /\ messages' = SetClaim(retryIds, "free")
  /\ answered' = answered \ retryIds
  /\ retry' = "flush"
  /\ UNCHANGED <<conversation, coalesce, locals, retryIds, manager, managerSaw, budget,
                 overtaken, abandoned>>

\* flushInboundBotTurnNow
RetryFlush(f) ==
  /\ retry = "flush"
  /\ StartFlush(f)
  /\ retry' = f
  /\ retryIds' = {}
  /\ UNCHANGED <<durable, webhooks, frame, wasDirty, manager, managerSaw, budget, ghosts>>

\* POST /:id/reply reads the conversation and sends the text.
ManagerReads ==
  /\ Spend("manager")
  /\ manager = "idle"
  /\ manager' = "sent"
  /\ managerSaw' = conversation
  /\ UNCHANGED <<durable, coalesce, locals, retry, retryIds, ghosts>>

ManagerPersists ==
  /\ manager = "sent"
  /\ messages' = Append(messages, NewRow("manager"))
  /\ manager' = "persisted"
  /\ UNCHANGED <<conversation, coalesce, locals, retry, retryIds, managerSaw, budget,
                 ghosts>>

\* The update is built from the state the route read first.
ManagerTakesOver ==
  /\ manager = "persisted"
  /\ IF managerSaw = "handoff" THEN UNCHANGED <<conversation, overtaken>>
                               ELSE SetState("handoff")
  /\ manager' = "idle" /\ managerSaw' = "bot"
  /\ UNCHANGED <<messages, coalesce, locals, retry, retryIds, budget, answered, abandoned>>

\* PATCH /:id/bot-responses
ToggleBot ==
  /\ Spend("toggle")
  /\ \E st \in {"bot", "paused"} : SetState(st)
  /\ UNCHANGED <<messages, coalesce, locals, others, answered, abandoned>>

\* The process dies: the claims of its turns stay on the rows for ever.
Crash ==
  /\ Spend("crash")
  /\ messages' = SetClaim(UNION {Held(w) : w \in Workers}, "done")
  /\ abandoned' = abandoned \cup Open
  /\ overtaken' = {}
  /\ webhooks' = {} /\ armed' = FALSE /\ flushing' = FALSE /\ dirty' = FALSE
  /\ tail' = <<>>
  /\ pc' = [w \in Workers |-> "idle"]
  /\ round' = [w \in Workers |-> 0] /\ since' = [w \in Workers |-> 0]
  /\ seen' = [w \in Workers |-> {}] /\ batch' = [w \in Workers |-> {}]
  /\ gate' = [w \in Workers |-> 0] /\ started' = [w \in Workers |-> 0]
  /\ plan' = [w \in Workers |-> "reply"] /\ verdict' = [w \in Workers |-> "completed"]
  /\ wasDirty' = [w \in Workers |-> FALSE]
  /\ retry' = "idle" /\ retryIds' = {} /\ manager' = "idle" /\ managerSaw' = "bot"
  /\ UNCHANGED <<conversation, answered>>

-----------------------------------------------------------------------------
TurnStep(w) ==
  \/ BeginTurn(w) \/ ReadConversation(w) \/ ConversationGone(w) \/ HandoffExpired(w)
  \/ HandoffAutoReturn(w)
  \/ AbsorbLateInbound(w) \/ AskClaude(w) \/ ClaudeAnswers(w) \/ Guard(w)
  \/ OrderGate(w) \/ ChooseOutbound(w) \/ Takeover(w) \/ Send(w) \/ Persist(w)

FlushStep(f) ==
  LoadPending(f) \/ ClaimBatch(f) \/ LateCheck(f) \/ Finish(f) \/ Settle(f) \/ Rearm(f)

WorkerStep(w) ==
  TurnStep(w) \/ FinishForced(w) \/ (w \in Flushes /\ FlushStep(w))

Environment ==
  \/ ClientMessage \/ ReactionEvent \/ ManagerReads \/ ToggleBot \/ Crash
  \/ \E w \in Forced : ForceTurn(w)
  \/ \E w \in Workers : Throw(w)
  \/ \E f \in Flushes : DrainThrows(f) \/ RearmThrows(f)
  \/ \E i \in webhooks : WebhookEnds(i)

Schedule == \E i \in webhooks : ScheduleInboundBotTurn(i)
Timer    == \E f \in Flushes : FireTimer(f)
Retry    == RetryEvaluate \/ RetryClear \/ \E f \in Flushes : RetryFlush(f)
Manager  == ManagerPersists \/ ManagerTakesOver

Next ==
  Environment \/ Schedule \/ Timer \/ Retry \/ Manager \/ \E w \in Workers : WorkerStep(w)

\* The event loop runs every ready callback, an await of the code settles, and
\* the interval of the retry monitor fires again and again.
Fairness ==
  /\ \A w \in Workers : WF_vars(WorkerStep(w))
  /\ WF_vars(Schedule) /\ WF_vars(Timer) /\ WF_vars(Retry) /\ WF_vars(Manager)

Spec == Init /\ [][Next]_vars /\ Fairness

-----------------------------------------------------------------------------
(* Properties.                                                             *)

DataOK ==
  /\ messages \in Seq(Row)
  /\ conversation \in {"bot", "handoff", "paused"}
  /\ budget \in [Events -> Nat]
  /\ answered \subseteq Nat /\ abandoned \subseteq Nat
  /\ overtaken \subseteq Flushes

FlowOK ==
  /\ webhooks \subseteq Nat
  /\ armed \in BOOLEAN /\ flushing \in BOOLEAN /\ dirty \in BOOLEAN
  /\ tail \in Seq(Workers)
  /\ pc \in [Workers -> Phases]
  /\ wasDirty \in [Workers -> BOOLEAN]

FrameOK ==
  /\ round \in [Workers -> 0..MaxDrain]
  /\ since \in [Workers -> Nat]
  /\ seen \in [Workers -> SUBSET Nat]
  /\ gate \in [Workers -> Nat]
  /\ batch \in [Workers -> SUBSET Nat]
  /\ started \in [Workers -> Nat]
  /\ plan \in [Workers -> Plans \cup {"note"}]
  /\ verdict \in [Workers -> Verdicts]

OthersOK ==
  /\ retry \in {"idle", "clear", "flush"} \cup Flushes
  /\ retryIds \subseteq Nat
  /\ manager \in {"idle", "sent", "persisted"}
  /\ managerSaw \in {"bot", "handoff", "paused"}

TypeOK == DataOK /\ FlowOK /\ FrameOK /\ OthersOK

\* A claim in the database belongs to the turn at the head of the promise
\* tail, and that turn is running: no turn ends, throws, dies or is overtaken
\* with its claims still standing for a live turn.
ClaimsOfTheRunningTurn ==
  \A i \in DOMAIN messages : messages[i].claim \in Workers =>
    /\ tail # <<>> /\ tail[1] = messages[i].claim
    /\ pc[messages[i].claim] \in TurnPhases \cup {"finish"}

\* A bubble the next load would return is never forgotten by the flags and
\* timers of inbound-coalesce.ts: its webhook has still to schedule, a timer
\* is armed, a flush will load again, or the dirty flag that makes the flush
\* re-arm is up.  Only what a crash, a rejected call or a turn that found
\* nobody to write to has dropped is left to the retry monitor.
WillLoad(f) ==
  \/ pc[f] \in Phases \ {"idle", "settle", "rearm"}
  \/ pc[f] = "settle" /\ dirty
  \/ pc[f] = "rearm" /\ wasDirty[f]

NoLostWakeup ==
  Pending(0) \ abandoned # {} =>
    \/ webhooks # {} \/ armed
    \/ retry \in {"clear", "flush"}
    \/ \E f \in Flushes : WillLoad(f)

\* conversation-turn-queue.ts: no two turns answer the same bubble, however the
\* timers, the re-arming, the drain loop and forced turns interleave, unless the
\* retry monitor or a failed turn gave the bubble back after its reply.
NoDuplicateReply ==
  \A f \in Flushes :
    pc[f] = "send" /\ plan[f] \in {"reply", "order"} => batch[f] \cap answered = {}

\* A plain reply leaves only if it was written with every bubble that had
\* arrived since the manager last wrote and before Claude was asked: none is
\* still free, and none is claimed for this turn without being in the text.
ReplySawEveryBubble ==
  \A f \in Flushes : pc[f] = "send" /\ plan[f] = "reply" =>
    \A i \in Rows({"client"}) : Latest(Rows({"manager"})) < i /\ i <= started[f] =>
      /\ messages[i].claim # "free"
      /\ messages[i].claim = f => i \in batch[f]

\* isBotTurnStillValid: a flush about to send into a conversation that is not
\* the bot's had passed its last test before the conversation left the bot.
\* Neither a takeover during Claude's answer, nor one during an earlier
\* iteration of the drain loop, lets a bot message out.
TakeoverStopsBot ==
  \A f \in Flushes :
    pc[f] = "send" /\ plan[f] # "handoff" /\ conversation # "bot" => f \in overtaken

\* conversation-retry.ts: a conversation the bot owns does not stay unanswered,
\* whatever a crash or a throwing turn left behind: again and again there is a
\* moment when the last bubble has its answer or its attempts are used up.
NobodyLeftWaiting == []<>(conversation # "bot" \/ ~RetryNeeded)

\* inbound-coalesce.ts: "bubbles that arrived during an in-flight turn are not
\* orphaned", so whatever is unclaimed is still returned by the next load.
NoBubbleBelowFloor == \A i \in Rows({"client"}) : messages[i].claim = "free" => i \in Pending(0)

\* The abstract inbox, read off the claims of the client's bubbles.
InboxStatus(c) ==
  CASE c = "free"               -> "waiting"
    [] c \in Workers            -> "reading"
    [] c \in {"done", "skipped"} -> "settled"

Inbox == INSTANCE InboundInbox WITH
  Bubbles <- Nat \ {0},
  inbox   <- [i \in Rows({"client"}) |-> InboxStatus(messages[i].claim)]

\* Flushes, drain iterations, claims and re-arming together behave as one inbox
\* with one reader: batches settle or come back whole, nothing is read twice,
\* and the inbox always drains in the end.
RefinesInbox == Inbox!Spec
=============================================================================
