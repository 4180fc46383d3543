------------------------ MODULE InboundTurnsProofs -------------------------
(***************************************************************************)
(* Machine-checked facts about InboundTurns, for every set of workers, any *)
(* bounds, any history and any budget, but for what a theorem assumes of   *)
(* them by name.  In order: the promise tail and the types, takeovers,     *)
(* claims, what a load returns, no lost wakeup, no duplicate reply, a      *)
(* reply saw every bubble, the inbox.                                      *)
(***************************************************************************)
EXTENDS InboundTurns, SequenceTheorems, FiniteSetTheorems, TLAPS

-----------------------------------------------------------------------------
(* The promise tail.  A call is live from the moment it is appended to the *)
(* tail until it settles; the live calls are exactly those in the tail,    *)
(* each once, and only the first may be running.                           *)

Live == Running \cup {"queued"}

Queue(q, p) ==
  /\ \A w \in Workers : p[w] \in Live => \E k \in 1..Len(q) : q[k] = w
  /\ \A k \in 1..Len(q) : p[q[k]] \in Live
  /\ \A j, k \in 1..Len(q) : q[j] = q[k] => j = k
  /\ \A w \in Workers : p[w] \in Running => Len(q) > 0 /\ q[1] = w

\* A call that is not live is appended.
LEMMA QueuePush ==
  ASSUME NEW q \in Seq(Workers), NEW p \in [Workers -> Phases], Queue(q, p),
         NEW w \in Workers, p[w] \notin Live
  PROVE  /\ Queue(Append(q, w), [p EXCEPT ![w] = "queued"])
         /\ Append(q, w) \in Seq(Workers)
<1> DEFINE r == Append(q, w)
           s == [p EXCEPT ![w] = "queued"]
<1>1. /\ Len(r) = Len(q) + 1
      /\ \A k \in 1..Len(q) : r[k] = q[k]
      /\ r[Len(q) + 1] = w
      /\ Len(q) \in Nat
  BY AppendProperties, LenProperties
<1>2. \A k \in 1..Len(q) : q[k] \in Workers /\ q[k] # w
  BY ElementOfSeq DEF Queue
<1>3. \A v \in Workers : s[v] = IF v = w THEN "queued" ELSE p[v]
  OBVIOUS
<1>4. "queued" \in Live /\ "queued" \notin Running
  BY DEF Live, Running, TurnPhases
<1> HIDE DEF r, s
<1>5. \A v \in Workers : s[v] \in Live => \E k \in 1..Len(r) : r[k] = v
  BY <1>1, <1>3 DEF Queue
<1>6. \A k \in 1..Len(r) : s[r[k]] \in Live
  BY <1>1, <1>2, <1>3, <1>4 DEF Queue
<1>7. \A j, k \in 1..Len(r) : r[j] = r[k] => j = k
  BY <1>1, <1>2 DEF Queue
<1>8. \A v \in Workers : s[v] \in Running => Len(r) > 0 /\ r[1] = v
  BY <1>1, <1>3, <1>4 DEF Queue
<1> QED
  BY <1>5, <1>6, <1>7, <1>8, AppendProperties DEF Queue, r, s

\* The running call leaves the tail.
LEMMA QueuePop ==
  ASSUME NEW q \in Seq(Workers), NEW p \in [Workers -> Phases], Queue(q, p),
         NEW w \in Workers, p[w] \in Running, NEW ph \in Phases, ph \notin Live
  PROVE  /\ Queue(Tail(q), [p EXCEPT ![w] = ph])
         /\ Tail(q) \in Seq(Workers)
<1> DEFINE r == Tail(q)
           s == [p EXCEPT ![w] = ph]
<1>0. q # <<>> /\ Len(q) > 0 /\ q[1] = w
  BY EmptySeq DEF Queue
<1>1. /\ Len(r) = Len(q) - 1
      /\ \A k \in 1..Len(r) : r[k] = q[k + 1]
      /\ Len(q) \in Nat
  BY <1>0, HeadTailProperties, LenProperties
<1>2. \A v \in Workers : s[v] = IF v = w THEN ph ELSE p[v]
  OBVIOUS
<1>3. \A k \in 1..Len(q) : q[k] \in Workers /\ (q[k] = w => k = 1)
  BY <1>0, ElementOfSeq DEF Queue
<1> HIDE DEF r, s
<1>4. ASSUME NEW v \in Workers, s[v] \in Live
      PROVE  \E k \in 1..Len(r) : r[k] = v
  <2>1. v # w /\ p[v] \in Live
    BY <1>2, <1>4
  <2>2. PICK k \in 1..Len(q) : q[k] = v
    BY <2>1 DEF Queue
  <2>3. k - 1 \in 1..Len(r) /\ r[k - 1] = v
    BY <1>0, <1>1, <2>1, <2>2
  <2> QED
    BY <2>3
<1>5. \A k \in 1..Len(r) : s[r[k]] \in Live
  BY <1>1, <1>2, <1>3 DEF Queue
<1>6. \A j, k \in 1..Len(r) : r[j] = r[k] => j = k
  <2> SUFFICES ASSUME NEW j \in 1..Len(r), NEW k \in 1..Len(r), r[j] = r[k]
               PROVE  j = k
    OBVIOUS
  <2>1. j + 1 \in 1..Len(q) /\ k + 1 \in 1..Len(q) /\ q[j + 1] = q[k + 1]
    BY <1>1
  <2> QED
    BY <2>1 DEF Queue
<1>7. \A v \in Workers : s[v] \notin Running
  <2> SUFFICES ASSUME NEW v \in Workers, s[v] \in Running PROVE FALSE
    OBVIOUS
  <2>1. v # w /\ p[v] \in Running
    BY <1>2 DEF Live
  <2> QED
    BY <1>0, <2>1 DEF Queue
<1> QED
  BY <1>0, <1>4, <1>5, <1>6, <1>7, HeadTailProperties DEF Queue, r, s

\* The call at the head moves to a running phase.
LEMMA QueueRun ==
  ASSUME NEW q \in Seq(Workers), NEW p \in [Workers -> Phases], Queue(q, p),
         NEW w \in Workers, p[w] \in Live, q[1] = w, NEW ph \in Running
  PROVE  Queue(q, [p EXCEPT ![w] = ph])
<1> DEFINE s == [p EXCEPT ![w] = ph]
<1>1. \A v \in Workers : s[v] = IF v = w THEN ph ELSE p[v]
  OBVIOUS
<1>2. \A k \in 1..Len(q) : q[k] \in Workers
  BY ElementOfSeq
<1>3. ph \in Live /\ Running \subseteq Live
  BY DEF Live
<1>4. PICK k \in 1..Len(q) : q[k] = w
  BY DEF Queue
<1>5. Len(q) > 0
  BY <1>4, LenProperties
<1> HIDE DEF s
<1>6. \A v \in Workers : s[v] \in Live => \E j \in 1..Len(q) : q[j] = v
  BY <1>1, <1>4 DEF Queue
<1>7. \A j \in 1..Len(q) : s[q[j]] \in Live
  BY <1>1, <1>2, <1>3 DEF Queue
<1>8. \A v \in Workers : s[v] \in Running => Len(q) > 0 /\ q[1] = v
  BY <1>1, <1>5 DEF Queue
<1> QED
  BY <1>6, <1>7, <1>8 DEF Queue, s

\* A call outside the tail stays outside.
LEMMA QueueApart ==
  ASSUME NEW q \in Seq(Workers), NEW p \in [Workers -> Phases], Queue(q, p),
         NEW w \in Workers, p[w] \notin Live, NEW ph \in Phases, ph \notin Live
  PROVE  Queue(q, [p EXCEPT ![w] = ph])
<1>1. \A k \in 1..Len(q) : q[k] \in Workers
  BY ElementOfSeq
<1> QED
  BY <1>1 DEF Queue, Live

-----------------------------------------------------------------------------
(* Types.                                                                  *)

QueueOK == Queue(tail, pc)

\* A flush that is not about to settle may start another iteration.
RoundOK == \A f \in Flushes : pc[f] # "settle" => round[f] < MaxDrain

\* A write of claims keeps the rows and their number.
LEMMA SetClaimType ==
  ASSUME messages \in Seq(Row), NEW S, NEW c \in Claims
  PROVE  /\ SetClaim(S, c) \in Seq(Row)
         /\ Len(SetClaim(S, c)) = Len(messages)
         /\ \A i \in 1..Len(messages) :
              SetClaim(S, c)[i] = IF i \in S THEN [messages[i] EXCEPT !.claim = c]
                                             ELSE messages[i]
<1> DEFINE n == Len(messages)
           m == SetClaim(S, c)
<1>1. n \in Nat /\ DOMAIN messages = 1..n
  BY LenProperties
<1>2. \A i \in 1..n : messages[i] \in Row
  BY ElementOfSeq
<1>3. \A i \in 1..n : m[i] = IF i \in S THEN [messages[i] EXCEPT !.claim = c] ELSE messages[i]
  BY <1>1 DEF SetClaim
<1>4. m \in [1..n -> Row]
  BY <1>1, <1>2 DEF SetClaim, Row
<1>5. m \in Seq(Row)
  BY <1>1, <1>4, SeqDef
<1>6. Len(m) = n
  BY <1>1, <1>4, <1>5, LenProperties
<1> QED
  BY <1>3, <1>5, <1>6

\* A new row goes behind the others.
LEMMA NewRowType ==
  ASSUME messages \in Seq(Row), NEW r \in Row
  PROVE  /\ Append(messages, r) \in Seq(Row)
         /\ Len(Append(messages, r)) = Len(messages) + 1
         /\ \A i \in 1..Len(messages) : Append(messages, r)[i] = messages[i]
         /\ Append(messages, r)[Len(messages) + 1] = r
BY AppendProperties

\* What the loads and the claims range over.
LEMMA RowNumbers ==
  ASSUME messages \in Seq(Row)
  PROVE  /\ Len(messages) \in Nat
         /\ \A K : Rows(K) \subseteq Nat
         /\ \A w : Held(w) \subseteq Nat
         /\ \A t : Pending(t) \subseteq Nat
         /\ Unanswered \subseteq Nat /\ UnansweredBatch \subseteq Nat
         /\ \A S : S \subseteq Nat => \A n : Oldest(S, n) \subseteq Nat
<1>1. /\ Len(messages) \in Nat
      /\ \A K : Rows(K) \subseteq Nat
  BY LenProperties DEF Rows
<1>2. \A n : Newest(n) \subseteq Nat
  BY <1>1 DEF Newest
<1>3. Unanswered \subseteq Nat
  BY <1>1 DEF Unanswered
<1>4. UnansweredBatch \subseteq Nat
  BY <1>2, <1>3 DEF UnansweredBatch
<1>5. /\ \A w : Held(w) \subseteq Nat
      /\ \A t : Pending(t) \subseteq Nat
  BY <1>1 DEF Held, Pending
<1> QED
  BY <1>1, <1>3, <1>4, <1>5 DEF Oldest

\* The budget only shrinks.
LEMMA SpendType ==
  ASSUME budget \in [Events -> Nat], NEW e \in Events, Spend(e)
  PROVE  budget' \in [Events -> Nat]
BY DEF Spend

\* Which claims there are, and which of them the drain loop writes at the end.
LEMMA ClaimNames ==
  /\ Workers \subseteq Claims
  /\ {"free", "skipped", "done"} \subseteq Claims
  /\ \A v : ClaimAfter(v) \in {"free", "skipped", "done"}
BY DEF Claims, ClaimAfter

\* A call that ends leaves locals of the right types.
LEMMA ForgetType ==
  ASSUME FrameOK, NEW w \in Workers, Forget(w)
  PROVE  FrameOK'
<1>1. round' \in [Workers -> 0..MaxDrain]
  BY BoundsAssumption DEF FrameOK, Forget
<1>2. since' \in [Workers -> Nat] /\ gate' \in [Workers -> Nat] /\ started' \in [Workers -> Nat]
  BY DEF FrameOK, Forget
<1>3. seen' \in [Workers -> SUBSET Nat] /\ batch' \in [Workers -> SUBSET Nat]
  BY DEF FrameOK, Forget
<1>4. plan' \in [Workers -> Plans \cup {"note"}] /\ verdict' \in [Workers -> Verdicts]
  BY DEF FrameOK, Forget, Plans, Verdicts
<1> QED
  BY <1>1, <1>2, <1>3, <1>4 DEF FrameOK

\* Every step keeps the types.
LEMMA TypeStep ==
  ASSUME TypeOK, QueueOK, RoundOK, [Next]_vars
  PROVE  TypeOK'
<1> USE DEF TypeOK, vars, durable, coalesce, frame, locals, others, ghosts
<1>1. CASE ClientMessage
  <2>1. DataOK'
    BY <1>1, NewRowType, SpendType
    DEF ClientMessage, DataOK, NewRow, Row, Kinds, Claims, Events
  <2>2. FlowOK'
    <3>1. Len(messages) + 1 \in Nat
      BY LenProperties DEF DataOK
    <3>2. webhooks' = webhooks \cup {Len(messages) + 1}
      BY <1>1 DEF ClientMessage
    <3>3. webhooks' \subseteq Nat
      BY <3>1, <3>2 DEF FlowOK
    <3> QED
      BY <1>1, <3>3 DEF ClientMessage, FlowOK
  <2> QED
    BY <1>1, <2>1, <2>2 DEF ClientMessage, FrameOK, OthersOK
<1>2. CASE ReactionEvent
  <2>1. DataOK'
    BY <1>2, NewRowType, SpendType DEF ReactionEvent, DataOK, Row, Kinds, Claims, Events
  <2> QED
    BY <1>2, <2>1 DEF ReactionEvent, FlowOK, FrameOK, OthersOK
<1>3. CASE ManagerReads
  <2>1. DataOK'
    BY <1>3, SpendType DEF ManagerReads, DataOK, Events
  <2>2. OthersOK'
    BY <1>3 DEF ManagerReads, OthersOK, DataOK
  <2> QED
    BY <1>3, <2>1, <2>2 DEF ManagerReads, FlowOK, FrameOK
<1>4. CASE ToggleBot
  <2>1. DataOK'
    BY <1>4, SpendType DEF ToggleBot, DataOK, Events, SetState
  <2> QED
    BY <1>4, <2>1 DEF ToggleBot, FlowOK, FrameOK, OthersOK
<1>5. CASE Crash
  <2>1. DataOK'
    BY <1>5, SetClaimType, ClaimNames, RowNumbers, SpendType DEF Crash, DataOK, Events, Open
  <2>2. FlowOK'
    BY <1>5, EmptySeq DEF Crash, FlowOK, Phases, Running, TurnPhases, GoTo
  <2>3. FrameOK'
    BY <1>5, BoundsAssumption DEF Crash, FrameOK, Plans, Verdicts
  <2>4. OthersOK'
    BY <1>5 DEF Crash, OthersOK
  <2> QED
    BY <2>1, <2>2, <2>3, <2>4
<1>6. ASSUME NEW w \in Forced, ForceTurn(w) PROVE TypeOK'
  <2>0. w \in Workers
    BY DEF Workers
  <2>1. DataOK'
    BY <1>6, <2>0, SpendType DEF ForceTurn, DataOK, Events
  <2>2. FlowOK'
    BY <1>6, <2>0, AppendProperties
    DEF ForceTurn, FlowOK, Phases, Running, TurnPhases, GoTo
  <2>3. FrameOK'
    BY <1>6, <2>0, RowNumbers DEF ForceTurn, FrameOK, DataOK
  <2> QED
    BY <1>6, <2>1, <2>2, <2>3 DEF ForceTurn, OthersOK
<1>7. ASSUME NEW w \in Workers, Throw(w) PROVE TypeOK'
  <2>1. DataOK'
    <3>1. PICK c \in {"free", "skipped", "done"} : messages' = SetClaim(Held(w), c)
      BY <1>7, ClaimNames DEF Throw
    <3>2. messages' \in Seq(Row)
      BY <3>1, SetClaimType, ClaimNames DEF DataOK
    <3>3. budget' \in [Events -> Nat]
      BY <1>7, SpendType DEF Throw, DataOK, Events
    <3>4. abandoned' \subseteq Nat
      BY <1>7, RowNumbers DEF Throw, DataOK
    <3>5. /\ conversation' = conversation /\ overtaken' = overtaken \ {w}
          /\ answered' \in {answered, answered \ Held(w)}
      BY <1>7 DEF Throw
    <3> QED
      BY <3>2, <3>3, <3>4, <3>5 DEF DataOK
  <2>2. FlowOK'
    <3>1. tail' = Tail(tail) \/ tail' = tail
      BY <1>7 DEF Throw
    <3>2. tail # <<>> => Tail(tail) \in Seq(Workers)
      BY HeadTailProperties DEF FlowOK
    <3>3. tail # <<>>
      BY <1>7, EmptySeq DEF Throw, QueueOK, Queue, Running, FlowOK
    <3>4. pc' \in [Workers -> Phases]
      BY <1>7 DEF Throw, FlowOK, Phases, Running, GoTo
    <3> QED
      BY <1>7, <3>1, <3>2, <3>3, <3>4 DEF Throw, FlowOK
  <2>3. FrameOK'
    BY <1>7, ForgetType DEF Throw, FrameOK
  <2> QED
    BY <1>7, <2>1, <2>2, <2>3 DEF Throw, OthersOK
<1>8. ASSUME NEW i \in webhooks, ScheduleInboundBotTurn(i) PROVE TypeOK'
  <2>1. FlowOK'
    <3>1. webhooks' \subseteq Nat /\ wasDirty' \in [Workers -> BOOLEAN]
      BY <1>8 DEF ScheduleInboundBotTurn, FlowOK
    <3>2. CASE \E f \in Flushes : StartFlush(f)
      <4>1. PICK f \in Flushes : StartFlush(f)
        BY <3>2
      <4>2. f \in Workers
        BY DEF Workers
      <4>3. tail' \in Seq(Workers) /\ pc' \in [Workers -> Phases]
        BY <4>1, <4>2, AppendProperties DEF StartFlush, FlowOK, GoTo, Phases
      <4>4. armed' = FALSE /\ flushing' = TRUE /\ dirty' = FALSE
        BY <4>1 DEF StartFlush
      <4> QED
        BY <3>1, <4>3, <4>4 DEF FlowOK
    <3>3. CASE ~ \E f \in Flushes : StartFlush(f)
      <4>1. tail' = tail /\ pc' = pc /\ flushing' = flushing
        BY <1>8, <3>3 DEF ScheduleInboundBotTurn
      <4>2. armed' \in BOOLEAN /\ dirty' \in BOOLEAN
        BY <1>8, <3>3 DEF ScheduleInboundBotTurn, FlowOK
      <4> QED
        BY <3>1, <4>1, <4>2 DEF FlowOK
    <3> QED
      BY <3>2, <3>3
  <2> QED
    BY <1>8, <2>1 DEF ScheduleInboundBotTurn, DataOK, FrameOK, OthersOK
<1>9. ASSUME NEW f \in Flushes, FireTimer(f) PROVE TypeOK'
  <2>0. f \in Workers
    BY DEF Workers
  <2>1. FlowOK'
    BY <1>9, <2>0, AppendProperties
    DEF FireTimer, FlowOK, StartFlush, Phases, Running, TurnPhases, GoTo
  <2> QED
    BY <1>9, <2>1 DEF FireTimer, DataOK, FrameOK, OthersOK
<1>10. CASE RetryEvaluate
  <2>1. OthersOK'
    BY <1>10, RowNumbers DEF RetryEvaluate, OthersOK, DataOK
  <2> QED
    BY <1>10, <2>1 DEF RetryEvaluate, DataOK, FlowOK, FrameOK
<1>11. CASE RetryClear
  <2>1. DataOK'
    BY <1>11, SetClaimType, ClaimNames DEF RetryClear, DataOK
  <2>2. OthersOK'
    BY <1>11 DEF RetryClear, OthersOK
  <2> QED
    BY <1>11, <2>1, <2>2 DEF RetryClear, FlowOK, FrameOK
<1>12. ASSUME NEW f \in Flushes, RetryFlush(f) PROVE TypeOK'
  <2>0. f \in Workers
    BY DEF Workers
  <2>1. FlowOK'
    BY <1>12, <2>0, AppendProperties
    DEF RetryFlush, FlowOK, StartFlush, Phases, Running, TurnPhases, GoTo
  <2>2. OthersOK'
    BY <1>12, <2>0 DEF RetryFlush, OthersOK
  <2> QED
    BY <1>12, <2>1, <2>2 DEF RetryFlush, DataOK, FrameOK
<1>13. CASE ManagerPersists
  <2>1. DataOK'
    BY <1>13, NewRowType DEF ManagerPersists, DataOK, NewRow, Row, Kinds, Claims
  <2>2. OthersOK'
    BY <1>13 DEF ManagerPersists, OthersOK
  <2> QED
    BY <1>13, <2>1, <2>2 DEF ManagerPersists, FlowOK, FrameOK
<1>14. CASE ManagerTakesOver
  <2>1. DataOK'
    BY <1>14 DEF ManagerTakesOver, DataOK, SetState
  <2>2. OthersOK'
    BY <1>14 DEF ManagerTakesOver, OthersOK
  <2> QED
    BY <1>14, <2>1, <2>2 DEF ManagerTakesOver, FlowOK, FrameOK
<1>15. ASSUME NEW w \in Workers, BeginTurn(w) PROVE TypeOK'
  <2>1. FlowOK'
    BY <1>15 DEF BeginTurn, FlowOK, Phases, Running, TurnPhases, GoTo
  <2> QED
    BY <1>15, <2>1 DEF BeginTurn, DataOK, FrameOK, OthersOK
<1>16. ASSUME NEW w \in Workers, ReadConversation(w) PROVE TypeOK'
  <2>1. FlowOK'
    BY <1>16 DEF ReadConversation, FlowOK, Return, Phases, Running, TurnPhases, GoTo
  <2>2. FrameOK'
    BY <1>16 DEF ReadConversation, FrameOK, Return, Verdicts
  <2> QED
    BY <1>16, <2>1, <2>2 DEF ReadConversation, DataOK, OthersOK
<1>17. ASSUME NEW w \in Workers, HandoffExpired(w) PROVE TypeOK'
  <2>1. DataOK'
    BY <1>17, SpendType DEF HandoffExpired, DataOK, Events
  <2>2. FlowOK'
    BY <1>17 DEF HandoffExpired, FlowOK, Phases, Running, TurnPhases, GoTo
  <2> QED
    BY <1>17, <2>1, <2>2 DEF HandoffExpired, FrameOK, OthersOK
<1>18. ASSUME NEW w \in Workers, HandoffAutoReturn(w) PROVE TypeOK'
  <2>1. DataOK'
    BY <1>18 DEF HandoffAutoReturn, DataOK, SetState
  <2>2. FlowOK'
    BY <1>18 DEF HandoffAutoReturn, FlowOK, Phases, Running, TurnPhases, GoTo
  <2> QED
    BY <1>18, <2>1, <2>2 DEF HandoffAutoReturn, FrameOK, OthersOK
<1>19. ASSUME NEW w \in Workers, AbsorbLateInbound(w) PROVE TypeOK'
  <2>1. DataOK'
    BY <1>19, SetClaimType, ClaimNames DEF AbsorbLateInbound, DataOK
  <2>2. FlowOK'
    BY <1>19 DEF AbsorbLateInbound, FlowOK, Phases, Running, TurnPhases, GoTo
  <2>3. FrameOK'
    BY <1>19, RowNumbers DEF AbsorbLateInbound, FrameOK, DataOK
  <2> QED
    BY <1>19, <2>1, <2>2, <2>3 DEF AbsorbLateInbound, OthersOK
<1>20. ASSUME NEW w \in Workers, AskClaude(w) PROVE TypeOK'
  <2>1. FlowOK'
    BY <1>20 DEF AskClaude, FlowOK, Phases, Running, TurnPhases, GoTo
  <2>2. FrameOK'
    BY <1>20, RowNumbers DEF AskClaude, FrameOK, DataOK
  <2> QED
    BY <1>20, <2>1, <2>2 DEF AskClaude, DataOK, OthersOK
<1>21. ASSUME NEW w \in Workers, ClaudeAnswers(w) PROVE TypeOK'
  <2>1. FlowOK'
    BY <1>21 DEF ClaudeAnswers, FlowOK, Phases, Running, TurnPhases, GoTo
  <2>2. FrameOK'
    BY <1>21, BoundsAssumption DEF ClaudeAnswers, FrameOK, Plans
  <2> QED
    BY <1>21, <2>1, <2>2 DEF ClaudeAnswers, DataOK, OthersOK
<1>22. ASSUME NEW w \in Workers, Guard(w) PROVE TypeOK'
  <2>1. FlowOK'
    BY <1>22 DEF Guard, FlowOK, Return, AfterGuard, Phases, Running, TurnPhases, GoTo
  <2>2. FrameOK'
    BY <1>22 DEF Guard, FrameOK, Return, Verdicts
  <2> QED
    BY <1>22, <2>1, <2>2 DEF Guard, DataOK, OthersOK
<1>23. ASSUME NEW w \in Workers, OrderGate(w) PROVE TypeOK'
  <2>1. FlowOK'
    BY <1>23 DEF OrderGate, FlowOK, Return, Phases, Running, TurnPhases, GoTo
  <2>2. FrameOK'
    BY <1>23 DEF OrderGate, FrameOK, Return, Verdicts, Plans
  <2> QED
    BY <1>23, <2>1, <2>2 DEF OrderGate, DataOK, OthersOK
<1>24. ASSUME NEW w \in Workers, ChooseOutbound(w) PROVE TypeOK'
  <2>1. FlowOK'
    BY <1>24 DEF ChooseOutbound, FlowOK, Return, Phases, Running, TurnPhases, GoTo
  <2>2. FrameOK'
    BY <1>24 DEF ChooseOutbound, FrameOK, Return, Verdicts, Plans
  <2> QED
    BY <1>24, <2>1, <2>2 DEF ChooseOutbound, DataOK, OthersOK
<1>25. ASSUME NEW w \in Workers, Takeover(w) PROVE TypeOK'
  <2>1. DataOK'
    BY <1>25 DEF Takeover, DataOK, SetState
  <2>2. FlowOK'
    BY <1>25 DEF Takeover, FlowOK, Phases, Running, TurnPhases, GoTo
  <2> QED
    BY <1>25, <2>1, <2>2 DEF Takeover, FrameOK, OthersOK
<1>26. ASSUME NEW w \in Workers, Send(w) PROVE TypeOK'
  <2>1. DataOK'
    BY <1>26 DEF Send, DataOK, FrameOK
  <2>2. FlowOK'
    BY <1>26 DEF Send, FlowOK, Phases, Running, TurnPhases, GoTo
  <2> QED
    BY <1>26, <2>1, <2>2 DEF Send, FrameOK, OthersOK
<1>27. ASSUME NEW w \in Workers, Persist(w) PROVE TypeOK'
  <2>1. DataOK'
    BY <1>27, NewRowType DEF Persist, DataOK, NewRow, Row, Kinds, Claims
  <2>2. FlowOK'
    BY <1>27 DEF Persist, FlowOK, Return, Phases, Running, TurnPhases, GoTo
  <2>3. FrameOK'
    BY <1>27 DEF Persist, FrameOK, Return, Verdicts
  <2> QED
    BY <1>27, <2>1, <2>2, <2>3 DEF Persist, OthersOK
<1>28. ASSUME NEW w \in Workers, FinishForced(w) PROVE TypeOK'
  <2>1. DataOK'
    BY <1>28, SetClaimType, ClaimNames DEF FinishForced, DataOK
  <2>2. FlowOK'
    BY <1>28, EmptySeq, HeadTailProperties
    DEF FinishForced, FlowOK, QueueOK, Queue, Phases, Running, TurnPhases, GoTo
  <2>3. FrameOK'
    BY <1>28, ForgetType DEF FinishForced, FrameOK
  <2> QED
    BY <1>28, <2>1, <2>2, <2>3 DEF FinishForced, OthersOK
<1>29. ASSUME NEW f \in Flushes, LoadPending(f) PROVE TypeOK'
  <2>0. f \in Workers
    BY DEF Workers
  <2>1. FlowOK'
    BY <1>29, <2>0 DEF LoadPending, FlowOK, Phases, Running, TurnPhases, GoTo
  <2>2. FrameOK'
    BY <1>29, <2>0, RowNumbers DEF LoadPending, FrameOK, DataOK
  <2> QED
    BY <1>29, <2>1, <2>2 DEF LoadPending, DataOK, OthersOK
<1>30. ASSUME NEW f \in Flushes, ClaimBatch(f) PROVE TypeOK'
  <2>0. f \in Workers
    BY DEF Workers
  <2>1. DataOK'
    BY <1>30, <2>0, SetClaimType, ClaimNames DEF ClaimBatch, DataOK, Workers
  <2>2. FlowOK'
    BY <1>30, <2>0 DEF ClaimBatch, FlowOK, Phases, Running, TurnPhases, GoTo
  <2>3. FrameOK'
    BY <1>30, <2>0, RowNumbers DEF ClaimBatch, FrameOK, DataOK, Workers
  <2> QED
    BY <1>30, <2>1, <2>2, <2>3 DEF ClaimBatch, OthersOK
<1>31. ASSUME NEW f \in Flushes, LateCheck(f) PROVE TypeOK'
  <2>0. f \in Workers
    BY DEF Workers
  <2>1. FlowOK'
    BY <1>31, <2>0 DEF LateCheck, FlowOK, Return, Phases, Running, TurnPhases, GoTo
  <2>2. FrameOK'
    BY <1>31, <2>0 DEF LateCheck, FrameOK, Return, Verdicts
  <2> QED
    BY <1>31, <2>1, <2>2 DEF LateCheck, DataOK, OthersOK
<1>32. ASSUME NEW f \in Flushes, Finish(f) PROVE TypeOK'
  <2>0. f \in Workers
    BY DEF Workers
  <2>1. DataOK'
    <3>1. abandoned' \subseteq Nat
      BY <1>32, RowNumbers DEF Finish, DataOK
    <3> QED
      BY <1>32, <2>0, <3>1, SetClaimType, ClaimNames DEF Finish, DataOK
  <2>2. FlowOK'
    BY <1>32, <2>0 DEF Finish, FlowOK, Phases, Running, TurnPhases, GoTo
  <2>3. FrameOK'
    BY <1>32, <2>0, BoundsAssumption DEF Finish, FrameOK, RoundOK
  <2> QED
    BY <1>32, <2>1, <2>2, <2>3 DEF Finish, OthersOK
<1>33. ASSUME NEW f \in Flushes, Settle(f) PROVE TypeOK'
  <2>0. f \in Workers
    BY DEF Workers
  <2>1. FlowOK'
    <3>1. tail' \in Seq(Workers)
      BY <1>33, <2>0, EmptySeq, HeadTailProperties DEF Settle, QueueOK, Queue, FlowOK, Running
    <3>2. pc' \in [Workers -> Phases]
      BY <1>33, <2>0 DEF Settle, FlowOK, GoTo, Phases
    <3>3. wasDirty' \in [Workers -> BOOLEAN]
      BY <1>33, <2>0 DEF Settle, FlowOK
    <3>4. webhooks' \subseteq Nat /\ armed' \in BOOLEAN /\ flushing' = FALSE /\ dirty' = FALSE
      BY <1>33 DEF Settle, FlowOK
    <3> QED
      BY <3>1, <3>2, <3>3, <3>4 DEF FlowOK
  <2>2. FrameOK'
    BY <1>33, <2>0, ForgetType DEF Settle, FrameOK
  <2> QED
    BY <1>33, <2>1, <2>2 DEF Settle, DataOK, OthersOK
<1>34. ASSUME NEW f \in Flushes, Rearm(f) PROVE TypeOK'
  <2>0. f \in Workers
    BY DEF Workers
  <2>1. FlowOK'
    <3>1. wasDirty' \in [Workers -> BOOLEAN]
      BY <1>34, <2>0 DEF Rearm, FlowOK
    <3>2. webhooks' \subseteq Nat
      BY <1>34 DEF Rearm, FlowOK
    <3>3. armed' \in BOOLEAN /\ flushing' \in BOOLEAN /\ dirty' \in BOOLEAN
      BY <1>34 DEF Rearm, FlowOK
    <3>4. tail' \in Seq(Workers)
      BY <1>34, <2>0, AppendProperties DEF Rearm, FlowOK
    <3>5. pc' \in [Workers -> Phases]
      BY <1>34, <2>0 DEF Rearm, FlowOK, GoTo, Phases
    <3> QED
      BY <3>1, <3>2, <3>3, <3>4, <3>5 DEF FlowOK
  <2>2. OthersOK'
    BY <1>34, <2>0 DEF Rearm, OthersOK
  <2> QED
    BY <1>34, <2>1, <2>2 DEF Rearm, DataOK, FrameOK
<1>36. ASSUME NEW w \in Workers, ConversationGone(w) PROVE TypeOK'
  <2>1. DataOK'
    BY <1>36, SpendType DEF ConversationGone, DataOK, Events
  <2>2. FlowOK'
    BY <1>36 DEF ConversationGone, FlowOK, Return, Phases, Running, TurnPhases, GoTo
  <2>3. FrameOK'
    BY <1>36 DEF ConversationGone, FrameOK, Return, Verdicts
  <2> QED
    BY <1>36, <2>1, <2>2, <2>3 DEF ConversationGone, OthersOK
<1>37. ASSUME NEW f \in Flushes, DrainThrows(f) PROVE TypeOK'
  <2>0. f \in Workers
    BY DEF Workers
  <2>1. DataOK'
    BY <1>37, SpendType, RowNumbers DEF DrainThrows, DataOK, Events, Unread
  <2>2. FlowOK'
    BY <1>37, <2>0 DEF DrainThrows, FlowOK, Phases, Running, GoTo
  <2>3. FrameOK'
    BY <1>37, <2>0, ForgetType DEF DrainThrows, FrameOK
  <2> QED
    BY <1>37, <2>1, <2>2, <2>3 DEF DrainThrows, OthersOK
<1>38. ASSUME NEW f \in Flushes, RearmThrows(f) PROVE TypeOK'
  <2>0. f \in Workers
    BY DEF Workers
  <2>1. DataOK'
    BY <1>38, SpendType, RowNumbers DEF RearmThrows, DataOK, Events, Unread
  <2>2. FlowOK'
    BY <1>38, <2>0 DEF RearmThrows, FlowOK, Phases, GoTo
  <2>3. OthersOK'
    BY <1>38, <2>0 DEF RearmThrows, OthersOK
  <2> QED
    BY <1>38, <2>1, <2>2, <2>3 DEF RearmThrows, FrameOK
<1>39. ASSUME NEW i \in webhooks, WebhookEnds(i) PROVE TypeOK'
  <2>1. DataOK'
    BY <1>39, SpendType, RowNumbers DEF WebhookEnds, DataOK, Events, Open
  <2> QED
    BY <1>39, <2>1 DEF WebhookEnds, FlowOK, FrameOK, OthersOK
<1>35. CASE UNCHANGED vars
  BY <1>35 DEF DataOK, FlowOK, FrameOK, OthersOK
<1> QED
  BY <1>1, <1>2, <1>3, <1>4, <1>5, <1>6, <1>7, <1>8, <1>9, <1>10, <1>11, <1>12, <1>13,
     <1>14, <1>15, <1>16, <1>17, <1>18, <1>19, <1>20, <1>21, <1>22, <1>23, <1>24, <1>25,
     <1>26, <1>27, <1>28, <1>29, <1>30, <1>31, <1>32, <1>33, <1>34, <1>35,
     <1>36, <1>37, <1>38, <1>39
  DEF Next, Environment, Schedule, Timer, Retry, Manager, WorkerStep, TurnStep, FlushStep

\* The running call moves and goes on running.
LEMMA QueueMove ==
  ASSUME TypeOK, QueueOK, NEW w \in Workers, NEW ph \in Running, pc[w] \in Running,
         pc' = [pc EXCEPT ![w] = ph], tail' = tail
  PROVE  QueueOK'
<1>1. tail \in Seq(Workers) /\ pc \in [Workers -> Phases]
  BY DEF TypeOK, FlowOK
<1>2. pc[w] \in Live /\ tail[1] = w
  BY DEF QueueOK, Queue, Live
<1> QED
  BY <1>1, <1>2, QueueRun DEF QueueOK

\* Every step keeps the tail and the phases of the calls in line.
LEMMA QueueStep ==
  ASSUME TypeOK, QueueOK, [Next]_vars
  PROVE  QueueOK'
<1> USE DEF vars, durable, coalesce, frame, locals, others, ghosts
<1>5. CASE Crash
  BY <1>5, EmptySeq DEF Crash, QueueOK, Queue, Live, Running, TurnPhases
<1>6. ASSUME NEW w \in Forced, ForceTurn(w) PROVE QueueOK'
  <2>1. w \in Workers
    BY DEF Workers
  <2> QED
    BY <1>6, <2>1, QueuePush
    DEF ForceTurn, GoTo, TypeOK, FlowOK, QueueOK, Live, Running, TurnPhases
<1>7. ASSUME NEW w \in Workers, Throw(w) PROVE QueueOK'
  <2>1. CASE w \in Flushes
    <3>1. /\ pc[w] \in TurnPhases \cup {"finish"}
          /\ tail' = tail /\ pc' = [pc EXCEPT ![w] = "settle"]
      BY <1>7, <2>1, WorkersAssumption DEF Throw, GoTo
    <3> QED
      BY <3>1, QueueMove DEF Running
  <2>2. CASE w \notin Flushes
    <3>1. tail' = Tail(tail) /\ pc' = [pc EXCEPT ![w] = "idle"] /\ pc[w] \in TurnPhases
      BY <1>7, <2>2 DEF Throw, GoTo
    <3>2. "idle" \in Phases /\ "idle" \notin Live
      BY DEF Phases, Live, Running, TurnPhases
    <3>3. pc[w] \in Running
      BY <3>1 DEF Running
    <3> QED
      BY <3>1, <3>2, <3>3, QueuePop DEF TypeOK, FlowOK, QueueOK
  <2> QED
    BY <2>1, <2>2
<1>8. ASSUME NEW i \in webhooks, ScheduleInboundBotTurn(i) PROVE QueueOK'
  <2>1. CASE \E f \in Flushes : StartFlush(f)
    <3>1. PICK f \in Flushes : StartFlush(f)
      BY <2>1
    <3>2. f \in Workers
      BY DEF Workers
    <3> QED
      BY <3>1, <3>2, QueuePush
      DEF StartFlush, GoTo, TypeOK, FlowOK, QueueOK, Live, Running, TurnPhases
  <2>2. CASE ~ \E f \in Flushes : StartFlush(f)
    BY <1>8, <2>2 DEF ScheduleInboundBotTurn, QueueOK
  <2> QED
    BY <2>1, <2>2
<1>9. ASSUME NEW f \in Flushes, FireTimer(f) PROVE QueueOK'
  <2>1. f \in Workers
    BY DEF Workers
  <2> QED
    BY <1>9, <2>1, QueuePush
    DEF FireTimer, StartFlush, GoTo, TypeOK, FlowOK, QueueOK, Live, Running, TurnPhases
<1>12. ASSUME NEW f \in Flushes, RetryFlush(f) PROVE QueueOK'
  <2>1. f \in Workers
    BY DEF Workers
  <2> QED
    BY <1>12, <2>1, QueuePush
    DEF RetryFlush, StartFlush, GoTo, TypeOK, FlowOK, QueueOK, Live, Running, TurnPhases
<1>15. ASSUME NEW w \in Workers, BeginTurn(w) PROVE QueueOK'
  BY <1>15, QueueRun
  DEF BeginTurn, TypeOK, FlowOK, QueueOK, Live, Running, TurnPhases, GoTo
<1>16. ASSUME NEW w \in Workers, ReadConversation(w) PROVE QueueOK'
  BY <1>16, QueueMove DEF ReadConversation, Running, TurnPhases, GoTo, Return
<1>17. ASSUME NEW w \in Workers, HandoffExpired(w) PROVE QueueOK'
  BY <1>17, QueueMove DEF HandoffExpired, Running, TurnPhases, GoTo
<1>18. ASSUME NEW w \in Workers, HandoffAutoReturn(w) PROVE QueueOK'
  BY <1>18, QueueMove DEF HandoffAutoReturn, Running, TurnPhases, GoTo
<1>19. ASSUME NEW w \in Workers, AbsorbLateInbound(w) PROVE QueueOK'
  BY <1>19, QueueMove DEF AbsorbLateInbound, Running, TurnPhases, GoTo
<1>20. ASSUME NEW w \in Workers, AskClaude(w) PROVE QueueOK'
  BY <1>20, QueueMove DEF AskClaude, Running, TurnPhases, GoTo
<1>21. ASSUME NEW w \in Workers, ClaudeAnswers(w) PROVE QueueOK'
  BY <1>21, QueueMove DEF ClaudeAnswers, Running, TurnPhases, GoTo
<1>22. ASSUME NEW w \in Workers, Guard(w) PROVE QueueOK'
  BY <1>22, QueueMove DEF Guard, Running, TurnPhases, GoTo, Return, AfterGuard
<1>23. ASSUME NEW w \in Workers, OrderGate(w) PROVE QueueOK'
  BY <1>23, QueueMove DEF OrderGate, Running, TurnPhases, GoTo, Return
<1>24. ASSUME NEW w \in Workers, ChooseOutbound(w) PROVE QueueOK'
  BY <1>24, QueueMove DEF ChooseOutbound, Running, TurnPhases, GoTo, Return
<1>25. ASSUME NEW w \in Workers, Takeover(w) PROVE QueueOK'
  BY <1>25, QueueMove DEF Takeover, Running, TurnPhases, GoTo
<1>26. ASSUME NEW w \in Workers, Send(w) PROVE QueueOK'
  BY <1>26, QueueMove DEF Send, Running, TurnPhases, GoTo
<1>27. ASSUME NEW w \in Workers, Persist(w) PROVE QueueOK'
  BY <1>27, QueueMove DEF Persist, Running, TurnPhases, GoTo, Return
<1>28. ASSUME NEW w \in Workers, FinishForced(w) PROVE QueueOK'
  BY <1>28, QueuePop
  DEF FinishForced, TypeOK, FlowOK, QueueOK, Phases, Live, Running, TurnPhases, GoTo
<1>29. ASSUME NEW f \in Flushes, LoadPending(f) PROVE QueueOK'
  <2>1. f \in Workers
    BY DEF Workers
  <2> QED
    BY <1>29, <2>1, QueueMove DEF LoadPending, Running, TurnPhases, GoTo
<1>30. ASSUME NEW f \in Flushes, ClaimBatch(f) PROVE QueueOK'
  <2>1. f \in Workers /\ pc[f] \in Running /\ tail' = tail
    BY <1>30 DEF ClaimBatch, Workers, Running
  <2>2. PICK ph \in {"settle", "read"} : pc' = [pc EXCEPT ![f] = ph]
    BY <1>30 DEF ClaimBatch, GoTo
  <2>3. ph \in Running
    BY DEF Running, TurnPhases
  <2> QED
    BY <2>1, <2>2, <2>3, QueueMove
<1>31. ASSUME NEW f \in Flushes, LateCheck(f) PROVE QueueOK'
  <2>1. f \in Workers
    BY DEF Workers
  <2> QED
    BY <1>31, <2>1, QueueMove DEF LateCheck, Running, TurnPhases, GoTo, Return
<1>32. ASSUME NEW f \in Flushes, Finish(f) PROVE QueueOK'
  <2>1. f \in Workers
    BY DEF Workers
  <2> QED
    BY <1>32, <2>1, QueueMove DEF Finish, Running, TurnPhases, GoTo
<1>33. ASSUME NEW f \in Flushes, Settle(f) PROVE QueueOK'
  <2>1. f \in Workers
    BY DEF Workers
  <2> QED
    BY <1>33, <2>1, QueuePop
    DEF Settle, TypeOK, FlowOK, QueueOK, Phases, Live, Running, TurnPhases, GoTo
<1>34. ASSUME NEW f \in Flushes, Rearm(f) PROVE QueueOK'
  <2>1. f \in Workers /\ pc[f] \notin Live
    BY <1>34 DEF Rearm, Workers, Live, Running, TurnPhases
  <2>2. CASE pc' = [pc EXCEPT ![f] = "queued"] /\ tail' = Append(tail, f)
    BY <2>1, <2>2, QueuePush DEF TypeOK, FlowOK, QueueOK
  <2>3. CASE pc' = [pc EXCEPT ![f] = "idle"] /\ tail' = tail
    <3>1. "idle" \in Phases /\ "idle" \notin Live
      BY DEF Phases, Live, Running, TurnPhases
    <3> QED
      BY <2>1, <2>3, <3>1, QueueApart DEF TypeOK, FlowOK, QueueOK
  <2> QED
    BY <1>34, <2>2, <2>3 DEF Rearm, GoTo
<1>36. ASSUME NEW w \in Workers, ConversationGone(w) PROVE QueueOK'
  BY <1>36, QueueMove DEF ConversationGone, Running, TurnPhases, GoTo, Return
<1>37. ASSUME NEW f \in Flushes, DrainThrows(f) PROVE QueueOK'
  <2>1. f \in Workers
    BY DEF Workers
  <2> QED
    BY <1>37, <2>1, QueueMove DEF DrainThrows, Running, GoTo
<1>38. ASSUME NEW f \in Flushes, RearmThrows(f) PROVE QueueOK'
  <2>1. f \in Workers /\ pc[f] \notin Live
    BY <1>38 DEF RearmThrows, Workers, Live, Running, TurnPhases
  <2>2. "idle" \in Phases /\ "idle" \notin Live
    BY DEF Phases, Live, Running, TurnPhases
  <2> QED
    BY <1>38, <2>1, <2>2, QueueApart DEF RearmThrows, GoTo, TypeOK, FlowOK, QueueOK
<1>35. CASE UNCHANGED <<tail, pc>>
  BY <1>35 DEF QueueOK
<1> QED
  BY <1>5, <1>6, <1>7, <1>8, <1>9, <1>12, <1>15, <1>16, <1>17, <1>18, <1>19, <1>20,
     <1>21, <1>22, <1>23, <1>24, <1>25, <1>26, <1>27, <1>28, <1>29, <1>30, <1>31, <1>32,
     <1>33, <1>34, <1>35, <1>36, <1>37, <1>38
  DEF Next, Environment, Schedule, Timer, Retry, Manager, WorkerStep, TurnStep, FlushStep,
      ClientMessage, ReactionEvent, ManagerReads, ToggleBot, RetryEvaluate, RetryClear,
      ManagerPersists, ManagerTakesOver, WebhookEnds

\* Every step keeps the drain loop below its bound.
LEMMA RoundStep ==
  ASSUME TypeOK, RoundOK, [Next]_vars
  PROVE  RoundOK'
<1> USE DEF TypeOK, FlowOK, FrameOK, Workers, RoundOK, vars, durable, coalesce, frame, locals, others, ghosts
<1>5. CASE Crash
  BY <1>5, BoundsAssumption DEF Crash, RoundOK
<1>6. ASSUME NEW w \in Forced, ForceTurn(w) PROVE RoundOK'
  <2>1. w \in Workers
    BY DEF Workers
  <2> QED
    BY <1>6, <2>1 DEF ForceTurn, RoundOK, GoTo
<1>7. ASSUME NEW w \in Workers, Throw(w) PROVE RoundOK'
  BY <1>7, BoundsAssumption DEF Throw, RoundOK, GoTo, Forget
<1>8. ASSUME NEW i \in webhooks, ScheduleInboundBotTurn(i) PROVE RoundOK'
  BY <1>8 DEF ScheduleInboundBotTurn, RoundOK, GoTo, StartFlush
<1>9. ASSUME NEW f \in Flushes, FireTimer(f) PROVE RoundOK'
  <2>1. f \in Workers
    BY DEF Workers
  <2> QED
    BY <1>9, <2>1 DEF FireTimer, RoundOK, GoTo, StartFlush
<1>12. ASSUME NEW f \in Flushes, RetryFlush(f) PROVE RoundOK'
  <2>1. f \in Workers
    BY DEF Workers
  <2> QED
    BY <1>12, <2>1 DEF RetryFlush, RoundOK, GoTo, StartFlush
<1>15. ASSUME NEW w \in Workers, BeginTurn(w) PROVE RoundOK'
  BY <1>15 DEF BeginTurn, RoundOK, GoTo
<1>16. ASSUME NEW w \in Workers, ReadConversation(w) PROVE RoundOK'
  BY <1>16 DEF ReadConversation, RoundOK, GoTo, Return
<1>17. ASSUME NEW w \in Workers, HandoffExpired(w) PROVE RoundOK'
  BY <1>17 DEF HandoffExpired, RoundOK, GoTo
<1>18. ASSUME NEW w \in Workers, HandoffAutoReturn(w) PROVE RoundOK'
  BY <1>18 DEF HandoffAutoReturn, RoundOK, GoTo
<1>19. ASSUME NEW w \in Workers, AbsorbLateInbound(w) PROVE RoundOK'
  BY <1>19 DEF AbsorbLateInbound, RoundOK, GoTo
<1>20. ASSUME NEW w \in Workers, AskClaude(w) PROVE RoundOK'
  BY <1>20 DEF AskClaude, RoundOK, GoTo
<1>21. ASSUME NEW w \in Workers, ClaudeAnswers(w) PROVE RoundOK'
  BY <1>21 DEF ClaudeAnswers, RoundOK, GoTo
<1>22. ASSUME NEW w \in Workers, Guard(w) PROVE RoundOK'
  BY <1>22 DEF Guard, RoundOK, GoTo, Return, AfterGuard
<1>23. ASSUME NEW w \in Workers, OrderGate(w) PROVE RoundOK'
  BY <1>23 DEF OrderGate, RoundOK, GoTo, Return
<1>24. ASSUME NEW w \in Workers, ChooseOutbound(w) PROVE RoundOK'
  BY <1>24 DEF ChooseOutbound, RoundOK, GoTo, Return
<1>25. ASSUME NEW w \in Workers, Takeover(w) PROVE RoundOK'
  BY <1>25 DEF Takeover, RoundOK, GoTo
<1>26. ASSUME NEW w \in Workers, Send(w) PROVE RoundOK'
  BY <1>26 DEF Send, RoundOK, GoTo
<1>27. ASSUME NEW w \in Workers, Persist(w) PROVE RoundOK'
  BY <1>27 DEF Persist, RoundOK, GoTo, Return
<1>28. ASSUME NEW w \in Workers, FinishForced(w) PROVE RoundOK'
  BY <1>28, BoundsAssumption DEF FinishForced, RoundOK, GoTo, Forget
<1>29. ASSUME NEW f \in Flushes, LoadPending(f) PROVE RoundOK'
  <2>1. f \in Workers
    BY DEF Workers
  <2> QED
    BY <1>29, <2>1 DEF LoadPending, RoundOK, GoTo
<1>30. ASSUME NEW f \in Flushes, ClaimBatch(f) PROVE RoundOK'
  <2>1. f \in Workers
    BY DEF Workers
  <2> QED
    BY <1>30, <2>1 DEF ClaimBatch, RoundOK, GoTo
<1>31. ASSUME NEW f \in Flushes, LateCheck(f) PROVE RoundOK'
  <2>1. f \in Workers
    BY DEF Workers
  <2> QED
    BY <1>31, <2>1 DEF LateCheck, RoundOK, GoTo, Return
<1>32. ASSUME NEW f \in Flushes, Finish(f) PROVE RoundOK'
  <2>1. f \in Workers
    BY DEF Workers
  <2> QED
    BY <1>32, <2>1, BoundsAssumption DEF Finish, RoundOK, GoTo
<1>33. ASSUME NEW f \in Flushes, Settle(f) PROVE RoundOK'
  <2>1. f \in Workers
    BY DEF Workers
  <2> QED
    BY <1>33, <2>1, BoundsAssumption DEF Settle, RoundOK, GoTo, Forget
<1>34. ASSUME NEW f \in Flushes, Rearm(f) PROVE RoundOK'
  <2>1. f \in Workers
    BY DEF Workers
  <2> QED
    BY <1>34, <2>1 DEF Rearm, RoundOK, GoTo
<1>36. ASSUME NEW w \in Workers, ConversationGone(w) PROVE RoundOK'
  BY <1>36 DEF ConversationGone, RoundOK, GoTo, Return
<1>37. ASSUME NEW f \in Flushes, DrainThrows(f) PROVE RoundOK'
  <2>1. f \in Workers
    BY DEF Workers
  <2> QED
    BY <1>37, <2>1, BoundsAssumption DEF DrainThrows, RoundOK, GoTo, Forget
<1>38. ASSUME NEW f \in Flushes, RearmThrows(f) PROVE RoundOK'
  <2>1. f \in Workers
    BY DEF Workers
  <2> QED
    BY <1>38, <2>1 DEF RearmThrows, RoundOK, GoTo
<1>35. CASE UNCHANGED <<round, pc>>
  BY <1>35 DEF RoundOK
<1> QED
  BY <1>5, <1>6, <1>7, <1>8, <1>9, <1>12, <1>15, <1>16, <1>17, <1>18, <1>19, <1>20,
     <1>21, <1>22, <1>23, <1>24, <1>25, <1>26, <1>27, <1>28, <1>29, <1>30, <1>31, <1>32,
     <1>33, <1>34, <1>35, <1>36, <1>37, <1>38
  DEF Next, Environment, Schedule, Timer, Retry, Manager, WorkerStep, TurnStep, FlushStep,
      ClientMessage, ReactionEvent, ManagerReads, ToggleBot, RetryEvaluate, RetryClear,
      ManagerPersists, ManagerTakesOver, WebhookEnds

\* The initial state is in line, whatever the history.
LEMMA InitOK == Init => TypeOK /\ QueueOK /\ RoundOK
<1> SUFFICES ASSUME Init PROVE TypeOK /\ QueueOK /\ RoundOK
  OBVIOUS
<1>1. messages \in Seq(Row)
  <2>1. [kind : {"client", "reaction", "bot", "fallback", "note", "manager"},
         claim : {"free", "skipped", "done"}] \subseteq Row
    BY DEF Row, Kinds, Claims
  <2> QED
    BY <2>1, HistoryAssumption, SeqMonotonic DEF Init
<1>2. DataOK
  <2>1. abandoned \subseteq Nat
    BY <1>1, RowNumbers DEF Init
  <2> QED
    BY <1>1, <2>1, BoundsAssumption DEF Init, DataOK
<1>3. FlowOK
  BY EmptySeq DEF Init, FlowOK, Phases, Running, TurnPhases
<1>4. FrameOK
  BY BoundsAssumption DEF Init, FrameOK, Plans, Verdicts
<1>5. OthersOK
  BY DEF Init, OthersOK
<1>6. QueueOK
  BY EmptySeq DEF Init, QueueOK, Queue, Live, Running, TurnPhases
<1>7. RoundOK
  BY BoundsAssumption DEF Init, RoundOK, Workers
<1> QED
  BY <1>2, <1>3, <1>4, <1>5, <1>6, <1>7 DEF TypeOK

\* The inductive invariant behind the theorems.
Shape == TypeOK /\ QueueOK /\ RoundOK

\* Every step keeps all three.
LEMMA ShapeStep == Shape /\ [Next]_vars => Shape'
BY TypeStep, QueueStep, RoundStep DEF Shape

\* Shape: the types, the promise tail in line with the calls that are live, each
\* of them in it once and only its head running, and no flush past its bound.
THEOREM ShapeInvariant == Spec => []Shape
<1>1. Init => Shape
  BY InitOK DEF Shape
<1> QED
  BY <1>1, ShapeStep, PTL DEF Spec

\* TypeOK: what each variable of the inbound pipeline may hold.
THEOREM TypeInvariant == Spec => []TypeOK
<1>1. Shape => TypeOK
  BY DEF Shape
<1> QED
  BY <1>1, ShapeInvariant, PTL
-----------------------------------------------------------------------------
(* Takeovers.  The inductive strengthening speaks of every phase behind    *)
(* the test, not only of the send: a flush there in a conversation that is *)
(* not the bot's is one the conversation left behind.                      *)

GuardOK ==
  \A f \in Flushes : pc[f] \in PastGuard /\ conversation # "bot" => f \in overtaken

\* A call that moves without passing the test, the state being left alone.
LEMMA GuardKept ==
  ASSUME TypeOK, GuardOK, NEW w \in Workers, NEW ph, pc' = [pc EXCEPT ![w] = ph],
         conversation' = conversation, overtaken' = overtaken,
         ph \in PastGuard => pc[w] \in PastGuard
  PROVE  GuardOK'
<1> SUFFICES ASSUME NEW f \in Flushes, pc'[f] \in PastGuard, conversation # "bot"
             PROVE  f \in overtaken
  BY DEF GuardOK
<1>1. f \in Workers /\ pc \in [Workers -> Phases]
  BY DEF TypeOK, FlowOK, Workers
<1>2. pc[f] \in PastGuard
  BY <1>1
<1> QED
  BY <1>2 DEF GuardOK

\* A write of the state notes every flush it leaves behind.
LEMMA GuardNoted ==
  ASSUME GuardOK, NEW st, SetState(st), NEW w \in Workers, pc \in [Workers -> Phases],
         NEW ph, pc' = [pc EXCEPT ![w] = ph], ph \in PastGuard => pc[w] \in PastGuard
  PROVE  GuardOK'
<1> SUFFICES ASSUME NEW f \in Flushes, pc'[f] \in PastGuard, st # "bot"
             PROVE  f \in overtaken'
  BY DEF GuardOK, SetState
<1>1. f \in Workers
  BY DEF Workers
<1>2. pc[f] \in PastGuard
  BY <1>1
<1> QED
  BY <1>2 DEF GuardOK, SetState

\* The same when no call moves.
LEMMA StateNoted ==
  ASSUME GuardOK, NEW st, SetState(st), pc' = pc
  PROVE  GuardOK'
BY DEF GuardOK, SetState

\* Every step keeps the flushes behind the test accounted for.
LEMMA GuardStep ==
  ASSUME TypeOK, GuardOK, [Next]_vars
  PROVE  GuardOK'
<1> USE DEF GuardOK, vars, durable, coalesce, locals, frame, others, ghosts
<1>4. CASE ToggleBot
  BY <1>4, StateNoted DEF ToggleBot
<1>5. CASE Crash
  BY <1>5 DEF Crash, PastGuard, Workers
<1>6. ASSUME NEW w \in Forced, ForceTurn(w) PROVE GuardOK'
  <2>1. w \in Workers
    BY DEF Workers
  <2> QED
    BY <1>6, <2>1, GuardKept DEF ForceTurn, PastGuard, GoTo
<1>7. ASSUME NEW w \in Workers, Throw(w) PROVE GuardOK'
  BY <1>7 DEF Throw, PastGuard, GoTo, Workers, TypeOK, FlowOK
<1>8. ASSUME NEW i \in webhooks, ScheduleInboundBotTurn(i) PROVE GuardOK'
  <2>1. CASE \E f \in Flushes : StartFlush(f)
    <3>1. PICK f \in Flushes : StartFlush(f)
      BY <2>1
    <3>2. f \in Workers
      BY DEF Workers
    <3> QED
      BY <1>8, <3>1, <3>2, GuardKept DEF ScheduleInboundBotTurn, StartFlush, GoTo, PastGuard
  <2>2. CASE ~ \E f \in Flushes : StartFlush(f)
    BY <1>8, <2>2 DEF ScheduleInboundBotTurn
  <2> QED
    BY <2>1, <2>2
<1>9. ASSUME NEW f \in Flushes, FireTimer(f) PROVE GuardOK'
  <2>1. f \in Workers
    BY DEF Workers
  <2> QED
    BY <1>9, <2>1, GuardKept DEF FireTimer, PastGuard, GoTo, StartFlush
<1>12. ASSUME NEW f \in Flushes, RetryFlush(f) PROVE GuardOK'
  <2>1. f \in Workers
    BY DEF Workers
  <2> QED
    BY <1>12, <2>1, GuardKept DEF RetryFlush, PastGuard, GoTo, StartFlush
<1>14. CASE ManagerTakesOver
  BY <1>14, StateNoted DEF ManagerTakesOver
<1>15. ASSUME NEW w \in Workers, BeginTurn(w) PROVE GuardOK'
  BY <1>15, GuardKept DEF BeginTurn, PastGuard, GoTo
<1>16. ASSUME NEW w \in Workers, ReadConversation(w) PROVE GuardOK'
  BY <1>16, GuardKept DEF ReadConversation, PastGuard, GoTo, Return
<1>17. ASSUME NEW w \in Workers, HandoffExpired(w) PROVE GuardOK'
  BY <1>17, GuardKept DEF HandoffExpired, PastGuard, GoTo
<1>18. ASSUME NEW w \in Workers, HandoffAutoReturn(w) PROVE GuardOK'
  BY <1>18, GuardNoted DEF HandoffAutoReturn, PastGuard, GoTo, TypeOK, FlowOK
<1>19. ASSUME NEW w \in Workers, AbsorbLateInbound(w) PROVE GuardOK'
  BY <1>19, GuardKept DEF AbsorbLateInbound, PastGuard, GoTo
<1>20. ASSUME NEW w \in Workers, AskClaude(w) PROVE GuardOK'
  BY <1>20, GuardKept DEF AskClaude, PastGuard, GoTo
<1>21. ASSUME NEW w \in Workers, ClaudeAnswers(w) PROVE GuardOK'
  BY <1>21, GuardKept DEF ClaudeAnswers, PastGuard, GoTo
<1>22. ASSUME NEW w \in Workers, Guard(w) PROVE GuardOK'
  <2>1. CASE w \in Flushes /\ TurnStillValid(w)
    BY <1>22, <2>1, WorkersAssumption DEF Guard, TurnStillValid, Return, GoTo, TypeOK, FlowOK, Workers
  <2>2. CASE w \notin Flushes
    BY <1>22, <2>2 DEF Guard, Return, GoTo, TypeOK, FlowOK, Workers
  <2>3. CASE ~TurnStillValid(w)
    BY <1>22, <2>3, GuardKept DEF Guard, Return, GoTo, PastGuard
  <2> QED
    BY <2>1, <2>2, <2>3
<1>23. ASSUME NEW w \in Workers, OrderGate(w) PROVE GuardOK'
  BY <1>23, GuardKept DEF OrderGate, PastGuard, GoTo, Return
<1>24. ASSUME NEW w \in Workers, ChooseOutbound(w) PROVE GuardOK'
  BY <1>24, GuardKept DEF ChooseOutbound, PastGuard, GoTo, Return
<1>25. ASSUME NEW w \in Workers, Takeover(w) PROVE GuardOK'
  BY <1>25, GuardNoted DEF Takeover, PastGuard, GoTo, TypeOK, FlowOK
<1>26. ASSUME NEW w \in Workers, Send(w) PROVE GuardOK'
  BY <1>26, GuardKept DEF Send, PastGuard, GoTo
<1>27. ASSUME NEW w \in Workers, Persist(w) PROVE GuardOK'
  BY <1>27, GuardKept DEF Persist, PastGuard, GoTo, Return
<1>28. ASSUME NEW w \in Workers, FinishForced(w) PROVE GuardOK'
  BY <1>28, GuardKept DEF FinishForced, PastGuard, GoTo
<1>29. ASSUME NEW f \in Flushes, LoadPending(f) PROVE GuardOK'
  <2>1. f \in Workers
    BY DEF Workers
  <2> QED
    BY <1>29, <2>1, GuardKept DEF LoadPending, PastGuard, GoTo
<1>30. ASSUME NEW f \in Flushes, ClaimBatch(f) PROVE GuardOK'
  <2>1. f \in Workers
    BY DEF Workers
  <2> QED
    BY <1>30, <2>1, GuardKept DEF ClaimBatch, PastGuard, GoTo
<1>31. ASSUME NEW f \in Flushes, LateCheck(f) PROVE GuardOK'
  <2>1. f \in Workers
    BY DEF Workers
  <2> QED
    BY <1>31, <2>1, GuardKept DEF LateCheck, PastGuard, GoTo, Return
<1>32. ASSUME NEW f \in Flushes, Finish(f) PROVE GuardOK'
  <2>1. f \in Workers
    BY DEF Workers
  <2> QED
    BY <1>32, <2>1 DEF Finish, PastGuard, GoTo, TypeOK, FlowOK, Workers
<1>33. ASSUME NEW f \in Flushes, Settle(f) PROVE GuardOK'
  <2>1. f \in Workers
    BY DEF Workers
  <2> QED
    BY <1>33, <2>1, GuardKept DEF Settle, PastGuard, GoTo
<1>34. ASSUME NEW f \in Flushes, Rearm(f) PROVE GuardOK'
  <2>1. f \in Workers
    BY DEF Workers
  <2> QED
    BY <1>34, <2>1, GuardKept DEF Rearm, PastGuard, GoTo
<1>36. ASSUME NEW w \in Workers, ConversationGone(w) PROVE GuardOK'
  BY <1>36, GuardKept DEF ConversationGone, PastGuard, GoTo, Return
<1>37. ASSUME NEW f \in Flushes, DrainThrows(f) PROVE GuardOK'
  <2>1. f \in Workers
    BY DEF Workers
  <2> QED
    BY <1>37, <2>1, GuardKept DEF DrainThrows, PastGuard, GoTo
<1>38. ASSUME NEW f \in Flushes, RearmThrows(f) PROVE GuardOK'
  <2>1. f \in Workers
    BY DEF Workers
  <2> QED
    BY <1>38, <2>1, GuardKept DEF RearmThrows, PastGuard, GoTo
<1>35. CASE UNCHANGED <<pc, conversation, overtaken>>
  BY <1>35 DEF GuardOK
<1> QED
  BY <1>4, <1>5, <1>6, <1>7, <1>8, <1>9, <1>12, <1>14, <1>15, <1>16, <1>17, <1>18,
     <1>19, <1>20, <1>21, <1>22, <1>23, <1>24, <1>25, <1>26, <1>27, <1>28, <1>29, <1>30,
     <1>31, <1>32, <1>33, <1>34, <1>35, <1>36, <1>37, <1>38
  DEF Next, Environment, Schedule, Timer, Retry, Manager, WorkerStep, TurnStep, FlushStep,
      ClientMessage, ReactionEvent, ManagerReads, RetryEvaluate, RetryClear,
      ManagerPersists, WebhookEnds

\* TakeoverStopsBot: a flush that is about to send into a conversation that is
\* not the bot's was behind its last test when the conversation left the bot.
THEOREM TakeoverTheorem == Spec => []TakeoverStopsBot
<1>1. Init => GuardOK
  BY DEF Init, GuardOK
<1>2. TypeOK /\ GuardOK /\ [Next]_vars => GuardOK'
  BY GuardStep
<1>3. GuardOK => TakeoverStopsBot
  BY DEF GuardOK, TakeoverStopsBot, PastGuard
<1> QED
  BY <1>1, <1>2, <1>3, TypeInvariant, PTL DEF Spec

-----------------------------------------------------------------------------
(* Claims.  Only a turn holds rows, and the tail holds the turns in line:  *)
(* together they say whose claims may stand in the database.               *)

Holding == TurnPhases \cup {"finish"}

ClaimsOK ==
  \A i \in 1..Len(messages) :
    messages[i].claim \in Workers => pc[messages[i].claim] \in Holding

\* A call moves and stays in, or stays out of, the phases that hold rows.
LEMMA ClaimsKept ==
  ASSUME TypeOK, ClaimsOK, NEW w \in Workers, NEW ph, pc' = [pc EXCEPT ![w] = ph],
         messages' = messages, pc[w] \in Holding => ph \in Holding
  PROVE  ClaimsOK'
BY DEF ClaimsOK, TypeOK, FlowOK

\* A row that nobody claims is added.
LEMMA ClaimsAppend ==
  ASSUME TypeOK, ClaimsOK, NEW r \in Row, r.claim \notin Workers,
         messages' = Append(messages, r), pc' = pc
  PROVE  ClaimsOK'
<1>1. messages \in Seq(Row) /\ Len(messages) \in Nat
  BY LenProperties DEF TypeOK, DataOK
<1> QED
  BY <1>1, NewRowType DEF ClaimsOK

\* What setting a claim does to a row's claim.
LEMMA SetClaimClaim ==
  ASSUME messages \in Seq(Row), NEW S, NEW c \in Claims, NEW i \in 1..Len(messages)
  PROVE  SetClaim(S, c)[i].claim = IF i \in S THEN c ELSE messages[i].claim
<1>1. messages[i] \in Row
  BY ElementOfSeq
<1>2. [messages[i] EXCEPT !.claim = c].claim = c
  BY <1>1 DEF Row
<1>3. SetClaim(S, c)[i] = IF i \in S THEN [messages[i] EXCEPT !.claim = c] ELSE messages[i]
  BY SetClaimType
<1> QED
  BY <1>2, <1>3

\* Every row a call holds is given up before the call moves on.
LEMMA ClaimsGivenUp ==
  ASSUME TypeOK, ClaimsOK, NEW w \in Workers, NEW ph, pc' = [pc EXCEPT ![w] = ph],
         NEW c \in {"free", "skipped", "done"}, messages' = SetClaim(Held(w), c)
  PROVE  ClaimsOK'
<1>1. messages \in Seq(Row) /\ c \in Claims /\ c \notin Workers /\ pc \in [Workers -> Phases]
  BY ClaimNames, WorkersAssumption DEF TypeOK, DataOK, FlowOK
<1>2. \A i \in 1..Len(messages) : i \in Held(w) <=> messages[i].claim = w
  BY <1>1, LenProperties DEF Held
<1>4. \A i \in 1..Len(messages) :
        messages'[i].claim = IF i \in Held(w) THEN c ELSE messages[i].claim
  BY <1>1, SetClaimClaim
<1>5. Len(messages') = Len(messages)
  BY <1>1, SetClaimType
<1> QED
  BY <1>1, <1>2, <1>4, <1>5 DEF ClaimsOK

\* A call that will hold rows claims some.
LEMMA ClaimsTaken ==
  ASSUME TypeOK, ClaimsOK, NEW w \in Workers, NEW ph \in Holding, pc' = [pc EXCEPT ![w] = ph],
         NEW S, messages' = SetClaim(S, w)
  PROVE  ClaimsOK'
<1>1. messages \in Seq(Row) /\ w \in Claims /\ pc \in [Workers -> Phases]
  BY ClaimNames DEF TypeOK, DataOK, FlowOK
<1>3. \A i \in 1..Len(messages) :
        messages'[i].claim = IF i \in S THEN w ELSE messages[i].claim
  BY <1>1, SetClaimClaim
<1>4. Len(messages') = Len(messages)
  BY <1>1, SetClaimType
<1> QED
  BY <1>1, <1>3, <1>4 DEF ClaimsOK

\* Claims are given up, whoever holds them, and no call moves.
LEMMA ClaimsCleared ==
  ASSUME TypeOK, ClaimsOK, NEW S, NEW c \in {"free", "skipped", "done"},
         messages' = SetClaim(S, c), pc' = pc
  PROVE  ClaimsOK'
<1>1. messages \in Seq(Row) /\ c \in Claims /\ c \notin Workers
  BY ClaimNames, WorkersAssumption DEF TypeOK, DataOK
<1>3. \A i \in 1..Len(messages) :
        messages'[i].claim = IF i \in S THEN c ELSE messages[i].claim
  BY <1>1, SetClaimClaim
<1>4. Len(messages') = Len(messages)
  BY <1>1, SetClaimType
<1> QED
  BY <1>1, <1>3, <1>4 DEF ClaimsOK

\* Every step keeps the claims with the turns that run.
LEMMA ClaimsStep ==
  ASSUME TypeOK, ClaimsOK, [Next]_vars
  PROVE  ClaimsOK'
<1> USE DEF ClaimsOK, vars, durable, coalesce, locals, frame, others, ghosts
<1>1. CASE ClientMessage
  BY <1>1, ClaimsAppend, WorkersAssumption DEF ClientMessage, NewRow, Row, Kinds, Claims
<1>2. CASE ReactionEvent
  BY <1>2, ClaimsAppend, WorkersAssumption DEF ReactionEvent, Row, Kinds, Claims
<1>5. CASE Crash
  <2>1. messages \in Seq(Row) /\ "done" \in Claims /\ "done" \notin Workers
    BY ClaimNames, WorkersAssumption DEF TypeOK, DataOK
  <2>2. messages' = SetClaim(UNION {Held(w) : w \in Workers}, "done")
    BY <1>5 DEF Crash
  <2>4. \A i \in 1..Len(messages) : messages[i].claim \in Workers =>
                                     i \in UNION {Held(w) : w \in Workers}
    BY <2>1, LenProperties DEF Held
  <2>5. Len(messages') = Len(messages)
    BY <2>1, <2>2, SetClaimType
  <2>6. \A i \in 1..Len(messages) : messages'[i].claim \notin Workers
    BY <2>1, <2>2, <2>4, SetClaimClaim
  <2> QED
    BY <2>5, <2>6
<1>6. ASSUME NEW w \in Forced, ForceTurn(w) PROVE ClaimsOK'
  <2>1. w \in Workers
    BY DEF Workers
  <2> QED
    BY <1>6, <2>1, ClaimsKept DEF ForceTurn, Holding, TurnPhases, GoTo
<1>7. ASSUME NEW w \in Workers, Throw(w) PROVE ClaimsOK'
  <2>1. PICK ph : pc' = [pc EXCEPT ![w] = ph]
    BY <1>7 DEF Throw, GoTo
  <2>2. PICK c \in {"free", "skipped", "done"} : messages' = SetClaim(Held(w), c)
    BY <1>7, ClaimNames DEF Throw
  <2> QED
    BY <2>1, <2>2, ClaimsGivenUp
<1>8. ASSUME NEW i \in webhooks, ScheduleInboundBotTurn(i) PROVE ClaimsOK'
  <2>1. CASE \E f \in Flushes : StartFlush(f)
    <3>1. PICK f \in Flushes : StartFlush(f)
      BY <2>1
    <3>2. f \in Workers
      BY DEF Workers
    <3> QED
      BY <1>8, <3>1, <3>2, ClaimsKept
      DEF ScheduleInboundBotTurn, StartFlush, GoTo, Holding, TurnPhases
  <2>2. CASE ~ \E f \in Flushes : StartFlush(f)
    BY <1>8, <2>2 DEF ScheduleInboundBotTurn
  <2> QED
    BY <2>1, <2>2
<1>9. ASSUME NEW f \in Flushes, FireTimer(f) PROVE ClaimsOK'
  <2>1. f \in Workers
    BY DEF Workers
  <2> QED
    BY <1>9, <2>1, ClaimsKept DEF FireTimer, Holding, TurnPhases, GoTo, StartFlush
<1>11. CASE RetryClear
  BY <1>11, ClaimsCleared DEF RetryClear
<1>12. ASSUME NEW f \in Flushes, RetryFlush(f) PROVE ClaimsOK'
  <2>1. f \in Workers
    BY DEF Workers
  <2> QED
    BY <1>12, <2>1, ClaimsKept DEF RetryFlush, Holding, TurnPhases, GoTo, StartFlush
<1>13. CASE ManagerPersists
  BY <1>13, ClaimsAppend, WorkersAssumption
  DEF ManagerPersists, NewRow, Row, Kinds, Claims
<1>15. ASSUME NEW w \in Workers, BeginTurn(w) PROVE ClaimsOK'
  BY <1>15, ClaimsKept DEF BeginTurn, Holding, TurnPhases, GoTo
<1>16. ASSUME NEW w \in Workers, ReadConversation(w) PROVE ClaimsOK'
  BY <1>16, ClaimsKept DEF ReadConversation, Holding, TurnPhases, GoTo, Return
<1>17. ASSUME NEW w \in Workers, HandoffExpired(w) PROVE ClaimsOK'
  BY <1>17, ClaimsKept DEF HandoffExpired, Holding, TurnPhases, GoTo
<1>18. ASSUME NEW w \in Workers, HandoffAutoReturn(w) PROVE ClaimsOK'
  BY <1>18, ClaimsKept DEF HandoffAutoReturn, Holding, TurnPhases, GoTo
<1>19. ASSUME NEW w \in Workers, AbsorbLateInbound(w) PROVE ClaimsOK'
  BY <1>19, ClaimsTaken DEF AbsorbLateInbound, Holding, TurnPhases, GoTo
<1>20. ASSUME NEW w \in Workers, AskClaude(w) PROVE ClaimsOK'
  BY <1>20, ClaimsKept DEF AskClaude, Holding, TurnPhases, GoTo
<1>21. ASSUME NEW w \in Workers, ClaudeAnswers(w) PROVE ClaimsOK'
  BY <1>21, ClaimsKept DEF ClaudeAnswers, Holding, TurnPhases, GoTo
<1>22. ASSUME NEW w \in Workers, Guard(w) PROVE ClaimsOK'
  BY <1>22, ClaimsKept DEF Guard, Holding, TurnPhases, GoTo, Return, AfterGuard
<1>23. ASSUME NEW w \in Workers, OrderGate(w) PROVE ClaimsOK'
  BY <1>23, ClaimsKept DEF OrderGate, Holding, TurnPhases, GoTo, Return
<1>24. ASSUME NEW w \in Workers, ChooseOutbound(w) PROVE ClaimsOK'
  BY <1>24, ClaimsKept DEF ChooseOutbound, Holding, TurnPhases, GoTo, Return
<1>25. ASSUME NEW w \in Workers, Takeover(w) PROVE ClaimsOK'
  BY <1>25, ClaimsKept DEF Takeover, Holding, TurnPhases, GoTo
<1>26. ASSUME NEW w \in Workers, Send(w) PROVE ClaimsOK'
  BY <1>26, ClaimsKept DEF Send, Holding, TurnPhases, GoTo
<1>27. ASSUME NEW w \in Workers, Persist(w) PROVE ClaimsOK'
  <2> DEFINE k == IF plan[w] \in {"fallback", "note"} THEN plan[w] ELSE "bot"
  <2>1. /\ [kind |-> k, claim |-> "free"] \in Row
        /\ messages' = Append(messages, [kind |-> k, claim |-> "free"])
    BY <1>27 DEF Persist, NewRow, Row, Kinds, Claims
  <2>2. messages \in Seq(Row) /\ Len(messages) \in Nat /\ pc \in [Workers -> Phases]
    BY LenProperties DEF TypeOK, DataOK, FlowOK
  <2>3. pc' = [pc EXCEPT ![w] = "finish"]
    BY <1>27 DEF Persist, Return, GoTo
  <2>4. [kind |-> k, claim |-> "free"].claim \notin Workers
    BY WorkersAssumption
  <2> HIDE DEF k
  <2> QED
    BY <2>1, <2>2, <2>3, <2>4, NewRowType DEF Holding
<1>28. ASSUME NEW w \in Workers, FinishForced(w) PROVE ClaimsOK'
  BY <1>28, ClaimsGivenUp DEF FinishForced, GoTo
<1>29. ASSUME NEW f \in Flushes, LoadPending(f) PROVE ClaimsOK'
  <2>1. f \in Workers
    BY DEF Workers
  <2> QED
    BY <1>29, <2>1, ClaimsKept DEF LoadPending, Holding, TurnPhases, GoTo
<1>30. ASSUME NEW f \in Flushes, ClaimBatch(f) PROVE ClaimsOK'
  <2>1. f \in Workers /\ messages \in Seq(Row) /\ f \in Claims
    BY ClaimNames DEF Workers, TypeOK, DataOK
  <2> DEFINE got == {i \in seen[f] : messages[i].claim = "free"}
  <2>2. messages' = SetClaim(got, f)
        /\ pc' = [pc EXCEPT ![f] = IF got = {} THEN "settle" ELSE "read"]
        /\ pc[f] = "claim"
    BY <1>30 DEF ClaimBatch, GoTo
  <2>3. CASE got = {}
    <3>1. messages \in [1..Len(messages) -> Row] /\ DOMAIN messages = 1..Len(messages)
      BY <2>1, LenProperties, SeqDef
    <3>2. messages' = messages
      BY <2>2, <2>3, <3>1 DEF SetClaim
    <3> QED
      BY <2>1, <2>2, <2>3, <3>2, ClaimsKept DEF Holding, TurnPhases
  <2>4. CASE got # {}
    <3>1. "read" \in Holding
      BY DEF Holding, TurnPhases
    <3> HIDE DEF got
    <3> QED
      BY <2>1, <2>2, <2>4, <3>1, ClaimsTaken
  <2> QED
    BY <2>3, <2>4
<1>31. ASSUME NEW f \in Flushes, LateCheck(f) PROVE ClaimsOK'
  <2>1. f \in Workers
    BY DEF Workers
  <2> QED
    BY <1>31, <2>1, ClaimsKept DEF LateCheck, Holding, TurnPhases, GoTo, Return
<1>32. ASSUME NEW f \in Flushes, Finish(f) PROVE ClaimsOK'
  <2>1. f \in Workers
    BY DEF Workers
  <2>2. PICK ph : pc' = [pc EXCEPT ![f] = ph]
    BY <1>32 DEF Finish, GoTo
  <2>3. PICK c \in {"free", "skipped", "done"} : messages' = SetClaim(Held(f), c)
    BY <1>32, ClaimNames DEF Finish
  <2> QED
    BY <2>1, <2>2, <2>3, ClaimsGivenUp
<1>33. ASSUME NEW f \in Flushes, Settle(f) PROVE ClaimsOK'
  <2>1. f \in Workers
    BY DEF Workers
  <2> QED
    BY <1>33, <2>1, ClaimsKept DEF Settle, Holding, TurnPhases, GoTo
<1>34. ASSUME NEW f \in Flushes, Rearm(f) PROVE ClaimsOK'
  <2>1. f \in Workers /\ pc[f] \notin Holding /\ messages' = messages
    BY <1>34 DEF Rearm, Workers, Holding, TurnPhases
  <2>2. PICK ph : pc' = [pc EXCEPT ![f] = ph]
    BY <1>34 DEF Rearm, GoTo
  <2> QED
    BY <2>1, <2>2, ClaimsKept
<1>36. ASSUME NEW w \in Workers, ConversationGone(w) PROVE ClaimsOK'
  BY <1>36, ClaimsKept DEF ConversationGone, Holding, TurnPhases, GoTo, Return
<1>37. ASSUME NEW f \in Flushes, DrainThrows(f) PROVE ClaimsOK'
  <2>1. f \in Workers /\ pc[f] \notin Holding
    BY <1>37 DEF DrainThrows, Workers, Holding, TurnPhases
  <2> QED
    BY <1>37, <2>1, ClaimsKept DEF DrainThrows, GoTo
<1>38. ASSUME NEW f \in Flushes, RearmThrows(f) PROVE ClaimsOK'
  <2>1. f \in Workers /\ pc[f] \notin Holding
    BY <1>38 DEF RearmThrows, Workers, Holding, TurnPhases
  <2> QED
    BY <1>38, <2>1, ClaimsKept DEF RearmThrows, GoTo
<1>35. CASE UNCHANGED <<messages, pc>>
  BY <1>35 DEF ClaimsOK
<1> QED
  BY <1>1, <1>2, <1>5, <1>6, <1>7, <1>8, <1>9, <1>11, <1>12, <1>13, <1>15, <1>16, <1>17,
     <1>18, <1>19, <1>20, <1>21, <1>22, <1>23, <1>24, <1>25, <1>26, <1>27, <1>28, <1>29,
     <1>30, <1>31, <1>32, <1>33, <1>34, <1>35, <1>36, <1>37, <1>38
  DEF Next, Environment, Schedule, Timer, Retry, Manager, WorkerStep, TurnStep, FlushStep,
      ManagerReads, ToggleBot, RetryEvaluate, ManagerTakesOver, WebhookEnds

\* Only a running turn's claims stand on the rows.
THEOREM ClaimsInvariant == Spec => []ClaimsOK
<1>1. Init => ClaimsOK
  <2> SUFFICES ASSUME Init PROVE ClaimsOK
    OBVIOUS
  <2> DEFINE R == [kind : {"client", "reaction", "bot", "fallback", "note", "manager"},
                   claim : {"free", "skipped", "done"}]
  <2>1. \A i \in 1..Len(messages) : messages[i] \in R
    BY HistoryAssumption, ElementOfSeq DEF Init
  <2> QED
    BY <2>1, WorkersAssumption DEF ClaimsOK
<1>2. TypeOK /\ ClaimsOK /\ [Next]_vars => ClaimsOK'
  BY ClaimsStep
<1> QED
  BY <1>1, <1>2, TypeInvariant, PTL DEF Spec

\* ClaimsOfTheRunningTurn: a claim of a live turn is that of the turn at the
\* head of the promise tail, and that turn is running.
THEOREM ClaimsTheorem == Spec => []ClaimsOfTheRunningTurn
<1>1. Shape /\ ClaimsOK => ClaimsOfTheRunningTurn
  <2> SUFFICES ASSUME Shape, ClaimsOK, NEW i \in DOMAIN messages,
                      messages[i].claim \in Workers
               PROVE  /\ tail # <<>> /\ tail[1] = messages[i].claim
                      /\ pc[messages[i].claim] \in TurnPhases \cup {"finish"}
    BY DEF ClaimsOfTheRunningTurn
  <2>1. i \in 1..Len(messages)
    BY LenProperties DEF Shape, TypeOK, DataOK
  <2>2. pc[messages[i].claim] \in Holding
    BY <2>1 DEF ClaimsOK
  <2>3. pc[messages[i].claim] \in Running
    BY <2>2 DEF Holding, Running
  <2>4. Len(tail) > 0 /\ tail[1] = messages[i].claim
    BY <2>3 DEF Shape, QueueOK, Queue
  <2> QED
    BY <2>2, <2>4, EmptySeq DEF Holding
<1> QED
  BY <1>1, ShapeInvariant, ClaimsInvariant, PTL

-----------------------------------------------------------------------------
(* What a load returns.  The floor is a maximum; here it is said without   *)
(* one: the unclaimed bubbles no claimed row lies above or, where nothing  *)
(* is claimed, no message of the bot or the manager.                       *)

Unclaimed == {i \in Rows(Inbound) : messages[i].claim = "free"}
Claimed   == {i \in Rows(Inbound) : messages[i].claim # "free"}
Settled   == {i \in Claimed : messages[i].claim \notin Workers}

Above(S) == {i \in Unclaimed : \A j \in (IF S # {} THEN S ELSE Rows(RealOut)) : j <= i}

\* A set of numbers that has a bound has a greatest element.
LEMMA Greatest ==
  ASSUME NEW S, S \subseteq Nat, NEW n \in Nat, \A s \in S : s <= n, S # {}
  PROVE  \E m \in S : \A i \in S : i <= m
<1> DEFINE Over(m) == {i \in S : ~(i <= m)}
           T == {Over(m) : m \in S}
<1>1. FiniteSubsetsOf(S) = SUBSET S
  BY FS_BoundedSetOfNaturals, FS_FiniteSubsetsOfFinite
<1>2. \A m : Over(m) \subseteq S
  OBVIOUS
<1> HIDE DEF Over
<1>3. T \subseteq FiniteSubsetsOf(S) /\ T # {}
  <2>1. \A y \in T : \E m \in S : y = Over(m)
    OBVIOUS
  <2>2. \A y \in T : y \in SUBSET S
    BY <1>2, <2>1
  <2>3. PICK m \in S : TRUE
    OBVIOUS
  <2>4. Over(m) \in T
    BY <2>3
  <2> HIDE DEF T
  <2> QED
    BY <1>1, <2>2, <2>4
<1>4. PICK x \in T : \A y \in T : ~ (<<y, x>> \in StrictSubsetOrdering(S))
  <2> HIDE DEF T
  <2> QED
    BY <1>3, WFMin, FS_StrictSubsetOrderingWellFounded
<1>5. PICK m \in S : x = Over(m)
  BY <1>4
<1>6. ASSUME NEW i \in S, ~(i <= m)
      PROVE  FALSE
  <2>1. \A j \in S : j \in Nat
    OBVIOUS
  <2>2. i <= i /\ \A j \in Nat : j <= m => j <= i
    BY <2>1, <1>6
  <2>3. Over(i) \subseteq Over(m) /\ i \in Over(m) /\ i \notin Over(i)
    BY <2>1, <2>2, <1>6 DEF Over
  <2>4. <<Over(i), Over(m)>> \in StrictSubsetOrdering(S)
    BY <1>2, <2>3 DEF StrictSubsetOrdering
  <2> QED
    BY <1>4, <1>5, <2>4
<1> QED
  BY <1>6

\* Latest is the greatest element of a set of rows, and 0 where there is none.
LEMMA LatestRow ==
  ASSUME messages \in Seq(Row), NEW S, S \subseteq 1..Len(messages)
  PROVE  /\ S = {} => Latest(S) = 0
         /\ S # {} => Latest(S) \in S
         /\ \A i \in S : i <= Latest(S)
         /\ Latest(S) \in Nat
<1>1. Len(messages) \in Nat /\ S \subseteq Nat /\ \A s \in S : s <= Len(messages)
  BY LenProperties
<1>2. CASE S = {}
  BY <1>2 DEF Latest
<1>3. CASE S # {}
  <2>1. \E m \in S : \A i \in S : i <= m
    BY <1>1, <1>3, Greatest
  <2>2. Latest(S) = CHOOSE m \in S : \A i \in S : i <= m
    BY <1>3 DEF Latest
  <2>3. Latest(S) \in S /\ \A i \in S : i <= Latest(S)
    BY <2>1, <2>2
  <2> QED
    BY <1>1, <1>3, <2>3
<1> QED
  BY <1>2, <1>3

\* The rows of a kind, the bubbles and who holds them, row by row.
LEMMA RowSets ==
  ASSUME messages \in Seq(Row)
  PROVE  /\ \A K : Rows(K) = {i \in 1..Len(messages) : messages[i].kind \in K}
         /\ \A w : Held(w) = {i \in 1..Len(messages) : messages[i].claim = w}
         /\ Unclaimed \subseteq Rows(Inbound) /\ Claimed \subseteq Rows(Inbound)
         /\ Rows(Inbound) = Unclaimed \cup Claimed
         /\ Unclaimed \cap Claimed = {} /\ Settled \subseteq Claimed
         /\ Rows(Inbound) \subseteq 1..Len(messages) /\ Rows(RealOut) \subseteq 1..Len(messages)
         /\ Len(messages) \in Nat
BY LenProperties DEF Rows, Held, Unclaimed, Claimed, Settled

\* Pending, without its floor.
LEMMA PendingRows ==
  ASSUME messages \in Seq(Row), NEW t \in Nat
  PROVE  Pending(t) = {i \in Above(Claimed) : i > t}
<1> DEFINE base == IF Claimed # {} THEN Latest(Claimed) ELSE Latest(Rows(RealOut))
           B == IF Claimed # {} THEN Claimed ELSE Rows(RealOut)
<1>1. B \subseteq 1..Len(messages)
  BY RowSets
<1>2. base = Latest(B)
  OBVIOUS
<1>3. base \in Nat /\ (\A j \in B : j <= base) /\ (B # {} => base \in B) /\ (B = {} => base = 0)
  BY <1>1, <1>2, LatestRow
<1>4. Floor(t) = Latest({base, t})
  BY DEF Floor, Claimed
<1>5. Unclaimed \subseteq Nat /\ B \subseteq Nat
  BY <1>1, RowSets
<1>6. Above(Claimed) = {i \in Unclaimed : \A j \in B : j <= i}
  BY DEF Above
<1> HIDE DEF B, base
<1>7. Floor(t) \in {base, t} /\ base <= Floor(t) /\ t <= Floor(t)
  <2>1. \E m \in {base, t} : \A i \in {base, t} : i <= m
    BY <1>3
  <2>2. Floor(t) = CHOOSE m \in {base, t} : \A i \in {base, t} : i <= m
    BY <1>4 DEF Latest
  <2> QED
    BY <2>1, <2>2
<1>8. \A i \in Nat : i > t => (i >= Floor(t) <=> i >= base)
  BY <1>3, <1>7
<1>9. \A i \in Nat : i >= base <=> \A j \in B : j <= i
  BY <1>3, <1>5
<1>10. Pending(t) = {i \in Unclaimed : i >= Floor(t) /\ i > t}
  BY DEF Pending, Unclaimed
<1> QED
  BY <1>5, <1>6, <1>8, <1>9, <1>10

\* With room in the batch, a load returns all that is pending.
LEMMA WholeBatch ==
  ASSUME NEW S, S \subseteq Nat, IsFiniteSet(S), Cardinality(S) <= MaxBatch
  PROVE  Oldest(S, MaxBatch) = S
<1> SUFFICES ASSUME NEW i \in S
             PROVE  Cardinality({j \in S : j < i}) < MaxBatch
  BY DEF Oldest
<1> DEFINE T == {j \in S : j < i}
<1>1. ~ (i < i)
  <2>1. i \in Nat
    OBVIOUS
  <2> QED
    BY <2>1
<1>2. T \in SUBSET S /\ T # S
  BY <1>1
<1> HIDE DEF T
<1>3. IsFiniteSet(T) /\ Cardinality(T) <= Cardinality(S) /\ Cardinality(T) # Cardinality(S)
  BY <1>2, FS_Subset
<1>4. Cardinality(T) \in Nat /\ Cardinality(S) \in Nat
  BY <1>3, FS_CardinalityType
<1>5. Cardinality(T) < MaxBatch
  BY <1>3, <1>4, BoundsAssumption
<1> QED
  BY <1>5 DEF T

\* A row behind the others: of the bot or the manager, it changes no bubble.
LEMMA AddRow ==
  ASSUME messages \in Seq(Row), NEW r \in Row, messages' = Append(messages, r)
  PROVE  /\ r.kind \notin Inbound => /\ Unclaimed' = Unclaimed /\ Claimed' = Claimed
                                     /\ Settled' = Settled
                                     /\ Above(Claimed)' \subseteq Above(Claimed)
                                     /\ Above(Settled)' \subseteq Above(Settled)
         /\ r.claim = "skipped" /\ r.kind \in Inbound =>
              /\ Unclaimed' = Unclaimed
              /\ Above(Claimed)' = {} /\ Above(Settled)' = {}
         /\ r.claim = "free" /\ r.kind \in Inbound =>
              /\ Unclaimed' = Unclaimed \cup {Len(messages) + 1}
              /\ Claimed' = Claimed /\ Settled' = Settled
         /\ Unclaimed \subseteq Unclaimed'
<1> DEFINE n == Len(messages)
<1>1. n \in Nat /\ Len(messages') = n + 1 /\ messages' \in Seq(Row)
  BY NewRowType, LenProperties
<1>2. (\A i \in 1..n : messages'[i] = messages[i]) /\ messages'[n + 1] = r
  BY NewRowType
<1>3. \A K : Rows(K) = {i \in 1..n : messages[i].kind \in K}
  BY LenProperties DEF Rows
<1>4. \A K : Rows(K)' = {i \in 1..(n + 1) : messages'[i].kind \in K}
  BY <1>1, LenProperties DEF Rows
<1>5. \A K : Rows(K)' = Rows(K) \cup (IF r.kind \in K THEN {n + 1} ELSE {})
  BY <1>1, <1>2, <1>3, <1>4
<1>6. (\A K : Rows(K) \subseteq 1..n) /\ n + 1 \notin 1..n
  BY <1>1, <1>3
<1> HIDE DEF n
<1>7. /\ Unclaimed' = Unclaimed \cup (IF r.kind \in Inbound /\ r.claim = "free" THEN {n + 1} ELSE {})
      /\ Claimed' = Claimed \cup (IF r.kind \in Inbound /\ r.claim # "free" THEN {n + 1} ELSE {})
  BY <1>2, <1>5, <1>6 DEF Unclaimed, Claimed
<1>8. Settled' = Settled \cup (IF r.kind \in Inbound /\ r.claim # "free" /\ r.claim \notin Workers
                                 THEN {n + 1} ELSE {})
  BY <1>2, <1>6, <1>7 DEF Settled, Claimed
<1>9. ASSUME r.kind \notin Inbound
      PROVE  /\ Unclaimed' = Unclaimed /\ Claimed' = Claimed /\ Settled' = Settled
             /\ Above(Claimed)' \subseteq Above(Claimed) /\ Above(Settled)' \subseteq Above(Settled)
  <2>1. Unclaimed' = Unclaimed /\ Claimed' = Claimed /\ Settled' = Settled
    BY <1>7, <1>8, <1>9
  <2>2. Rows(RealOut) \subseteq Rows(RealOut)'
    BY <1>5
  <2> QED
    BY <2>1, <2>2 DEF Above
<1>10. ASSUME r.claim = "skipped", r.kind \in Inbound
       PROVE  /\ Unclaimed' = Unclaimed
              /\ Above(Claimed)' = {} /\ Above(Settled)' = {}
  <2>1. Unclaimed' = Unclaimed /\ n + 1 \in Claimed' /\ n + 1 \in Settled'
    BY <1>7, <1>8, <1>10, WorkersAssumption
  <2>2. \A i \in 1..n : ~ (n + 1 <= i)
    BY <1>1
  <2>3. \A i \in Unclaimed : ~ (n + 1 <= i)
    BY <1>6, <2>2 DEF Unclaimed
  <2> QED
    BY <2>1, <2>3 DEF Above
<1>11. r.claim = "free" /\ r.kind \in Inbound =>
         Unclaimed' = Unclaimed \cup {n + 1} /\ Claimed' = Claimed /\ Settled' = Settled
  BY <1>7, <1>8
<1> QED
  BY <1>7, <1>9, <1>10, <1>11 DEF n

\* A row behind the others, and the bubbles that are open.
LEMMA AppendRows ==
  ASSUME messages \in Seq(Row), NEW r \in Row, messages' = Append(messages, r)
  PROVE  Open' = Open \cup (IF r.kind \in Inbound /\ r.claim \in {"free"} \cup Workers
                               THEN {Len(messages) + 1} ELSE {})
<1> DEFINE n == Len(messages)
<1>1. n \in Nat /\ Len(messages') = n + 1 /\ messages' \in Seq(Row)
  BY NewRowType, LenProperties
<1>2. (\A i \in 1..n : messages'[i] = messages[i]) /\ messages'[n + 1] = r
  BY NewRowType
<1>3. Open = {i \in 1..n : messages[i].kind \in Inbound /\ messages[i].claim \in {"free"} \cup Workers}
  BY LenProperties DEF Rows, Open
<1>4. Open' = {i \in 1..(n + 1) : messages'[i].kind \in Inbound /\ messages'[i].claim \in {"free"} \cup Workers}
  BY <1>1, LenProperties DEF Rows, Open
<1>5. 1..(n + 1) = 1..n \cup {n + 1} /\ n + 1 \notin 1..n
  BY <1>1
<1> HIDE DEF n
<1> QED
  BY <1>2, <1>3, <1>4, <1>5 DEF n

\* Setting the claims of some rows.
LEMMA SetClaimSets ==
  ASSUME messages \in Seq(Row), NEW S, NEW c \in Claims, messages' = SetClaim(S, c)
  PROVE  /\ \A K : Rows(K)' = Rows(K)
         /\ Unclaimed' = (Unclaimed \ S) \cup (IF c = "free" THEN Rows(Inbound) \cap S ELSE {})
         /\ Claimed' = (Claimed \ S) \cup (IF c # "free" THEN Rows(Inbound) \cap S ELSE {})
         /\ Settled' = (Settled \ S) \cup (IF c # "free" /\ c \notin Workers
                                             THEN Rows(Inbound) \cap S ELSE {})
         /\ \A w \in Workers : Held(w)' = IF c = w THEN Held(w) \cup (S \cap 1..Len(messages))
                                                   ELSE Held(w) \ S
<1> DEFINE n == Len(messages)
<1>1. n \in Nat /\ Len(messages') = n /\ messages' \in Seq(Row)
  BY SetClaimType, LenProperties
<1>2. \A i \in 1..n : messages'[i].claim = IF i \in S THEN c ELSE messages[i].claim
  BY SetClaimClaim
<1>3. \A i \in 1..n : messages'[i].kind = messages[i].kind
  <2> SUFFICES ASSUME NEW i \in 1..n PROVE messages'[i].kind = messages[i].kind
    OBVIOUS
  <2>1. messages[i] \in Row
    BY ElementOfSeq
  <2>2. messages'[i] = IF i \in S THEN [messages[i] EXCEPT !.claim = c] ELSE messages[i]
    BY SetClaimType
  <2> QED
    BY <2>1, <2>2 DEF Row
<1>4. \A K : Rows(K) = {i \in 1..n : messages[i].kind \in K}
  BY LenProperties DEF Rows
<1>5. \A K : Rows(K)' = {i \in 1..n : messages'[i].kind \in K}
  BY <1>1, LenProperties DEF Rows
<1>6. \A K : Rows(K)' = Rows(K) /\ Rows(K) \subseteq 1..n
  BY <1>3, <1>4, <1>5
<1>7. \A w : Held(w) = {i \in 1..n : messages[i].claim = w}
  BY LenProperties DEF Held
<1>8. \A w : Held(w)' = {i \in 1..n : messages'[i].claim = w}
  BY <1>1, LenProperties DEF Held
<1> HIDE DEF n
<1>9. Unclaimed' = (Unclaimed \ S) \cup (IF c = "free" THEN Rows(Inbound) \cap S ELSE {})
  BY <1>2, <1>6 DEF Unclaimed
<1>10. Claimed' = (Claimed \ S) \cup (IF c # "free" THEN Rows(Inbound) \cap S ELSE {})
  BY <1>2, <1>6 DEF Claimed
<1>11. Settled' = (Settled \ S) \cup (IF c # "free" /\ c \notin Workers
                                             THEN Rows(Inbound) \cap S ELSE {})
  <2>1. Settled = {i \in Rows(Inbound) : messages[i].claim # "free" /\ messages[i].claim \notin Workers}
    BY DEF Settled, Claimed
  <2>2. Settled' = {i \in Rows(Inbound) : messages'[i].claim # "free" /\ messages'[i].claim \notin Workers}
    BY <1>6 DEF Settled, Claimed
  <2> QED
    BY <1>2, <1>6, <2>1, <2>2
<1>12. \A w \in Workers : Held(w)' = IF c = w THEN Held(w) \cup (S \cap 1..n) ELSE Held(w) \ S
  BY <1>2, <1>7, <1>8
<1> QED
  BY <1>6, <1>9, <1>10, <1>11, <1>12 DEF n

\* While a call runs, no other holds a row.
LEMMA SoleHolder ==
  ASSUME Shape, ClaimsOK, NEW w \in Workers, pc[w] \in Running
  PROVE  /\ \A v \in Workers : v # w => pc[v] \notin Running /\ Held(v) = {}
         /\ Claimed \ Held(w) = Settled
         /\ pc[w] \notin Holding => Held(w) = {}
<1>1. messages \in Seq(Row)
  BY DEF Shape, TypeOK, DataOK
<1>2. \A v \in Workers : v # w => pc[v] \notin Running
  BY DEF Shape, QueueOK, Queue
<1>3. \A i \in 1..Len(messages) : messages[i].claim \in Workers => pc[messages[i].claim] \in Holding
  BY DEF ClaimsOK
<1>4. Holding \subseteq Running
  BY DEF Holding, Running
<1>5. \A v \in Workers : pc[v] \notin Holding => Held(v) = {}
  BY <1>1, <1>3, RowSets
<1>6. \A i \in 1..Len(messages) : messages[i].claim \in Workers => messages[i].claim = w
  BY <1>2, <1>3, <1>4
<1>7. Claimed \subseteq 1..Len(messages) /\ Held(w) = {i \in 1..Len(messages) : messages[i].claim = w}
  BY <1>1, RowSets
<1>8. Claimed \ Held(w) = Settled
  BY <1>6, <1>7 DEF Settled
<1> QED
  BY <1>2, <1>4, <1>5, <1>8

\* A turn settles the rows it holds.
LEMMA SettleRows ==
  ASSUME messages \in Seq(Row), NEW w \in Workers, Claimed \ Held(w) = Settled,
         NEW c \in {"skipped", "done"}, messages' = SetClaim(Held(w), c)
  PROVE  /\ Unclaimed' = Unclaimed /\ Claimed' = Claimed /\ Settled' = Claimed
         /\ Above(Claimed)' = Above(Claimed) /\ Above(Settled)' = Above(Claimed)
<1>1. c \in Claims /\ c # "free" /\ c \notin Workers
  BY ClaimNames, WorkersAssumption
<1>2. /\ Unclaimed' = Unclaimed \ Held(w)
      /\ Claimed' = (Claimed \ Held(w)) \cup (Rows(Inbound) \cap Held(w))
      /\ Settled' = (Settled \ Held(w)) \cup (Rows(Inbound) \cap Held(w))
      /\ Rows(RealOut)' = Rows(RealOut)
  BY <1>1, SetClaimSets
<1>3. Unclaimed \cap Held(w) = {} /\ Rows(Inbound) \cap Held(w) \subseteq Claimed
  BY WorkersAssumption, RowSets DEF Unclaimed
<1>4. Unclaimed' = Unclaimed /\ Claimed' = Claimed /\ Settled' = Claimed
  BY <1>2, <1>3, RowSets
<1> QED
  BY <1>2, <1>4 DEF Above

\* A turn gives back the rows it holds.
LEMMA FreeRows ==
  ASSUME messages \in Seq(Row), NEW w \in Workers, Claimed \ Held(w) = Settled,
         messages' = SetClaim(Held(w), "free")
  PROVE  /\ Above(Claimed)' \ Held(w) \subseteq Above(Settled) /\ Unclaimed \subseteq Unclaimed'
         /\ Unclaimed' \subseteq Unclaimed \cup (Claimed \ Settled)
         /\ Claimed' = Settled /\ Settled' = Settled
<1>1. /\ Unclaimed' = (Unclaimed \ Held(w)) \cup (Rows(Inbound) \cap Held(w))
      /\ Claimed' = Claimed \ Held(w)
      /\ Settled' = Settled \ Held(w)
      /\ Rows(RealOut)' = Rows(RealOut)
  BY ClaimNames, SetClaimSets
<1>2. Unclaimed \cap Held(w) = {}
  BY WorkersAssumption, RowSets DEF Unclaimed
<1>3. Claimed' = Settled /\ Unclaimed' \ Held(w) \subseteq Unclaimed /\ Unclaimed \subseteq Unclaimed'
  BY <1>1, <1>2
<1>4. Settled' = Settled
  BY <1>1, <1>3
<1>5. Rows(Inbound) \cap Held(w) \subseteq Claimed \ Settled
  BY RowSets, WorkersAssumption DEF Settled, Claimed
<1>6. Unclaimed' \subseteq Unclaimed \cup (Claimed \ Settled)
  BY <1>1, <1>5
<1> QED
  BY <1>1, <1>3, <1>4, <1>6 DEF Above

\* Claims that are settled, or move among the open rows, open none.
LEMMA OpenMove ==
  ASSUME messages \in Seq(Row), NEW S, NEW c \in Claims, messages' = SetClaim(S, c),
         c \in {"skipped", "done"} \/ S \cap Rows(Inbound) \subseteq Open
  PROVE  Open' \subseteq Open
<1>1. Rows(Inbound)' = Rows(Inbound) /\ Rows(Inbound) \subseteq 1..Len(messages)
  BY SetClaimSets, RowSets
<1>2. \A i \in 1..Len(messages) : messages'[i].claim = IF i \in S THEN c ELSE messages[i].claim
  BY SetClaimClaim
<1>3. {"skipped", "done"} \cap ({"free"} \cup Workers) = {}
  BY WorkersAssumption
<1> QED
  BY <1>1, <1>2, <1>3 DEF Open

\* What a turn holds is open.
LEMMA OpenRows ==
  ASSUME messages \in Seq(Row)
  PROVE  /\ Unclaimed \subseteq Open
         /\ \A w \in Workers : Held(w) \cap Rows(Inbound) \subseteq Open
BY RowSets DEF Open, Unclaimed

\* A turn takes everything that is pending.
LEMMA TakeAll ==
  ASSUME messages \in Seq(Row), NEW w \in Workers, messages' = SetClaim(Above(Claimed), w)
  PROVE  /\ Above(Claimed)' = {} /\ Above(Settled)' \subseteq Above(Settled)
         /\ Unclaimed' = Unclaimed \ Above(Claimed)
<1> DEFINE A == Above(Claimed)
           B == IF Claimed # {} THEN Claimed ELSE Rows(RealOut)
<1>1. A \subseteq Unclaimed /\ Unclaimed \subseteq Rows(Inbound) /\ Unclaimed \cap Claimed = {}
      /\ Rows(Inbound) \subseteq Nat /\ Rows(RealOut) \subseteq Nat /\ Settled \subseteq Claimed
      /\ Claimed \subseteq Rows(Inbound)
  BY RowSets DEF Above
<1>2. A = {i \in Unclaimed : \A j \in B : j <= i}
  BY DEF Above
<1>3. w \in Claims /\ w # "free"
  BY ClaimNames, WorkersAssumption
<1> HIDE DEF A, B
<1>4. /\ Unclaimed' = Unclaimed \ A
      /\ Claimed' = (Claimed \ A) \cup A
      /\ Settled' = Settled \ A
      /\ Rows(RealOut)' = Rows(RealOut)
  BY <1>1, <1>3, SetClaimSets DEF A
<1>5. Claimed' = Claimed \cup A /\ Settled' = Settled
  BY <1>1, <1>4
<1>6. Above(Settled)' \subseteq Above(Settled)
  BY <1>4, <1>5 DEF Above
<1>7. ASSUME NEW i \in Above(Claimed)'
      PROVE  FALSE
  <2>1. i \in Unclaimed /\ i \notin A /\ i \in Nat
    BY <1>1, <1>4, <1>7 DEF Above
  <2>2. \A j \in IF Claimed' # {} THEN Claimed' ELSE Rows(RealOut)' : j <= i
    BY <1>7 DEF Above
  <2>3. \A j \in A : j <= i
    BY <1>5, <2>2
  <2>4. \A j \in B : j <= i
    <3>1. CASE Claimed # {}
      BY <1>5, <2>2, <3>1 DEF B
    <3>2. CASE Claimed = {} /\ A = {}
      BY <1>4, <1>5, <2>2, <3>2 DEF B
    <3>3. CASE Claimed = {} /\ A # {}
      <4>1. PICK a \in A : TRUE
        BY <3>3
      <4>2. a <= i /\ (\A j \in B : j <= a) /\ a \in Nat /\ B \subseteq Nat
        BY <1>1, <1>2, <2>3, <4>1 DEF B
      <4> QED
        BY <2>1, <4>2
    <3> QED
      BY <3>1, <3>2, <3>3
  <2> QED
    BY <1>2, <2>1, <2>4
<1> QED
  BY <1>4, <1>6, <1>7 DEF A

\* A flush claims what it has loaded.
LEMMA TakeSeen ==
  ASSUME messages \in Seq(Row), NEW w \in Workers, NEW S, S \subseteq Unclaimed, S # {},
         messages' = SetClaim(S, w)
  PROVE  /\ Unclaimed' = Unclaimed \ S
         /\ Above(Settled)' \subseteq Above(Settled) \ S
         /\ \A i \in Above(Claimed)' : \A j \in S : j <= i
<1>1. S \subseteq Rows(Inbound) /\ S \cap Claimed = {} /\ Settled \subseteq Claimed
  BY RowSets
<1>2. w \in Claims /\ w # "free"
  BY ClaimNames, WorkersAssumption
<1>3. /\ Unclaimed' = Unclaimed \ S
      /\ Claimed' = (Claimed \ S) \cup (Rows(Inbound) \cap S)
      /\ Settled' = Settled \ S
      /\ Rows(RealOut)' = Rows(RealOut)
  BY <1>2, SetClaimSets
<1>4. Claimed' = Claimed \cup S /\ Settled' = Settled
  BY <1>1, <1>3
<1> QED
  BY <1>3, <1>4 DEF Above

-----------------------------------------------------------------------------
(* No lost wakeup.                                                         *)

\* No more bubbles are pending, with those a turn holds, than a batch takes.
NoOverflow ==
  \A w \in Workers : Cardinality(Held(w) \cup Pending(0)) <= MaxBatch

\* What a load would return now, or if the running turn gave its rows back.
Strays == (Above(Claimed) \cup Above(Settled)) \ abandoned

\* A flush will start that has not loaded yet.
Marked ==
  \/ webhooks # {} \/ armed \/ dirty \/ retry \in {"clear", "flush"}
  \/ \E f \in Flushes : pc[f] = "queued"

\* It will, or a flush is about to load all that is pending, or to look for it.
Woken ==
  Marked \/ \E f \in Flushes : \/ pc[f] = "load" /\ since[f] = 0
                               \/ pc[f] = "rearm" /\ wasDirty[f]

FlagsOK ==
  /\ dirty => flushing
  /\ flushing => \E f \in Flushes : pc[f] \in Live
  /\ \A f \in Flushes : pc[f] \in {"idle", "queued", "rearm"} => since[f] = 0

SeenOK == \A f \in Flushes : pc[f] = "claim" => seen[f] \subseteq Unclaimed /\ seen[f] # {}

\* The turn has taken everything that was pending.
Absorbed == TurnPhases \ {"read", "return", "delay"}

\* Nothing came since the flush loaded, or since its turn absorbed.
Calm(f) ==
  /\ pc[f] = "claim" => Strays \subseteq seen[f] /\ \A i \in Unclaimed : \E j \in seen[f] : i <= j
  /\ pc[f] \in Holding => Strays = {}
  /\ pc[f] = "load" /\ since[f] # 0 => Strays = {}
  /\ pc[f] \in Absorbed => Above(Claimed) = {}
  /\ pc[f] = "finish" => verdict[f] # "deferred"

\* What is open was dropped with a handler that failed.
Dropped == Open \subseteq abandoned

MarksOK == Marked \/ Dropped \/ \A f \in Flushes : Calm(f)

WaitOK == Above(Claimed) \ abandoned # {} => Woken \/ \E f \in Flushes : pc[f] = "claim"

WakeInv == FlagsOK /\ SeenOK /\ MarksOK /\ WaitOK

\* The invariant gives the property.
LEMMA WakeMeans == TypeOK /\ WakeInv => NoLostWakeup
<1> SUFFICES ASSUME TypeOK, WakeInv, Pending(0) \ abandoned # {}
             PROVE  \/ webhooks # {} \/ armed \/ retry \in {"clear", "flush"}
                    \/ \E f \in Flushes : WillLoad(f)
  BY DEF NoLostWakeup
<1>1. messages \in Seq(Row) /\ pc \in [Workers -> Phases]
  BY DEF TypeOK, DataOK, FlowOK
<1>2. Pending(0) \subseteq Above(Claimed)
  BY <1>1, PendingRows
<1>3. Woken \/ \E f \in Flushes : pc[f] = "claim"
  BY <1>2 DEF WakeInv, WaitOK
<1>4. \A f \in Flushes : pc[f] \in {"claim", "load", "queued"} => WillLoad(f)
  BY DEF WillLoad, Phases, Running
<1>5. ASSUME dirty PROVE \E f \in Flushes : WillLoad(f)
  <2>1. PICK f \in Flushes : pc[f] \in Live
    BY <1>5 DEF WakeInv, FlagsOK
  <2>2. WillLoad(f)
    BY <1>5, <2>1 DEF WillLoad, Phases, Live, Running, TurnPhases
  <2> QED
    BY <2>2
<1>6. \A f \in Flushes : pc[f] = "rearm" /\ wasDirty[f] => WillLoad(f)
  BY DEF WillLoad
<1> QED
  BY <1>3, <1>4, <1>5, <1>6 DEF Woken, Marked

\* With a mark up, only the flags and the loaded rows are left to see to.
LEMMA WakeMarked ==
  ASSUME Marked', FlagsOK', SeenOK'
  PROVE  WakeInv'
BY DEF WakeInv, MarksOK, WaitOK, Woken

\* A flush that does not move stays calm while bubbles only go.
LEMMA CalmKept ==
  ASSUME NEW f, Calm(f), pc'[f] = pc[f], seen'[f] = seen[f], since'[f] = since[f],
         verdict'[f] = verdict[f], Unclaimed' \subseteq Unclaimed,
         Above(Claimed)' \subseteq Above(Claimed), Strays' \subseteq Strays
  PROVE  Calm(f)'
BY DEF Calm

\* No flush moves, and bubbles only go.
LEMMA WakeKept ==
  ASSUME WakeInv, UNCHANGED <<webhooks, armed, flushing, dirty, wasDirty>>,
         \A f \in Flushes : /\ pc'[f] = pc[f] /\ seen'[f] = seen[f] /\ since'[f] = since[f]
                           /\ verdict'[f] = verdict[f],
         retry' = retry, abandoned' = abandoned, Unclaimed' = Unclaimed,
         Open' \subseteq Open,
         Above(Claimed)' \subseteq Above(Claimed),
         Above(Settled)' \subseteq Above(Claimed) \cup Above(Settled)
  PROVE  WakeInv'
<1>1. Strays' \subseteq Strays
  BY DEF Strays
<1>2. Marked' = Marked /\ Woken' = Woken
  BY DEF Marked, Woken
<1>3. FlagsOK'
  BY DEF WakeInv, FlagsOK
<1>4. SeenOK'
  BY DEF WakeInv, SeenOK
<1>5. MarksOK'
  BY <1>1, <1>2, CalmKept DEF WakeInv, MarksOK, Dropped
<1>6. WaitOK'
  BY <1>2 DEF WakeInv, WaitOK
<1> QED
  BY <1>3, <1>4, <1>5, <1>6 DEF WakeInv

\* A running call moves: the others do not run, so it alone has to be calm.
LEMMA WakeMove ==
  ASSUME Shape, ClaimsOK, WakeInv, NEW w \in Workers, pc[w] \in Running,
         NEW ph \in Running, pc' = [pc EXCEPT ![w] = ph],
         webhooks' = webhooks, armed' = armed, dirty' = dirty, flushing' = flushing,
         retry' = retry, wasDirty' = wasDirty,
         ~(pc[w] = "load" /\ since[w] = 0), pc[w] # "claim",
         Above(Claimed)' \ abandoned' \subseteq Above(Claimed) \ abandoned,
         \A v \in Workers : v # w => since'[v] = since[v],
         Open' \subseteq Open, abandoned \subseteq abandoned',
         w \in Flushes => ph # "claim" /\ (~Marked /\ ~Dropped => Calm(w)')
  PROVE  WakeInv'
<1>1. pc \in [Workers -> Phases] /\ Flushes \subseteq Workers
  BY DEF Shape, TypeOK, FlowOK, Workers
<1>2. \A v \in Workers : v # w => pc[v] \notin Running /\ pc'[v] = pc[v]
  BY <1>1, SoleHolder
<1>3. pc'[w] = ph /\ "queued" \notin Running
  BY <1>1 DEF Running, TurnPhases
<1>4. Marked => Marked'
  BY <1>1, <1>2, <1>3 DEF Marked
<1>5. "rearm" \notin Running /\ {"claim", "load", "finish"} \cup Holding \cup Absorbed \subseteq Running
  BY DEF Running, TurnPhases, Holding, Absorbed
<1>6. Woken => Woken'
  BY <1>1, <1>2, <1>3, <1>4, <1>5 DEF Woken
<1>7. FlagsOK'
  <2>1. flushing => \E f \in Flushes : pc'[f] \in Live
    <3>1. \A f \in Flushes : pc[f] \in Live => pc'[f] \in Live
      BY <1>1, <1>2, <1>3 DEF Live
    <3> QED
      BY <3>1 DEF WakeInv, FlagsOK
  <2>2. \A f \in Flushes : pc'[f] \in {"idle", "queued", "rearm"} => since'[f] = 0
    BY <1>1, <1>2, <1>3 DEF WakeInv, FlagsOK, Running, TurnPhases
  <2> QED
    BY <2>1, <2>2 DEF WakeInv, FlagsOK
<1>8. \A f \in Flushes : pc'[f] # "claim"
  BY <1>1, <1>2, <1>3, <1>5
<1>9. SeenOK'
  BY <1>8 DEF SeenOK
<1>10. \A f \in Flushes : f # w => Calm(f)'
  BY <1>1, <1>2, <1>5 DEF Calm
<1>11. MarksOK'
  BY <1>4, <1>10 DEF MarksOK, Dropped
<1>12. \A f \in Flushes : pc[f] # "claim"
  BY <1>1, <1>2, <1>5
<1>13. WaitOK'
  BY <1>6, <1>12 DEF WakeInv, WaitOK
<1> QED
  BY <1>7, <1>9, <1>11, <1>13 DEF WakeInv

\* A flush is queued.
LEMMA WakeStart ==
  ASSUME Shape, WakeInv, NEW f \in Flushes, StartFlush(f), UNCHANGED <<messages, since, seen>>
  PROVE  WakeInv'
<1>1. f \in Workers /\ pc \in [Workers -> Phases] /\ pc[f] = "idle"
  BY DEF Shape, TypeOK, FlowOK, Workers, StartFlush
<1>2. pc' = [pc EXCEPT ![f] = "queued"] /\ ~dirty'
  BY DEF StartFlush, GoTo
<1>3. Marked'
  BY <1>1, <1>2 DEF Marked
<1>4. FlagsOK'
  <2>1. pc'[f] \in Live
    BY <1>1, <1>2 DEF Live
  <2>2. \A g \in Flushes : pc'[g] \in {"idle", "queued", "rearm"} => since'[g] = 0
    BY <1>1, <1>2 DEF WakeInv, FlagsOK, Workers
  <2> QED
    BY <1>2, <2>1, <2>2 DEF FlagsOK
<1>5. SeenOK'
  <2>1. Unclaimed' = Unclaimed
    BY DEF Unclaimed, Rows
  <2>2. \A g \in Flushes : pc'[g] = "claim" => pc[g] = "claim"
    BY <1>1, <1>2 DEF Workers
  <2> QED
    BY <2>1, <2>2 DEF WakeInv, SeenOK
<1> QED
  BY <1>3, <1>4, <1>5, WakeMarked

\* A flush at the head of the tail moves, and the others do not run.
LEMMA WakeRun ==
  ASSUME Shape, WakeInv, NEW f \in Flushes, pc[f] \in Live,
         \A v \in Workers : v # f => pc[v] \notin Running,
         NEW ph \in Running, pc' = [pc EXCEPT ![f] = ph],
         UNCHANGED <<webhooks, armed, flushing, dirty, wasDirty>>, retry' = retry,
         \A g \in Flushes : g # f => since'[g] = since[g],
         ph = "claim" => seen'[f] \subseteq Unclaimed' /\ seen'[f] # {},
         Open' \subseteq Open, abandoned \subseteq abandoned', messages' \in Seq(Row),
         pc[f] = "queued" \/ (~Marked /\ ~Dropped) => Calm(f)',
         \/ Woken' \/ ph = "claim" \/ Above(Claimed)' \subseteq abandoned'
         \/ Marked /\ pc[f] # "queued"
         \/ Dropped
  PROVE  WakeInv'
<1>1. pc \in [Workers -> Phases] /\ Flushes \subseteq Workers
  BY DEF Shape, TypeOK, FlowOK, Workers
<1>2. \A g \in Flushes : g # f => pc[g] \notin Running /\ pc'[g] = pc[g]
  BY <1>1
<1>3. pc'[f] = ph /\ "queued" \notin Running /\ "rearm" \notin Running
  BY <1>1 DEF Running, TurnPhases
<1>4. Marked /\ pc[f] # "queued" => Marked'
  BY <1>1, <1>2, <1>3 DEF Marked
<1>5. {"claim", "load", "finish"} \cup Holding \cup Absorbed \subseteq Running
  BY DEF Running, TurnPhases, Holding, Absorbed
<1>6. FlagsOK'
  <2>1. flushing => \E g \in Flushes : pc'[g] \in Live
    <3>1. \A g \in Flushes : pc[g] \in Live => pc'[g] \in Live
      BY <1>1, <1>2, <1>3 DEF Live
    <3> QED
      BY <3>1 DEF WakeInv, FlagsOK
  <2>2. \A g \in Flushes : pc'[g] \in {"idle", "queued", "rearm"} => since'[g] = 0
    BY <1>1, <1>2, <1>3 DEF WakeInv, FlagsOK, Running, TurnPhases
  <2> QED
    BY <2>1, <2>2 DEF WakeInv, FlagsOK
<1>7. SeenOK'
  BY <1>2, <1>3, <1>5 DEF SeenOK
<1>8. \A g \in Flushes : g # f => Calm(g)'
  BY <1>2, <1>5 DEF Calm
<1>9. MarksOK'
  BY <1>4, <1>8 DEF MarksOK, Dropped
<1>10. WaitOK'
  <2>1. CASE Woken'
    BY <2>1 DEF WaitOK
  <2>2. CASE ph = "claim"
    BY <1>3, <2>2 DEF WaitOK
  <2>3. CASE Above(Claimed)' \subseteq abandoned'
    BY <2>3 DEF WaitOK
  <2>4. CASE Marked /\ pc[f] # "queued"
    BY <1>4, <2>4 DEF WaitOK, Woken
  <2>5. CASE Dropped
    <3>1. Above(Claimed)' \subseteq Open'
      BY OpenRows DEF Above, Open, Unclaimed
    <3> QED
      BY <2>5, <3>1 DEF WaitOK, Dropped
  <2> QED
    BY <2>1, <2>2, <2>3, <2>4, <2>5
<1> QED
  BY <1>6, <1>7, <1>9, <1>10 DEF WakeInv

\* A turn goes on, and no row changes.
LEMMA WakeTurn ==
  ASSUME Shape, ClaimsOK, WakeInv, NEW w \in Workers, pc[w] \in TurnPhases,
         NEW ph \in Holding, pc' = [pc EXCEPT ![w] = ph], messages' = messages,
         UNCHANGED <<coalesce, since, wasDirty, retry, abandoned>>,
         ph \in Absorbed => pc[w] \in Absorbed,
         ph = "finish" => verdict'[w] # "deferred"
  PROVE  WakeInv'
<1>1. pc \in [Workers -> Phases] /\ Flushes \subseteq Workers
  BY DEF Shape, TypeOK, FlowOK, Workers
<1>2. pc[w] \in Running /\ ph \in Running /\ pc[w] \notin {"load", "claim"}
      /\ ph \notin {"load", "claim"} /\ pc[w] \in Holding
  BY DEF Running, Holding, TurnPhases
<1>3. Unclaimed' = Unclaimed /\ Above(Claimed)' = Above(Claimed) /\ Strays' = Strays
      /\ Open' = Open
  BY DEF Unclaimed, Claimed, Settled, Above, Rows, Strays, Open
<1>4. w \in Flushes /\ ~Marked /\ ~Dropped => Calm(w)'
  <2> SUFFICES ASSUME w \in Flushes, ~Marked, ~Dropped PROVE Calm(w)'
    OBVIOUS
  <2>1. Calm(w)
    BY DEF WakeInv, MarksOK
  <2>2. Strays = {} /\ (pc[w] \in Absorbed => Above(Claimed) = {})
    BY <1>2, <2>1 DEF Calm
  <2>3. pc'[w] = ph
    BY <1>1
  <2> QED
    BY <1>2, <1>3, <2>2, <2>3 DEF Calm
<1> QED
  BY <1>2, <1>3, <1>4, WakeMove DEF coalesce

\* A call ends, and no bubble is there that was not.
LEMMA WakeEvent ==
  ASSUME Shape, WakeInv, NEW r \in Row, messages' = Append(messages, r),
         UNCHANGED <<coalesce, pc, seen, since, verdict, wasDirty, retry, abandoned>>,
         r.kind \notin Inbound \/ r.claim = "skipped"
  PROVE  WakeInv'
<1>1. messages \in Seq(Row)
  BY DEF Shape, TypeOK, DataOK
<1>2. Unclaimed' = Unclaimed /\ Above(Claimed)' \subseteq Above(Claimed)
      /\ Above(Settled)' \subseteq Above(Settled) /\ Open' \subseteq Open
  <2>0. Open' \subseteq Open
    <3>1. Open' = Open \cup (IF r.kind \in Inbound /\ r.claim \in {"free"} \cup Workers
                               THEN {Len(messages) + 1} ELSE {})
      BY <1>1, AppendRows
    <3> QED
      BY <3>1, WorkersAssumption
  <2>1. CASE r.kind \notin Inbound
    BY <1>1, <2>0, <2>1, AddRow
  <2>2. CASE r.kind \in Inbound
    BY <1>1, <2>0, <2>2, AddRow
  <2> QED
    BY <2>1, <2>2
<1> QED
  BY <1>2, WakeKept DEF coalesce

\* A mark goes up, and no bubble is taken.
LEMMA WakeUp ==
  ASSUME WakeInv, Marked', Unclaimed \subseteq Unclaimed', UNCHANGED <<pc, since, seen>>,
         flushing' = flushing, dirty' => flushing
  PROVE  WakeInv'
<1>1. FlagsOK' /\ SeenOK'
  BY DEF WakeInv, FlagsOK, SeenOK
<1> QED
  BY <1>1, WakeMarked

\* What happens outside the turns.
LEMMA WakeOutside ==
  ASSUME Shape, ClaimsOK, WakeInv,
         ClientMessage \/ ReactionEvent \/ ManagerReads \/ ToggleBot \/ Crash \/ Schedule
         \/ Timer \/ Retry \/ Manager \/ vars' = vars
         \/ \E i \in webhooks : WebhookEnds(i)
  PROVE  WakeInv'
<1> USE DEF durable, coalesce, locals, frame, others, ghosts
<1>0. messages \in Seq(Row) /\ Len(messages) \in Nat
  BY LenProperties DEF Shape, TypeOK, DataOK
<1>1. CASE ClientMessage
  <2>1. messages' = Append(messages, NewRow("client")) /\ NewRow("client") \in Row
    BY <1>1 DEF ClientMessage, NewRow, Row, Kinds, Claims
  <2>2. Unclaimed \subseteq Unclaimed'
    BY <1>0, <2>1, AddRow
  <2>3. Marked'
    BY <1>1 DEF ClientMessage, Marked
  <2> QED
    BY <1>1, <2>2, <2>3, WakeUp DEF ClientMessage, WakeInv, FlagsOK
<1>2. CASE ReactionEvent
  <2> DEFINE r == [kind |-> "reaction", claim |-> "skipped"]
  <2>1. r \in Row /\ r.kind \in Inbound /\ r.claim = "skipped" /\ messages' = Append(messages, r)
    BY <1>2 DEF ReactionEvent, Row, Kinds, Claims, Inbound
  <2> HIDE DEF r
  <2> QED
    BY <1>2, <2>1, WakeEvent DEF ReactionEvent
<1>3. CASE UNCHANGED <<messages, coalesce, pc, seen, since, verdict, wasDirty, retry, abandoned>>
  <2>1. Unclaimed' = Unclaimed /\ Above(Claimed)' = Above(Claimed) /\ Above(Settled)' = Above(Settled)
        /\ Open' = Open
    BY <1>3 DEF Unclaimed, Claimed, Settled, Above, Rows, Open
  <2> QED
    BY <1>3, <2>1, WakeKept
<1>4. CASE Crash
  <2>1. Unclaimed' \subseteq Unclaimed
    <3>1. messages' = SetClaim(UNION {Held(w) : w \in Workers}, "done") /\ "done" \in Claims
      BY <1>4, ClaimNames DEF Crash
    <3> QED
      BY <1>0, <3>1, SetClaimSets
  <2>2. Unclaimed \subseteq abandoned'
    BY <1>4 DEF Crash, Unclaimed, Open
  <2>3. Above(Claimed)' \subseteq abandoned'
    BY <2>1, <2>2 DEF Above
  <2>4. \A f \in Flushes : pc'[f] = "idle" /\ since'[f] = 0
    BY <1>4 DEF Crash, Workers
  <2>5. \A f \in Flushes : pc'[f] \notin {"claim", "load", "finish"} \cup Holding \cup Absorbed
    BY <2>4 DEF Holding, Absorbed, TurnPhases
  <2>6. FlagsOK'
    BY <1>4, <2>4 DEF FlagsOK, Crash
  <2>7. SeenOK' /\ MarksOK'
    BY <2>5 DEF SeenOK, MarksOK, Calm
  <2>8. WaitOK'
    BY <2>3 DEF WaitOK
  <2> QED
    BY <2>6, <2>7, <2>8 DEF WakeInv
<1>5. ASSUME NEW i \in webhooks, ScheduleInboundBotTurn(i) PROVE WakeInv'
  <2>1. Unclaimed' = Unclaimed
    BY <1>5 DEF Unclaimed, Rows, ScheduleInboundBotTurn
  <2>2. CASE \E f \in Flushes : StartFlush(f)
    BY <1>5, <2>2, WakeStart DEF ScheduleInboundBotTurn
  <2>3. CASE flushing /\ dirty' = TRUE /\ UNCHANGED <<armed, flushing, tail, pc>>
    BY <1>5, <2>1, <2>3, WakeUp DEF ScheduleInboundBotTurn, Marked
  <2>4. CASE ~flushing /\ armed' = TRUE /\ UNCHANGED <<dirty, flushing, tail, pc>>
    BY <1>5, <2>1, <2>4, WakeUp DEF ScheduleInboundBotTurn, Marked, WakeInv, FlagsOK
  <2> QED
    BY <1>5, <2>2, <2>3, <2>4 DEF ScheduleInboundBotTurn
<1>6. ASSUME NEW f \in Flushes, FireTimer(f) PROVE WakeInv'
  BY <1>6, WakeStart DEF FireTimer
<1>7. ASSUME NEW f \in Flushes, RetryFlush(f) PROVE WakeInv'
  BY <1>7, WakeStart DEF RetryFlush
<1>8. CASE RetryEvaluate
  <2>1. Unclaimed' = Unclaimed
    BY <1>8 DEF Unclaimed, Rows, RetryEvaluate
  <2> QED
    BY <1>8, <2>1, WakeUp DEF RetryEvaluate, Marked, WakeInv, FlagsOK
<1>9. CASE RetryClear
  <2>1. messages' = SetClaim(retryIds, "free")
    BY <1>9 DEF RetryClear
  <2>2. Unclaimed \subseteq Unclaimed'
    BY <1>0, <2>1, ClaimNames, SetClaimSets, RowSets
  <2> QED
    BY <1>9, <2>2, WakeUp DEF RetryClear, Marked, WakeInv, FlagsOK
<1>10. CASE ManagerPersists
  <2> DEFINE r == NewRow("manager")
  <2>1. messages' = Append(messages, r) /\ r \in Row /\ r.kind \notin Inbound
    BY <1>10 DEF ManagerPersists, NewRow, Row, Kinds, Claims, Inbound
  <2>2. UNCHANGED <<coalesce, pc, seen, since, verdict, wasDirty, retry, abandoned>>
    BY <1>10 DEF ManagerPersists
  <2> HIDE DEF r
  <2> QED
    BY <2>1, <2>2, WakeEvent
<1>12. ASSUME NEW i \in webhooks, WebhookEnds(i) PROVE WakeInv'
  <2>1. /\ UNCHANGED <<messages, pc, armed, flushing, dirty, since, seen, wasDirty, retry>>
        /\ abandoned' = abandoned \cup (Open \ webhooks')
    BY <1>12 DEF WebhookEnds
  <2>2. Unclaimed' = Unclaimed /\ Above(Claimed)' = Above(Claimed) /\ Open' = Open
    BY <2>1 DEF Unclaimed, Claimed, Above, Rows, Open
  <2>3. FlagsOK' /\ SeenOK'
    BY <2>1, <2>2 DEF WakeInv, FlagsOK, SeenOK
  <2>4. CASE webhooks' # {}
    BY <2>3, <2>4, WakeMarked DEF Marked
  <2>5. CASE webhooks' = {}
    <3>1. Dropped'
      BY <2>1, <2>2, <2>5 DEF Dropped
    <3>2. Above(Claimed)' \subseteq abandoned'
      BY <1>0, <2>2, <3>1, OpenRows DEF Above, Dropped
    <3> QED
      BY <2>3, <3>1, <3>2 DEF WakeInv, MarksOK, WaitOK
  <2> QED
    BY <2>4, <2>5
<1>11. ManagerReads \/ ToggleBot \/ ManagerTakesOver \/ vars' = vars =>
         UNCHANGED <<messages, coalesce, pc, seen, since, verdict, wasDirty, retry, abandoned>>
  BY DEF ManagerReads, ToggleBot, ManagerTakesOver, vars
<1> QED
  BY <1>1, <1>2, <1>3, <1>4, <1>5, <1>6, <1>7, <1>8, <1>9, <1>10, <1>11, <1>12
  DEF Schedule, Timer, Retry, Manager

\* With room in the batch, a load returns everything pending.
LEMMA LoadAll ==
  ASSUME TypeOK, NoOverflow, NEW w \in Workers, NEW t \in Nat
  PROVE  /\ Oldest(Pending(t), MaxBatch) = {i \in Above(Claimed) : i > t}
         /\ Pending(0) = Above(Claimed) /\ Oldest(Held(w) \cup Pending(0), MaxBatch) = Held(w) \cup Pending(0)
<1>1. messages \in Seq(Row)
  BY DEF TypeOK, DataOK
<1> DEFINE S == Held(w) \cup Pending(0)
<1>2. Above(Claimed) \subseteq 1..Len(messages) /\ Held(w) \subseteq 1..Len(messages)
      /\ Len(messages) \in Nat
  BY <1>1, RowSets DEF Above
<1>3. Pending(0) = Above(Claimed) /\ Pending(t) = {i \in Above(Claimed) : i > t}
  <2>1. \A i \in Above(Claimed) : i > 0
    BY <1>2
  <2>2. Pending(0) = {i \in Above(Claimed) : i > 0} /\ Pending(t) = {i \in Above(Claimed) : i > t}
    BY <1>1, PendingRows
  <2> QED
    BY <2>1, <2>2
<1>4. IsFiniteSet(S) /\ Cardinality(S) <= MaxBatch /\ S \subseteq Nat
  <2>1. S \subseteq 1..Len(messages) /\ IsFiniteSet(1..Len(messages))
    BY <1>2, <1>3, FS_Interval
  <2>2. IsFiniteSet(S)
    BY <2>1, FS_Subset
  <2> QED
    BY <2>1, <2>2 DEF NoOverflow
<1>5. Pending(t) \subseteq S
  BY <1>3
<1> HIDE DEF S
<1>6. Cardinality(Pending(t)) <= MaxBatch /\ IsFiniteSet(Pending(t)) /\ Pending(t) \subseteq Nat
  <2>1. IsFiniteSet(Pending(t)) /\ Cardinality(Pending(t)) <= Cardinality(S)
    BY <1>4, <1>5, FS_Subset
  <2>2. Cardinality(Pending(t)) \in Nat /\ Cardinality(S) \in Nat
    BY <1>4, <2>1, FS_CardinalityType
  <2>3. Cardinality(Pending(t)) <= MaxBatch
    BY <1>4, <2>1, <2>2, BoundsAssumption
  <2> QED
    BY <1>4, <1>5, <2>1, <2>3
<1>7. Oldest(Pending(t), MaxBatch) = Pending(t)
  BY <1>6, WholeBatch
<1>8. Oldest(S, MaxBatch) = S
  BY <1>4, WholeBatch
<1> QED
  BY <1>3, <1>7, <1>8 DEF S

\* A turn takes what came before Claude is asked.
LEMMA WakeAbsorb ==
  ASSUME Shape, ClaimsOK, WakeInv, NoOverflow, NEW w \in Workers, AbsorbLateInbound(w)
  PROVE  WakeInv'
<1> USE DEF durable, coalesce, locals, frame, others, ghosts
<1> DEFINE ph == IF pc[w] = "delay" THEN "prompt" ELSE "claude"
<1>1. messages \in Seq(Row) /\ TypeOK /\ pc \in [Workers -> Phases]
  BY DEF Shape, TypeOK, DataOK, FlowOK
<1>2. messages' = SetClaim(Above(Claimed), w) /\ pc[w] \in {"delay", "prompt"}
      /\ pc' = [pc EXCEPT ![w] = ph]
  <2>1. Oldest(Pending(0), MaxBatch) = Above(Claimed)
    <3>1. Above(Claimed) \subseteq 1..Len(messages) /\ Len(messages) \in Nat
      BY <1>1, RowSets DEF Above
    <3>2. Oldest(Pending(0), MaxBatch) = {i \in Above(Claimed) : i > 0}
      BY <1>1, LoadAll
    <3>3. \A i \in Above(Claimed) : i > 0
      BY <3>1
    <3> QED
      BY <3>2, <3>3
  <2> QED
    BY <2>1 DEF AbsorbLateInbound, GoTo
<1>3. Above(Claimed)' = {} /\ Above(Settled)' \subseteq Above(Settled)
  BY <1>1, <1>2, TakeAll
<1>4. ph \in {"prompt", "claude"} /\ ph \in Running /\ pc[w] \in Running /\ pc[w] \in Holding
      /\ ph \notin {"load", "claim", "finish"}
  BY <1>2 DEF Running, TurnPhases, Holding
<1> HIDE DEF ph
<1>5. w \in Flushes /\ ~Marked /\ ~Dropped => Calm(w)'
  <2> SUFFICES ASSUME w \in Flushes, ~Marked, ~Dropped PROVE Calm(w)'
    OBVIOUS
  <2>1. Strays = {}
    BY <1>4 DEF WakeInv, MarksOK, Calm
  <2>2. abandoned' = abandoned
    BY DEF AbsorbLateInbound
  <2>3. Strays' = {}
    BY <1>3, <2>1, <2>2 DEF Strays
  <2>4. pc'[w] = ph
    BY <1>1, <1>2
  <2> QED
    BY <1>3, <1>4, <2>3, <2>4 DEF Calm
<1>6. Open' \subseteq Open
  <2>1. w \in Claims /\ Above(Claimed) \subseteq Open
    BY <1>1, ClaimNames, OpenRows DEF Above
  <2> QED
    BY <1>1, <1>2, <2>1, OpenMove
<1> QED
  BY <1>2, <1>3, <1>4, <1>5, <1>6, WakeMove DEF AbsorbLateInbound

\* A bot row goes behind the others, and the turn returns.
LEMMA WakePersist ==
  ASSUME Shape, ClaimsOK, WakeInv, NEW w \in Workers, Persist(w)
  PROVE  WakeInv'
<1> USE DEF durable, coalesce, locals, frame, others, ghosts
<1> DEFINE k == IF plan[w] \in {"fallback", "note"} THEN plan[w] ELSE "bot"
           r == [kind |-> k, claim |-> "free"]
           v == IF w \in Forced /\ plan[w] = "note" THEN "failed" ELSE "completed"
<1>1. messages \in Seq(Row) /\ pc \in [Workers -> Phases] /\ verdict \in [Workers -> Verdicts]
  BY DEF Shape, TypeOK, DataOK, FlowOK, FrameOK
<1>2. messages' = Append(messages, r) /\ r \in Row /\ r.kind \notin Inbound
  BY DEF Persist, NewRow, Row, Kinds, Claims, Inbound
<1>3. pc[w] = "persist" /\ pc' = [pc EXCEPT ![w] = "finish"]
      /\ verdict' = [verdict EXCEPT ![w] = v]
      /\ UNCHANGED <<webhooks, armed, dirty, flushing, retry, wasDirty, since, abandoned>>
  BY DEF Persist, Return, GoTo
<1>4. pc[w] \in Running /\ pc[w] \in Holding /\ "finish" \in Running /\ "finish" \notin Absorbed
  BY <1>3 DEF Running, TurnPhases, Holding, Absorbed
<1>5. v # "deferred"
  OBVIOUS
<1> HIDE DEF r, v
<1>6. Above(Claimed)' \subseteq Above(Claimed) /\ Above(Settled)' \subseteq Above(Settled)
  BY <1>1, <1>2, AddRow
<1>7. w \in Flushes /\ ~Marked /\ ~Dropped => Calm(w)'
  <2> SUFFICES ASSUME w \in Flushes, ~Marked, ~Dropped PROVE Calm(w)'
    OBVIOUS
  <2>1. Strays = {}
    BY <1>4 DEF WakeInv, MarksOK, Calm
  <2>2. Strays' = {}
    BY <1>3, <1>6, <2>1 DEF Strays
  <2>3. pc'[w] = "finish" /\ verdict'[w] = v
    BY <1>1, <1>3
  <2> QED
    BY <1>4, <1>5, <2>2, <2>3 DEF Calm
<1>8. Open' \subseteq Open
  BY <1>1, <1>2, AppendRows
<1> QED
  BY <1>3, <1>4, <1>6, <1>7, <1>8, WakeMove

\* A flush loads.
LEMMA WakeLoad ==
  ASSUME Shape, ClaimsOK, WakeInv, NoOverflow, NEW f \in Flushes, LoadPending(f)
  PROVE  WakeInv'
<1> USE DEF durable, coalesce, locals, frame, others, ghosts
<1> DEFINE S == {i \in Above(Claimed) : i > since[f]}
           ph == IF S = {} THEN "settle" ELSE "claim"
<1>1. /\ messages \in Seq(Row) /\ TypeOK /\ pc \in [Workers -> Phases] /\ f \in Workers
      /\ seen \in [Workers -> SUBSET Nat] /\ since[f] \in Nat
  BY DEF Shape, TypeOK, DataOK, FlowOK, FrameOK, Workers
<1>2. pc[f] = "load" /\ seen'[f] = S /\ pc' = [pc EXCEPT ![f] = ph]
  <2>1. Oldest(Pending(since[f]), MaxBatch) = S
    BY <1>1, LoadAll
  <2> HIDE DEF S
  <2> QED
    BY <1>1, <2>1 DEF LoadPending, GoTo
<1>3. UNCHANGED <<webhooks, armed, flushing, dirty, wasDirty, since, retry, abandoned, messages>>
  BY DEF LoadPending
<1>4. Unclaimed' = Unclaimed /\ Above(Claimed)' = Above(Claimed) /\ Above(Settled)' = Above(Settled)
      /\ Open' = Open /\ messages' \in Seq(Row)
  BY <1>1, <1>3 DEF Unclaimed, Claimed, Settled, Above, Rows, Open
<1>5. pc[f] \in Running /\ pc[f] \notin Holding /\ pc[f] \in Live /\ pc[f] # "queued"
  BY <1>2 DEF Running, Holding, Live, TurnPhases
<1>6. Held(f) = {} /\ Claimed = Settled /\ \A v \in Workers : v # f => pc[v] \notin Running
  BY <1>1, <1>5, SoleHolder
<1>7. Strays' = Above(Claimed) \ abandoned /\ Strays = Strays'
  BY <1>3, <1>4, <1>6 DEF Strays
<1>8. Unclaimed \subseteq Nat /\ Claimed \subseteq Nat /\ Rows(RealOut) \subseteq Nat
  BY <1>1, RowSets
<1>9. ~Marked /\ ~Dropped /\ since[f] # 0 => Strays = {}
  BY <1>2 DEF WakeInv, MarksOK, Calm
<1>10. pc'[f] = ph
  BY <1>1, <1>2
<1>11. ph \in Running
  BY DEF Running
<1>12. CASE S = {}
  <2>1. ph = "settle" /\ ph \notin Holding \cup Absorbed \cup {"claim", "load", "finish"}
    BY <1>12 DEF Holding, Absorbed, TurnPhases
  <2>2. Calm(f)'
    BY <1>10, <2>1 DEF Calm
  <2>3. Marked \/ Dropped \/ Above(Claimed)' \subseteq abandoned'
    <3>1. CASE since[f] = 0
      <4>1. \A i \in Above(Claimed) : i > since[f]
        <5>1. Above(Claimed) \subseteq 1..Len(messages) /\ Len(messages) \in Nat
          BY <1>1, RowSets DEF Above
        <5> QED
          BY <3>1, <5>1
      <4> QED
        BY <1>4, <1>12, <4>1
    <3>2. CASE since[f] # 0
      BY <1>3, <1>4, <1>7, <1>9, <3>2
    <3> QED
      BY <3>1, <3>2
  <2> HIDE DEF ph
  <2> QED
    BY <1>2, <1>3, <1>4, <1>5, <1>6, <1>11, <2>1, <2>2, <2>3, WakeRun
<1>13. CASE S # {}
  <2>1. ph = "claim" /\ ph \notin Holding \cup Absorbed \cup {"load", "finish"}
    BY <1>13 DEF Holding, Absorbed, TurnPhases
  <2>2. S \subseteq Unclaimed
    BY DEF Above
  <2>3. ~Marked /\ ~Dropped => Strays' \subseteq S
    <3>1. CASE since[f] = 0
      <4>1. \A i \in Above(Claimed) : i > since[f]
        <5>1. Above(Claimed) \subseteq 1..Len(messages) /\ Len(messages) \in Nat
          BY <1>1, RowSets DEF Above
        <5> QED
          BY <3>1, <5>1
      <4> QED
        BY <1>7, <4>1
    <3>2. CASE since[f] # 0
      BY <1>7, <1>9, <3>2
    <3> QED
      BY <3>1, <3>2
  <2>4. \A i \in Unclaimed : \E j \in S : i <= j
    <3> SUFFICES ASSUME NEW i \in Unclaimed PROVE \E j \in S : i <= j
      OBVIOUS
    <3>1. PICK j \in S : TRUE
      BY <1>13
    <3>2. j \in Nat /\ i \in Nat /\ j > since[f]
      BY <1>8, <2>2
    <3>3. CASE i \in S
      BY <3>2, <3>3
    <3>4. CASE i \in Above(Claimed) /\ ~(i > since[f])
      BY <1>1, <3>1, <3>2, <3>4
    <3>5. CASE i \notin Above(Claimed)
      <4> DEFINE B == IF Claimed # {} THEN Claimed ELSE Rows(RealOut)
      <4>1. PICK c \in B : ~(c <= i)
        BY <3>5 DEF Above
      <4>2. c <= j /\ c \in Nat
        BY <1>8, <3>1 DEF Above
      <4> QED
        BY <3>1, <3>2, <4>1, <4>2
    <3> QED
      BY <3>3, <3>4, <3>5
  <2> HIDE DEF ph, S
  <2>5. ~Marked /\ ~Dropped => Calm(f)'
    BY <1>2, <1>4, <1>10, <2>1, <2>3, <2>4 DEF Calm
  <2> QED
    BY <1>2, <1>3, <1>4, <1>5, <1>6, <1>11, <1>13, <2>1, <2>2, <2>5, WakeRun
<1> QED
  BY <1>12, <1>13

\* A flush claims what it has loaded.
LEMMA WakeClaim ==
  ASSUME Shape, ClaimsOK, WakeInv, NEW f \in Flushes, ClaimBatch(f)
  PROVE  WakeInv'
<1> USE DEF durable, coalesce, locals, frame, others, ghosts
<1> DEFINE S == seen[f]
<1>1. messages \in Seq(Row) /\ pc \in [Workers -> Phases] /\ f \in Workers
  BY DEF Shape, TypeOK, DataOK, FlowOK, Workers
<1>2. S \subseteq Unclaimed /\ S # {} /\ pc[f] = "claim"
  BY DEF ClaimBatch, WakeInv, SeenOK
<1>3. {i \in S : messages[i].claim = "free"} = S
  BY <1>2 DEF Unclaimed
<1>4. messages' = SetClaim(S, f) /\ pc' = [pc EXCEPT ![f] = "read"]
  BY <1>2, <1>3 DEF ClaimBatch, GoTo
<1>5. UNCHANGED <<webhooks, armed, flushing, dirty, wasDirty, since, retry, abandoned>>
  BY DEF ClaimBatch
<1>6. "read" \in Running /\ pc[f] \in Running /\ pc[f] \in Live /\ pc[f] # "queued"
      /\ "read" \notin Absorbed
  BY <1>2 DEF Running, Live, TurnPhases, Absorbed
<1>7. \A v \in Workers : v # f => pc[v] \notin Running
  BY <1>1, <1>6, SoleHolder
<1> HIDE DEF S
<1>8. /\ Unclaimed' = Unclaimed \ S /\ Above(Settled)' \subseteq Above(Settled) \ S
      /\ \A i \in Above(Claimed)' : \A j \in S : j <= i
  BY <1>1, <1>2, <1>4, TakeSeen
<1>9. ~Marked /\ ~Dropped => Above(Claimed)' = {} /\ Strays' = {}
  <2> SUFFICES ASSUME ~Marked, ~Dropped PROVE Above(Claimed)' = {} /\ Strays' = {}
    OBVIOUS
  <2>1. Strays \subseteq S /\ \A i \in Unclaimed : \E j \in S : i <= j
    BY <1>2 DEF WakeInv, MarksOK, Calm, S
  <2>2. Above(Claimed)' \subseteq Unclaimed' /\ Unclaimed \subseteq Nat
    BY <1>1, RowSets DEF Above
  <2>3. ASSUME NEW i \in Above(Claimed)' PROVE FALSE
    <3>1. i \in Unclaimed /\ i \notin S
      BY <1>8, <2>2
    <3>2. PICK j \in S : i <= j
      BY <2>1, <3>1
    <3>3. j <= i /\ i \in Nat /\ j \in Nat
      BY <1>2, <1>8, <2>2, <3>1
    <3>4. i = j
      BY <3>2, <3>3
    <3> QED
      BY <3>1, <3>4
  <2>4. Above(Settled)' \ abandoned = {}
    BY <1>8, <2>1 DEF Strays
  <2> QED
    BY <1>5, <2>3, <2>4 DEF Strays
<1>10. ~Marked /\ ~Dropped => Calm(f)'
  <2>1. pc'[f] = "read"
    BY <1>1, <1>4
  <2> QED
    BY <1>6, <1>9, <2>1 DEF Calm
<1>11. Marked \/ Dropped \/ Above(Claimed)' \subseteq abandoned'
  BY <1>9
<1>12. Open' \subseteq Open /\ messages' \in Seq(Row)
  <2>1. S \subseteq Open /\ f \in Claims
    BY <1>1, <1>2, OpenRows, ClaimNames DEF S
  <2> QED
    BY <1>1, <1>4, <2>1, OpenMove, SetClaimType
<1> QED
  BY <1>4, <1>5, <1>6, <1>7, <1>10, <1>11, <1>12, WakeRun

\* The end of an iteration of the drain loop.
LEMMA WakeFinish ==
  ASSUME Shape, ClaimsOK, WakeInv, NEW f \in Flushes, Finish(f)
  PROVE  WakeInv'
<1> USE DEF durable, coalesce, locals, frame, others, ghosts
<1> DEFINE ph == IF round'[f] < MaxDrain THEN "load" ELSE "settle"
           c == ClaimAfter(verdict[f])
<1>1. messages \in Seq(Row) /\ pc \in [Workers -> Phases] /\ f \in Workers
  BY DEF Shape, TypeOK, DataOK, FlowOK, Workers
<1>2. pc[f] = "finish" /\ messages' = SetClaim(Held(f), c) /\ pc' = [pc EXCEPT ![f] = ph]
  BY DEF Finish, GoTo
<1>3. UNCHANGED <<webhooks, armed, flushing, dirty, wasDirty, retry>>
      /\ abandoned' = (IF verdict[f] = "released" THEN abandoned \cup Held(f) ELSE abandoned)
      /\ \A g \in Flushes : g # f => since'[g] = since[g]
  BY DEF Finish
<1>4. ph \in {"load", "settle"} /\ ph \in Running /\ ph \notin Holding \cup Absorbed \cup {"claim", "finish"}
      /\ pc[f] \in Running /\ pc[f] \in Live /\ pc[f] # "queued" /\ pc[f] \in Holding
  BY <1>2 DEF Running, Live, TurnPhases, Holding, Absorbed
<1> HIDE DEF ph, c
<1>5. Claimed \ Held(f) = Settled /\ \A v \in Workers : v # f => pc[v] \notin Running
  BY <1>1, <1>4, SoleHolder
<1>6. ASSUME ~Marked, ~Dropped PROVE Above(Claimed)' \subseteq abandoned' /\ Calm(f)'
  <2>1. Strays = {} /\ verdict[f] # "deferred"
    BY <1>2, <1>4, <1>6 DEF WakeInv, MarksOK, Calm
  <2>2. ASSUME verdict[f] = "released" PROVE Strays' = {} /\ Above(Claimed)' \subseteq abandoned'
    <3>1. c = "free"
      BY <2>2 DEF c, ClaimAfter
    <3>2. /\ Above(Claimed)' \ Held(f) \subseteq Above(Settled)
          /\ Claimed' = Settled /\ Settled' = Settled
      BY <1>1, <1>2, <1>5, <3>1, FreeRows
    <3>3. Above(Settled)' = Above(Claimed)'
      BY <3>2 DEF Above
    <3> QED
      BY <1>3, <2>1, <2>2, <3>2, <3>3 DEF Strays
  <2>3. ASSUME verdict[f] # "released" PROVE Strays' = {} /\ Above(Claimed)' \subseteq abandoned'
    <3>1. c \in {"skipped", "done"}
      BY <2>1, <2>3 DEF c, ClaimAfter
    <3>2. Above(Claimed)' = Above(Claimed) /\ Above(Settled)' = Above(Claimed)
      BY <1>1, <1>2, <1>5, <3>1, SettleRows
    <3> QED
      BY <1>3, <2>1, <2>3, <3>2 DEF Strays
  <2>4. Strays' = {} /\ Above(Claimed)' \subseteq abandoned'
    BY <2>2, <2>3
  <2>5. pc'[f] = ph
    BY <1>1, <1>2
  <2> QED
    BY <1>4, <2>4, <2>5 DEF Calm
<1>7. Open' \subseteq Open /\ messages' \in Seq(Row) /\ abandoned \subseteq abandoned'
  <2>1. Held(f) \cap Rows(Inbound) \subseteq Open /\ c \in Claims
    BY <1>1, OpenRows, ClaimNames DEF c
  <2> QED
    BY <1>1, <1>2, <1>3, <2>1, OpenMove, SetClaimType
<1> QED
  BY <1>2, <1>3, <1>4, <1>5, <1>6, <1>7, WakeRun

\* A turn throws, or a forced turn ends.
LEMMA WakeThrow ==
  ASSUME Shape, ClaimsOK, WakeInv, NEW w \in Workers, Throw(w) \/ FinishForced(w)
  PROVE  WakeInv'
<1> USE DEF durable, coalesce, locals, frame, others, ghosts
<1>1. messages \in Seq(Row) /\ pc \in [Workers -> Phases]
  BY DEF Shape, TypeOK, DataOK, FlowOK
<1>2. pc[w] \in Holding /\ pc[w] \in Running /\ pc[w] \in Live /\ pc[w] # "queued"
  BY DEF Throw, FinishForced, Running, TurnPhases, Holding, Live
<1>3. Claimed \ Held(w) = Settled /\ \A v \in Workers : v # w => pc[v] \notin Running
  BY <1>1, <1>2, SoleHolder
<1>4. UNCHANGED <<webhooks, armed, flushing, dirty, wasDirty, retry>>
      /\ \A g \in Flushes : g # w => pc'[g] = pc[g] /\ since'[g] = since[g]
                                     /\ seen'[g] = seen[g] /\ verdict'[g] = verdict[g]
  <2>1. \A g \in Flushes : g \in Workers
    BY DEF Workers
  <2>2. Forget(w) /\ (\E ph : GoTo(w, ph)) /\ UNCHANGED <<webhooks, armed, flushing, dirty, wasDirty, retry>>
    BY DEF Throw, FinishForced
  <2>3. /\ since \in [Workers -> Nat] /\ seen \in [Workers -> SUBSET Nat]
        /\ verdict \in [Workers -> Verdicts]
    BY DEF Shape, TypeOK, FrameOK
  <2> QED
    BY <1>1, <2>1, <2>2, <2>3 DEF Forget, GoTo
<1>5. CASE w \in Flushes
  <2>0. PICK c \in {"free", "skipped", "done"} : messages' = SetClaim(Held(w), c)
    BY <1>5, ClaimNames, WorkersAssumption DEF Throw, FinishForced
  <2>1. abandoned' = abandoned \cup Held(w) /\ pc' = [pc EXCEPT ![w] = "settle"]
    BY <1>5, WorkersAssumption DEF Throw, FinishForced, GoTo
  <2>2. Above(Claimed)' \ Held(w) \subseteq Above(Settled) \cup Above(Claimed)
    BY <1>1, <1>3, <2>0, FreeRows, SettleRows
  <2>3. Marked \/ Dropped \/ Above(Claimed)' \subseteq abandoned'
    <3>1. Marked \/ Dropped \/ Strays = {}
      BY <1>2, <1>5 DEF WakeInv, MarksOK, Calm
    <3> QED
      BY <2>1, <2>2, <3>1 DEF Strays
  <2>6. Open' \subseteq Open /\ messages' \in Seq(Row)
    <3>1. Held(w) \cap Rows(Inbound) \subseteq Open /\ c \in Claims
      BY <1>1, OpenRows, ClaimNames
    <3> QED
      BY <1>1, <2>0, <3>1, OpenMove, SetClaimType
  <2>4. "settle" \in Running /\ "settle" \notin Holding \cup Absorbed \cup {"claim", "load", "finish"}
    BY DEF Running, TurnPhases, Holding, Absorbed
  <2>5. Calm(w)'
    <3>1. pc'[w] = "settle"
      BY <1>1, <2>1
    <3> QED
      BY <2>4, <3>1 DEF Calm
  <2> QED
    BY <1>2, <1>3, <1>4, <1>5, <2>1, <2>3, <2>4, <2>5, <2>6, WakeRun
<1>6. CASE w \in Forced
  <2>1. messages' = SetClaim(Held(w), "done") /\ abandoned' = abandoned /\ w \notin Flushes
    BY <1>6, WorkersAssumption DEF Throw, FinishForced
  <2>2. /\ Unclaimed' = Unclaimed
        /\ Above(Claimed)' = Above(Claimed) /\ Above(Settled)' = Above(Claimed)
    BY <1>1, <1>3, <2>1, SettleRows
  <2>3. Open' \subseteq Open
    BY <1>1, <2>1, ClaimNames, OpenMove
  <2> QED
    BY <1>4, <2>1, <2>2, <2>3, WakeKept
<1> QED
  BY <1>5, <1>6 DEF Workers

\* A turn is put behind the tail, or its predecessor has ended.
LEMMA WakeBegin ==
  ASSUME Shape, ClaimsOK, WakeInv, NEW w \in Workers,
         BeginTurn(w) \/ (w \in Forced /\ ForceTurn(w))
  PROVE  WakeInv'
<1> USE DEF durable, coalesce, locals, frame, others, ghosts
<1>1. pc \in [Workers -> Phases] /\ Flushes \subseteq Workers
  BY DEF Shape, TypeOK, FlowOK, Workers
<1>2. Unclaimed' = Unclaimed /\ Above(Claimed)' = Above(Claimed) /\ Above(Settled)' = Above(Settled)
      /\ Open' = Open /\ messages' \in Seq(Row)
  BY DEF BeginTurn, ForceTurn, Unclaimed, Claimed, Settled, Above, Rows, Open, Shape, TypeOK, DataOK
<1>3. UNCHANGED <<webhooks, armed, flushing, dirty, wasDirty, retry, seen, since, verdict, abandoned>>
  BY DEF BeginTurn, ForceTurn
<1>4. CASE w \in Forced
  <2>1. \A f \in Flushes : pc'[f] = pc[f]
    BY <1>1, <1>4, WorkersAssumption DEF BeginTurn, ForceTurn, GoTo
  <2> QED
    BY <1>2, <1>3, <2>1, WakeKept
<1>5. CASE w \in Flushes
  <2>1. pc' = [pc EXCEPT ![w] = "load"] /\ pc[w] = "queued" /\ tail[1] = w
    BY <1>5, WorkersAssumption DEF BeginTurn, GoTo
  <2>2. \A v \in Workers : v # w => pc[v] \notin Running
    BY <2>1 DEF Shape, QueueOK, Queue
  <2>3. since'[w] = 0 /\ pc'[w] = "load"
    BY <1>1, <1>3, <1>5, <2>1 DEF WakeInv, FlagsOK
  <2>4. "load" \in Running /\ pc[w] \in Live /\ "load" \notin Holding \cup Absorbed \cup {"claim", "finish"}
    BY <2>1 DEF Running, Live, TurnPhases, Holding, Absorbed
  <2>5. Woken'
    BY <1>5, <2>3 DEF Woken
  <2>6. Calm(w)'
    BY <2>3, <2>4 DEF Calm
  <2> QED
    BY <1>2, <1>3, <1>5, <2>1, <2>2, <2>4, <2>5, <2>6, WakeRun
<1> QED
  BY <1>4, <1>5 DEF Workers

\* The finally block of a flush, up to its await.
LEMMA WakeSettle ==
  ASSUME Shape, ClaimsOK, WakeInv, NEW f \in Flushes, Settle(f)
  PROVE  WakeInv'
<1> USE DEF durable, coalesce, locals, frame, others, ghosts
<1>1. pc \in [Workers -> Phases] /\ Flushes \subseteq Workers /\ wasDirty \in [Workers -> BOOLEAN]
      /\ since \in [Workers -> Nat]
  BY DEF Shape, TypeOK, FlowOK, FrameOK, Workers
<1>2. pc[f] = "settle" /\ pc' = [pc EXCEPT ![f] = "rearm"]
      /\ wasDirty' = [wasDirty EXCEPT ![f] = dirty] /\ since' = [since EXCEPT ![f] = 0]
  BY DEF Settle, GoTo, Forget
<1>3. Above(Claimed)' = Above(Claimed) /\ abandoned' = abandoned
  BY DEF Settle, Claimed, Unclaimed, Above, Rows
<1>4. pc[f] \in Running /\ "rearm" \notin Running
      /\ {"claim", "load", "finish"} \cup Holding \cup Absorbed \subseteq Running
  BY <1>2 DEF Running, TurnPhases, Holding, Absorbed
<1>5. \A g \in Flushes : pc'[g] \notin Running
  BY <1>1, <1>2, <1>4, SoleHolder
<1>6. FlagsOK'
  <2>1. ~flushing' /\ ~dirty'
    BY DEF Settle
  <2> QED
    BY <1>1, <1>2, <2>1 DEF FlagsOK, WakeInv
<1>7. SeenOK' /\ MarksOK'
  BY <1>4, <1>5 DEF SeenOK, MarksOK, Calm
<1>8. WaitOK'
  <2> SUFFICES ASSUME Above(Claimed) \ abandoned # {} PROVE Woken'
    BY <1>3 DEF WaitOK
  <2>1. \A g \in Flushes : g # f => pc[g] \notin {"claim", "load"} /\ pc'[g] = pc[g]
                                    /\ wasDirty'[g] = wasDirty[g]
    BY <1>1, <1>2, <1>4, SoleHolder
  <2>2. Woken
    BY <1>2, <2>1 DEF WakeInv, WaitOK
  <2>3. CASE dirty
    <3>1. pc'[f] = "rearm" /\ wasDirty'[f]
      BY <1>1, <1>2, <2>3
    <3> QED
      BY <3>1 DEF Woken
  <2>4. CASE webhooks # {} \/ armed \/ retry \in {"clear", "flush"}
    BY <2>4 DEF Woken, Marked, Settle
  <2>5. CASE \E g \in Flushes : pc[g] = "queued"
    BY <1>2, <2>1, <2>5 DEF Woken, Marked
  <2>6. CASE \E g \in Flushes : (pc[g] = "load" /\ since[g] = 0) \/ (pc[g] = "rearm" /\ wasDirty[g])
    BY <1>2, <2>1, <2>6 DEF Woken
  <2>7. \/ dirty \/ webhooks # {} \/ armed \/ retry \in {"clear", "flush"}
        \/ \E g \in Flushes : pc[g] = "queued"
        \/ \E g \in Flushes : (pc[g] = "load" /\ since[g] = 0) \/ (pc[g] = "rearm" /\ wasDirty[g])
    BY <2>2 DEF Woken, Marked
  <2> QED
    BY <2>3, <2>4, <2>5, <2>6, <2>7
<1> QED
  BY <1>6, <1>7, <1>8 DEF WakeInv

\* shouldRearmCoalesceAfterFlush.
LEMMA WakeRearm ==
  ASSUME Shape, WakeInv, NEW f \in Flushes, Rearm(f)
  PROVE  WakeInv'
<1> USE DEF durable, coalesce, locals, frame, others, ghosts
<1> DEFINE again == wasDirty[f] /\ Pending(0) # {}
<1>1. /\ pc \in [Workers -> Phases] /\ Flushes \subseteq Workers /\ wasDirty \in [Workers -> BOOLEAN]
      /\ messages \in Seq(Row)
  BY DEF Shape, TypeOK, FlowOK, DataOK, Workers
<1>2. Unclaimed' = Unclaimed /\ Above(Claimed)' = Above(Claimed) /\ Above(Settled)' = Above(Settled)
      /\ Open' = Open
  BY DEF Rearm, Unclaimed, Claimed, Settled, Above, Rows, Open
<1>3. /\ pc[f] = "rearm" /\ UNCHANGED <<webhooks, since, seen, verdict, abandoned>>
      /\ \A g \in Flushes : g # f => pc'[g] = pc[g] /\ wasDirty'[g] = wasDirty[g]
      /\ pc'[f] \in {"queued", "idle"}
  BY <1>1 DEF Rearm, GoTo
<1>4. \A g \in Flushes : pc'[g] \in {"claim", "load", "finish"} \cup Holding \cup Absorbed => pc'[g] = pc[g]
  BY <1>3 DEF Holding, Absorbed, TurnPhases
<1>5. retry \in {"clear", "flush"} => retry' = retry
  BY WorkersAssumption DEF Rearm, Workers
<1>6. SeenOK'
  BY <1>2, <1>3, <1>4 DEF SeenOK, WakeInv
<1>7. \A g \in Flushes : pc'[g] \in {"idle", "queued", "rearm"} => since'[g] = 0
  BY <1>3 DEF FlagsOK, WakeInv
<1>8. CASE again /\ pc'[f] = "queued" /\ flushing' /\ ~dirty'
  <2>1. Marked' /\ FlagsOK'
    BY <1>7, <1>8 DEF Marked, FlagsOK, Live
  <2> QED
    BY <1>6, <2>1, WakeMarked
<1>9. CASE pc'[f] = "idle" /\ armed' = (armed \/ again) /\ UNCHANGED <<tail, flushing, dirty>>
  <2>1. FlagsOK'
    <3>1. \A g \in Flushes : pc[g] \in Live => pc'[g] \in Live
      BY <1>3 DEF Live, Running, TurnPhases
    <3> QED
      BY <1>7, <1>9, <3>1 DEF FlagsOK, WakeInv
  <2>2. Marked => Marked'
    <3>1. CASE \E g \in Flushes : pc[g] = "queued"
      BY <1>3, <3>1 DEF Marked
    <3>2. CASE webhooks # {} \/ armed \/ dirty \/ retry \in {"clear", "flush"}
      BY <1>3, <1>5, <1>9, <3>2 DEF Marked
    <3> QED
      BY <3>1, <3>2 DEF Marked
  <2>3. MarksOK'
    <3> SUFFICES ASSUME ~Marked, ~Dropped, NEW g \in Flushes PROVE Calm(g)'
      BY <1>2, <1>3, <2>2 DEF MarksOK, Dropped
    <3>1. Calm(g)
      BY DEF WakeInv, MarksOK
    <3>2. Strays' = Strays
      BY <1>2, <1>3 DEF Strays
    <3> QED
      BY <1>2, <1>3, <1>4, <3>1, <3>2 DEF Calm
  <2>4. WaitOK'
    <3> SUFFICES ASSUME Above(Claimed) \ abandoned # {}
                 PROVE  Woken' \/ \E g \in Flushes : pc'[g] = "claim"
      BY <1>2, <1>3 DEF WaitOK
    <3>1. Pending(0) # {}
      <4>1. Above(Claimed) \subseteq 1..Len(messages) /\ Len(messages) \in Nat
        BY <1>1, RowSets DEF Above
      <4>2. Pending(0) = {i \in Above(Claimed) : i > 0}
        BY <1>1, PendingRows
      <4> QED
        BY <4>1, <4>2
    <3>2. CASE wasDirty[f]
      BY <1>9, <3>1, <3>2 DEF Woken, Marked
    <3>3. CASE ~wasDirty[f]
      <4>1. Woken \/ \E g \in Flushes : pc[g] = "claim"
        BY DEF WakeInv, WaitOK
      <4>2. CASE Marked
        BY <2>2, <4>2 DEF Woken
      <4>3. CASE \E g \in Flushes : (pc[g] = "load" /\ since[g] = 0) \/ (pc[g] = "rearm" /\ wasDirty[g])
        BY <1>3, <3>3, <4>3 DEF Woken
      <4>4. CASE \E g \in Flushes : pc[g] = "claim"
        BY <1>3, <4>4
      <4>5. \/ Marked
            \/ \E g \in Flushes : (pc[g] = "load" /\ since[g] = 0) \/ (pc[g] = "rearm" /\ wasDirty[g])
            \/ \E g \in Flushes : pc[g] = "claim"
        BY <4>1 DEF Woken
      <4> QED
        BY <4>2, <4>3, <4>4, <4>5
    <3> QED
      BY <3>2, <3>3
  <2> QED
    BY <1>6, <2>1, <2>3, <2>4 DEF WakeInv
<1> QED
  BY <1>1, <1>3, <1>8, <1>9 DEF Rearm, GoTo

\* The load of the drain loop, or that of the finally block, rejects.
LEMMA WakeReject ==
  ASSUME Shape, ClaimsOK, WakeInv, NEW f \in Flushes, DrainThrows(f) \/ RearmThrows(f)
  PROVE  WakeInv'
<1> USE DEF durable, coalesce, locals, frame, others, ghosts
<1>1. /\ pc \in [Workers -> Phases] /\ Flushes \subseteq Workers /\ f \in Workers
      /\ since \in [Workers -> Nat] /\ wasDirty \in [Workers -> BOOLEAN]
      /\ messages \in Seq(Row)
  BY DEF Shape, TypeOK, FlowOK, FrameOK, DataOK, Workers
<1>2. /\ messages' = messages /\ abandoned' = abandoned \cup Unread
      /\ UNCHANGED <<webhooks, armed, flushing, dirty>>
  BY DEF DrainThrows, RearmThrows
<1>3. /\ Unclaimed' = Unclaimed /\ Above(Claimed)' = Above(Claimed)
      /\ Above(Settled)' = Above(Settled) /\ Open' = Open
  BY <1>2 DEF Unclaimed, Claimed, Settled, Above, Rows, Open
<1>4. webhooks # {} \/ Above(Claimed)' \subseteq abandoned'
  BY <1>2, <1>3 DEF Unread, Unclaimed, Above
<1>5. CASE DrainThrows(f)
  <2>1. /\ pc[f] \in {"load", "claim"} /\ pc' = [pc EXCEPT ![f] = "settle"]
        /\ since' = [since EXCEPT ![f] = 0] /\ UNCHANGED <<wasDirty, retry>>
    BY <1>5 DEF DrainThrows, GoTo, Forget
  <2>2. /\ pc[f] \in Running /\ pc[f] \in Live /\ pc[f] # "queued" /\ "settle" \in Running
        /\ "settle" \notin Holding \cup Absorbed \cup {"claim", "load", "finish"}
    BY <2>1 DEF Running, Live, TurnPhases, Holding, Absorbed
  <2>3. \A v \in Workers : v # f => pc[v] \notin Running
    BY <2>2, <1>1, SoleHolder
  <2>4. Calm(f)'
    <3>1. pc'[f] = "settle"
      BY <1>1, <2>1
    <3> QED
      BY <2>2, <3>1 DEF Calm
  <2>5. \A g \in Flushes : g # f => since'[g] = since[g]
    BY <1>1, <2>1
  <2>6. Marked \/ Above(Claimed)' \subseteq abandoned'
    BY <1>4 DEF Marked
  <2> QED
    BY <1>1, <1>2, <1>3, <2>1, <2>2, <2>3, <2>4, <2>5, <2>6, WakeRun
<1>6. CASE RearmThrows(f)
  <2>1. /\ pc[f] = "rearm" /\ UNCHANGED <<since, seen, verdict>>
        /\ \A g \in Flushes : g # f => pc'[g] = pc[g] /\ wasDirty'[g] = wasDirty[g]
        /\ pc'[f] = "idle"
    BY <1>1, <1>6 DEF RearmThrows, GoTo
  <2>2. retry \in {"clear", "flush"} => retry' = retry
    BY <1>6, WorkersAssumption DEF RearmThrows, Workers
  <2>3. Marked => Marked'
    BY <1>2, <2>1, <2>2 DEF Marked
  <2>4. FlagsOK'
    <3>1. \A g \in Flushes : pc[g] \in Live => pc'[g] \in Live
      BY <2>1 DEF Live, Running, TurnPhases
    <3>2. \A g \in Flushes : pc'[g] \in {"idle", "queued", "rearm"} => since'[g] = 0
      BY <2>1 DEF FlagsOK, WakeInv
    <3> QED
      BY <1>2, <3>1, <3>2 DEF FlagsOK, WakeInv
  <2>5. \A g \in Flushes : pc'[g] \in {"claim", "load", "finish"} \cup Holding \cup Absorbed => pc'[g] = pc[g]
    BY <2>1 DEF Holding, Absorbed, TurnPhases
  <2>6. SeenOK'
    BY <1>3, <2>1, <2>5 DEF SeenOK, WakeInv
  <2>7. MarksOK'
    <3> SUFFICES ASSUME ~Marked, ~Dropped, NEW g \in Flushes PROVE Calm(g)'
      BY <1>2, <1>3, <2>3 DEF MarksOK, Dropped
    <3>1. Calm(g)
      BY DEF WakeInv, MarksOK
    <3>2. Strays' \subseteq Strays
      BY <1>2, <1>3 DEF Strays
    <3> QED
      BY <1>3, <2>1, <2>5, <3>1, <3>2 DEF Calm
  <2>8. WaitOK'
    BY <1>2, <1>4 DEF WaitOK, Woken, Marked
  <2> QED
    BY <2>4, <2>6, <2>7, <2>8 DEF WakeInv
<1> QED
  BY <1>5, <1>6

\* The steps of a turn.
LEMMA WakeInside ==
  ASSUME Shape, ClaimsOK, WakeInv, NoOverflow, NEW w \in Workers, TurnStep(w)
  PROVE  WakeInv'
<1> USE DEF durable, coalesce, locals, frame, others, ghosts
<1>0. pc \in [Workers -> Phases] /\ verdict \in [Workers -> Verdicts]
  BY DEF Shape, TypeOK, FlowOK, FrameOK
<1>1. CASE BeginTurn(w)
  BY <1>1, WakeBegin
<1>2. CASE ReadConversation(w)
  BY <1>0, <1>2, WakeTurn DEF ReadConversation, Return, GoTo, TurnPhases, Holding, Absorbed
<1>3. CASE HandoffExpired(w)
  BY <1>0, <1>3, WakeTurn DEF HandoffExpired, GoTo, TurnPhases, Holding, Absorbed
<1>4. CASE HandoffAutoReturn(w)
  BY <1>0, <1>4, WakeTurn DEF HandoffAutoReturn, GoTo, TurnPhases, Holding, Absorbed
<1>5. CASE AbsorbLateInbound(w)
  BY <1>5, WakeAbsorb
<1>6. CASE AskClaude(w)
  BY <1>0, <1>6, WakeTurn DEF AskClaude, GoTo, TurnPhases, Holding, Absorbed
<1>7. CASE ClaudeAnswers(w)
  BY <1>0, <1>7, WakeTurn DEF ClaudeAnswers, GoTo, TurnPhases, Holding, Absorbed
<1>8. CASE Guard(w)
  BY <1>0, <1>8, WakeTurn DEF Guard, AfterGuard, Return, GoTo, TurnPhases, Holding, Absorbed
<1>9. CASE OrderGate(w)
  BY <1>0, <1>9, WakeTurn DEF OrderGate, Return, GoTo, TurnPhases, Holding, Absorbed
<1>10. CASE ChooseOutbound(w)
  BY <1>0, <1>10, WakeTurn DEF ChooseOutbound, Return, GoTo, TurnPhases, Holding, Absorbed
<1>11. CASE Takeover(w)
  BY <1>0, <1>11, WakeTurn DEF Takeover, GoTo, TurnPhases, Holding, Absorbed
<1>12. CASE Send(w)
  BY <1>0, <1>12, WakeTurn DEF Send, GoTo, TurnPhases, Holding, Absorbed
<1>13. CASE Persist(w)
  BY <1>13, WakePersist
<1>14. CASE ConversationGone(w)
  BY <1>0, <1>14, WakeTurn DEF ConversationGone, Return, GoTo, TurnPhases, Holding, Absorbed
<1> QED
  BY <1>1, <1>2, <1>3, <1>4, <1>5, <1>6, <1>7, <1>8, <1>9, <1>10, <1>11, <1>12, <1>13, <1>14
  DEF TurnStep

\* The load behind Claude's answer, where a late bubble defers the turn.
LEMMA WakeLate ==
  ASSUME Shape, ClaimsOK, WakeInv, NEW f \in Flushes, LateCheck(f)
  PROVE  WakeInv'
<1> USE DEF durable, coalesce, locals, frame, others, ghosts
<1>1. /\ messages \in Seq(Row) /\ pc \in [Workers -> Phases] /\ verdict \in [Workers -> Verdicts]
      /\ f \in Workers
  BY DEF Shape, TypeOK, DataOK, FlowOK, FrameOK, Workers
<1>2. pc[f] = "late" /\ pc[f] \in TurnPhases /\ pc[f] \in Running /\ pc[f] \in Absorbed
  BY DEF LateCheck, TurnPhases, Running, Absorbed
<1>3. UNCHANGED <<messages, webhooks, armed, flushing, dirty, since, wasDirty, retry, abandoned>>
  BY DEF LateCheck
<1>4. CASE Pending(0) = {}
  <2>1. pc' = [pc EXCEPT ![f] = "outbound"] /\ UNCHANGED coalesce /\ "outbound" \in Holding
    BY <1>4 DEF LateCheck, GoTo, Return, Holding, TurnPhases
  <2> QED
    BY <1>1, <1>2, <1>3, <2>1, WakeTurn
<1>5. CASE Pending(0) # {}
  <2>1. pc' = [pc EXCEPT ![f] = "finish"] /\ "finish" \in Running
    BY <1>5 DEF LateCheck, GoTo, Return, Running
  <2>2. Marked \/ Dropped
    <3>1. Above(Claimed) # {}
      BY <1>1, <1>5, PendingRows
    <3> QED
      BY <1>2, <3>1 DEF WakeInv, MarksOK, Calm
  <2>3. Above(Claimed)' = Above(Claimed) /\ Open' = Open
    BY <1>3 DEF Claimed, Unclaimed, Above, Rows, Open
  <2> QED
    BY <1>1, <1>2, <1>3, <2>1, <2>2, <2>3, WakeMove
<1> QED
  BY <1>4, <1>5

\* Every step keeps the flags and timers in line with the bubbles they are for.
LEMMA WakeStep ==
  ASSUME Shape, ClaimsOK, WakeInv, NoOverflow, [Next]_vars
  PROVE  WakeInv'
<1>1. ASSUME NEW w \in Workers, WorkerStep(w) PROVE WakeInv'
  <2>1. CASE TurnStep(w)
    BY <2>1, WakeInside
  <2>2. CASE FinishForced(w)
    BY <2>2, WakeThrow
  <2>3. CASE w \in Flushes /\ FlushStep(w)
    BY <2>3, WakeLoad, WakeClaim, WakeLate, WakeFinish, WakeSettle, WakeRearm DEF FlushStep
  <2> QED
    BY <1>1, <2>1, <2>2, <2>3 DEF WorkerStep
<1>2. ASSUME NEW w \in Forced, ForceTurn(w) PROVE WakeInv'
  BY <1>2, WakeBegin DEF Workers
<1>3. ASSUME NEW w \in Workers, Throw(w) PROVE WakeInv'
  BY <1>3, WakeThrow
<1>4. ASSUME NEW f \in Flushes, DrainThrows(f) \/ RearmThrows(f) PROVE WakeInv'
  BY <1>4, WakeReject
<1> QED
  BY <1>1, <1>2, <1>3, <1>4, WakeOutside DEF Next, Environment

\* WakeInv: flags, timers and flushes in line with the bubbles they are for.
THEOREM WakeInvariant == Spec /\ []NoOverflow => []WakeInv
<1>1. Init => WakeInv
  <2> SUFFICES ASSUME Init PROVE WakeInv
    OBVIOUS
  <2>1. \A f \in Flushes : pc[f] = "idle" /\ since[f] = 0
    BY DEF Init, Workers
  <2>2. FlagsOK
    BY <2>1 DEF Init, FlagsOK
  <2>3. SeenOK /\ MarksOK
    BY <2>1 DEF SeenOK, MarksOK, Calm, Holding, Absorbed, TurnPhases
  <2>4. Above(Claimed) \ abandoned = {}
    BY DEF Init, Above, Unclaimed
  <2> QED
    BY <2>2, <2>3, <2>4 DEF WakeInv, WaitOK
<1>2. Shape /\ ClaimsOK /\ WakeInv /\ NoOverflow /\ [Next]_vars => WakeInv'
  BY WakeStep
<1> QED
  BY <1>1, <1>2, ShapeInvariant, ClaimsInvariant, PTL DEF Spec

\* NoLostWakeup: while a batch has room for what is pending, a bubble a load
\* would return has its webhook, a timer, the dirty flag or a flush to see to it.
THEOREM WakeupTheorem == Spec /\ []NoOverflow => []NoLostWakeup
<1>1. TypeOK /\ WakeInv => NoLostWakeup
  BY WakeMeans
<1> QED
  BY <1>1, WakeInvariant, TypeInvariant, PTL

-----------------------------------------------------------------------------
(* No duplicate reply.  An answered bubble stays claimed until the retry   *)
(* monitor or a failed turn gives it back, and loads return what is free.  *)

AnsweredOK ==
  \A i \in answered : i \in 1..Len(messages) /\ messages[i].claim # "free"

\* The turn has sent, and will not give its rows back.
Sent(w) == pc[w] = "persist" \/ (pc[w] = "finish" /\ verdict[w] \notin {"released", "deferred"})

HeldOK == \A w \in Workers : Held(w) \cap answered # {} => Sent(w)

\* What a flush has loaded, or writes its reply to, is not answered yet.
FreshOK ==
  \A f \in Flushes :
    /\ pc[f] = "claim" => seen[f] \cap answered = {}
    /\ pc[f] \in TurnPhases \ {"persist"} => batch[f] \cap answered = {}

AnswersInv == AnsweredOK /\ HeldOK /\ FreshOK

\* A call moves, and nothing is answered.
LEMMA AnswersMove ==
  ASSUME TypeOK, AnswersInv, NEW w \in Workers, NEW ph, pc' = [pc EXCEPT ![w] = ph],
         AnsweredOK', answered' \subseteq answered,
         \A v \in Workers : v # w => /\ verdict'[v] = verdict[v] /\ batch'[v] = batch[v]
                                     /\ seen'[v] = seen[v] /\ Held(v)' \subseteq Held(v),
         Held(w)' \cap answered' # {} => ph = "persist"
                                      \/ (ph = "finish" /\ verdict'[w] \notin {"released", "deferred"}),
         w \in Flushes => /\ ph = "claim" => seen'[w] \cap answered' = {}
                          /\ ph \in TurnPhases \ {"persist"} => batch'[w] \cap answered' = {}
  PROVE  AnswersInv'
<1>1. pc \in [Workers -> Phases] /\ Flushes \subseteq Workers
  BY DEF TypeOK, FlowOK, Workers
<1>2. pc'[w] = ph /\ \A v \in Workers : v # w => pc'[v] = pc[v]
  BY <1>1
<1>3. HeldOK'
  <2> SUFFICES ASSUME NEW v \in Workers, Held(v)' \cap answered' # {} PROVE Sent(v)'
    BY DEF HeldOK
  <2>1. CASE v = w
    BY <1>2, <2>1 DEF Sent
  <2>2. CASE v # w
    <3>1. Held(v) \cap answered # {}
      BY <2>2
    <3> QED
      BY <1>2, <2>2, <3>1 DEF AnswersInv, HeldOK, Sent
  <2> QED
    BY <2>1, <2>2
<1>4. FreshOK'
  <2> SUFFICES ASSUME NEW f \in Flushes
               PROVE  /\ pc'[f] = "claim" => seen'[f] \cap answered' = {}
                      /\ pc'[f] \in TurnPhases \ {"persist"} => batch'[f] \cap answered' = {}
    BY DEF FreshOK
  <2>1. CASE f = w
    BY <1>2, <2>1
  <2>2. CASE f # w
    BY <1>1, <1>2, <2>2 DEF AnswersInv, FreshOK
  <2> QED
    BY <2>1, <2>2
<1> QED
  BY <1>3, <1>4 DEF AnswersInv

\* A call moves, and no row changes.
LEMMA AnswersTurn ==
  ASSUME TypeOK, AnswersInv, NEW w \in Workers, NEW ph, pc' = [pc EXCEPT ![w] = ph],
         messages' = messages, answered' = answered, seen' = seen, batch' = batch,
         \A v \in Workers : v # w => verdict'[v] = verdict[v],
         ~Sent(w), ph # "claim",
         ph \in TurnPhases => pc[w] \in TurnPhases \ {"persist"} \/ w \in Forced
  PROVE  AnswersInv'
<1>1. AnsweredOK' /\ \A v \in Workers : Held(v)' = Held(v)
  BY DEF AnswersInv, AnsweredOK, Held
<1>2. Held(w) \cap answered = {}
  BY DEF AnswersInv, HeldOK
<1>3. w \in Flushes /\ ph \in TurnPhases => batch[w] \cap answered = {}
  BY WorkersAssumption DEF AnswersInv, FreshOK
<1> QED
  BY <1>1, <1>2, <1>3, AnswersMove

\* No call moves, and no row is claimed.
LEMMA AnswersKept ==
  ASSUME AnswersInv, UNCHANGED <<pc, verdict, seen>>, \A f \in Flushes : batch'[f] = batch[f],
         AnsweredOK', answered' \subseteq answered, \A v \in Workers : Held(v)' \subseteq Held(v)
  PROVE  AnswersInv'
<1>1. HeldOK'
  <2> SUFFICES ASSUME NEW v \in Workers, Held(v)' \cap answered' # {} PROVE Sent(v)'
    BY DEF HeldOK
  <2>1. Held(v) \cap answered # {}
    OBVIOUS
  <2> QED
    BY <2>1 DEF AnswersInv, HeldOK, Sent
<1>2. FreshOK'
  BY DEF AnswersInv, FreshOK
<1> QED
  BY <1>1, <1>2 DEF AnswersInv

\* A row is added that nobody holds.
LEMMA AppendHeld ==
  ASSUME messages \in Seq(Row), NEW r \in Row, r.claim \notin Workers,
         messages' = Append(messages, r)
  PROVE  \A v \in Workers : Held(v)' = Held(v)
<1>1. messages' \in Seq(Row) /\ Len(messages) \in Nat
      /\ Len(messages') = Len(messages) + 1 /\ messages'[Len(messages) + 1] = r
      /\ \A i \in 1..Len(messages) : messages'[i] = messages[i]
  BY NewRowType, LenProperties
<1>2. \A w : Held(w)' = {i \in 1..Len(messages') : messages'[i].claim = w}
  BY <1>1, LenProperties DEF Held
<1>3. \A w : Held(w) = {i \in 1..Len(messages) : messages[i].claim = w}
  BY <1>1, LenProperties DEF Held
<1> SUFFICES ASSUME NEW v \in Workers PROVE Held(v)' = Held(v)
  OBVIOUS
<1>4. Held(v)' = {i \in 1..Len(messages') : messages'[i].claim = v}
  BY <1>2
<1>5. Held(v) = {i \in 1..Len(messages) : messages[i].claim = v}
  BY <1>3
<1>6. \A i \in 1..Len(messages') : i \in 1..Len(messages) \/ messages'[i].claim # v
  BY <1>1
<1>7. 1..Len(messages) \subseteq 1..Len(messages')
  BY <1>1
<1> QED
  BY <1>1, <1>4, <1>5, <1>6, <1>7

\* It leaves the answered rows claimed.
LEMMA AnswersRow ==
  ASSUME TypeOK, AnswersInv, NEW r \in Row, r.claim \notin Workers,
         messages' = Append(messages, r), answered' = answered
  PROVE  AnsweredOK' /\ \A v \in Workers : Held(v)' = Held(v)
<1>1. messages \in Seq(Row) /\ Len(messages) \in Nat /\ Len(messages') = Len(messages) + 1
      /\ \A i \in 1..Len(messages) : messages'[i] = messages[i]
  BY NewRowType, LenProperties DEF TypeOK, DataOK
<1>2. AnsweredOK'
  BY <1>1 DEF AnswersInv, AnsweredOK
<1> QED
  BY <1>1, <1>2, AppendHeld

\* Claims are set on rows: what stays answered does not become free.
LEMMA AnswersClaim ==
  ASSUME TypeOK, AnswersInv, NEW S, NEW c \in Claims, messages' = SetClaim(S, c),
         answered' \subseteq answered, c = "free" => S \cap answered' = {}
  PROVE  /\ AnsweredOK'
         /\ \A v \in Workers : Held(v)' = IF c = v THEN Held(v) \cup (S \cap 1..Len(messages))
                                                   ELSE Held(v) \ S
<1>1. messages \in Seq(Row) /\ Len(messages') = Len(messages)
  BY SetClaimType DEF TypeOK, DataOK
<1>2. \A i \in 1..Len(messages) : messages'[i].claim = IF i \in S THEN c ELSE messages[i].claim
  BY <1>1, SetClaimClaim
<1>3. AnsweredOK'
  <2> SUFFICES ASSUME NEW i \in answered'
               PROVE  i \in 1..Len(messages') /\ messages'[i].claim # "free"
    BY DEF AnsweredOK
  <2>1. i \in 1..Len(messages) /\ messages[i].claim # "free"
    BY DEF AnswersInv, AnsweredOK
  <2> QED
    BY <1>1, <1>2, <2>1
<1> QED
  BY <1>1, <1>3, SetClaimSets

\* What a load returns is not answered.
LEMMA PendingFresh ==
  ASSUME AnswersInv, NEW t
  PROVE  \A i \in Oldest(Pending(t), MaxBatch) : i \notin answered /\ messages[i].claim = "free"
BY DEF Oldest, Pending, AnswersInv, AnsweredOK

\* What happens outside the turns.
LEMMA AnswersOutside ==
  ASSUME Shape, ClaimsOK, AnswersInv,
         ClientMessage \/ ReactionEvent \/ ManagerReads \/ ToggleBot \/ Crash \/ Schedule
         \/ Timer \/ Retry \/ Manager \/ vars' = vars
         \/ \E i \in webhooks : WebhookEnds(i)
  PROVE  AnswersInv'
<1> USE DEF durable, coalesce, locals, frame, others, ghosts
<1>0. TypeOK /\ messages \in Seq(Row) /\ pc \in [Workers -> Phases] /\ Flushes \subseteq Workers
  BY DEF Shape, TypeOK, DataOK, FlowOK, Workers
<1>1. ASSUME NEW r \in Row, r.claim \notin Workers, messages' = Append(messages, r),
             UNCHANGED <<pc, verdict, seen, batch, answered>>
      PROVE  AnswersInv'
  BY <1>0, <1>1, AnswersRow, AnswersKept
<1>2. CASE ClientMessage
  BY <1>1, <1>2, WorkersAssumption DEF ClientMessage, NewRow, Row, Kinds, Claims
<1>3. CASE ReactionEvent
  BY <1>1, <1>3, WorkersAssumption DEF ReactionEvent, Row, Kinds, Claims
<1>4. CASE ManagerPersists
  BY <1>1, <1>4, WorkersAssumption DEF ManagerPersists, NewRow, Row, Kinds, Claims
<1>5. CASE UNCHANGED <<messages, pc, verdict, seen, batch, answered>>
  <2>1. AnsweredOK' /\ \A v \in Workers : Held(v)' = Held(v)
    BY <1>5 DEF AnswersInv, AnsweredOK, Held
  <2> QED
    BY <1>5, <2>1, AnswersKept
<1>6. CASE Crash
  <2> DEFINE S == UNION {Held(w) : w \in Workers}
  <2>1. messages' = SetClaim(S, "done") /\ "done" \in Claims /\ answered' = answered
    BY <1>6, ClaimNames DEF Crash
  <2>2. \A v \in Workers : Held(v) \subseteq S /\ "done" # v
    BY WorkersAssumption
  <2> HIDE DEF S
  <2>3. AnsweredOK' /\ \A v \in Workers : Held(v)' = Held(v) \ S
    BY <1>0, <2>1, <2>2, AnswersClaim
  <2>4. \A v \in Workers : Held(v)' = {}
    BY <2>2, <2>3
  <2>5. \A f \in Flushes : pc'[f] = "idle"
    BY <1>0, <1>6 DEF Crash
  <2> QED
    BY <2>3, <2>4, <2>5 DEF AnswersInv, HeldOK, FreshOK, TurnPhases
<1>7. CASE RetryClear
  <2>1. messages' = SetClaim(retryIds, "free") /\ "free" \in Claims
        /\ answered' = answered \ retryIds /\ UNCHANGED <<pc, verdict, seen, batch>>
    BY <1>7, ClaimNames DEF RetryClear
  <2>2. AnsweredOK' /\ \A v \in Workers : Held(v)' = Held(v) \ retryIds
    BY <1>0, <2>1, AnswersClaim, WorkersAssumption
  <2> QED
    BY <2>1, <2>2, AnswersKept
<1>8. ASSUME NEW f \in Flushes, StartFlush(f), UNCHANGED <<messages, verdict, seen, batch, answered>>
      PROVE  AnswersInv'
  <2>1. pc' = [pc EXCEPT ![f] = "queued"] /\ ~Sent(f)
    BY <1>8 DEF StartFlush, GoTo, Sent
  <2> QED
    BY <1>0, <1>8, <2>1, AnswersTurn DEF TurnPhases
<1>9. ASSUME NEW i \in webhooks, ScheduleInboundBotTurn(i) PROVE AnswersInv'
  BY <1>5, <1>8, <1>9 DEF ScheduleInboundBotTurn
<1> QED
  BY <1>2, <1>3, <1>4, <1>5, <1>6, <1>7, <1>8, <1>9
  DEF Schedule, Timer, Retry, Manager, FireTimer, RetryFlush, RetryEvaluate, ManagerReads,
      ToggleBot, ManagerTakesOver, WebhookEnds, vars

\* A turn takes what came before Claude is asked.
LEMMA AnswersAbsorb ==
  ASSUME TypeOK, AnswersInv, NEW w \in Workers, AbsorbLateInbound(w)
  PROVE  AnswersInv'
<1> DEFINE S == Oldest(Pending(0), MaxBatch)
           ph == IF pc[w] = "delay" THEN "prompt" ELSE "claude"
<1>1. /\ messages' = SetClaim(S, w) /\ pc' = [pc EXCEPT ![w] = ph] /\ answered' = answered
      /\ seen' = seen /\ verdict' = verdict /\ pc[w] \in {"delay", "prompt"}
      /\ batch' = [batch EXCEPT ![w] = IF S = {} THEN @ ELSE Oldest(Held(w) \cup S, MaxBatch)]
  BY DEF AbsorbLateInbound, GoTo, ghosts
<1>2. \A i \in S : i \notin answered
  BY PendingFresh
<1>3. w \in Claims /\ w # "free" /\ batch \in [Workers -> SUBSET Nat]
  BY ClaimNames, WorkersAssumption DEF TypeOK, FrameOK
<1>4. Held(w) \cap answered = {}
  BY <1>1 DEF AnswersInv, HeldOK, Sent
<1>5. w \in Flushes => batch'[w] \cap answered = {}
  <2>1. CASE S = {}
    <3>1. w \in Flushes => batch[w] \cap answered = {}
      BY <1>1 DEF AnswersInv, FreshOK, TurnPhases
    <3> QED
      BY <1>1, <1>3, <2>1, <3>1
  <2>2. CASE S # {}
    <3>1. batch'[w] = Oldest(Held(w) \cup S, MaxBatch)
      BY <1>1, <1>3, <2>2
    <3>2. batch'[w] \subseteq Held(w) \cup S
      BY <3>1 DEF Oldest
    <3> QED
      BY <1>2, <1>4, <3>2
  <2> QED
    BY <2>1, <2>2
<1> HIDE DEF S, ph
<1>6. /\ AnsweredOK'
      /\ \A v \in Workers : Held(v)' = IF w = v THEN Held(v) \cup (S \cap 1..Len(messages))
                                                ELSE Held(v) \ S
  BY <1>1, <1>3, AnswersClaim
<1>7. Held(w)' \cap answered' = {} /\ \A v \in Workers : v # w => Held(v)' \subseteq Held(v)
  BY <1>1, <1>2, <1>4, <1>6
<1>8. ph # "claim"
  BY DEF ph
<1> QED
  BY <1>1, <1>3, <1>5, <1>6, <1>7, <1>8, AnswersMove

\* A flush claims what it has loaded.
LEMMA AnswersClaimed ==
  ASSUME TypeOK, AnswersInv, NEW f \in Flushes, ClaimBatch(f)
  PROVE  AnswersInv'
<1> DEFINE S == {i \in seen[f] : messages[i].claim = "free"}
           ph == IF S = {} THEN "settle" ELSE "read"
<1>1. /\ messages' = SetClaim(S, f) /\ pc' = [pc EXCEPT ![f] = ph] /\ answered' = answered
      /\ seen' = [seen EXCEPT ![f] = {}] /\ verdict' = verdict /\ pc[f] = "claim"
      /\ batch' = [batch EXCEPT ![f] = seen[f]]
  BY DEF ClaimBatch, GoTo, ghosts
<1>2. f \in Workers /\ f \in Claims /\ f # "free" /\ batch \in [Workers -> SUBSET Nat]
      /\ seen \in [Workers -> SUBSET Nat]
  BY ClaimNames, WorkersAssumption DEF TypeOK, FrameOK, Workers
<1>3. seen[f] \cap answered = {} /\ Held(f) \cap answered = {}
  BY <1>1, <1>2 DEF AnswersInv, FreshOK, HeldOK, Sent
<1>4. batch'[f] \cap answered' = {} /\ S \subseteq seen[f] /\ ph # "claim"
  BY <1>1, <1>2, <1>3
<1> HIDE DEF S, ph
<1>5. /\ AnsweredOK'
      /\ \A v \in Workers : Held(v)' = IF f = v THEN Held(v) \cup (S \cap 1..Len(messages))
                                                ELSE Held(v) \ S
  BY <1>1, <1>2, AnswersClaim
<1>6. Held(f)' \cap answered' = {} /\ \A v \in Workers : v # f => Held(v)' \subseteq Held(v)
  BY <1>1, <1>2, <1>3, <1>4, <1>5
<1> QED
  BY <1>1, <1>2, <1>4, <1>5, <1>6, AnswersMove

\* The turn sends, and answers the rows it holds.
LEMMA AnswersSend ==
  ASSUME Shape, ClaimsOK, AnswersInv, NEW w \in Workers, Send(w)
  PROVE  AnswersInv'
<1>1. /\ messages' = messages /\ pc' = [pc EXCEPT ![w] = "persist"] /\ pc[w] = "send"
      /\ seen' = seen /\ batch' = batch
      /\ answered' \subseteq answered \cup Held(w)
  BY DEF Send, GoTo, durable, frame
<1>2. TypeOK /\ pc \in [Workers -> Phases] /\ Flushes \subseteq Workers /\ messages \in Seq(Row)
  BY DEF Shape, TypeOK, FlowOK, DataOK, Workers
<1>3. pc[w] \in Running
  BY <1>1 DEF Running, TurnPhases
<1>4. \A v \in Workers : v # w => pc'[v] \notin Running /\ Held(v) = {}
  BY <1>1, <1>2, <1>3, SoleHolder
<1>5. pc'[w] = "persist" /\ Sent(w)'
  BY <1>1, <1>2 DEF Sent
<1>6. \A v : Held(v)' = Held(v)
  BY <1>1 DEF Held
<1>7. AnsweredOK'
  <2>1. Held(w) \subseteq 1..Len(messages) /\ \A i \in Held(w) : messages[i].claim # "free"
    BY <1>2, RowSets, WorkersAssumption
  <2> QED
    BY <1>1, <2>1 DEF AnswersInv, AnsweredOK
<1>8. HeldOK'
  BY <1>4, <1>5, <1>6 DEF HeldOK
<1>9. FreshOK'
  <2>1. TurnPhases \cup {"claim"} \subseteq Running
    BY DEF Running
  <2> QED
    BY <1>2, <1>4, <1>5, <2>1 DEF FreshOK
<1> QED
  BY <1>7, <1>8, <1>9 DEF AnswersInv

\* The turn writes its row, and will not give its bubbles back.
LEMMA AnswersPersist ==
  ASSUME TypeOK, AnswersInv, NEW w \in Workers, Persist(w)
  PROVE  AnswersInv'
<1> DEFINE k == IF plan[w] \in {"fallback", "note"} THEN plan[w] ELSE "bot"
           r == [kind |-> k, claim |-> "free"]
           v == IF w \in Forced /\ plan[w] = "note" THEN "failed" ELSE "completed"
<1>1. messages' = Append(messages, r) /\ r \in Row /\ r.claim \notin Workers
  BY WorkersAssumption DEF Persist, NewRow, Row, Kinds, Claims
<1>2. /\ pc' = [pc EXCEPT ![w] = "finish"] /\ verdict' = [verdict EXCEPT ![w] = v]
      /\ UNCHANGED <<batch, seen, answered>>
  BY DEF Persist, Return, GoTo, ghosts
<1>3. verdict \in [Workers -> Verdicts] /\ v \notin {"released", "deferred"}
  BY DEF TypeOK, FrameOK
<1> HIDE DEF r, v
<1>4. AnsweredOK' /\ \A u \in Workers : Held(u)' = Held(u)
  BY <1>1, <1>2, AnswersRow
<1>5. verdict'[w] \notin {"released", "deferred"} /\ \A u \in Workers : u # w => verdict'[u] = verdict[u]
  BY <1>2, <1>3
<1>6. "finish" \notin TurnPhases
  BY DEF TurnPhases
<1> QED
  BY <1>2, <1>4, <1>5, <1>6, AnswersMove

\* The turn ends, and gives up the rows it holds.
LEMMA AnswersEnd ==
  ASSUME TypeOK, AnswersInv, NEW w \in Workers,
         (w \in Flushes /\ Finish(w)) \/ FinishForced(w) \/ Throw(w)
  PROVE  AnswersInv'
<1>1. PICK c \in {"free", "skipped", "done"} :
        /\ messages' = SetClaim(Held(w), c) /\ answered' \subseteq answered
        /\ c = "free" => Held(w) \cap answered' = {}
  <2>1. CASE w \in Flushes /\ Finish(w)
    <3>1. ClaimAfter(verdict[w]) = "free" => Held(w) \cap answered = {}
      BY <2>1 DEF AnswersInv, HeldOK, Sent, ClaimAfter, Finish
    <3> QED
      BY <2>1, <3>1, ClaimNames DEF Finish
  <2>2. CASE FinishForced(w)
    BY <2>2 DEF FinishForced, ghosts
  <2>3. CASE Throw(w)
    <3>1. ASSUME w \in Flushes,
                 NEW c \in {"done", IF pc[w] = "finish" THEN ClaimAfter(verdict[w]) ELSE "free"},
                 messages' = SetClaim(Held(w), c),
                 answered' = IF c = "free" THEN answered \ Held(w) ELSE answered
          PROVE  \E d \in {"free", "skipped", "done"} :
                   /\ messages' = SetClaim(Held(w), d) /\ answered' \subseteq answered
                   /\ d = "free" => Held(w) \cap answered' = {}
      <4>1. c \in {"free", "skipped", "done"}
        BY ClaimNames
      <4> QED
        BY <3>1, <4>1
    <3> QED
      BY <2>3, <3>1 DEF Throw
  <2> QED
    BY <2>1, <2>2, <2>3
<1>2. c \in Claims /\ c \notin Workers
  BY ClaimNames, WorkersAssumption
<1>3. AnsweredOK' /\ \A v \in Workers : Held(v)' = Held(v) \ Held(w)
  BY <1>1, <1>2, AnswersClaim
<1>4. PICK ph \in {"load", "settle", "idle"} : pc' = [pc EXCEPT ![w] = ph]
  BY DEF Finish, FinishForced, Throw, GoTo
<1>5. \A v \in Workers : v # w => verdict'[v] = verdict[v] /\ batch'[v] = batch[v] /\ seen'[v] = seen[v]
  BY DEF Finish, FinishForced, Throw, Forget, TypeOK, FrameOK
<1>6. ph \notin TurnPhases \cup {"claim"} /\ Held(w)' = {}
  BY <1>3 DEF TurnPhases
<1> QED
  BY <1>1, <1>3, <1>4, <1>5, <1>6, AnswersMove

\* Every step keeps what is answered claimed, and unanswered what a turn will answer.
LEMMA AnswersStep ==
  ASSUME Shape, ClaimsOK, AnswersInv, [Next]_vars
  PROVE  AnswersInv'
<1> USE DEF durable, coalesce, locals, frame, others, ghosts
<1>0. TypeOK /\ pc \in [Workers -> Phases] /\ verdict \in [Workers -> Verdicts]
      /\ batch \in [Workers -> SUBSET Nat] /\ seen \in [Workers -> SUBSET Nat]
  BY DEF Shape, TypeOK, FlowOK, FrameOK
<1>1. ASSUME NEW w \in Workers, pc[w] \in TurnPhases \ {"persist"}, NEW ph,
             ph \in TurnPhases \cup {"finish"}, pc' = [pc EXCEPT ![w] = ph],
             UNCHANGED <<messages, answered, seen, batch>>,
             \A v \in Workers : v # w => verdict'[v] = verdict[v]
      PROVE  AnswersInv'
  <2>1. ~Sent(w) /\ ph # "claim"
    BY <1>1 DEF Sent, TurnPhases
  <2> QED
    BY <1>0, <1>1, <2>1, AnswersTurn
<1>2. ASSUME NEW w \in Workers, TurnStep(w) PROVE AnswersInv'
  <2>1. CASE BeginTurn(w)
    <3>1. ~Sent(w)
      BY <2>1 DEF BeginTurn, Sent
    <3> QED
      BY <1>0, <2>1, <3>1, AnswersTurn, WorkersAssumption DEF BeginTurn, GoTo, TurnPhases
  <2>2. CASE ReadConversation(w)
    BY <1>0, <1>1, <2>2 DEF ReadConversation, Return, GoTo, TurnPhases
  <2>3. CASE HandoffExpired(w)
    BY <1>0, <1>1, <2>3 DEF HandoffExpired, GoTo, TurnPhases
  <2>4. CASE HandoffAutoReturn(w)
    BY <1>0, <1>1, <2>4 DEF HandoffAutoReturn, GoTo, TurnPhases
  <2>5. CASE AbsorbLateInbound(w)
    BY <1>0, <2>5, AnswersAbsorb
  <2>6. CASE AskClaude(w)
    BY <1>0, <1>1, <2>6 DEF AskClaude, GoTo, TurnPhases
  <2>7. CASE ClaudeAnswers(w)
    BY <1>0, <1>1, <2>7 DEF ClaudeAnswers, GoTo, TurnPhases
  <2>8. CASE Guard(w)
    BY <1>0, <1>1, <2>8 DEF Guard, AfterGuard, Return, GoTo, TurnPhases
  <2>9. CASE OrderGate(w)
    BY <1>0, <1>1, <2>9 DEF OrderGate, Return, GoTo, TurnPhases
  <2>10. CASE ChooseOutbound(w)
    BY <1>0, <1>1, <2>10 DEF ChooseOutbound, Return, GoTo, TurnPhases
  <2>11. CASE Takeover(w)
    BY <1>0, <1>1, <2>11 DEF Takeover, GoTo, TurnPhases
  <2>12. CASE Send(w)
    BY <2>12, AnswersSend
  <2>13. CASE Persist(w)
    BY <1>0, <2>13, AnswersPersist
  <2>14. CASE ConversationGone(w)
    BY <1>0, <1>1, <2>14 DEF ConversationGone, Return, GoTo, TurnPhases
  <2> QED
    BY <1>2, <2>1, <2>2, <2>3, <2>4, <2>5, <2>6, <2>7, <2>8, <2>9, <2>10, <2>11, <2>12, <2>13, <2>14
    DEF TurnStep
<1>3. ASSUME NEW f \in Flushes, LoadPending(f) PROVE AnswersInv'
  <2>1. /\ pc[f] = "load" /\ seen' = [seen EXCEPT ![f] = Oldest(Pending(since[f]), MaxBatch)]
        /\ UNCHANGED <<messages, answered, batch, verdict>> /\ f \in Workers
    BY <1>3 DEF LoadPending, Workers
  <2>2. PICK ph \in {"settle", "claim"} : pc' = [pc EXCEPT ![f] = ph]
    BY <1>3 DEF LoadPending, GoTo
  <2>3. seen'[f] \cap answered = {} /\ \A v \in Workers : v # f => seen'[v] = seen[v]
    BY <1>0, <2>1, PendingFresh
  <2>4. Held(f) \cap answered = {}
    BY <2>1 DEF AnswersInv, HeldOK, Sent
  <2>5. AnsweredOK' /\ \A v \in Workers : Held(v)' = Held(v)
    BY <2>1 DEF AnswersInv, AnsweredOK, Held
  <2> QED
    BY <1>0, <2>1, <2>2, <2>3, <2>4, <2>5, AnswersMove DEF TurnPhases
<1>4. ASSUME NEW f \in Flushes, LateCheck(f) PROVE AnswersInv'
  BY <1>0, <1>1, <1>4 DEF LateCheck, Return, GoTo, TurnPhases, Workers
<1>5. ASSUME NEW f \in Flushes, Settle(f) \/ Rearm(f) \/ DrainThrows(f) \/ RearmThrows(f)
      PROVE  AnswersInv'
  <2>1. f \in Workers /\ messages' = messages /\ answered' = answered /\ ~Sent(f)
    BY <1>5 DEF Settle, Rearm, DrainThrows, RearmThrows, Sent, Workers
  <2>2. PICK ph \in {"settle", "rearm", "queued", "idle"} : pc' = [pc EXCEPT ![f] = ph]
    BY <1>5 DEF Settle, Rearm, DrainThrows, RearmThrows, GoTo
  <2>3. \A v \in Workers : v # f => verdict'[v] = verdict[v] /\ batch'[v] = batch[v] /\ seen'[v] = seen[v]
    BY <1>0, <1>5 DEF Settle, Rearm, DrainThrows, RearmThrows, Forget
  <2>4. AnsweredOK' /\ \A v \in Workers : Held(v)' = Held(v)
    BY <2>1 DEF AnswersInv, AnsweredOK, Held
  <2>5. Held(f) \cap answered = {}
    BY <2>1 DEF AnswersInv, HeldOK
  <2> QED
    BY <1>0, <2>1, <2>2, <2>3, <2>4, <2>5, AnswersMove DEF TurnPhases
<1>6. ASSUME NEW w \in Forced, ForceTurn(w) PROVE AnswersInv'
  <2>1. w \in Workers /\ w \notin Flushes /\ pc[w] = "idle" /\ pc' = [pc EXCEPT ![w] = "queued"]
        /\ UNCHANGED <<messages, answered, seen, verdict>>
    BY <1>6, WorkersAssumption DEF ForceTurn, Workers, GoTo
  <2>2. \A v \in Workers : v # w => batch'[v] = batch[v]
    BY <1>0, <1>6 DEF ForceTurn
  <2>3. Held(w) \cap answered = {}
    BY <2>1 DEF AnswersInv, HeldOK, Sent
  <2>4. AnsweredOK' /\ \A v \in Workers : Held(v)' = Held(v)
    BY <2>1 DEF AnswersInv, AnsweredOK, Held
  <2> QED
    BY <1>0, <2>1, <2>2, <2>3, <2>4, AnswersMove
<1>7. ASSUME NEW w \in Workers, Throw(w) PROVE AnswersInv'
  BY <1>0, <1>7, AnswersEnd
<1>8. ASSUME NEW w \in Workers, WorkerStep(w) PROVE AnswersInv'
  <2>1. CASE FinishForced(w)
    BY <1>0, <2>1, AnswersEnd
  <2>2. CASE w \in Flushes /\ FlushStep(w)
    <3>1. Finish(w) => AnswersInv'
      BY <1>0, <2>2, AnswersEnd
    <3>2. ClaimBatch(w) => AnswersInv'
      BY <1>0, <2>2, AnswersClaimed
    <3> QED
      BY <1>3, <1>4, <1>5, <2>2, <3>1, <3>2 DEF FlushStep
  <2> QED
    BY <1>2, <1>8, <2>1, <2>2 DEF WorkerStep
<1> QED
  BY <1>5, <1>6, <1>7, <1>8, AnswersOutside DEF Next, Environment

\* NoDuplicateReply: what a flush is about to answer is not answered already,
\* unless the retry monitor or a failed turn gave it back.
THEOREM NoDuplicateTheorem == Spec => []NoDuplicateReply
<1>1. Init => AnswersInv
  BY DEF Init, AnswersInv, AnsweredOK, HeldOK, FreshOK, TurnPhases, Workers
<1>2. Shape /\ ClaimsOK /\ AnswersInv /\ [Next]_vars => AnswersInv'
  BY AnswersStep
<1>3. AnswersInv => NoDuplicateReply
  BY DEF AnswersInv, FreshOK, NoDuplicateReply, TurnPhases
<1> QED
  BY <1>1, <1>2, <1>3, ShapeInvariant, ClaimsInvariant, PTL DEF Spec

-----------------------------------------------------------------------------
(* A reply saw every bubble.  In a quiet conversation - an older one, whose *)
(* bubbles are settled, with no reactions, no retries, nothing that hands   *)
(* it back to the bot and a client who does not vanish - the rows stay in   *)
(* line: what is settled lies below what the running turn holds, and that   *)
(* below what is free.                                                      *)

Quiet ==
  /\ ~RetryEnabled
  /\ \A e \in {"reaction", "toggle", "expire", "gone"} : Budget[e] = 0
  /\ \A i \in 1..Len(History) : History[i].kind \in Inbound => History[i].claim # "free"
  /\ \E i \in 1..Len(History) : History[i].kind \in Inbound

StillOK ==
  /\ retry = "idle"
  /\ \A e \in {"reaction", "toggle", "expire", "gone"} : budget[e] = 0
  /\ \A w \in Workers : pc[w] # "return" /\ verdict[w] # "released"

\* Some bubble is settled, and reactions are.
KindsOK ==
  /\ Settled # {}
  /\ \A i \in 1..Len(messages) :
       messages[i].kind = "reaction" => messages[i].claim \in {"skipped", "done"}

\* What a call notes of the clock is not ahead of it.
ClockOK ==
  \A w \in Workers : \A n \in {since[w], gate[w], started[w]} : n <= Len(messages)

\* The budget that is spent stays spent.
LEMMA StillSpend ==
  ASSUME TypeOK, StillOK, budget' = budget \/ \E e \in Events : Spend(e)
  PROVE  \A e \in {"reaction", "toggle", "expire", "gone"} : budget'[e] = 0
BY DEF TypeOK, DataOK, StillOK, Spend, Events

\* A call that moves, elsewhere than to the return of a handoff.
LEMMA StillMove ==
  ASSUME TypeOK, StillOK, budget' = budget \/ \E e \in Events : Spend(e),
         retry' = "idle", NEW w \in Workers, NEW ph, ph # "return", pc' = [pc EXCEPT ![w] = ph],
         \A v \in Workers : verdict'[v] \in {verdict[v]} \cup (Verdicts \ {"released"})
  PROVE  StillOK'
<1>1. \A v \in Workers : pc'[v] # "return" /\ verdict'[v] # "released"
  BY DEF TypeOK, FlowOK, StillOK
<1> QED
  BY <1>1, StillSpend DEF StillOK

\* What does not happen in a quiet conversation never does.
LEMMA StillStep ==
  ASSUME Quiet, TypeOK, StillOK, [Next]_vars
  PROVE  StillOK'
<1> USE DEF durable, coalesce, locals, frame, others, ghosts
<1>0. pc \in [Workers -> Phases] /\ Flushes \subseteq Workers /\ Forced \subseteq Workers
      /\ verdict \in [Workers -> Verdicts] /\ retry = "idle"
  BY DEF TypeOK, FlowOK, FrameOK, StillOK, Workers
<1>1. CASE UNCHANGED <<pc, retry, verdict>> /\ (budget' = budget \/ \E e \in Events : Spend(e))
  BY <1>1, StillSpend DEF StillOK
<1>2. ClientMessage \/ ReactionEvent \/ ManagerReads \/ ToggleBot \/ ManagerPersists
      \/ ManagerTakesOver \/ vars' = vars \/ (\E i \in webhooks : WebhookEnds(i)) =>
        UNCHANGED <<pc, retry, verdict>> /\ (budget' = budget \/ \E e \in Events : Spend(e))
  BY DEF ClientMessage, ReactionEvent, ManagerReads, ToggleBot, ManagerPersists,
         ManagerTakesOver, WebhookEnds, vars, Events
<1>3. CASE Crash
  <2>1. \A w \in Workers : pc'[w] = "idle" /\ verdict'[w] = "completed"
    BY <1>3 DEF Crash
  <2>2. retry' = "idle" /\ \E e \in Events : Spend(e)
    BY <1>3 DEF Crash, Events
  <2> QED
    BY <2>1, <2>2, StillSpend DEF StillOK
<1>4. ASSUME NEW f \in Flushes, StartFlush(f), UNCHANGED <<retry, budget, verdict>> PROVE StillOK'
  BY <1>0, <1>4, StillMove DEF StartFlush, GoTo
<1>5. ASSUME NEW i \in webhooks, ScheduleInboundBotTurn(i) PROVE StillOK'
  BY <1>1, <1>4, <1>5 DEF ScheduleInboundBotTurn
<1>6. ASSUME NEW f \in Flushes, FireTimer(f) PROVE StillOK'
  BY <1>4, <1>6 DEF FireTimer
<1>7. ~Retry
  BY DEF Retry, RetryEvaluate, RetryClear, RetryFlush, Quiet, StillOK
<1>8. ASSUME NEW w \in Forced, ForceTurn(w) PROVE StillOK'
  BY <1>0, <1>8, StillMove DEF ForceTurn, GoTo, Events
<1>9. ASSUME NEW w \in Workers, Throw(w) PROVE StillOK'
  <2>1. PICK ph \in {"settle", "idle"} : pc' = [pc EXCEPT ![w] = ph]
    BY <1>9 DEF Throw, GoTo
  <2>2. \A v \in Workers : verdict'[v] \in {verdict[v], "completed"}
    BY <1>0, <1>9 DEF Throw, Forget
  <2>3. retry' = retry /\ \E e \in Events : Spend(e)
    BY <1>9 DEF Throw, Events
  <2> QED
    BY <1>0, <2>1, <2>2, <2>3, StillMove DEF Verdicts
<1>13. ASSUME NEW f \in Flushes, DrainThrows(f) \/ RearmThrows(f) PROVE StillOK'
  <2>1. PICK ph \in {"settle", "idle"} : pc' = [pc EXCEPT ![f] = ph]
    BY <1>13 DEF DrainThrows, RearmThrows, GoTo
  <2>2. \A v \in Workers : verdict'[v] \in {verdict[v], "completed"}
    BY <1>0, <1>13 DEF DrainThrows, RearmThrows, Forget
  <2>3. retry' = "idle" /\ \E e \in Events : Spend(e)
    BY <1>0, <1>13 DEF DrainThrows, RearmThrows, Events
  <2> QED
    BY <1>0, <2>1, <2>2, <2>3, StillMove DEF Verdicts
<1>10. ASSUME NEW w \in Workers, TurnStep(w) PROVE StillOK'
  <2>1. ~HandoffExpired(w) /\ ~ConversationGone(w)
    BY DEF HandoffExpired, ConversationGone, Spend, StillOK
  <2>2. PICK ph \in Phases : pc' = [pc EXCEPT ![w] = ph] /\ ph # "return"
    BY <1>10, <2>1 DEF TurnStep, BeginTurn, ReadConversation, HandoffAutoReturn, AbsorbLateInbound,
         AskClaude, ClaudeAnswers, Guard, AfterGuard, OrderGate, ChooseOutbound, Takeover, Send,
         Persist, Return, GoTo, Phases, Running, TurnPhases
  <2>3. retry' = retry /\ budget' = budget
    BY <1>10, <2>1 DEF TurnStep, BeginTurn, ReadConversation, HandoffAutoReturn, AbsorbLateInbound,
         AskClaude, ClaudeAnswers, Guard, OrderGate, ChooseOutbound, Takeover, Send, Persist
  <2>4. \A v \in Workers : verdict'[v] \in {verdict[v], "completed", "skipped", "failed"}
    BY <1>0, <1>10, <2>1 DEF TurnStep, BeginTurn, ReadConversation, HandoffAutoReturn, AbsorbLateInbound,
         AskClaude, ClaudeAnswers, Guard, OrderGate, ChooseOutbound, Takeover, Send, Persist, Return
  <2> QED
    BY <1>0, <2>2, <2>3, <2>4, StillMove DEF Verdicts
<1>11. ASSUME NEW w \in Workers, FinishForced(w) PROVE StillOK'
  <2>1. \A v \in Workers : verdict'[v] \in {verdict[v], "completed"}
    BY <1>0, <1>11 DEF FinishForced, Forget
  <2> QED
    BY <1>0, <1>11, <2>1, StillMove DEF FinishForced, GoTo, Verdicts
<1>12. ASSUME NEW f \in Flushes, FlushStep(f) PROVE StillOK'
  <2>1. PICK ph \in Phases : pc' = [pc EXCEPT ![f] = ph] /\ ph # "return"
    BY <1>12 DEF FlushStep, LoadPending, ClaimBatch, LateCheck, Finish, Settle, Rearm, Return, GoTo,
         Phases, Running, TurnPhases
  <2>2. retry' = retry /\ budget' = budget
    BY <1>0, <1>12 DEF FlushStep, LoadPending, ClaimBatch, LateCheck, Finish, Settle, Rearm, StillOK
  <2>3. \A v \in Workers : verdict'[v] \in {verdict[v], "completed", "deferred"}
    BY <1>0, <1>12 DEF FlushStep, LoadPending, ClaimBatch, LateCheck, Finish, Settle, Rearm, Return, Forget
  <2> QED
    BY <1>0, <2>1, <2>2, <2>3, StillMove DEF Verdicts
<1> QED
  BY <1>1, <1>2, <1>3, <1>5, <1>6, <1>7, <1>8, <1>9, <1>10, <1>11, <1>12, <1>13
  DEF Next, Environment, Schedule, Timer, Manager, WorkerStep

\* What a step does to the rows, with no retry and no reaction.
Appends == \E r \in Row : /\ r.claim = "free" /\ r.kind # "reaction"
                          /\ messages' = Append(messages, r)
Takes   == \E w \in Workers : \E S \in SUBSET Unclaimed : messages' = SetClaim(S, w)
GivesUp == \E w \in Workers : \E c \in {"free", "skipped", "done"} :
             messages' = SetClaim(Held(w), c)
Orphans == messages' = SetClaim(UNION {Held(w) : w \in Workers}, "done")

LEMMA RowMoves ==
  ASSUME TypeOK, StillOK, SeenOK, [Next]_vars
  PROVE  messages' = messages \/ Appends \/ Takes \/ GivesUp \/ Orphans
<1> USE DEF durable, coalesce, locals, frame, others, ghosts
<1>1. CASE ClientMessage
  BY <1>1 DEF ClientMessage, NewRow, Row, Kinds, Claims, Appends
<1>2. CASE ManagerPersists
  BY <1>2 DEF ManagerPersists, NewRow, Row, Kinds, Claims, Appends
<1>3. ASSUME NEW w \in Workers, Persist(w) PROVE Appends
  BY <1>3 DEF Persist, NewRow, Row, Kinds, Claims, Appends
<1>4. CASE Crash
  BY <1>4 DEF Crash, Orphans
<1>5. ASSUME NEW w \in Workers, AbsorbLateInbound(w) PROVE Takes
  <2>1. Oldest(Pending(0), MaxBatch) \subseteq Unclaimed
    BY DEF Oldest, Pending, Unclaimed
  <2> QED
    BY <1>5, <2>1 DEF AbsorbLateInbound, Takes
<1>6. ASSUME NEW f \in Flushes, ClaimBatch(f) PROVE Takes
  <2>1. {i \in seen[f] : messages[i].claim = "free"} \subseteq Unclaimed
    BY <1>6 DEF ClaimBatch, SeenOK
  <2> QED
    BY <1>6, <2>1 DEF ClaimBatch, Takes, Workers
<1>7. ASSUME NEW w \in Workers, Throw(w) \/ FinishForced(w) \/ (w \in Flushes /\ Finish(w))
      PROVE GivesUp
  BY <1>7, ClaimNames DEF Throw, FinishForced, Finish, GivesUp
<1>8. ReactionEvent \/ RetryClear => FALSE
  BY DEF ReactionEvent, RetryClear, Spend, StillOK
<1>9. ASSUME NEW w \in Workers, WorkerStep(w)
      PROVE  messages' = messages \/ Appends \/ Takes \/ GivesUp
  <2>1. TurnStep(w) => messages' = messages \/ Appends \/ Takes
    BY <1>3, <1>5 DEF TurnStep, BeginTurn, ReadConversation, ConversationGone, HandoffExpired, HandoffAutoReturn,
         AskClaude, ClaudeAnswers, Guard, OrderGate, ChooseOutbound, Takeover, Send
  <2>2. FlushStep(w) /\ w \in Flushes => messages' = messages \/ Takes \/ GivesUp
    BY <1>6, <1>7 DEF FlushStep, LoadPending, LateCheck, Settle, Rearm
  <2> QED
    BY <1>7, <1>9, <2>1, <2>2 DEF WorkerStep
<1>10. ASSUME NEW w \in Forced, ForceTurn(w) PROVE messages' = messages
  BY <1>10 DEF ForceTurn
<1>11. ManagerReads \/ ToggleBot \/ Schedule \/ Timer \/ RetryEvaluate \/ ManagerTakesOver
       \/ vars' = vars \/ (\E f \in Flushes : RetryFlush(f) \/ DrainThrows(f) \/ RearmThrows(f))
       \/ (\E i \in webhooks : WebhookEnds(i)) => messages' = messages
  BY DEF ManagerReads, ToggleBot, Schedule, ScheduleInboundBotTurn, Timer, FireTimer, RetryEvaluate,
         ManagerTakesOver, RetryFlush, DrainThrows, RearmThrows, WebhookEnds, vars
<1> QED
  BY <1>1, <1>2, <1>4, <1>7, <1>8, <1>9, <1>10, <1>11 DEF Next, Environment, Retry, Manager

\* Settled rows stay settled, and reactions too.
LEMMA KindsStep ==
  ASSUME TypeOK, StillOK, SeenOK, KindsOK, [Next]_vars
  PROVE  KindsOK'
<1>0. messages \in Seq(Row) /\ Len(messages) \in Nat
  BY LenProperties DEF TypeOK, DataOK
<1>1. CASE messages' = messages
  BY <1>1 DEF KindsOK, Settled, Claimed, Rows
<1>2. CASE Appends
  <2>1. PICK r \in Row : r.claim = "free" /\ r.kind # "reaction" /\ messages' = Append(messages, r)
    BY <1>2 DEF Appends
  <2>2. /\ messages' \in Seq(Row) /\ Len(messages') = Len(messages) + 1
        /\ messages'[Len(messages) + 1] = r
        /\ \A i \in 1..Len(messages) : messages'[i] = messages[i]
    BY <1>0, <2>1, NewRowType
  <2>3. Settled \subseteq Settled'
    <3>1. DOMAIN messages = 1..Len(messages) /\ DOMAIN messages' = 1..Len(messages')
      BY <1>0, <2>2, LenProperties
    <3> QED
      BY <1>0, <2>2, <3>1 DEF Settled, Claimed, Rows
  <2>4. \A i \in 1..Len(messages') : i \in 1..Len(messages) \/ i = Len(messages) + 1
    BY <1>0, <2>2
  <2>5. \A i \in 1..Len(messages') : messages'[i].kind = "reaction" => messages'[i].claim \in {"skipped", "done"}
    BY <2>1, <2>2, <2>4 DEF KindsOK
  <2> QED
    BY <2>3, <2>5 DEF KindsOK
<1>3. ASSUME NEW S, NEW c \in Claims, messages' = SetClaim(S, c),
             c \in {"skipped", "done"} \/ \A i \in S : messages[i].claim \notin {"skipped", "done"}
      PROVE  KindsOK'
  <2>1. /\ Len(messages') = Len(messages) /\ messages' \in Seq(Row)
        /\ \A i \in 1..Len(messages) : messages'[i].claim = IF i \in S THEN c ELSE messages[i].claim
        /\ \A K : Rows(K)' = Rows(K)
    BY <1>0, <1>3, SetClaimType, SetClaimClaim, SetClaimSets
  <2>2. \A i \in 1..Len(messages) : messages[i].claim \in {"skipped", "done"} =>
                                       messages'[i].claim \in {"skipped", "done"}
    BY <1>3, <2>1
  <2>3. \A i \in 1..Len(messages) : messages[i] \in Row
    BY <1>0, ElementOfSeq
  <2>4. \A i \in Settled : i \in 1..Len(messages) /\ messages[i].claim \in {"skipped", "done"}
    BY <1>0, <2>3, RowSets DEF Settled, Claimed, Row, Claims
  <2>5. \A i \in Rows(Inbound) : messages'[i].claim \in {"skipped", "done"} => i \in Settled'
    BY <2>1, WorkersAssumption DEF Settled, Claimed
  <2>6. Settled \subseteq Settled'
    BY <2>2, <2>4, <2>5 DEF Settled, Claimed
  <2>7. \A i \in 1..Len(messages) : messages'[i].kind = "reaction" => messages[i].kind = "reaction"
    <3>1. Rows({"reaction"}) = {i \in 1..Len(messages) : messages[i].kind \in {"reaction"}}
      BY <1>0, RowSets
    <3>2. Rows({"reaction"})' = {i \in 1..Len(messages') : messages'[i].kind \in {"reaction"}}
      BY <2>1, LenProperties DEF Rows
    <3> QED
      BY <2>1, <3>1, <3>2
  <2> QED
    BY <2>1, <2>2, <2>6, <2>7 DEF KindsOK
<1>4. CASE Takes
  BY <1>3, <1>4, ClaimNames DEF Takes, Unclaimed
<1>5. CASE GivesUp
  <2>1. PICK w \in Workers, c \in {"free", "skipped", "done"} : messages' = SetClaim(Held(w), c)
    BY <1>5 DEF GivesUp
  <2>2. c \in Claims /\ \A i \in Held(w) : messages[i].claim \notin {"skipped", "done"}
    BY ClaimNames, WorkersAssumption DEF Held
  <2> QED
    BY <1>3, <2>1, <2>2
<1>6. CASE Orphans
  BY <1>3, <1>6, ClaimNames DEF Orphans
<1> QED
  BY <1>1, <1>2, <1>4, <1>5, <1>6, RowMoves

\* No row is ever lost.
LEMMA RowsStay ==
  ASSUME TypeOK, StillOK, SeenOK, [Next]_vars
  PROVE  /\ Len(messages') \in Nat /\ Len(messages) <= Len(messages')
         /\ \A K : Rows(K) \subseteq Rows(K)'
<1>0. messages \in Seq(Row) /\ Len(messages) \in Nat
  BY LenProperties DEF TypeOK, DataOK
<1>1. ASSUME Appends
      PROVE  Len(messages') = Len(messages) + 1 /\ \A K : Rows(K) \subseteq Rows(K)'
  <2>1. /\ messages' \in Seq(Row) /\ Len(messages') = Len(messages) + 1
        /\ \A i \in 1..Len(messages) : messages'[i] = messages[i]
    BY <1>0, <1>1, NewRowType DEF Appends
  <2>2. DOMAIN messages = 1..Len(messages) /\ DOMAIN messages' = 1..Len(messages')
    BY <1>0, <2>1, LenProperties
  <2> QED
    BY <1>0, <2>1, <2>2 DEF Rows
<1>2. ASSUME NEW S, NEW c \in Claims, messages' = SetClaim(S, c)
      PROVE  Len(messages') = Len(messages) /\ \A K : Rows(K) \subseteq Rows(K)'
  BY <1>0, <1>2, SetClaimType, SetClaimSets
<1>3. Takes \/ GivesUp \/ Orphans =>
        Len(messages') = Len(messages) /\ \A K : Rows(K) \subseteq Rows(K)'
  BY <1>2, ClaimNames DEF Takes, GivesUp, Orphans
<1>4. messages' = messages => Len(messages') = Len(messages) /\ \A K : Rows(K) \subseteq Rows(K)'
  BY DEF Rows
<1> QED
  BY <1>0, <1>1, <1>3, <1>4, RowMoves

\* The clock only goes forward.
LEMMA ClockStep ==
  ASSUME TypeOK, StillOK, SeenOK, ClockOK, [Next]_vars
  PROVE  ClockOK'
<1> USE DEF durable, coalesce, locals, frame, others, ghosts
<1> DEFINE Noted(v) == /\ since'[v] \in {since[v], gate[v], 0}
                      /\ gate'[v] \in {gate[v], Len(messages), 0}
                      /\ started'[v] \in {started[v], Len(messages), 0}
<1>1. /\ since \in [Workers -> Nat] /\ gate \in [Workers -> Nat] /\ started \in [Workers -> Nat]
      /\ Flushes \subseteq Workers /\ Forced \subseteq Workers
      /\ Len(messages) \in Nat
  BY LenProperties DEF TypeOK, DataOK, FrameOK, Workers
<1>2. ASSUME \A v \in Workers : Noted(v) PROVE ClockOK'
  <2>1. Len(messages') \in Nat /\ Len(messages) <= Len(messages')
    BY RowsStay
  <2>2. \A v \in Workers : \A n \in {since[v], gate[v], started[v], Len(messages), 0} :
          n \in Nat /\ n <= Len(messages)
    BY <1>1 DEF ClockOK
  <2>3. \A v \in Workers : \A n \in {since'[v], gate'[v], started'[v]} :
          n \in Nat /\ n <= Len(messages)
    BY <1>2, <2>2
  <2> QED
    BY <1>1, <2>1, <2>3 DEF ClockOK
<1>3. UNCHANGED <<since, gate, started>> => \A v \in Workers : Noted(v)
  OBVIOUS
<1>4. ClientMessage \/ ReactionEvent \/ ManagerReads \/ ToggleBot \/ Schedule \/ Timer \/ Retry
      \/ Manager \/ vars' = vars \/ (\E i \in webhooks : WebhookEnds(i)) =>
        UNCHANGED <<since, gate, started>>
  BY DEF ClientMessage, ReactionEvent, ManagerReads, ToggleBot, Schedule, ScheduleInboundBotTurn,
         Timer, FireTimer, Retry, RetryEvaluate, RetryClear, RetryFlush, Manager, ManagerPersists,
         ManagerTakesOver, WebhookEnds, vars
<1>5. Crash => \A v \in Workers : Noted(v)
  BY DEF Crash
<1>6. ASSUME NEW w \in Workers, Throw(w) \/ FinishForced(w) \/ (w \in Flushes /\ Settle(w))
      PROVE  \A v \in Workers : Noted(v)
  BY <1>1, <1>6 DEF Throw, FinishForced, Settle, Forget
<1>7. ASSUME NEW w \in Forced, ForceTurn(w) PROVE UNCHANGED <<since, gate, started>>
  BY <1>7 DEF ForceTurn
<1>8. ASSUME NEW w \in Workers, TurnStep(w) PROVE \A v \in Workers : Noted(v)
  <2>1. CASE AskClaude(w)
    BY <1>1, <2>1 DEF AskClaude
  <2>2. CASE ~AskClaude(w)
    BY <1>3, <1>8, <2>2 DEF TurnStep, BeginTurn, ReadConversation, ConversationGone, HandoffExpired, HandoffAutoReturn,
       AbsorbLateInbound, ClaudeAnswers, Guard, OrderGate, ChooseOutbound, Takeover, Send, Persist
  <2> QED
    BY <2>1, <2>2
<1>9. ASSUME NEW f \in Flushes, FlushStep(f) PROVE \A v \in Workers : Noted(v)
  <2>1. CASE Finish(f)
    BY <1>1, <2>1 DEF Finish
  <2>2. CASE ClaimBatch(f)
    BY <1>1, <2>2 DEF ClaimBatch
  <2>3. CASE LoadPending(f) \/ LateCheck(f) \/ Rearm(f)
    BY <1>3, <2>3 DEF LoadPending, LateCheck, Rearm
  <2>4. CASE Settle(f)
    BY <1>1, <1>6, <2>4
  <2> QED
    BY <1>9, <2>1, <2>2, <2>3, <2>4 DEF FlushStep
<1>10. ASSUME NEW f \in Flushes, DrainThrows(f) \/ RearmThrows(f)
       PROVE  \A v \in Workers : Noted(v)
  BY <1>1, <1>10 DEF DrainThrows, RearmThrows, Forget
<1> QED
  BY <1>2, <1>3, <1>4, <1>5, <1>6, <1>7, <1>8, <1>9, <1>10 DEF Next, Environment, WorkerStep

\* The text Claude answers has every bubble the turn holds; a turn that reads
\* the conversation has one, and the plan decides where a turn goes.
Text(f) ==
  /\ pc[f] \in TurnPhases => Held(f) \subseteq batch[f]
  /\ pc[f] = "read" => Rows({"client"}) \cap batch[f] # {}
  /\ pc[f] = "takeover" => plan[f] = "handoff"
  /\ pc[f] = "order" => plan[f] = "order"

TextOK == \A f \in Flushes : Text(f)

\* A call moves; those that do not keep their text.
LEMMA TextMove ==
  ASSUME TypeOK, TextOK, NEW w \in Workers, NEW ph, pc' = [pc EXCEPT ![w] = ph],
         \A v \in Workers : v # w => /\ batch'[v] = batch[v] /\ plan'[v] = plan[v]
                                     /\ Held(v)' \subseteq Held(v),
         \A K : Rows(K) \subseteq Rows(K)',
         w \in Flushes => Text(w)'
  PROVE  TextOK'
<1> SUFFICES ASSUME NEW f \in Flushes, f # w PROVE Text(f)'
  BY DEF TextOK
<1>1. f \in Workers /\ pc'[f] = pc[f]
  BY DEF TypeOK, FlowOK, Workers
<1> QED
  BY <1>1 DEF TextOK, Text

\* No row changes, and the call keeps its batch.
LEMMA TextTurn ==
  ASSUME TypeOK, TextOK, NEW w \in Workers, NEW ph, pc' = [pc EXCEPT ![w] = ph],
         messages' = messages, \A v \in Workers : v # w => batch'[v] = batch[v] /\ plan'[v] = plan[v],
         w \in Flushes => /\ ph \in TurnPhases \ {"read"}  => pc[w] \in TurnPhases /\ batch'[w] = batch[w]
                          /\ ph # "read"
                          /\ ph = "takeover" => plan'[w] = "handoff"
                          /\ ph = "order" => plan'[w] = "order"
  PROVE  TextOK'
<1>1. (\A v : Held(v)' = Held(v)) /\ \A K : Rows(K)' = Rows(K)
  BY DEF Held, Rows
<1>2. pc'[w] = ph
  BY DEF TypeOK, FlowOK
<1>3. w \in Flushes => Text(w)'
  BY <1>1, <1>2 DEF TextOK, Text
<1> QED
  BY <1>1, <1>3, TextMove

\* No call moves.
LEMMA TextKept ==
  ASSUME TextOK, UNCHANGED <<pc, plan>>, \A f \in Flushes : batch'[f] = batch[f],
         \A v \in Workers : Held(v)' \subseteq Held(v), \A K : Rows(K) \subseteq Rows(K)'
  PROVE  TextOK'
<1>1. Flushes \subseteq Workers
  BY DEF Workers
<1> QED
  BY <1>1 DEF TextOK, Text

\* A turn takes what came before Claude is asked.
LEMMA TextAbsorb ==
  ASSUME Shape, NoOverflow, TextOK, NEW w \in Workers, AbsorbLateInbound(w),
         \A K : Rows(K) \subseteq Rows(K)'
  PROVE  TextOK'
<1> DEFINE S == Oldest(Pending(0), MaxBatch)
           ph == IF pc[w] = "delay" THEN "prompt" ELSE "claude"
<1>1. TypeOK /\ messages \in Seq(Row) /\ pc \in [Workers -> Phases] /\ batch \in [Workers -> SUBSET Nat]
  BY DEF Shape, TypeOK, DataOK, FlowOK, FrameOK
<1>2. /\ messages' = SetClaim(S, w) /\ pc' = [pc EXCEPT ![w] = ph] /\ plan' = plan
      /\ batch' = [batch EXCEPT ![w] = IF S = {} THEN @ ELSE Oldest(Held(w) \cup S, MaxBatch)]
      /\ pc[w] \in {"delay", "prompt"}
  BY DEF AbsorbLateInbound, GoTo
<1>3. S = Pending(0) /\ Oldest(Held(w) \cup S, MaxBatch) = Held(w) \cup S
  <2>1. Oldest(Pending(0), MaxBatch) = {i \in Above(Claimed) : i > 0} /\ Pending(0) = Above(Claimed)
        /\ Oldest(Held(w) \cup Pending(0), MaxBatch) = Held(w) \cup Pending(0)
    BY <1>1, LoadAll
  <2>2. Above(Claimed) \subseteq 1..Len(messages) /\ Len(messages) \in Nat
    BY <1>1, RowSets DEF Above
  <2>3. \A i \in Above(Claimed) : i > 0
    BY <2>2
  <2> QED
    BY <2>1, <2>3
<1>4. w \in Claims /\ ph \in {"prompt", "claude"}
  BY ClaimNames
<1> HIDE DEF S, ph
<1>5. /\ Held(w)' = Held(w) \cup (S \cap 1..Len(messages))
      /\ \A v \in Workers : v # w => Held(v)' \subseteq Held(v)
  BY <1>1, <1>2, <1>4, SetClaimSets
<1>6. w \in Flushes => Text(w)'
  <2> SUFFICES ASSUME w \in Flushes PROVE Text(w)'
    OBVIOUS
  <2>1. Held(w) \subseteq batch[w]
    BY <1>2 DEF TextOK, Text, TurnPhases
  <2>2. Held(w)' \subseteq batch'[w]
    <3>1. CASE S = {}
      BY <1>1, <1>2, <1>5, <2>1, <3>1
    <3>2. CASE S # {}
      <4>1. batch'[w] = Held(w) \cup S
        BY <1>1, <1>2, <1>3, <3>2
      <4> QED
        BY <1>5, <4>1
    <3> QED
      BY <3>1, <3>2
  <2>3. pc'[w] = ph
    BY <1>1, <1>2
  <2> QED
    BY <1>4, <2>2, <2>3 DEF Text
<1> QED
  BY <1>1, <1>2, <1>5, <1>6, TextMove

\* A flush claims what it has loaded.
LEMMA TextClaim ==
  ASSUME Shape, ClaimsOK, SeenOK, KindsOK, TextOK, NEW f \in Flushes, ClaimBatch(f),
         \A K : Rows(K) \subseteq Rows(K)'
  PROVE  TextOK'
<1> DEFINE S == seen[f]
<1>1. TypeOK /\ messages \in Seq(Row) /\ pc \in [Workers -> Phases] /\ batch \in [Workers -> SUBSET Nat]
      /\ f \in Workers /\ f \in Claims
  BY ClaimNames DEF Shape, TypeOK, DataOK, FlowOK, FrameOK, Workers
<1>2. S \subseteq Unclaimed /\ S # {} /\ pc[f] = "claim"
  BY DEF ClaimBatch, SeenOK
<1>3. {i \in S : messages[i].claim = "free"} = S
  BY <1>2 DEF Unclaimed
<1>4. messages' = SetClaim(S, f) /\ pc' = [pc EXCEPT ![f] = "read"] /\ plan' = plan
      /\ batch' = [batch EXCEPT ![f] = S]
  BY <1>2, <1>3 DEF ClaimBatch, GoTo
<1>5. S \subseteq Rows({"client"})
  <2>1. \A i \in Unclaimed : messages[i].kind # "reaction"
    <3>1. Unclaimed \subseteq 1..Len(messages)
      BY <1>1, RowSets
    <3> QED
      BY <3>1 DEF KindsOK, Unclaimed
  <2> QED
    BY <1>2, <2>1 DEF Unclaimed, Rows, Inbound
<1>6. Held(f) = {}
  <2>1. pc[f] \in Running /\ pc[f] \notin Holding
    BY <1>2 DEF Running, Holding, TurnPhases
  <2> QED
    BY <1>1, <2>1, SoleHolder
<1> HIDE DEF S
<1>7. /\ Held(f)' = Held(f) \cup (S \cap 1..Len(messages))
      /\ \A v \in Workers : v # f => Held(v)' \subseteq Held(v)
  BY <1>1, <1>4, SetClaimSets
<1>8. pc'[f] = "read" /\ batch'[f] = S
  BY <1>1, <1>4
<1>9. Rows({"client"})' \cap batch'[f] # {}
  BY <1>2, <1>5, <1>8
<1>10. Text(f)'
  BY <1>6, <1>7, <1>8, <1>9 DEF Text
<1> QED
  BY <1>1, <1>4, <1>7, <1>10, TextMove

\* A turn returns, ends or throws.
LEMMA TextEnd ==
  ASSUME Shape, TextOK, NEW w \in Workers, \A K : Rows(K) \subseteq Rows(K)',
         Persist(w) \/ Throw(w) \/ FinishForced(w) \/ (w \in Flushes /\ Finish(w))
  PROVE  TextOK'
<1>1. TypeOK /\ messages \in Seq(Row) /\ pc \in [Workers -> Phases] /\ batch \in [Workers -> SUBSET Nat]
      /\ plan \in [Workers -> Plans \cup {"note"}]
  BY DEF Shape, TypeOK, DataOK, FlowOK, FrameOK
<1>2. PICK ph \in {"finish", "settle", "load", "idle"} : pc' = [pc EXCEPT ![w] = ph]
  BY DEF Persist, Throw, FinishForced, Finish, Return, GoTo
<1>3. \A v \in Workers : v # w => batch'[v] = batch[v] /\ plan'[v] = plan[v]
  BY <1>1 DEF Persist, Throw, FinishForced, Finish, Forget
<1>4. \A v \in Workers : Held(v)' \subseteq Held(v)
  <2>1. CASE Persist(w)
    <3>1. PICK r \in Row : r.claim \notin Workers /\ messages' = Append(messages, r)
      BY <2>1, WorkersAssumption DEF Persist, NewRow, Row, Kinds, Claims
    <3> QED
      BY <1>1, <3>1, AppendHeld
  <2>2. CASE ~Persist(w)
    <3>1. PICK c \in {"free", "skipped", "done"} : messages' = SetClaim(Held(w), c)
      BY <2>2, ClaimNames DEF Throw, FinishForced, Finish
    <3>2. c \in Claims /\ c \notin Workers
      BY ClaimNames, WorkersAssumption
    <3> QED
      BY <1>1, <3>1, <3>2, SetClaimSets
  <2> QED
    BY <2>1, <2>2
<1>5. w \in Flushes => Text(w)'
  <2>1. pc'[w] = ph
    BY <1>1, <1>2
  <2> QED
    BY <2>1 DEF Text, TurnPhases
<1> QED
  BY <1>1, <1>2, <1>3, <1>4, <1>5, TextMove

\* Every step keeps the text in line with the claims.
LEMMA TextStep ==
  ASSUME Shape, ClaimsOK, StillOK, SeenOK, KindsOK, NoOverflow, TextOK, [Next]_vars
  PROVE  TextOK'
<1> USE DEF durable, coalesce, locals, frame, others, ghosts
<1>1. TypeOK /\ messages \in Seq(Row) /\ pc \in [Workers -> Phases] /\ batch \in [Workers -> SUBSET Nat]
      /\ plan \in [Workers -> Plans \cup {"note"}] /\ Flushes \subseteq Workers /\ Forced \subseteq Workers
  BY DEF Shape, TypeOK, DataOK, FlowOK, FrameOK, Workers
<1>2. \A K : Rows(K) \subseteq Rows(K)'
  BY <1>1, RowsStay
<1>3. CASE ClientMessage \/ ManagerPersists
  <2>1. PICK r \in Row : r.claim \notin Workers /\ messages' = Append(messages, r)
    BY <1>3, WorkersAssumption DEF ClientMessage, ManagerPersists, NewRow, Row, Kinds, Claims
  <2>2. UNCHANGED <<pc, plan, batch>>
    BY <1>3 DEF ClientMessage, ManagerPersists
  <2>3. \A v \in Workers : Held(v)' = Held(v)
    BY <1>1, <2>1, AppendHeld
  <2> QED
    BY <1>2, <2>2, <2>3, TextKept
<1>14. (\E i \in webhooks : WebhookEnds(i)) => UNCHANGED <<messages, pc, plan, batch>>
  BY DEF WebhookEnds
<1>4. CASE UNCHANGED <<messages, pc, plan, batch>>
  <2>1. \A v \in Workers : Held(v)' = Held(v)
    BY <1>4 DEF Held
  <2> QED
    BY <1>2, <1>4, <2>1, TextKept
<1>5. CASE Crash
  BY <1>1, <1>5 DEF Crash, TextOK, Text, TurnPhases
<1>6. ReactionEvent \/ RetryClear => FALSE
  BY DEF ReactionEvent, RetryClear, Spend, StillOK
<1>7. ASSUME NEW f \in Flushes, StartFlush(f), UNCHANGED <<messages, plan, batch>> PROVE TextOK'
  BY <1>1, <1>7, TextTurn DEF StartFlush, GoTo, TurnPhases
<1>8. ASSUME NEW i \in webhooks, ScheduleInboundBotTurn(i) PROVE TextOK'
  BY <1>4, <1>7, <1>8 DEF ScheduleInboundBotTurn
<1>9. ASSUME NEW w \in Forced, ForceTurn(w) PROVE TextOK'
  <2>1. w \in Workers /\ w \notin Flushes /\ pc' = [pc EXCEPT ![w] = "queued"]
        /\ messages' = messages /\ plan' = plan
    BY <1>1, <1>9, WorkersAssumption DEF ForceTurn, GoTo
  <2>2. \A v \in Workers : v # w => batch'[v] = batch[v]
    BY <1>1, <1>9 DEF ForceTurn
  <2> QED
    BY <1>1, <2>1, <2>2, TextTurn
<1>10. ASSUME NEW w \in Workers, TurnStep(w), ~Persist(w), ~AbsorbLateInbound(w) PROVE TextOK'
  <2>1. messages' = messages /\ batch' = batch /\ \A v \in Workers : v # w => plan'[v] = plan[v]
    BY <1>1, <1>10 DEF TurnStep, BeginTurn, ReadConversation, ConversationGone, HandoffExpired, HandoffAutoReturn, AskClaude,
       ClaudeAnswers, Guard, OrderGate, ChooseOutbound, Takeover, Send
  <2>2. PICK ph : pc' = [pc EXCEPT ![w] = ph]
    BY <1>10 DEF TurnStep, BeginTurn, ReadConversation, ConversationGone, HandoffExpired, HandoffAutoReturn, AskClaude,
       ClaudeAnswers, Guard, OrderGate, ChooseOutbound, Takeover, Send, Return, GoTo
  <2>3. pc'[w] = ph
    BY <1>1, <2>2
  <2>4. w \in Flushes => /\ ph \in TurnPhases => pc[w] \in TurnPhases
                         /\ ph # "read"
                         /\ ph = "takeover" => plan'[w] = "handoff"
                         /\ ph = "order" => plan'[w] = "order"
    <3> SUFFICES ASSUME w \in Flushes
                 PROVE  /\ ph \in TurnPhases => pc[w] \in TurnPhases
                        /\ ph # "read"
                        /\ ph = "takeover" => plan'[w] = "handoff"
                        /\ ph = "order" => plan'[w] = "order"
      OBVIOUS
    <3>1. w \notin Forced
      BY WorkersAssumption
    <3>2. CASE BeginTurn(w)
      BY <1>1, <2>3, <3>1, <3>2 DEF BeginTurn, GoTo, TurnPhases
    <3>3. CASE ReadConversation(w) \/ ConversationGone(w)
      BY <1>1, <2>3, <3>3 DEF ReadConversation, ConversationGone, Return, GoTo, TurnPhases
    <3>4. CASE HandoffExpired(w) \/ HandoffAutoReturn(w) \/ AskClaude(w) \/ ClaudeAnswers(w)
      BY <1>1, <2>3, <3>4 DEF HandoffExpired, HandoffAutoReturn, AskClaude, ClaudeAnswers, GoTo, TurnPhases
    <3>5. CASE Guard(w)
      BY <1>1, <2>3, <3>5 DEF Guard, AfterGuard, Return, GoTo, TurnPhases
    <3>6. CASE OrderGate(w)
      BY <1>1, <2>3, <3>6 DEF OrderGate, Return, GoTo, TurnPhases
    <3>7. CASE ChooseOutbound(w)
      BY <1>1, <2>3, <3>7 DEF ChooseOutbound, Return, GoTo, TurnPhases
    <3>8. CASE Takeover(w) \/ Send(w)
      BY <1>1, <2>3, <3>8 DEF Takeover, Send, GoTo, TurnPhases
    <3> QED
      BY <1>10, <3>2, <3>3, <3>4, <3>5, <3>6, <3>7, <3>8 DEF TurnStep
  <2> QED
    BY <1>1, <2>1, <2>2, <2>4, TextTurn
<1>11. ASSUME NEW f \in Flushes, LoadPending(f) \/ LateCheck(f) \/ Settle(f) \/ Rearm(f)
                                   \/ DrainThrows(f) \/ RearmThrows(f)
       PROVE  TextOK'
  <2>1. /\ messages' = messages
        /\ \A v \in Workers : v # f => batch'[v] = batch[v] /\ plan'[v] = plan[v]
    BY <1>1, <1>11 DEF LoadPending, LateCheck, Settle, Rearm, DrainThrows, RearmThrows, Forget
  <2>2. PICK ph \in {"settle", "claim", "outbound", "finish", "rearm", "queued", "idle"} :
          /\ pc' = [pc EXCEPT ![f] = ph]
          /\ ph = "outbound" => pc[f] = "late" /\ batch'[f] = batch[f]
    BY <1>11 DEF LoadPending, LateCheck, Settle, Rearm, DrainThrows, RearmThrows, Return, GoTo
  <2> QED
    BY <1>1, <2>1, <2>2, TextTurn DEF TurnPhases
<1>12. ASSUME NEW w \in Workers, WorkerStep(w) PROVE TextOK'
  <2>1. CASE TurnStep(w)
    BY <1>2, <1>10, <2>1, TextAbsorb, TextEnd
  <2>2. CASE FinishForced(w)
    BY <1>2, <2>2, TextEnd
  <2>3. CASE w \in Flushes /\ FlushStep(w)
    BY <1>2, <1>11, <2>3, TextClaim, TextEnd DEF FlushStep
  <2> QED
    BY <1>12, <2>1, <2>2, <2>3 DEF WorkerStep
<1>13. ASSUME NEW w \in Workers, Throw(w) PROVE TextOK'
  BY <1>2, <1>13, TextEnd
<1> QED
  BY <1>3, <1>4, <1>5, <1>6, <1>7, <1>8, <1>9, <1>11, <1>12, <1>13, <1>14
  DEF Next, Environment, Schedule, Timer, Retry, Manager, FireTimer, RetryFlush, RetryEvaluate,
      ManagerReads, ToggleBot, ManagerTakesOver, vars

\* A takeover was seen by a turn, and no other turn is under way: whatever a
\* flush claims from here on, it lets go at the next test of the state.
Lost ==
  /\ conversation # "bot"
  /\ \A f \in Flushes : pc[f] \notin TurnPhases \ {"read"}

Sorted ==
  /\ \A i \in Unclaimed, j \in Claimed : j < i
  /\ \A i \in Claimed \ Settled, j \in Settled : j < i

Ordered(f) ==
  /\ pc[f] = "load" => \A i \in Unclaimed : since[f] < i
  /\ pc[f] = "claim" => \A i \in Unclaimed \ seen[f], j \in seen[f] : j < i
  /\ pc[f] \in Absorbed \cup {"finish"} => \A i \in Unclaimed : gate[f] < i
  /\ pc[f] = "outbound" => \A i \in Unclaimed : started[f] < i
  /\ pc[f] = "send" /\ plan[f] = "reply" => \A i \in Unclaimed : started[f] < i

InOrder == Sorted /\ \A f \in Flushes : Ordered(f)

\* The order is only asked of the calls that run.
LEMMA OrderedRunning ==
  ASSUME NEW f, pc[f] \notin Running
  PROVE  Ordered(f)
BY DEF Ordered, Running, TurnPhases, Absorbed

\* A call moves, and the rows stay as they are.
LEMMA OrderMove ==
  ASSUME TypeOK, InOrder, messages' = messages, NEW w \in Workers, NEW ph,
         pc' = [pc EXCEPT ![w] = ph],
         \A v \in Workers : v # w => /\ since'[v] = since[v] /\ seen'[v] = seen[v]
                                     /\ gate'[v] = gate[v] /\ started'[v] = started[v]
                                     /\ plan'[v] = plan[v],
         w \in Flushes => Ordered(w)'
  PROVE  InOrder'
<1>1. Unclaimed' = Unclaimed /\ Claimed' = Claimed /\ Settled' = Settled
  BY DEF Unclaimed, Claimed, Settled, Rows
<1>2. Sorted'
  BY <1>1 DEF InOrder, Sorted
<1>3. ASSUME NEW f \in Flushes, f # w PROVE Ordered(f)'
  <2>1. f \in Workers /\ pc'[f] = pc[f]
    BY <1>3 DEF TypeOK, FlowOK, Workers
  <2> QED
    BY <1>1, <1>3, <2>1 DEF InOrder, Ordered
<1> QED
  BY <1>2, <1>3 DEF InOrder

\* A call that runs moves: the others do not run, so only it has to be in order.
LEMMA OrderRun ==
  ASSUME Shape, ClaimsOK, NEW w \in Workers, pc[w] \in Running, NEW ph,
         pc' = [pc EXCEPT ![w] = ph], Sorted', w \in Flushes => Ordered(w)'
  PROVE  InOrder'
<1>1. ASSUME NEW f \in Flushes, f # w PROVE Ordered(f)'
  <2>1. f \in Workers /\ pc'[f] = pc[f] /\ pc[f] \notin Running
    BY <1>1, SoleHolder DEF Shape, TypeOK, FlowOK, Workers
  <2> QED
    BY <2>1 DEF Ordered, Running, TurnPhases, Absorbed
<1> QED
  BY <1>1 DEF InOrder

\* No call moves, and no bubble comes.
LEMMA OrderKept ==
  ASSUME InOrder, UNCHANGED <<pc, since, seen, gate, started, plan>>,
         Unclaimed' = Unclaimed, Claimed' = Claimed, Settled' = Settled
  PROVE  InOrder'
BY DEF InOrder, Sorted, Ordered

\* A bubble comes: it lies above all the others, and above what calls noted.
LEMMA OrderClient ==
  ASSUME TypeOK, SeenOK, ClockOK, InOrder, ClientMessage
  PROVE  InOrder'
<1> USE DEF locals, frame
<1> DEFINE n == Len(messages)
<1>1. messages \in Seq(Row) /\ n \in Nat /\ Flushes \subseteq Workers
      /\ since \in [Workers -> Nat] /\ gate \in [Workers -> Nat] /\ started \in [Workers -> Nat]
  BY LenProperties DEF TypeOK, DataOK, FrameOK, Workers
<1>2. UNCHANGED <<pc, since, seen, gate, started, plan>>
  BY DEF ClientMessage
<1>3. Unclaimed' = Unclaimed \cup {n + 1} /\ Claimed' = Claimed /\ Settled' = Settled
  <2>1. NewRow("client") \in Row /\ NewRow("client").claim = "free" /\ NewRow("client").kind \in Inbound
    BY DEF NewRow, Row, Kinds, Claims, Inbound
  <2>2. messages' = Append(messages, NewRow("client"))
    BY DEF ClientMessage
  <2> QED
    BY <1>1, <2>1, <2>2, AddRow
<1>4. Unclaimed \subseteq 1..n /\ Claimed \subseteq 1..n
  BY <1>1, RowSets
<1>5. \A j \in 1..n : j < n + 1
  BY <1>1
<1> HIDE DEF n
<1>6. Sorted'
  BY <1>3, <1>4, <1>5 DEF InOrder, Sorted
<1>7. ASSUME NEW f \in Flushes PROVE Ordered(f)'
  <2>1. \A k \in {since[f], gate[f], started[f]} : k < n + 1
    <3>1. \A k \in {since[f], gate[f], started[f]} : k \in Nat /\ k <= n
      BY <1>1 DEF ClockOK, n
    <3> QED
      BY <1>1, <3>1
  <2>2. pc[f] = "claim" => \A j \in seen[f] : j < n + 1
    BY <1>4, <1>5 DEF SeenOK
  <2> QED
    BY <1>2, <1>3, <2>1, <2>2 DEF InOrder, Ordered
<1> QED
  BY <1>6, <1>7 DEF InOrder

\* In order, and with a settled bubble, all that is free is pending.
LEMMA OrderPending ==
  ASSUME TypeOK, KindsOK, InOrder
  PROVE  /\ Above(Claimed) = Unclaimed /\ Claimed # {}
         /\ Unclaimed \subseteq 1..Len(messages) /\ Claimed \subseteq 1..Len(messages)
         /\ Len(messages) \in Nat
<1>1. messages \in Seq(Row)
  BY DEF TypeOK, DataOK
<1>2. Claimed # {}
  BY <1>1, RowSets DEF KindsOK
<1>3. Unclaimed \subseteq 1..Len(messages) /\ Claimed \subseteq 1..Len(messages) /\ Len(messages) \in Nat
  BY <1>1, RowSets
<1>4. \A i \in Unclaimed, j \in Claimed : j <= i
  <2>1. \A i \in Unclaimed, j \in Claimed : j < i /\ i \in Nat /\ j \in Nat
    BY <1>3 DEF InOrder, Sorted
  <2> QED
    BY <2>1
<1> QED
  BY <1>2, <1>3, <1>4 DEF Above

\* A flush loads: it sees everything that is free.
LEMMA OrderLoad ==
  ASSUME Shape, KindsOK, NoOverflow, InOrder, NEW f \in Flushes, LoadPending(f)
  PROVE  InOrder'
<1> USE DEF durable, coalesce, locals, frame, others, ghosts
<1>1. TypeOK /\ f \in Workers /\ seen \in [Workers -> SUBSET Nat] /\ since \in [Workers -> Nat]
      /\ pc \in [Workers -> Phases]
  BY DEF Shape, TypeOK, FlowOK, FrameOK, Workers
<1>2. pc[f] = "load" /\ UNCHANGED <<messages, since, gate, started, plan>>
  BY DEF LoadPending
<1>3. PICK ph \in {"settle", "claim"} : pc' = [pc EXCEPT ![f] = ph]
  BY DEF LoadPending, GoTo
<1>4. seen' = [seen EXCEPT ![f] = Unclaimed]
  <2>1. Oldest(Pending(since[f]), MaxBatch) = {i \in Above(Claimed) : i > since[f]}
    BY <1>1, LoadAll
  <2>2. Above(Claimed) = Unclaimed /\ Unclaimed \subseteq Nat /\ \A i \in Unclaimed : since[f] < i
    BY <1>1, <1>2, OrderPending DEF InOrder, Ordered
  <2>3. \A i \in Unclaimed : i > since[f]
    BY <1>1, <2>2
  <2>4. Oldest(Pending(since[f]), MaxBatch) = Unclaimed
    BY <2>1, <2>2, <2>3
  <2> QED
    BY <2>4 DEF LoadPending
<1>5. Unclaimed' = Unclaimed
  BY <1>2 DEF Unclaimed, Rows
<1>6. Ordered(f)'
  BY <1>1, <1>3, <1>4, <1>5 DEF Ordered, Absorbed, TurnPhases
<1>7. \A v \in Workers : v # f => /\ since'[v] = since[v] /\ seen'[v] = seen[v]
                                  /\ gate'[v] = gate[v] /\ started'[v] = started[v]
                                  /\ plan'[v] = plan[v]
  BY <1>1, <1>2, <1>4
<1> QED
  BY <1>1, <1>2, <1>3, <1>6, <1>7, OrderMove

\* A flush claims what it has loaded: below what came since, above the rest.
LEMMA OrderClaim ==
  ASSUME Shape, ClaimsOK, SeenOK, InOrder, NEW f \in Flushes, ClaimBatch(f)
  PROVE  InOrder'
<1> DEFINE S == seen[f]
<1>1. messages \in Seq(Row) /\ f \in Workers /\ pc \in [Workers -> Phases] /\ f \in Claims
      /\ f # "free" /\ pc[f] = "claim" /\ pc[f] \in Running
  BY ClaimNames, WorkersAssumption
  DEF Shape, TypeOK, DataOK, FlowOK, Workers, ClaimBatch, Running
<1>2. S \subseteq Unclaimed /\ S # {}
  BY <1>1 DEF SeenOK
<1>3. {i \in S : messages[i].claim = "free"} = S
  BY <1>2 DEF Unclaimed
<1>4. messages' = SetClaim(S, f) /\ pc' = [pc EXCEPT ![f] = "read"]
  BY <1>2, <1>3 DEF ClaimBatch, GoTo
<1>5. (\A i \in Unclaimed \ S, j \in S : j < i) /\ Sorted
  BY <1>1 DEF InOrder, Ordered
<1> HIDE DEF S
<1>6. /\ Unclaimed' = Unclaimed \ S
      /\ Claimed' = (Claimed \ S) \cup (Rows(Inbound) \cap S)
      /\ Settled' = Settled \ S
  BY <1>1, <1>4, SetClaimSets
<1>7. Claimed' \subseteq Claimed \cup S /\ Settled' \subseteq Settled
  BY <1>6
<1>8. ASSUME NEW i \in Claimed' \ Settled', NEW j \in Settled' PROVE j < i
  <2>1. j \in Settled /\ j \in Claimed
    BY <1>7, <1>1, <1>8, RowSets
  <2>2. CASE i \in S
    BY <1>2, <1>5, <2>1, <2>2 DEF Sorted
  <2>3. CASE i \notin S
    <3>1. i \in Claimed \ Settled
      BY <1>6, <1>7, <1>8, <2>3
    <3> QED
      BY <1>5, <2>1, <3>1 DEF Sorted
  <2> QED
    BY <2>2, <2>3
<1>9. Sorted'
  BY <1>5, <1>6, <1>7, <1>8 DEF Sorted
<1>10. pc'[f] = "read"
  BY <1>1, <1>4
<1>11. Ordered(f)'
  BY <1>10 DEF Ordered, Absorbed, TurnPhases
<1> QED
  BY <1>1, <1>4, <1>9, <1>11, OrderRun

\* A turn takes all that is free.
LEMMA OrderAbsorb ==
  ASSUME Shape, ClaimsOK, KindsOK, NoOverflow, InOrder, NEW w \in Workers, AbsorbLateInbound(w)
  PROVE  InOrder'
<1> DEFINE ph == IF pc[w] = "delay" THEN "prompt" ELSE "claude"
<1>1. TypeOK /\ messages \in Seq(Row) /\ pc \in [Workers -> Phases] /\ w \in Claims
      /\ w \notin {"free"} /\ w \in Workers
  BY ClaimNames, WorkersAssumption DEF Shape, TypeOK, DataOK, FlowOK
<1>2. Above(Claimed) = Unclaimed /\ Unclaimed \subseteq 1..Len(messages) /\ Len(messages) \in Nat
      /\ Claimed \subseteq 1..Len(messages)
  BY <1>1, OrderPending
<1>3. Oldest(Pending(0), MaxBatch) = Unclaimed
  <2>1. Oldest(Pending(0), MaxBatch) = {i \in Unclaimed : i > 0}
    BY <1>1, <1>2, LoadAll
  <2>2. \A i \in Unclaimed : i > 0
    BY <1>2
  <2> QED
    BY <2>1, <2>2
<1>4. messages' = SetClaim(Unclaimed, w) /\ pc' = [pc EXCEPT ![w] = ph] /\ pc[w] \in {"delay", "prompt"}
  BY <1>3 DEF AbsorbLateInbound, GoTo
<1>5. ph \in {"prompt", "claude"} /\ pc[w] \in Running
  BY <1>4 DEF Running, TurnPhases
<1> HIDE DEF ph
<1>6. /\ Unclaimed' = Unclaimed \ Unclaimed
      /\ Claimed' = (Claimed \ Unclaimed) \cup (Rows(Inbound) \cap Unclaimed)
      /\ Settled' = Settled \ Unclaimed
  BY <1>1, <1>4, SetClaimSets
<1>7. Unclaimed' = {} /\ Claimed' \subseteq Claimed \cup Unclaimed /\ Settled' \subseteq Settled
  BY <1>6
<1>8. ASSUME NEW i \in Claimed' \ Settled', NEW j \in Settled' PROVE j < i
  <2>1. j \in Settled /\ j \in Claimed
    BY <1>7, <1>1, <1>8, RowSets
  <2>2. CASE i \in Unclaimed
    BY <2>1, <2>2 DEF InOrder, Sorted
  <2>3. CASE i \notin Unclaimed
    <3>1. i \in Claimed \ Settled
      BY <1>6, <1>7, <1>8, <2>3
    <3> QED
      BY <2>1, <3>1 DEF InOrder, Sorted
  <2> QED
    BY <2>2, <2>3
<1>9. Sorted'
  BY <1>7, <1>8 DEF Sorted
<1>10. pc'[w] = ph
  BY <1>1, <1>4
<1>11. Ordered(w)'
  BY <1>5, <1>7, <1>10 DEF Ordered
<1> QED
  BY <1>1, <1>4, <1>5, <1>9, <1>11, OrderRun

\* A turn ends: its rows are settled below what came since, or free again.
LEMMA OrderEnd ==
  ASSUME Shape, ClaimsOK, StillOK, InOrder, NEW w \in Workers,
         Throw(w) \/ FinishForced(w) \/ (w \in Flushes /\ Finish(w))
  PROVE  InOrder'
<1>1. messages \in Seq(Row) /\ pc \in [Workers -> Phases] /\ w \in Workers /\ Len(messages) \in Nat
      /\ since \in [Workers -> Nat]
  BY LenProperties DEF Shape, TypeOK, DataOK, FlowOK, FrameOK
<1>2. pc[w] \in Running
  BY DEF Throw, FinishForced, Finish, Running
<1>3. PICK c \in {"free", "skipped", "done"} :
        /\ messages' = SetClaim(Held(w), c)
        /\ w \in Flushes /\ Finish(w) => c = ClaimAfter(verdict[w])
  <2>1. Throw(w) => \E c \in {"free", "skipped", "done"} : messages' = SetClaim(Held(w), c)
    BY ClaimNames DEF Throw
  <2>2. w \in Flushes /\ Finish(w) => ~Throw(w)
    BY DEF Finish, Throw, Spend, TypeOK, DataOK, Shape, Events
  <2> QED
    BY <2>1, <2>2, ClaimNames, WorkersAssumption DEF FinishForced, Finish
<1>4. PICK ph \in {"settle", "load", "idle"} :
        /\ pc' = [pc EXCEPT ![w] = ph]
        /\ w \in Flushes /\ ph = "load" => Finish(w)
  BY WorkersAssumption DEF Throw, FinishForced, Finish, GoTo
<1>5. Claimed \ Held(w) = Settled
  BY <1>2, SoleHolder
<1>6. Unclaimed \cap Claimed = {} /\ Settled \subseteq Claimed
  BY <1>1, RowSets
<1>7. Sorted' /\ (c # "free" => Unclaimed' = Unclaimed) /\ Unclaimed' \subseteq 1..Len(messages)
  <2>1. CASE c = "free"
    <3>1. /\ Unclaimed' \subseteq Unclaimed \cup (Claimed \ Settled)
          /\ Claimed' = Settled /\ Settled' = Settled
      BY <1>1, <1>3, <1>5, <2>1, FreeRows
    <3>2. Unclaimed \cup Claimed \subseteq 1..Len(messages)
      BY <1>1, RowSets
    <3> QED
      BY <1>6, <2>1, <3>1, <3>2 DEF InOrder, Sorted
  <2>2. CASE c # "free"
    <3>1. Unclaimed' = Unclaimed /\ Claimed' = Claimed /\ Settled' = Claimed
      BY <1>1, <1>3, <1>5, <2>2, SettleRows
    <3>2. Unclaimed \subseteq 1..Len(messages)
      BY <1>1, RowSets
    <3> QED
      BY <1>6, <3>1, <3>2 DEF InOrder, Sorted
  <2> QED
    BY <2>1, <2>2
<1>8. pc'[w] = ph
  BY <1>1, <1>4
<1>9. ASSUME w \in Flushes, ph = "load" PROVE \A i \in Unclaimed' : since'[w] < i
  <2>1. Finish(w) /\ since'[w] = IF verdict[w] = "deferred" THEN 0 ELSE gate[w]
    BY <1>1, <1>4, <1>9 DEF Finish
  <2>2. CASE verdict[w] = "deferred"
    <3>1. \A i \in 1..Len(messages) : 0 < i
      BY <1>1
    <3> QED
      BY <1>7, <2>1, <2>2, <3>1
  <2>3. CASE verdict[w] # "deferred"
    <3>1. c # "free"
      BY <1>3, <1>9, <2>1, <2>3 DEF ClaimAfter, StillOK
    <3>2. \A i \in Unclaimed : gate[w] < i
      BY <1>9, <2>1 DEF InOrder, Ordered, Finish
    <3> QED
      BY <1>7, <2>1, <2>3, <3>1, <3>2
  <2> QED
    BY <2>2, <2>3
<1>10. w \in Flushes => Ordered(w)'
  BY <1>8, <1>9 DEF Ordered, Absorbed, TurnPhases
<1> QED
  BY <1>1, <1>2, <1>4, <1>7, <1>10, OrderRun

\* The rows of the bot and the manager are no bubbles.
LEMMA OrderOutbound ==
  ASSUME Shape, ClaimsOK, InOrder, ManagerPersists \/ \E w \in Workers : Persist(w)
  PROVE  InOrder'
<1> USE DEF locals, frame
<1>1. messages \in Seq(Row) /\ pc \in [Workers -> Phases]
  BY DEF Shape, TypeOK, DataOK, FlowOK
<1>2. PICK r \in Row : r.kind \notin Inbound /\ messages' = Append(messages, r)
  BY DEF ManagerPersists, Persist, NewRow, Row, Kinds, Claims, Inbound
<1>3. Unclaimed' = Unclaimed /\ Claimed' = Claimed /\ Settled' = Settled
  BY <1>1, <1>2, AddRow
<1>4. CASE ManagerPersists
  BY <1>3, <1>4, OrderKept DEF ManagerPersists
<1>5. ASSUME NEW w \in Workers, Persist(w) PROVE InOrder'
  <2>1. pc[w] = "persist" /\ pc[w] \in Running /\ pc[w] \in Absorbed
        /\ pc' = [pc EXCEPT ![w] = "finish"] /\ gate' = gate
    BY <1>5 DEF Persist, Return, GoTo, Running, TurnPhases, Absorbed
  <2>2. Sorted'
    BY <1>3 DEF InOrder, Sorted
  <2>3. pc'[w] = "finish"
    BY <1>1, <2>1
  <2>4. w \in Flushes => Ordered(w)'
    BY <1>3, <2>1, <2>3 DEF InOrder, Ordered
  <2> QED
    BY <2>1, <2>2, <2>4, OrderRun
<1> QED
  BY <1>4, <1>5

\* The process dies: all that was held is settled.
LEMMA OrderCrash ==
  ASSUME Shape, InOrder, Crash
  PROVE  InOrder'
<1> DEFINE S == UNION {Held(w) : w \in Workers}
<1>1. messages \in Seq(Row) /\ messages' = SetClaim(S, "done") /\ "done" \in Claims
      /\ "done" # "free"
  BY ClaimNames DEF Shape, TypeOK, DataOK, Crash
<1>2. S \cap Unclaimed = {}
  BY WorkersAssumption DEF Unclaimed, Held
<1>3. S \cap Rows(Inbound) \subseteq Claimed
  BY <1>1, <1>2, RowSets
<1>4. Claimed \ S \subseteq Settled
  <2>1. Claimed \subseteq 1..Len(messages) /\ \A w : Held(w) = {i \in 1..Len(messages) : messages[i].claim = w}
    BY <1>1, RowSets
  <2>2. ASSUME NEW i \in Claimed, messages[i].claim \in Workers PROVE i \in S
    <3>1. i \in Held(messages[i].claim)
      BY <2>1, <2>2
    <3> QED
      BY <2>2, <3>1
  <2> QED
    BY <2>2 DEF Settled
<1> HIDE DEF S
<1>5. /\ Unclaimed' = Unclaimed \ S
      /\ Claimed' = (Claimed \ S) \cup (Rows(Inbound) \cap S)
      /\ Settled' = (Settled \ S) \cup (IF "done" # "free" /\ "done" \notin Workers
                                          THEN Rows(Inbound) \cap S ELSE {})
  BY <1>1, SetClaimSets
<1>6. Unclaimed' = Unclaimed /\ Claimed' \subseteq Claimed /\ Claimed' \ Settled' = {}
  <2>1. "done" \notin Workers
    BY WorkersAssumption
  <2>2. Settled' = (Settled \ S) \cup (Rows(Inbound) \cap S)
    BY <1>5, <2>1
  <2> QED
    BY <1>2, <1>3, <1>4, <1>5, <2>2
<1>7. Sorted'
  BY <1>6 DEF InOrder, Sorted
<1>8. \A f \in Flushes : pc'[f] = "idle"
  BY DEF Crash, Workers
<1>9. \A f \in Flushes : Ordered(f)'
  BY <1>8 DEF Ordered, Absorbed, TurnPhases
<1> QED
  BY <1>7, <1>9 DEF InOrder

\* A turn moves between two tests, and the rows stay as they are.
LEMMA OrderTurn ==
  ASSUME Shape, ClaimsOK, StillOK, FlagsOK, TextOK, InOrder, NEW w \in Workers, TurnStep(w),
         ~Persist(w), ~AbsorbLateInbound(w)
  PROVE  InOrder' \/ Lost'
<1> USE DEF durable, coalesce, locals, frame, others, ghosts
<1>1. TypeOK /\ pc \in [Workers -> Phases] /\ plan \in [Workers -> Plans \cup {"note"}]
      /\ started \in [Workers -> Nat] /\ Flushes \subseteq Workers
  BY DEF Shape, TypeOK, FlowOK, FrameOK, Workers
<1>0. ~ConversationGone(w)
  BY DEF ConversationGone, Spend, StillOK
<1>2. /\ messages' = messages
      /\ \A v \in Workers : v # w => /\ since'[v] = since[v] /\ seen'[v] = seen[v]
                                     /\ gate'[v] = gate[v] /\ started'[v] = started[v]
                                     /\ plan'[v] = plan[v]
      /\ gate' = gate /\ since' = since
  BY <1>0, <1>1 DEF TurnStep, BeginTurn, ReadConversation, HandoffExpired, HandoffAutoReturn, AskClaude,
     ClaudeAnswers, Guard, OrderGate, ChooseOutbound, Takeover, Send
<1>3. PICK ph : pc' = [pc EXCEPT ![w] = ph]
  BY <1>0 DEF TurnStep, BeginTurn, ReadConversation, HandoffExpired, HandoffAutoReturn, AskClaude,
     ClaudeAnswers, Guard, OrderGate, ChooseOutbound, Takeover, Send, Return, GoTo
<1>4. pc'[w] = ph /\ Unclaimed' = Unclaimed
  BY <1>1, <1>2, <1>3 DEF Unclaimed, Rows
<1>5. ASSUME w \in Flushes => Ordered(w)' PROVE InOrder'
  BY <1>1, <1>2, <1>3, <1>5, OrderMove
<1>6. CASE w \notin Flushes
  BY <1>5, <1>6
<1>7. ASSUME w \in Flushes, pc[w] \in Absorbed, pc'[w] \in Absorbed \cup {"finish"},
             pc'[w] # "outbound", pc'[w] = "send" => pc[w] = "outbound" \/ plan'[w] # "reply",
             started'[w] = started[w], plan'[w] = plan[w] \/ pc'[w] # "send"
      PROVE  InOrder'
  <2>1. Ordered(w)
    BY <1>7 DEF InOrder
  <2>2. \A i \in Unclaimed' : gate'[w] < i
    BY <1>2, <1>4, <1>7, <2>1 DEF Ordered
  <2>3. pc'[w] # "load" /\ pc'[w] # "claim"
    BY <1>7 DEF Absorbed, TurnPhases
  <2>4. pc'[w] = "send" /\ plan'[w] = "reply" => \A i \in Unclaimed' : started'[w] < i
    BY <1>4, <1>7, <2>1 DEF Ordered
  <2>5. Ordered(w)'
    BY <1>7, <2>2, <2>3, <2>4 DEF Ordered
  <2> QED
    BY <1>5, <2>5
<1>8. ASSUME w \in Flushes PROVE InOrder' \/ Lost'
  <2>1. w \notin Forced
    BY <1>8, WorkersAssumption
  <2>2. CASE BeginTurn(w)
    <3>1. pc'[w] = "load" /\ since'[w] = 0
      BY <1>1, <1>2, <1>8, <2>1, <2>2 DEF BeginTurn, GoTo, FlagsOK
    <3>2. \A i \in Unclaimed : 0 < i
      <4>1. Unclaimed \subseteq 1..Len(messages) /\ Len(messages) \in Nat
        BY <1>1, RowSets DEF TypeOK, DataOK
      <4> QED
        BY <4>1
    <3>3. Ordered(w)'
      BY <1>4, <3>1, <3>2 DEF Ordered, Absorbed, TurnPhases
    <3> QED
      BY <1>5, <3>3
  <2>3. CASE ReadConversation(w)
    <3>1. \E i \in batch[w] : messages[i].kind = "client"
      BY <1>8, <2>3 DEF ReadConversation, TextOK, Text, Rows
    <3>2. CASE pc'[w] = "delay"
      <4>1. Ordered(w)'
        BY <3>2 DEF Ordered, Absorbed, TurnPhases
      <4> QED
        BY <1>5, <4>1
    <3>3. CASE pc'[w] # "delay"
      <4>1. pc' = [pc EXCEPT ![w] = "finish"] /\ conversation # "bot" /\ conversation' = conversation
            /\ pc[w] \in Running
        BY <1>1, <2>1, <2>3, <3>1, <3>3 DEF ReadConversation, Return, GoTo, Running, TurnPhases
      <4>2. ASSUME NEW f \in Flushes PROVE pc'[f] \notin TurnPhases \ {"read"}
        <5>1. CASE f = w
          BY <1>1, <4>1, <5>1 DEF TurnPhases
        <5>2. CASE f # w
          <6>1. pc'[f] = pc[f] /\ pc[f] \notin Running
            BY <1>1, <4>1, <5>2, SoleHolder
          <6> QED
            BY <6>1 DEF Running
        <5> QED
          BY <5>1, <5>2
      <4>3. Lost'
        BY <4>1, <4>2 DEF Lost
      <4> QED
        BY <4>3
    <3> QED
      BY <3>2, <3>3
  <2>4. ~HandoffExpired(w) /\ ~HandoffAutoReturn(w)
    BY DEF HandoffExpired, HandoffAutoReturn, Spend, StillOK
  <2>5. CASE AskClaude(w)
    <3>1. pc[w] = "claude" /\ pc'[w] = "asking"
      BY <1>1, <2>5 DEF AskClaude, GoTo
    <3>2. Ordered(w)'
      BY <1>2, <1>4, <1>8, <3>1 DEF InOrder, Ordered, Absorbed, TurnPhases
    <3> QED
      BY <1>5, <3>2
  <2>6. CASE ClaudeAnswers(w)
    BY <1>1, <1>7, <1>8, <2>6 DEF ClaudeAnswers, GoTo, Absorbed, TurnPhases
  <2>7. CASE Guard(w)
    <3>1. pc[w] = "guard" /\ pc'[w] \in {"takeover", "order", "late", "finish"}
          /\ started' = started
      BY <1>1, <2>1, <2>7 DEF Guard, AfterGuard, Return, GoTo
    <3> QED
      BY <1>7, <1>8, <3>1 DEF Absorbed, TurnPhases
  <2>8. CASE OrderGate(w)
    <3>1. pc[w] = "order" /\ pc'[w] \in {"send", "finish", "guard"} /\ started' = started
          /\ (pc'[w] = "send" => plan'[w] = plan[w])
      BY <1>1, <2>8 DEF OrderGate, Return, GoTo
    <3>2. plan[w] = "order"
      BY <1>8, <3>1 DEF TextOK, Text
    <3> QED
      BY <1>7, <1>8, <3>1, <3>2 DEF Absorbed, TurnPhases
  <2>9. CASE ChooseOutbound(w)
    <3>1. pc[w] = "outbound" /\ pc'[w] \in {"send", "finish", "guard", "persist"} /\ started' = started
          /\ (pc'[w] = "send" => plan'[w] = plan[w])
      BY <1>1, <2>9 DEF ChooseOutbound, Return, GoTo
    <3> QED
      BY <1>7, <1>8, <3>1 DEF Absorbed, TurnPhases
  <2>10. CASE Takeover(w)
    <3>1. pc[w] = "takeover" /\ pc'[w] = "send" /\ started' = started /\ plan' = plan
      BY <1>1, <2>10 DEF Takeover, GoTo
    <3>2. plan[w] = "handoff"
      BY <1>8, <3>1 DEF TextOK, Text
    <3> QED
      BY <1>7, <1>8, <3>1, <3>2 DEF Absorbed, TurnPhases
  <2>11. CASE Send(w)
    <3>1. pc[w] = "send" /\ pc'[w] = "persist" /\ started' = started
      BY <1>1, <2>11 DEF Send, GoTo
    <3> QED
      BY <1>7, <1>8, <3>1 DEF Absorbed, TurnPhases
  <2> QED
    BY <1>0, <2>2, <2>3, <2>4, <2>5, <2>6, <2>7, <2>8, <2>9, <2>10, <2>11 DEF TurnStep
<1> QED
  BY <1>6, <1>8

\* The second load, behind Claude's answer.
LEMMA OrderLate ==
  ASSUME Shape, KindsOK, InOrder, NEW f \in Flushes, LateCheck(f)
  PROVE  InOrder'
<1> USE DEF durable, coalesce, locals, frame, others, ghosts
<1>1. TypeOK /\ pc \in [Workers -> Phases] /\ f \in Workers /\ messages \in Seq(Row)
  BY DEF Shape, TypeOK, DataOK, FlowOK, Workers
<1>2. pc[f] = "late" /\ UNCHANGED <<messages, since, seen, gate, started, plan>>
  BY DEF LateCheck
<1>3. PICK ph \in {"finish", "outbound"} :
        /\ pc' = [pc EXCEPT ![f] = ph]
        /\ ph = "outbound" => Pending(0) = {}
  BY DEF LateCheck, Return, GoTo
<1>4. pc'[f] = ph /\ Unclaimed' = Unclaimed
  BY <1>1, <1>2, <1>3 DEF Unclaimed, Rows
<1>5. ph = "outbound" => Unclaimed = {}
  <2>1. Pending(0) = {i \in Unclaimed : i > 0} /\ Unclaimed \subseteq 1..Len(messages)
        /\ Len(messages) \in Nat
    BY <1>1, PendingRows, OrderPending
  <2>2. \A i \in Unclaimed : i > 0
    BY <2>1
  <2> QED
    BY <1>3, <2>1, <2>2
<1>6. \A i \in Unclaimed : gate[f] < i
  BY <1>2 DEF InOrder, Ordered, Absorbed, TurnPhases
<1>7. Ordered(f)'
  BY <1>2, <1>4, <1>5, <1>6 DEF Ordered
<1> QED
  BY <1>1, <1>2, <1>3, <1>7, OrderMove

\* Every step keeps the rows in order, or the turn it ends has seen a takeover.
LEMMA OrderStep ==
  ASSUME Shape, ClaimsOK, StillOK, FlagsOK, SeenOK, KindsOK, ClockOK, TextOK, NoOverflow, InOrder,
         [Next]_vars
  PROVE  InOrder' \/ Lost'
<1> USE DEF durable, coalesce, locals, frame, others, ghosts
<1>1. TypeOK /\ pc \in [Workers -> Phases] /\ Flushes \subseteq Workers /\ Forced \subseteq Workers
      /\ since \in [Workers -> Nat] /\ seen \in [Workers -> SUBSET Nat] /\ gate \in [Workers -> Nat]
      /\ started \in [Workers -> Nat] /\ plan \in [Workers -> Plans \cup {"note"}]
  BY DEF Shape, TypeOK, FlowOK, FrameOK, Workers
<1>2. CASE ClientMessage
  BY <1>1, <1>2, OrderClient
<1>3. CASE ManagerPersists \/ \E w \in Workers : Persist(w)
  BY <1>3, OrderOutbound
<1>14. (\E i \in webhooks : WebhookEnds(i)) =>
         UNCHANGED <<messages, pc, since, seen, gate, started, plan>>
  BY DEF WebhookEnds
<1>4. CASE UNCHANGED <<messages, pc, since, seen, gate, started, plan>>
  <2>1. Unclaimed' = Unclaimed /\ Claimed' = Claimed /\ Settled' = Settled
    BY <1>4 DEF Unclaimed, Claimed, Settled, Rows
  <2> QED
    BY <1>4, <2>1, OrderKept
<1>5. CASE Crash
  BY <1>5, OrderCrash
<1>6. ReactionEvent \/ RetryClear => FALSE
  BY DEF ReactionEvent, RetryClear, Spend, StillOK
<1>7. ASSUME NEW w \in Workers, NEW ph \in {"queued", "idle", "settle", "rearm"}, pc' = [pc EXCEPT ![w] = ph],
             messages' = messages,
             \A v \in Workers : v # w => /\ since'[v] = since[v] /\ seen'[v] = seen[v]
                                         /\ gate'[v] = gate[v] /\ started'[v] = started[v]
                                         /\ plan'[v] = plan[v]
      PROVE  InOrder'
  <2>1. pc'[w] = ph
    BY <1>1, <1>7
  <2>2. Ordered(w)'
    BY <2>1 DEF Ordered, Absorbed, TurnPhases
  <2> QED
    BY <1>1, <1>7, <2>2, OrderMove
<1>8. ASSUME NEW f \in Flushes, StartFlush(f), UNCHANGED <<messages, since, seen, gate, started, plan>>
      PROVE  InOrder'
  BY <1>1, <1>7, <1>8 DEF StartFlush, GoTo
<1>9. ASSUME NEW i \in webhooks, ScheduleInboundBotTurn(i) PROVE InOrder' \/ Lost'
  <2>1. UNCHANGED <<messages, since, seen, gate, started, plan>>
    BY <1>9 DEF ScheduleInboundBotTurn
  <2>2. UNCHANGED pc \/ \E f \in Flushes : StartFlush(f)
    BY <1>9 DEF ScheduleInboundBotTurn
  <2> QED
    BY <1>4, <1>8, <2>1, <2>2
<1>10. ASSUME NEW w \in Forced, ForceTurn(w) PROVE InOrder'
  BY <1>1, <1>7, <1>10 DEF ForceTurn, GoTo
<1>11. ASSUME NEW f \in Flushes, Settle(f) \/ Rearm(f) \/ DrainThrows(f) \/ RearmThrows(f)
       PROVE  InOrder'
  <2>1. PICK ph \in {"queued", "idle", "settle", "rearm"} : pc' = [pc EXCEPT ![f] = ph]
    BY <1>11 DEF Settle, Rearm, DrainThrows, RearmThrows, GoTo
  <2>2. /\ messages' = messages
        /\ \A v \in Workers : v # f => /\ since'[v] = since[v] /\ seen'[v] = seen[v]
                                       /\ gate'[v] = gate[v] /\ started'[v] = started[v]
                                       /\ plan'[v] = plan[v]
    BY <1>1, <1>11 DEF Settle, Rearm, DrainThrows, RearmThrows, Forget
  <2> QED
    BY <1>1, <1>7, <2>1, <2>2
<1>12. ASSUME NEW w \in Workers, WorkerStep(w) PROVE InOrder' \/ Lost'
  <2>1. CASE TurnStep(w)
    BY <1>3, <2>1, OrderAbsorb, OrderTurn
  <2>2. CASE FinishForced(w)
    BY <2>2, OrderEnd
  <2>3. CASE w \in Flushes /\ FlushStep(w)
    BY <1>11, <2>3, OrderLoad, OrderClaim, OrderLate, OrderEnd DEF FlushStep
  <2> QED
    BY <1>12, <2>1, <2>2, <2>3 DEF WorkerStep
<1>13. ASSUME NEW w \in Workers, Throw(w) PROVE InOrder'
  BY <1>13, OrderEnd
<1> QED
  BY <1>2, <1>3, <1>4, <1>5, <1>6, <1>8, <1>9, <1>10, <1>11, <1>12, <1>13, <1>14
  DEF Next, Environment, Schedule, Timer, Retry, Manager, FireTimer, RetryFlush, RetryEvaluate,
      ManagerReads, ToggleBot, ManagerTakesOver, vars

\* What a step of a quiet conversation does to its state: nothing, or a handoff.
LEMMA StateStep ==
  ASSUME StillOK, [Next]_vars
  PROVE  conversation' = conversation \/ conversation' = "handoff"
<1> USE DEF durable, coalesce, locals, frame, others, ghosts
<1>1. ~ToggleBot /\ \A w : ~HandoffAutoReturn(w) \/ w \notin Workers
  BY DEF ToggleBot, HandoffAutoReturn, Spend, StillOK
<1>2. ASSUME NEW w \in Workers, TurnStep(w)
      PROVE  conversation' = conversation \/ conversation' = "handoff"
  <2>1. Takeover(w) => conversation' = "handoff"
    BY DEF Takeover, SetState
  <2>2. ~Takeover(w) => conversation' = conversation
    BY <1>1, <1>2 DEF TurnStep, BeginTurn, ReadConversation, ConversationGone, HandoffExpired, AbsorbLateInbound,
       AskClaude, ClaudeAnswers, Guard, OrderGate, ChooseOutbound, Send, Persist
  <2> QED
    BY <2>1, <2>2
<1>3. ASSUME NEW w \in Workers, WorkerStep(w)
      PROVE  conversation' = conversation \/ conversation' = "handoff"
  BY <1>2, <1>3 DEF WorkerStep, FinishForced, FlushStep, LoadPending, ClaimBatch, LateCheck, Finish,
     Settle, Rearm
<1>4. ManagerTakesOver => conversation' = conversation \/ conversation' = "handoff"
  BY DEF ManagerTakesOver, SetState
<1>5. ASSUME NEW w \in Workers, Throw(w) \/ ForceTurn(w) \/ DrainThrows(w) \/ RearmThrows(w)
      PROVE  conversation' = conversation
  BY <1>5 DEF Throw, ForceTurn, DrainThrows, RearmThrows
<1>6. ClientMessage \/ ReactionEvent \/ ManagerReads \/ Crash \/ Schedule \/ Timer \/ Retry
      \/ ManagerPersists \/ vars' = vars \/ (\E i \in webhooks : WebhookEnds(i)) => conversation' = conversation
  BY DEF ClientMessage, ReactionEvent, ManagerReads, Crash, Schedule, ScheduleInboundBotTurn, Timer,
     FireTimer, Retry, RetryEvaluate, RetryClear, RetryFlush, ManagerPersists, WebhookEnds, vars
<1> QED
  BY <1>1, <1>3, <1>4, <1>5, <1>6 DEF Next, Environment, Manager, Workers

\* No flush gets past the test of a conversation that is not the bot's.
LEMMA LostStep ==
  ASSUME TypeOK, StillOK, Lost, [Next]_vars
  PROVE  Lost'
<1> USE DEF durable, coalesce, locals, frame, others, ghosts
<1> DEFINE Out(p) == p \notin TurnPhases \ {"read"}
<1>1. pc \in [Workers -> Phases] /\ Flushes \subseteq Workers /\ Forced \subseteq Workers
  BY DEF TypeOK, FlowOK, Workers
<1>2. conversation' # "bot"
  BY StateStep DEF Lost
<1>3. ASSUME NEW w \in Workers, NEW ph, pc' = [pc EXCEPT ![w] = ph], w \in Flushes => Out(ph)
      PROVE  Lost'
  <2>1. \A f \in Flushes : Out(pc'[f])
    BY <1>1, <1>3 DEF Lost
  <2> QED
    BY <1>2, <2>1 DEF Lost
<1>4. CASE UNCHANGED pc
  BY <1>2, <1>4 DEF Lost
<1>5. CASE Crash
  BY <1>1, <1>2, <1>5 DEF Crash, Lost, TurnPhases
<1>6. ASSUME NEW f \in Flushes, StartFlush(f) PROVE Lost'
  BY <1>1, <1>3, <1>6 DEF StartFlush, GoTo, TurnPhases
<1>7. ASSUME NEW i \in webhooks, ScheduleInboundBotTurn(i) PROVE Lost'
  <2>1. UNCHANGED pc \/ \E f \in Flushes : StartFlush(f)
    BY <1>7 DEF ScheduleInboundBotTurn
  <2> QED
    BY <1>4, <1>6, <2>1
<1>11. ASSUME NEW f \in Flushes, DrainThrows(f) \/ RearmThrows(f) PROVE Lost'
  BY <1>1, <1>3, <1>11 DEF DrainThrows, RearmThrows, GoTo, TurnPhases
<1>8. ASSUME NEW w \in Workers, WorkerStep(w) \/ Throw(w) PROVE Lost'
  <2>4. ~HandoffExpired(w) /\ ~ConversationGone(w)
    BY DEF HandoffExpired, ConversationGone, Spend, StillOK
  <2>1. PICK ph : pc' = [pc EXCEPT ![w] = ph]
    BY <1>8, <2>4 DEF WorkerStep, TurnStep, FinishForced, FlushStep, Throw, BeginTurn, ReadConversation,
       HandoffExpired, HandoffAutoReturn, AbsorbLateInbound, AskClaude, ClaudeAnswers, Guard,
       OrderGate, ChooseOutbound, Takeover, Send, Persist, LoadPending, ClaimBatch, LateCheck,
       Finish, Settle, Rearm, Return, GoTo
  <2>2. pc'[w] = ph
    BY <1>1, <2>1
  <2>3. ASSUME w \in Flushes PROVE Out(ph)
    <3>1. w \notin Forced /\ conversation # "bot" /\ Out(pc[w])
      BY <2>3, WorkersAssumption DEF Lost
    <3>2. CASE Throw(w)
      BY <1>1, <2>2, <3>1, <3>2 DEF Throw, GoTo, TurnPhases
    <3>4. CASE TurnStep(w)
      <4>1. BeginTurn(w) \/ ReadConversation(w)
        BY <2>4, <3>1, <3>4 DEF TurnStep, HandoffAutoReturn, AbsorbLateInbound, AskClaude,
           ClaudeAnswers, Guard, OrderGate, ChooseOutbound, Takeover, Send, Persist, TurnPhases
      <4>2. ph \in {"load", "finish"}
        BY <1>1, <2>2, <3>1, <4>1 DEF BeginTurn, ReadConversation, Return, GoTo
      <4> QED
        BY <4>2 DEF TurnPhases
    <3>5. CASE FlushStep(w)
      <4>1. ~LateCheck(w)
        BY <3>1 DEF LateCheck, TurnPhases
      <4>2. ph \in {"settle", "claim", "read", "load", "rearm", "idle", "queued"}
        BY <1>1, <2>2, <3>5, <4>1 DEF FlushStep, LoadPending, ClaimBatch, Finish, Settle, Rearm, GoTo
      <4> QED
        BY <4>2 DEF TurnPhases
    <3> QED
      BY <1>8, <2>3, <3>1, <3>2, <3>4, <3>5 DEF WorkerStep, FinishForced
  <2> QED
    BY <1>3, <2>1, <2>3
<1>9. ASSUME NEW w \in Forced, ForceTurn(w) PROVE Lost'
  BY <1>1, <1>3, <1>9, WorkersAssumption DEF ForceTurn, GoTo, TurnPhases
<1>10. ClientMessage \/ ReactionEvent \/ ManagerReads \/ ToggleBot \/ RetryEvaluate \/ RetryClear
       \/ Manager \/ vars' = vars \/ (\E i \in webhooks : WebhookEnds(i)) => UNCHANGED pc
  BY DEF ClientMessage, ReactionEvent, ManagerReads, ToggleBot, RetryEvaluate, RetryClear, Manager,
     ManagerPersists, ManagerTakesOver, WebhookEnds, vars
<1> QED
  BY <1>4, <1>5, <1>6, <1>7, <1>8, <1>9, <1>10, <1>11
  DEF Next, Environment, Schedule, Timer, Retry, FireTimer, RetryFlush

\* The invariant behind the replies.
ReplyInv == StillOK /\ KindsOK /\ ClockOK /\ TextOK /\ (Lost \/ InOrder)

\* It gives the property.
LEMMA ReplyMeans == TypeOK /\ ReplyInv => ReplySawEveryBubble
<1> SUFFICES ASSUME TypeOK, ReplyInv, NEW f \in Flushes, pc[f] = "send", plan[f] = "reply",
                    NEW i \in Rows({"client"}), i <= started[f]
             PROVE  messages[i].claim # "free" /\ (messages[i].claim = f => i \in batch[f])
  BY DEF ReplySawEveryBubble
<1>1. messages \in Seq(Row) /\ f \in Workers /\ started[f] \in Nat
  BY DEF TypeOK, DataOK, FrameOK, Workers
<1>2. i \in DOMAIN messages /\ i \in Nat /\ i \in Rows(Inbound)
  BY <1>1, LenProperties DEF Rows, Inbound
<1>3. messages[i].claim = f => i \in batch[f]
  <2>1. Held(f) \subseteq batch[f]
    BY DEF ReplyInv, TextOK, Text, TurnPhases
  <2> QED
    BY <1>2, <2>1 DEF Held
<1>4. InOrder
  BY DEF ReplyInv, Lost, TurnPhases
<1>5. messages[i].claim # "free"
  <2>1. \A j \in Unclaimed : started[f] < j
    BY <1>4 DEF InOrder, Ordered
  <2>2. ~ (started[f] < i)
    BY <1>1, <1>2
  <2> QED
    BY <1>2, <2>1, <2>2 DEF Unclaimed
<1> QED
  BY <1>3, <1>5

\* In a quiet conversation it holds at the start.
LEMMA ReplyStart == Quiet /\ Init => ReplyInv
<1> SUFFICES ASSUME Quiet, Init PROVE ReplyInv
  OBVIOUS
<1>0. messages = History /\ messages \in Seq(Row) /\ Len(messages) \in Nat
      /\ \A i \in 1..Len(messages) : messages[i].claim \in {"free", "skipped", "done"}
  <2>1. messages = History
    BY DEF Init
  <2>2. TypeOK
    BY InitOK
  <2>3. \A i \in 1..Len(History) : History[i] \in
          [kind : {"client", "reaction", "bot", "fallback", "note", "manager"},
           claim : {"free", "skipped", "done"}]
    BY HistoryAssumption, ElementOfSeq
  <2> QED
    BY <2>1, <2>2, <2>3, LenProperties DEF TypeOK, DataOK
<1>1. Flushes \subseteq Workers /\ \A w \in Workers : pc[w] = "idle" /\ verdict[w] = "completed" /\ since[w] = 0
                                                      /\ gate[w] = 0 /\ started[w] = 0
  BY DEF Init, Workers
<1>2. StillOK
  BY <1>1 DEF Quiet, Init, StillOK
<1>3. ClockOK
  BY <1>0, <1>1 DEF ClockOK
<1>4. TextOK
  BY <1>1 DEF TextOK, Text, TurnPhases
<1>5. Unclaimed = {} /\ Settled = Claimed /\ Claimed # {}
  <2>1. Rows(Inbound) = {i \in 1..Len(messages) : messages[i].kind \in Inbound}
    BY <1>0, RowSets
  <2>2. \A i \in Rows(Inbound) : messages[i].claim # "free" /\ messages[i].claim \notin Workers
    BY <1>0, <2>1, WorkersAssumption DEF Quiet
  <2>3. Rows(Inbound) # {}
    BY <1>0, <2>1 DEF Quiet
  <2> QED
    BY <2>2, <2>3 DEF Unclaimed, Settled, Claimed
<1>6. KindsOK
  <2>1. \A i \in 1..Len(messages) : messages[i].kind = "reaction" => messages[i].claim \in {"skipped", "done"}
    BY <1>0 DEF Quiet, Inbound
  <2> QED
    BY <1>5, <2>1 DEF KindsOK
<1>7. InOrder
  <2>1. Sorted
    BY <1>5 DEF Sorted
  <2>2. \A f \in Flushes : Ordered(f)
    BY <1>1 DEF Ordered, Absorbed, TurnPhases
  <2> QED
    BY <2>1, <2>2 DEF InOrder
<1> QED
  BY <1>2, <1>3, <1>4, <1>6, <1>7 DEF ReplyInv

\* Every step keeps it, while a batch has room.
LEMMA ReplyStep ==
  Quiet /\ Shape /\ ClaimsOK /\ WakeInv /\ NoOverflow /\ ReplyInv /\ [Next]_vars => ReplyInv'
<1> SUFFICES ASSUME Quiet, Shape, ClaimsOK, WakeInv, NoOverflow, ReplyInv, [Next]_vars
             PROVE  ReplyInv'
  OBVIOUS
<1>1. TypeOK /\ FlagsOK /\ SeenOK /\ StillOK /\ KindsOK /\ ClockOK /\ TextOK /\ (Lost \/ InOrder)
  BY DEF Shape, WakeInv, ReplyInv
<1>2. StillOK' /\ KindsOK' /\ ClockOK' /\ TextOK'
  BY <1>1, StillStep, KindsStep, ClockStep, TextStep
<1>3. Lost' \/ InOrder'
  BY <1>1, LostStep, OrderStep
<1> QED
  BY <1>2, <1>3 DEF ReplyInv

\* ReplySawEveryBubble: in a quiet conversation, while a batch has room for what
\* is pending, a plain reply leaves only with every bubble in its text that had
\* arrived when Claude was asked.
THEOREM ReplyTheorem ==
  ASSUME Quiet
  PROVE  Spec /\ []NoOverflow => []ReplySawEveryBubble
<1>1. Init => ReplyInv
  BY ReplyStart
<1>2. Shape /\ ClaimsOK /\ WakeInv /\ NoOverflow /\ ReplyInv /\ [Next]_vars => ReplyInv'
  BY ReplyStep
<1>3. TypeOK /\ ReplyInv => ReplySawEveryBubble
  BY ReplyMeans
<1>4. Spec /\ []NoOverflow => []WakeInv
  BY WakeInvariant
<1> QED
  BY <1>1, <1>2, <1>3, <1>4, ShapeInvariant, TypeInvariant, ClaimsInvariant, PTL DEF Spec

-----------------------------------------------------------------------------
(* The inbox.  Every step on the rows is a step of the abstract inbox, or   *)
(* leaves it alone: a claim reads, the end of a turn settles or puts back,  *)
(* and so do a turn that throws and a process that dies.                    *)

Board == [i \in Rows({"client"}) |-> InboxStatus(messages[i].claim)]

\* An older conversation is settled, and no retry reopens one.
Unretried ==
  /\ ~RetryEnabled
  /\ \A i \in 1..Len(History) : History[i].kind = "client" => History[i].claim # "free"

\* What setting claims shows on the board.
LEMMA BoardMove ==
  ASSUME messages \in Seq(Row), NEW S, NEW c \in Claims, messages' = SetClaim(S, c)
  PROVE  Board' = [i \in DOMAIN Board |-> IF i \in S THEN InboxStatus(c) ELSE Board[i]]
<1>1. Rows({"client"})' = Rows({"client"})
  BY SetClaimSets
<1>2. Rows({"client"}) \subseteq 1..Len(messages)
  BY RowSets
<1>3. \A i \in Rows({"client"}) : messages'[i].claim = IF i \in S THEN c ELSE messages[i].claim
  BY <1>2, SetClaimClaim
<1>4. DOMAIN Board = Rows({"client"})
  BY DEF Board
<1>5. Board' = [i \in Rows({"client"}) |-> InboxStatus(messages'[i].claim)]
  BY <1>1 DEF Board
<1>6. \A i \in Rows({"client"}) : Board[i] = InboxStatus(messages[i].claim)
  BY DEF Board
<1> HIDE DEF Board
<1>7. \A i \in Rows({"client"}) :
        InboxStatus(messages'[i].claim) = IF i \in S THEN InboxStatus(c) ELSE Board[i]
  BY <1>3, <1>6
<1> QED
  BY <1>4, <1>5, <1>7

\* The statuses of a claim.
LEMMA Statuses ==
  /\ InboxStatus("free") = "waiting" /\ InboxStatus("done") = "settled"
  /\ InboxStatus("skipped") = "settled"
  /\ \A w \in Workers : InboxStatus(w) = "reading"
BY WorkersAssumption DEF InboxStatus

\* What is on the board, by the claims.
LEMMA BoardStatus ==
  ASSUME messages \in Seq(Row)
  PROVE  /\ DOMAIN Board = Rows({"client"})
         /\ \A i \in DOMAIN Board : /\ (Board[i] = "waiting" <=> messages[i].claim = "free")
                                    /\ (Board[i] = "reading" <=> messages[i].claim \in Workers)
<1>1. \A i \in Rows({"client"}) : messages[i].claim \in Claims
  <2>1. Rows({"client"}) \subseteq 1..Len(messages)
    BY RowSets
  <2>2. \A i \in 1..Len(messages) : messages[i] \in Row
    BY ElementOfSeq
  <2> QED
    BY <2>1, <2>2 DEF Row
<1>2. \A c \in Claims : /\ (InboxStatus(c) = "waiting" <=> c = "free")
                        /\ (InboxStatus(c) = "reading" <=> c \in Workers)
  BY Statuses, WorkersAssumption DEF Claims
<1> QED
  BY <1>1, <1>2 DEF Board

\* A turn claims free rows: it reads what waits.
LEMMA BoardTake ==
  ASSUME messages \in Seq(Row), NEW w \in Workers, NEW S, messages' = SetClaim(S, w),
         \A i \in S : messages[i].claim = "free"
  PROVE  Inbox!Read \/ Board' = Board
<1> DEFINE T == S \cap DOMAIN Board
<1>1. Board' = [i \in DOMAIN Board |-> IF i \in T THEN "reading" ELSE Board[i]]
  <2>1. Board' = [i \in DOMAIN Board |-> IF i \in S THEN InboxStatus(w) ELSE Board[i]]
    BY ClaimNames, BoardMove
  <2> QED
    BY <2>1, Statuses
<1>2. T \subseteq {b \in DOMAIN Board : Board[b] = "waiting"}
  BY BoardStatus
<1> HIDE DEF T
<1>3. CASE T # {}
  BY <1>1, <1>2, <1>3 DEF Inbox!Read, Inbox!In, Inbox!Move, Board
<1>4. CASE T = {}
  <2>1. Board = [i \in DOMAIN Board |-> Board[i]]
    BY DEF Board
  <2> QED
    BY <1>1, <1>4, <2>1
<1> QED
  BY <1>3, <1>4

\* All that is read is settled, or put back.
LEMMA BoardGive ==
  ASSUME messages \in Seq(Row), NEW S, NEW c \in {"free", "skipped", "done"},
         messages' = SetClaim(S, c),
         \A i \in DOMAIN messages : i \in S <=> messages[i].claim \in Workers
  PROVE  Inbox!Settle \/ Inbox!PutBack \/ Board' = Board
<1> DEFINE T == {b \in DOMAIN Board : Board[b] = "reading"}
<1>1. \A i \in DOMAIN Board : i \in S <=> i \in T
  BY BoardStatus DEF Rows
<1>2. InboxStatus(c) \in {"waiting", "settled"}
  BY Statuses
<1>3. Board' = [i \in DOMAIN Board |-> IF i \in T THEN InboxStatus(c) ELSE Board[i]]
  <2>1. Board' = [i \in DOMAIN Board |-> IF i \in S THEN InboxStatus(c) ELSE Board[i]]
    BY ClaimNames, BoardMove
  <2> HIDE DEF T
  <2> QED
    BY <1>1, <2>1
<1>4. CASE T # {}
  BY <1>2, <1>3, <1>4 DEF Inbox!Settle, Inbox!PutBack, Inbox!In, Inbox!Move, Board
<1>5. CASE T = {}
  <2>1. Board = [i \in DOMAIN Board |-> Board[i]]
    BY DEF Board
  <2> QED
    BY <1>3, <1>5, <2>1
<1> QED
  BY <1>4, <1>5

\* A bubble of the client arrives; other rows do not show.
LEMMA BoardAppend ==
  ASSUME messages \in Seq(Row), NEW r \in Row, messages' = Append(messages, r),
         r.kind = "client" => r.claim = "free"
  PROVE  Inbox!Arrive \/ Board' = Board
<1> DEFINE n == Len(messages)
<1>1. n \in Nat /\ Len(messages') = n + 1 /\ messages' \in Seq(Row) /\ messages'[n + 1] = r
      /\ \A i \in 1..n : messages'[i] = messages[i]
  BY NewRowType, LenProperties
<1>2. Rows({"client"}) = {i \in 1..n : messages[i].kind = "client"}
      /\ Rows({"client"})' = {i \in 1..(n + 1) : messages'[i].kind = "client"}
  BY <1>1, LenProperties DEF Rows
<1>3. n + 1 \in Nat \ {0} /\ n + 1 \notin 1..n /\ 1..(n + 1) = 1..n \cup {n + 1}
  BY <1>1
<1> HIDE DEF n
<1>4. \A i \in Rows({"client"}) : messages'[i] = messages[i]
  BY <1>1, <1>2
<1>5. CASE r.kind = "client"
  <2>1. Rows({"client"})' = Rows({"client"}) \cup {n + 1} /\ n + 1 \notin Rows({"client"})
    BY <1>1, <1>2, <1>3, <1>5
  <2>2. Board' = [c \in DOMAIN Board \cup {n + 1} |-> IF c = n + 1 THEN "waiting" ELSE Board[c]]
    <3>1. \A i \in Rows({"client"})' : InboxStatus(messages'[i].claim) =
            IF i = n + 1 THEN "waiting" ELSE InboxStatus(messages[i].claim)
      BY <1>1, <1>4, <1>5, <2>1, Statuses
    <3>2. DOMAIN Board = Rows({"client"})
          /\ \A i \in Rows({"client"}) : Board[i] = InboxStatus(messages[i].claim)
      BY DEF Board
    <3>3. Board' = [i \in Rows({"client"})' |-> InboxStatus(messages'[i].claim)]
      BY DEF Board
    <3> QED
      BY <2>1, <3>1, <3>2, <3>3
  <2>3. n + 1 \in DOMAIN Board' \ DOMAIN Board
    BY <2>1 DEF Board
  <2> QED
    BY <1>3, <2>2, <2>3 DEF Inbox!Arrive, Board
<1>6. CASE r.kind # "client"
  <2>1. Rows({"client"})' = Rows({"client"})
    BY <1>1, <1>2, <1>3, <1>6
  <2> QED
    BY <1>4, <2>1 DEF Board
<1> QED
  BY <1>5, <1>6

\* No retry ever starts.
LEMMA RetryIdle ==
  ASSUME Unretried, retry = "idle", [Next]_vars
  PROVE  retry' = "idle"
<1> USE DEF durable, coalesce, locals, frame, others, ghosts
<1>1. ~Retry
  BY DEF Retry, RetryEvaluate, RetryClear, RetryFlush, Unretried
<1>2. ASSUME NEW w \in Workers, WorkerStep(w) \/ Throw(w) \/ ForceTurn(w) PROVE retry' = "idle"
  BY <1>2 DEF WorkerStep, TurnStep, FinishForced, FlushStep, Throw, ForceTurn, BeginTurn,
     ReadConversation, ConversationGone, HandoffExpired, HandoffAutoReturn, AbsorbLateInbound, AskClaude,
     ClaudeAnswers, Guard, OrderGate, ChooseOutbound, Takeover, Send, Persist, LoadPending,
     ClaimBatch, LateCheck, Finish, Settle, Rearm
<1>3. ClientMessage \/ ReactionEvent \/ ManagerReads \/ ToggleBot \/ Crash \/ Schedule \/ Timer
      \/ Manager \/ vars' = vars \/ (\E i \in webhooks : WebhookEnds(i))
      \/ (\E f \in Flushes : DrainThrows(f) \/ RearmThrows(f)) => retry' = "idle"
  BY DEF ClientMessage, ReactionEvent, ManagerReads, ToggleBot, Crash, Schedule,
     ScheduleInboundBotTurn, Timer, FireTimer, Manager, ManagerPersists, ManagerTakesOver,
     WebhookEnds, DrainThrows, RearmThrows, vars
<1> QED
  BY <1>1, <1>2, <1>3 DEF Next, Environment, Workers

\* Every step is one of the inbox, or does not show.
LEMMA InboxStep ==
  ASSUME Unretried, Shape, ClaimsOK, retry = "idle", [Next]_vars
  PROVE  Inbox!Next \/ Board' = Board
<1> USE DEF durable, coalesce, locals, frame, others, ghosts
<1>1. messages \in Seq(Row)
  BY DEF Shape, TypeOK, DataOK
<1>2. CASE messages' = messages
  BY <1>2 DEF Board, Rows
<1>3. ASSUME NEW r \in Row, messages' = Append(messages, r), r.kind = "client" => r.claim = "free"
      PROVE  Inbox!Next \/ Board' = Board
  BY <1>1, <1>3, BoardAppend DEF Inbox!Next
<1>4. ClientMessage \/ ReactionEvent \/ ManagerPersists => Inbox!Next \/ Board' = Board
  BY <1>3 DEF ClientMessage, ReactionEvent, ManagerPersists, NewRow, Row, Kinds, Claims
<1>5. ASSUME NEW w \in Workers, Persist(w) PROVE Inbox!Next \/ Board' = Board
  <2>1. PICK k \in {"fallback", "note", "bot"} : messages' = Append(messages, NewRow(k))
    BY <1>5 DEF Persist
  <2>2. NewRow(k) \in Row /\ NewRow(k).kind # "client"
    BY DEF NewRow, Row, Kinds, Claims
  <2> QED
    BY <1>3, <2>1, <2>2
<1>6. ASSUME NEW w \in Workers, AbsorbLateInbound(w) \/ (w \in Flushes /\ ClaimBatch(w))
      PROVE  Inbox!Next \/ Board' = Board
  <2>1. PICK S : messages' = SetClaim(S, w) /\ \A i \in S : messages[i].claim = "free"
    <3>1. \A i \in Oldest(Pending(0), MaxBatch) : messages[i].claim = "free"
      BY DEF Oldest, Pending
    <3> QED
      BY <1>6, <3>1 DEF AbsorbLateInbound, ClaimBatch
  <2> QED
    BY <1>1, <2>1, BoardTake DEF Inbox!Next
<1>7. ASSUME NEW w \in Workers, Throw(w) \/ FinishForced(w) \/ (w \in Flushes /\ Finish(w))
      PROVE  Inbox!Next \/ Board' = Board
  <2>1. PICK c \in {"free", "skipped", "done"} : messages' = SetClaim(Held(w), c)
    BY <1>7, ClaimNames DEF Throw, FinishForced, Finish
  <2>2. pc[w] \in Running
    BY <1>7 DEF Throw, FinishForced, Finish, Running
  <2>3. \A i \in DOMAIN messages : i \in Held(w) <=> messages[i].claim \in Workers
    <3>1. \A v \in Workers : v # w => Held(v) = {}
      BY <2>2, SoleHolder
    <3> QED
      BY <3>1 DEF Held
  <2> QED
    BY <1>1, <2>1, <2>3, BoardGive DEF Inbox!Next
<1>8. CASE Crash
  <2>1. \A i \in DOMAIN messages :
          i \in UNION {Held(w) : w \in Workers} <=> messages[i].claim \in Workers
    BY DEF Held
  <2>2. messages' = SetClaim(UNION {Held(w) : w \in Workers}, "done")
    BY <1>8 DEF Crash
  <2> QED
    BY <1>1, <2>1, <2>2, BoardGive DEF Inbox!Next
<1>9. ~Retry
  BY DEF Retry, RetryEvaluate, RetryClear, RetryFlush, Unretried
<1>10. ASSUME NEW w \in Workers, WorkerStep(w) PROVE Inbox!Next \/ Board' = Board
  <2>1. CASE TurnStep(w)
    BY <1>2, <1>5, <1>6, <2>1 DEF TurnStep, BeginTurn, ReadConversation, ConversationGone, HandoffExpired,
       HandoffAutoReturn, AskClaude, ClaudeAnswers, Guard, OrderGate, ChooseOutbound, Takeover, Send
  <2>2. CASE w \in Flushes /\ FlushStep(w)
    BY <1>2, <1>6, <1>7, <2>2 DEF FlushStep, LoadPending, LateCheck, Settle, Rearm
  <2> QED
    BY <1>7, <1>10, <2>1, <2>2 DEF WorkerStep
<1>11. ManagerReads \/ ToggleBot \/ Schedule \/ Timer \/ ManagerTakesOver
       \/ (\E w \in Forced : ForceTurn(w)) \/ vars' = vars
       \/ (\E f \in Flushes : DrainThrows(f) \/ RearmThrows(f))
       \/ (\E i \in webhooks : WebhookEnds(i)) => messages' = messages
  BY DEF ManagerReads, ToggleBot, Schedule, ScheduleInboundBotTurn, Timer, FireTimer,
     ManagerTakesOver, ForceTurn, DrainThrows, RearmThrows, WebhookEnds, vars
<1> QED
  BY <1>2, <1>4, <1>7, <1>8, <1>9, <1>10, <1>11 DEF Next, Environment, Manager

\* The safety half of RefinesInbox: with an older conversation settled and no
\* retries, what happens to the bubbles is what may happen to one inbox with one
\* reader - also when turns throw, the process dies or a manager asks for a turn.
THEOREM InboxTheorem ==
  ASSUME Unretried
  PROVE  Spec => Inbox!SafeSpec
<1>1. Init => Inbox!Init /\ retry = "idle"
  <2> SUFFICES ASSUME Init PROVE Inbox!Init /\ retry = "idle"
    OBVIOUS
  <2>1. messages = History /\ messages \in Seq(Row) /\ retry = "idle"
    BY InitOK DEF Init, TypeOK, DataOK
  <2>2. \A i \in Rows({"client"}) : messages[i].claim \in {"skipped", "done"}
    <3>1. \A i \in 1..Len(History) : History[i] \in
            [kind : {"client", "reaction", "bot", "fallback", "note", "manager"},
             claim : {"free", "skipped", "done"}]
      BY HistoryAssumption, ElementOfSeq
    <3>2. Rows({"client"}) = {i \in 1..Len(messages) : messages[i].kind \in {"client"}}
      BY <2>1, RowSets
    <3> QED
      BY <2>1, <3>1, <3>2 DEF Unretried
  <2> QED
    BY <2>1, <2>2, Statuses DEF Inbox!Init
<1>2. Shape /\ ClaimsOK /\ retry = "idle" /\ [Next]_vars => [Inbox!Next]_Board /\ (retry = "idle")'
  BY InboxStep, RetryIdle
<1> QED
  BY <1>1, <1>2, ShapeInvariant, ClaimsInvariant, PTL DEF Spec, Inbox!SafeSpec, Board
=============================================================================
