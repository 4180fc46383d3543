----------------------------- MODULE FollowUps ------------------------------
(***************************************************************************)
(* What one Instagram conversation sends to a silent client, and how its   *)
(* own sends come back: the follow-up jobs, the slot followUpSentAt that   *)
(* allows one nudge per silence, and the echo webhook, which takes an      *)
(* outbound message it does not know for a manager's.                      *)
(*                                                                         *)
(* A bot turn and a nudge run in the turn queue, one at a time; the        *)
(* webhooks, the admin routes and the calls nobody awaits run beside them. *)
(* Every await between two accesses of the database is a point where       *)
(* another of them may run.                                                *)
(***************************************************************************)
EXTENDS Naturals, FiniteSets

CONSTANTS
  MaxSends,   \* replies and nudges sent
  Split,      \* the sends of two parts: more than 1000 characters
  Like,       \* the parts whose text equals, contains or is part of another send's
  MaxRecent,  \* take: 20, the outbound rows an echo is compared with
  MaxJobs,    \* rows of follow_up_jobs
  MaxBubbles, \* bubbles after the first
  Budgets     \* how many bubbles, manager's replies, and other actions or faults there may be

Kinds == {"bubbles", "replies", "others"}

ASSUME BoundsAssumption ==
  MaxSends \in Nat \ {0} /\ MaxJobs \in Nat \ {0} /\ MaxRecent \in Nat \ {0}
ASSUME SplitAssumption == Split \in SUBSET (1..MaxSends)
ASSUME LikeAssumption ==
  Like \in SUBSET (((0..MaxSends) \X {1, 2, 3}) \X (0..MaxSends))
ASSUME BudgetAssumption ==
  /\ MaxBubbles \in Nat
  /\ Budgets \in SUBSET [Kinds -> Nat]
  /\ \A b \in Budgets : b["bubbles"] <= MaxBubbles

Jobs  == 1..MaxJobs
Sends == 1..MaxSends

\* Message ids of Instagram: the parts of a send, a copy of a part whose answer was lost, and
\* what a manager typed in the app.
Mids  == (0..MaxSends) \X {1, 2, 3}
Typed == <<0, 1>>
NoMid == <<0, 2>>
Copy(n) == <<n, 3>>

VARIABLES
  now,       \* the clock: the last createdAt or timestamp given out
  old,       \* rows up to here are older than delayHours
  state,     \* conversation.state
  slot,      \* followUpSentAt is set
  thread,    \* the messages of the conversation
  job,       \* the follow-up jobs
  enabled,   \* follow_up_config.enabled
  task,      \* the turn, the nudge and a manager's reply
  plan,      \* scheduleFollowUpAfterBotOutbound under way
  cancels,   \* calls of cancelPendingFollowUps not yet executed
  inbound,   \* processMessageEvent: between the row and the update of the conversation
  admin,     \* POST /:id/reply and PATCH /:id/bot-responses
  echo,      \* persistNativeIgEcho
  echoes,    \* echo webhooks Meta may deliver
  nudges,    \* history: nudges sent, per silence
  slotFor,   \* history: the silence the slot was last set for
  excuse,    \* history: the slot was set too late for its silence, or a crash kept it
  sent,      \* sends begun
  early,     \* history: echoes looked up while their send was under way
  loose,     \* history: sends whose ids or row were lost
  stuck,     \* history: jobs a crash left in processing
  left       \* what remains of the budget

db      == <<state, slot, thread, job, enabled>>
clock   == <<now, old>>
history == <<nudges, slotFor, excuse, early, loose, stuck>>
vars == <<now, old, state, slot, thread, job, enabled, task, plan, cancels,
          inbound, admin, echo, echoes, sent, nudges, slotFor, excuse, early, loose, stuck,
          left>>

Row == [at: Nat, by: {"client", "bot", "manager", "system"}, id: Mids, extra: SUBSET Mids,
        send: 0..MaxSends]

Message(at, by, id, extra, send) ==
  [at |-> at, by |-> by, id |-> id, extra |-> extra, send |-> send]

JobRow == [status: {"none", "pending", "processing", "done", "cancelled", "failed"},
           from: Nat]

Tasks == {"turn", "nudge", "reply"}

\* parts: how many parts have been sent; got: their ids are known; plans: a follow-up may be
\* planned after it; at: createdAt of the row to be stored; silence: the one the nudge was
\* decided in.
TaskRow == [pc: {"idle", "claude", "handoff", "send", "persist", "load", "gate",
                 "consume", "claim", "check", "recheck", "reopen", "settle"},
            started: Nat, send: 0..MaxSends, parts: 0..2, got: BOOLEAN,
            plans: BOOLEAN, at: Nat, job: Jobs \cup {0}, silence: Nat]

Idle == [pc |-> "idle", started |-> 0, send |-> 0, parts |-> 0, got |-> TRUE,
         plans |-> FALSE, at |-> 0, job |-> 0, silence |-> 0]

States == {"bot", "handoff", "paused"}

TypeOK ==
  /\ now \in Nat /\ old \in Nat
  /\ state \in States
  /\ slot \in BOOLEAN
  /\ thread \in SUBSET Row
  /\ job \in [Jobs -> JobRow]
  /\ enabled \in BOOLEAN
  /\ task \in [Tasks -> TaskRow]
  /\ plan \in [pc: {"idle", "load", "write"}, from: Nat]
  /\ cancels \in Nat
  /\ inbound \in {"idle", "clear"}
  /\ admin \in [pc: {"idle", "reply", "state", "note"}, saw: States]
  /\ echo \in [pc: {"idle", "create", "state"}, mid: Mids, at: Nat, takes: BOOLEAN]
  /\ echoes \in SUBSET [mid: Mids, at: Nat]
  /\ nudges \in [0..MaxBubbles -> Nat]
  /\ sent \in 0..MaxSends
  /\ slotFor \in Nat
  /\ excuse \in BOOLEAN
  /\ early \in SUBSET Mids
  /\ loose \in SUBSET Sends
  /\ stuck \in SUBSET Jobs
  /\ left \in [Kinds -> Nat]

NoPlan    == [pc |-> "idle", from |-> 0]
NoRequest == [pc |-> "idle", saw |-> "bot"]
NoEcho    == [pc |-> "idle", mid |-> NoMid, at |-> 0, takes |-> FALSE]

\* The bot has answered a bubble and its follow-up is planned; or, at the cost of a bubble, it
\* is being planned while the job of the silence before is in processing.  The answer to the
\* send, or the send, was lost at the cost of a fault.
Init ==
  /\ now = 3 /\ old = 0
  /\ state = "bot"
  /\ slot = FALSE
  /\ \E b \in Budgets, got, again \in BOOLEAN :
       /\ got \/ b["others"] > 0
       /\ again => b["bubbles"] > 0
       /\ left = [b EXCEPT !["others"] = IF got THEN @ ELSE @ - 1,
                          !["bubbles"] = IF again THEN @ - 1 ELSE @]
       /\ loose = IF got THEN {} ELSE {1}
       /\ thread = {Message(1, "client", NoMid, {}, 0),
                    IF got THEN Message(3, "bot", <<1, 1>>, {<<1, 1>>}, 1)
                    ELSE Message(3, "bot", NoMid, {}, 1)}
       /\ job = [j \in Jobs |-> CASE j # 1 -> [status |-> "none", from |-> 0]
                                  [] again -> [status |-> "processing", from |-> 0]
                                  [] OTHER -> [status |-> "pending", from |-> 3]]
       /\ plan = IF again THEN [pc |-> "load", from |-> 3] ELSE NoPlan
  /\ enabled = TRUE
  /\ task = [p \in Tasks |-> Idle]
  /\ cancels = 0
  /\ inbound = "idle"
  /\ admin = NoRequest
  /\ echo = NoEcho
  /\ echoes = {[mid |-> <<1, 1>>, at |-> 2]}
  /\ nudges = [k \in 0..MaxBubbles |-> 0]
  /\ sent = 1
  /\ slotFor = 0
  /\ excuse = FALSE
  /\ early = {} /\ stuck = {}

-----------------------------------------------------------------------------
(* The thread                                                              *)

Newest(S) == {r \in S : \A q \in S : q.at <= r.at}

LastBy(who) == \E r \in Newest(thread) : r.by = who

Bubbles == {r \in thread : r.by = "client"}

\* What the bot or a manager sent, the newest MaxRecent of it, and what an echo wrote.
Outbound == {r \in thread : r.by \in {"bot", "manager"}}

Newer(r) == {q.at : q \in {q \in Outbound : q.at > r.at}}

Recent == {r \in Outbound : Cardinality(Newer(r)) < MaxRecent}

Native(r) == r.by = "manager" /\ r.extra = {}

\* The silence the client is in, or will be in once answered: how many bubbles there were
\* after the first, and those Init leaves out.
Silence == MaxBubbles - left["bubbles"]

Spend(what) == left[what] > 0 /\ left' = [left EXCEPT ![what] = @ - 1]

SetTask(p, row) == task' = [task EXCEPT ![p] = row]

InQueue(p) == task[p].pc # "idle"

\* isBotTurnStillValid
Valid(p) ==
  /\ state = "bot"
  /\ \A r \in thread : r.by = "manager" => r.at < task[p].started

-----------------------------------------------------------------------------
(* Jobs                                                                    *)

Cancelled(jobs) == [j \in Jobs |-> IF jobs[j].status = "pending"
                                   THEN [jobs[j] EXCEPT !.status = "cancelled"]
                                   ELSE jobs[j]]

\* markJob
Marked(status) == [job EXCEPT ![task["nudge"].job].status = status]

\* cancelPendingFollowUpsSafe: issued and not awaited; executed some time later.
CancelLater == cancels' = cancels + 1

\* Defective: a cancel is counted that was never issued.
RunCancelAnyway ==
  /\ cancels' = cancels - 1
  /\ job' = Cancelled(job)
  /\ UNCHANGED <<clock, state, slot, thread, enabled, task, plan, inbound, admin, echo,
                 echoes, sent, history, left>>

RunCancel ==
  /\ cancels > 0
  /\ cancels' = cancels - 1
  /\ job' = Cancelled(job)
  /\ UNCHANGED <<clock, state, slot, thread, enabled, task, plan, inbound, admin, echo,
                 echoes, sent, history, left>>

\* Defective: a silence that was nudged is nudged again.
SlotIgnored == TRUE

SlotFree == ~slot

\* scheduleFollowUpAfterBotOutbound: the gates, then the transaction.
PlanLoad ==
  /\ plan.pc = "load"
  /\ plan' = IF enabled /\ state = "bot" /\ SlotFree THEN [plan EXCEPT !.pc = "write"]
             ELSE NoPlan
  /\ UNCHANGED <<clock, db, task, cancels, inbound, admin, echo, echoes, sent, history, left>>

PlanWrite ==
  /\ plan.pc = "write"
  /\ \E j \in Jobs :
       /\ job[j].status = "none" /\ \A i \in Jobs : i < j => job[i].status # "none"
       /\ job' = [Cancelled(job) EXCEPT ![j] = [status |-> "pending", from |-> plan.from]]
  /\ plan' = NoPlan
  /\ UNCHANGED <<clock, state, slot, thread, enabled, task, cancels, inbound, admin, echo,
                 echoes, sent, history, left>>

\* onFollowUpConfigSaved
SetEnabled ==
  /\ Spend("others")
  /\ enabled' = ~enabled
  /\ job' = IF enabled THEN Cancelled(job) ELSE job
  /\ UNCHANGED <<clock, state, slot, thread, task, plan, cancels, inbound, admin, echo,
                 echoes, sent, history>>

-----------------------------------------------------------------------------
(* The client                                                              *)

ClientWrites ==
  /\ inbound = "idle"
  /\ Spend("bubbles")
  /\ now' = now + 1
  /\ thread' = thread \cup {Message(now + 1, "client", NoMid, {}, 0)}
  /\ inbound' = "clear"
  /\ UNCHANGED <<old, state, slot, job, enabled, task, plan, cancels, admin, echo,
                 echoes, sent, history>>

\* Defective: the bubble does not open the slot again.
KeepSlot ==
  /\ inbound = "clear"
  /\ inbound' = "idle"
  /\ CancelLater
  /\ UNCHANGED <<clock, db, task, plan, admin, echo, echoes, sent, history, left>>

\* A bubble opens the slot again; a cancel is issued.
ClearSlot ==
  /\ inbound = "clear"
  /\ slot' = FALSE
  /\ excuse' = FALSE
  /\ inbound' = "idle"
  /\ CancelLater
  /\ UNCHANGED <<clock, state, thread, job, enabled, task, plan, admin, echo, echoes, sent, nudges,
                 slotFor, early, loose, stuck, left>>

-----------------------------------------------------------------------------
(* The bot's turn, as far as it sends                                      *)

\* The next send: each has ids of its own.
Fresh(n) ==
  /\ n = 1 + sent
  /\ n \in Sends
  /\ sent' = n

\* autoReturnHandoffToBotIfExpired: whether the idle timeout, a setting, is over is left open.
TurnStart ==
  /\ ~InQueue("turn") /\ ~InQueue("nudge")
  /\ LastBy("client")
  /\ state \in {"bot", "handoff"}
  /\ state' = "bot"
  /\ SetTask("turn", [Idle EXCEPT !.pc = "claude", !.started = now + 1])
  /\ UNCHANGED <<clock, slot, thread, job, enabled, plan, cancels, inbound, admin, echo,
                 echoes, sent, history, left>>

\* An outbound refused, a turn deferred by a late bubble, a silence, noted by the system:
\* nothing is sent.
TurnQuiet ==
  /\ task["turn"].pc = "claude"
  /\ SetTask("turn", Idle)
  /\ \/ UNCHANGED <<now, thread>>
     \/ /\ Valid("turn")
        /\ now' = now + 1
        /\ thread' = thread \cup {Message(now + 1, "system", NoMid, {}, 0)}
  /\ UNCHANGED <<old, state, slot, job, enabled, plan, cancels, inbound, admin, echo,
                 echoes, sent, history, left>>

\* A reply, deferred by a late bubble, or a handoff and its message.
TurnDecide ==
  LET t == task["turn"]
  IN /\ t.pc = "claude"
     /\ Valid("turn")
     /\ \E n \in Sends, pc \in {"send", "handoff"} :
          /\ pc = "send" => \A r \in Bubbles : r.at < t.started
          /\ Fresh(n)
          /\ SetTask("turn", [t EXCEPT !.pc = pc, !.send = n, !.plans = (pc = "send")])
     /\ UNCHANGED <<clock, db, plan, cancels, inbound, admin, echo, echoes, history, left>>

\* performManagerHandoff
TurnHandoff ==
  /\ task["turn"].pc = "handoff"
  /\ state' = "handoff"
  /\ CancelLater
  /\ SetTask("turn", [task["turn"] EXCEPT !.pc = "send"])
  /\ UNCHANGED <<clock, slot, thread, job, enabled, plan, inbound, admin, echo, echoes,
                 sent, history, left>>

-----------------------------------------------------------------------------
(* sendText and persistIgOutboundMessage, for the turn and the nudge       *)

\* Part by part; the ids are returned only when every part went out.
SendPart(p) ==
  LET t == task[p]
      part == t.parts + 1
      last == part = 2 \/ t.send \notin Split
  IN /\ t.pc = "send"
     /\ now' = now + 2
     /\ echoes' = echoes \cup {[mid |-> <<t.send, part>>, at |-> now + 1]}
     /\ SetTask(p, [t EXCEPT !.parts = part, !.pc = IF last THEN "persist" ELSE "send",
                             !.at = now + 2])
     /\ nudges' = IF p = "nudge" /\ part = 1 THEN [nudges EXCEPT ![t.silence] = @ + 1]
                  ELSE nudges
     /\ UNCHANGED <<old, db, plan, cancels, inbound, admin, echo, sent, slotFor,
                    excuse, early, loose, stuck, left>>

\* callIgApi sends a part again when no answer came: nobody learns the id of the first copy.
SendAgain(p) ==
  LET t == task[p]
  IN /\ t.pc = "send"
     /\ Spend("others")
     /\ now' = now + 1
     /\ echoes' = echoes \cup {[mid |-> Copy(t.send), at |-> now + 1]}
     /\ UNCHANGED <<old, db, task, plan, cancels, inbound, admin, echo, sent, history>>

\* A turn stores its message although the send failed, a nudge gives its job up, a reply ends
\* with no row and no handoff.  The part in flight may have been delivered.
SendFails(p) ==
  LET t == task[p]
      part == t.parts + 1
  IN /\ t.pc = "send"
     /\ Spend("others")
     /\ loose' = loose \cup {t.send}
     /\ \/ /\ now' = now + 1
           /\ echoes' = echoes \cup {[mid |-> <<t.send, part>>, at |-> now + 1]}
           /\ nudges' = IF p = "nudge" /\ part = 1 THEN [nudges EXCEPT ![t.silence] = @ + 1]
                        ELSE nudges
        \/ UNCHANGED <<now, echoes, nudges>>
     /\ SetTask(p, IF p = "turn" THEN [t EXCEPT !.pc = "persist", !.got = FALSE] ELSE Idle)
     /\ job' = IF p = "nudge" THEN Marked("failed") ELSE job
     /\ admin' = IF p = "reply" THEN NoRequest ELSE admin
     /\ UNCHANGED <<old, state, slot, thread, enabled, plan, cancels, inbound,
                    echo, sent, slotFor, excuse, early, stuck>>

\* Defective: an echo that came first is left as it is.
StoreLeave(who, n, ids, at) ==
  LET there == {r \in thread : r.id = <<n, 1>> /\ ids # {}}
  IN IF there # {} THEN thread
     ELSE thread \cup {Message(at, who, IF ids = {} THEN NoMid ELSE <<n, 1>>, ids, n)}

\* Defective: only the first id of a split message is kept.
StoreFirst(who, n, ids, at) ==
  LET first == IF ids = {} THEN NoMid ELSE <<n, 1>>
      there == {r \in thread : r.id = first /\ ids # {}}
  IN IF there = {} THEN thread \cup {Message(at, who, first, {first}, n)}
     ELSE (thread \ there) \cup {Message(r.at, who, first, {first}, n) : r \in there}

\* A row of the first id is adopted if the echo wrote it, and keeps its createdAt; any other
\* row of that id is taken for the message itself.
Store(who, n, ids, at) ==
  LET first == IF ids = {} THEN NoMid ELSE <<n, 1>>
      there == {r \in thread : r.id = first /\ ids # {}}
  IN IF there = {} THEN thread \cup {Message(at, who, first, ids, n)}
     ELSE {IF r \in there /\ Native(r) THEN Message(r.at, who, first, ids, n) ELSE r :
             r \in thread}

\* The nudge's row is dated when it was sent, the others when they are stored.  After a bot's
\* reply, but not after a fallback or a handoff message, a follow-up is scheduled; nothing
\* awaits it.
Persist(p) ==
  LET t == task[p]
      at == IF p = "nudge" THEN t.at ELSE now + 1
      ids == IF t.got THEN {<<t.send, i>> : i \in 1..t.parts} ELSE {}
  IN /\ t.pc = "persist"
     /\ now' = IF p = "nudge" THEN now ELSE now + 1
     /\ thread' = Store(IF p = "reply" THEN "manager" ELSE "bot", t.send, ids, at)
     /\ SetTask(p, IF p = "nudge" THEN [t EXCEPT !.pc = "settle"] ELSE Idle)
     /\ \/ /\ p = "turn" /\ t.plans /\ plan.pc = "idle"
           /\ plan' = [pc |-> "load", from |-> now + 1]
        \/ UNCHANGED plan
     /\ admin' = IF p = "reply" THEN [admin EXCEPT !.pc = "state"] ELSE admin
     /\ UNCHANGED <<old, state, slot, job, enabled, cancels, inbound, echo,
                    echoes, sent, history, left>>

-----------------------------------------------------------------------------
(* runFollowUpDuePass and processFollowUpJob                               *)

NudgeTo(pc) == SetTask("nudge", [task["nudge"] EXCEPT !.pc = pc])

GiveUp(status) == SetTask("nudge", Idle) /\ job' = Marked(status)

\* Passes overlap: the next one starts although a job of the last is still waiting.
MonitorClaim ==
  /\ enabled
  /\ \E j \in Jobs :
       /\ job[j].status = "pending" /\ job[j].from <= old
       /\ job' = [job EXCEPT ![j].status = "processing"]
  /\ UNCHANGED <<clock, state, slot, thread, enabled, task, plan, cancels, inbound, admin,
                 echo, echoes, sent, history, left>>

Queued(j) == job[j].status = "processing" /\ j \notin stuck

NudgeStart ==
  /\ ~InQueue("turn") /\ ~InQueue("nudge")
  /\ \E j \in Jobs :
       /\ Queued(j)
       /\ SetTask("nudge", [Idle EXCEPT !.pc = "load", !.started = now + 1, !.job = j])
  /\ UNCHANGED <<clock, db, plan, cancels, inbound, admin, echo, echoes, sent, history, left>>

\* A client without an id, or ignored by name, consumes the slot.
NudgeLoad ==
  /\ task["nudge"].pc = "load"
  /\ \/ (state # "bot" \/ ~SlotFree) /\ GiveUp("cancelled")
     \/ state = "bot" /\ SlotFree /\ NudgeTo("gate") /\ UNCHANGED job
     \/ /\ state = "bot" /\ SlotFree
        /\ \E status \in {"failed", "cancelled"} : job' = Marked(status)
        /\ SetTask("nudge", [task["nudge"] EXCEPT !.pc = "consume", !.silence = Silence])
  /\ UNCHANGED <<clock, state, slot, thread, enabled, plan, cancels, inbound, admin, echo,
                 echoes, sent, history, left>>

\* The messaging window Meta opens at a bubble is over some time after the shortest delay; when,
\* is left open.
WindowOver == \A r \in Bubbles : r.at <= old

\* evaluateFollowUpNeed
NudgeGate ==
  LET t == task["nudge"]
      last == Newest(thread)
      young == \E r \in last : r.at > old
  IN /\ t.pc = "gate"
     /\ \/ ~LastBy("bot") /\ GiveUp("cancelled")
        \/ /\ LastBy("bot") /\ young
           /\ \E r \in last :
                job' = [job EXCEPT ![t.job] = [status |-> "pending", from |-> r.at]]
           /\ SetTask("nudge", Idle)
        \/ /\ LastBy("bot") /\ ~young /\ WindowOver
           /\ job' = Marked("failed")
           /\ SetTask("nudge", [t EXCEPT !.pc = "consume", !.silence = Silence])
        \/ /\ LastBy("bot") /\ ~young
           /\ SetTask("nudge", [t EXCEPT !.pc = "claim", !.silence = Silence])
           /\ UNCHANGED job
     /\ UNCHANGED <<clock, state, slot, thread, enabled, plan, cancels, inbound, admin, echo,
                    echoes, sent, history, left>>

\* followUpSentAt is set on behalf of the silence the task looked at.
TakeSlot ==
  /\ slot' = TRUE
  /\ slotFor' = task["nudge"].silence
  /\ excuse' = (task["nudge"].silence # Silence)

Consume ==
  /\ task["nudge"].pc = "consume"
  /\ TakeSlot
  /\ SetTask("nudge", Idle)
  /\ UNCHANGED <<clock, state, thread, job, enabled, plan, cancels, inbound, admin, echo,
                 echoes, sent, nudges, early, loose, stuck, left>>

NudgeClaim ==
  /\ task["nudge"].pc = "claim"
  /\ \/ /\ state = "bot" /\ SlotFree
        /\ TakeSlot
        /\ NudgeTo("claude")
        /\ UNCHANGED job
     \/ /\ state # "bot" \/ ~SlotFree
        /\ GiveUp("cancelled")
        /\ UNCHANGED <<slot, slotFor, excuse>>
  /\ UNCHANGED <<clock, state, thread, enabled, plan, cancels, inbound, admin, echo, echoes,
                 sent, nudges, early, loose, stuck, left>>

\* A fallback, nothing to say, a text the output gate refuses: failed, no retry.
NudgeClaude ==
  /\ task["nudge"].pc = "claude"
  /\ \/ NudgeTo("check") /\ UNCHANGED job
     \/ GiveUp("failed")
  /\ UNCHANGED <<clock, state, slot, thread, enabled, plan, cancels, inbound, admin, echo,
                 echoes, sent, history, left>>

NudgeCheck ==
  /\ task["nudge"].pc = "check"
  /\ IF Valid("nudge") THEN NudgeTo("recheck") /\ UNCHANGED job
     ELSE NudgeTo("reopen") /\ job' = Marked("cancelled")
  /\ UNCHANGED <<clock, state, slot, thread, enabled, plan, cancels, inbound, admin, echo,
                 echoes, sent, history, left>>

NudgeRecheck ==
  LET t == task["nudge"]
  IN /\ t.pc = "recheck"
     /\ \/ ~LastBy("bot") /\ NudgeTo("reopen") /\ job' = Marked("cancelled") /\ UNCHANGED sent
        \/ LastBy("bot") /\ WindowOver /\ GiveUp("failed") /\ UNCHANGED sent
        \/ /\ LastBy("bot")
           /\ \E n \in Sends : Fresh(n) /\ SetTask("nudge", [t EXCEPT !.pc = "send", !.send = n])
           /\ UNCHANGED job
     /\ UNCHANGED <<clock, state, slot, thread, enabled, plan, cancels, inbound, admin, echo,
                    echoes, history, left>>

\* The client or a manager spoke: the slot is given back.
Reopen ==
  /\ task["nudge"].pc = "reopen"
  /\ slot' = FALSE
  /\ excuse' = FALSE
  /\ SetTask("nudge", Idle)
  /\ UNCHANGED <<clock, state, thread, job, enabled, plan, cancels, inbound, admin, echo,
                 echoes, sent, nudges, slotFor, early, loose, stuck, left>>

Settle ==
  /\ task["nudge"].pc = "settle"
  /\ TakeSlot
  /\ GiveUp("done")
  /\ UNCHANGED <<clock, state, thread, enabled, plan, cancels, inbound, admin, echo, echoes,
                 sent, nudges, early, loose, stuck, left>>

\* The row of a message that went out could not be written: a nudge's job has failed, its
\* slot stays taken; a reply ends without a handoff.
PersistFails(p) ==
  LET t == task[p]
  IN /\ t.pc = "persist"
     /\ Spend("others")
     /\ loose' = loose \cup {t.send}
     /\ SetTask(p, Idle)
     /\ job' = IF p = "nudge" THEN Marked("failed") ELSE job
     /\ admin' = IF p = "reply" THEN NoRequest ELSE admin
     /\ UNCHANGED <<clock, state, slot, thread, enabled, plan, cancels, inbound, echo,
                    echoes, sent, nudges, slotFor, excuse, early, stuck>>

NudgeStep ==
  \/ NudgeStart \/ NudgeLoad \/ NudgeGate \/ Consume \/ NudgeClaim \/ NudgeClaude
  \/ NudgeCheck \/ NudgeRecheck \/ Reopen \/ Settle

-----------------------------------------------------------------------------
(* The echo of an outbound message: persistNativeIgEcho                    *)

\* Sends that have begun and have no row yet.
UnderWay == {task[p].send : p \in {q \in Tasks : task[q].pc \in {"handoff", "send", "persist"}}}

\* By its own id among all rows, by an id of its parts among the recent ones.
Known(mid) == (\E r \in thread : r.id = mid) \/ \E r \in Recent : mid \in r.extra

\* The text of a part is found in the row of its own send, and may be found in another's.
Alike(mid) == {r \in Recent : r.send = mid[1] \/ <<mid, r.send>> \in Like}

\* Meta may deliver an echo more than once.  The newest row of the last 45 s whose text matches
\* is taken for its message, and gets its id if it has none; whether the 45 s are over is left
\* open up to delayHours.  Else the state that was read decides, after the row is written.
EchoLookup ==
  /\ echo.pc = "idle"
  /\ \E e \in echoes :
       /\ ~Known(e.mid)
       /\ \/ /\ echo' = [pc |-> "create", mid |-> e.mid, at |-> e.at, takes |-> state = "bot"]
             /\ early' = IF e.mid[1] \in UnderWay THEN early \cup {e.mid} ELSE early
             /\ UNCHANGED thread
          \/ /\ \E r \in Newest(Alike(e.mid)) :
                  /\ r.at > old /\ r.id = NoMid
                  /\ thread' = (thread \ {r}) \cup {[r EXCEPT !.id = e.mid]}
             /\ UNCHANGED <<echo, early>>
  /\ UNCHANGED <<clock, state, slot, job, enabled, task, plan, cancels, inbound, admin, echoes,
                 sent, nudges, slotFor, excuse, loose, stuck, left>>

\* igMessageId is unique: a row stored since the lookup ends the handler.
EchoCreate ==
  /\ echo.pc = "create"
  /\ IF \E r \in thread : r.id = echo.mid
     THEN echo' = NoEcho /\ UNCHANGED thread
     ELSE /\ thread' = thread \cup {Message(echo.at, "manager", echo.mid, {}, echo.mid[1])}
          /\ echo' = [echo EXCEPT !.pc = "state"]
  /\ UNCHANGED <<clock, state, slot, job, enabled, task, plan, cancels, inbound, admin, echoes,
                 sent, history, left>>

EchoState ==
  /\ echo.pc = "state"
  /\ echo' = NoEcho
  /\ IF echo.takes THEN state' = "handoff" /\ CancelLater ELSE UNCHANGED <<state, cancels>>
  /\ UNCHANGED <<clock, slot, thread, job, enabled, task, plan, inbound, admin, echoes, sent,
                 history, left>>

-----------------------------------------------------------------------------
(* Managers                                                                *)

\* In the Instagram app: all the platform sees is the echo.
ManagerTypes ==
  /\ \A e \in echoes : e.mid # Typed
  /\ Spend("others")
  /\ now' = now + 1
  /\ echoes' = echoes \cup {[mid |-> Typed, at |-> now + 1]}
  /\ UNCHANGED <<old, db, task, plan, cancels, inbound, admin, echo, sent, history>>

\* POST /:id/reply: the state is read, then the message is sent and stored.
ReplySend ==
  /\ admin.pc = "idle" /\ ~InQueue("reply")
  /\ Spend("replies")
  /\ \E n \in Sends : Fresh(n) /\ SetTask("reply", [Idle EXCEPT !.pc = "send", !.send = n])
  /\ admin' = [pc |-> "reply", saw |-> state]
  /\ UNCHANGED <<clock, db, plan, cancels, inbound, echo, echoes, history>>

\* A conversation that was in handoff when the reply began keeps its state.
ReplyState ==
  /\ admin.pc = "state"
  /\ state' = IF admin.saw = "handoff" THEN state ELSE "handoff"
  /\ CancelLater
  /\ admin' = NoRequest
  /\ UNCHANGED <<clock, slot, thread, job, enabled, task, plan, inbound, echo, echoes, sent,
                 history, left>>

\* PATCH /:id/bot-responses: the state, then a note in the thread.
SetResponses(on) ==
  /\ admin.pc = "idle"
  /\ Spend("others")
  /\ state' = IF on THEN "bot" ELSE "paused"
  /\ IF on THEN UNCHANGED cancels ELSE CancelLater
  /\ admin' = [admin EXCEPT !.pc = "note"]
  /\ UNCHANGED <<clock, slot, thread, job, enabled, task, plan, inbound, echo, echoes, sent,
                 history>>

ResponsesNote ==
  /\ admin.pc = "note"
  /\ now' = now + 1
  /\ thread' = thread \cup {Message(now + 1, "system", NoMid, {}, 0)}
  /\ admin' = NoRequest
  /\ UNCHANGED <<old, state, slot, job, enabled, task, plan, cancels, inbound, echo,
                 echoes, sent, history, left>>

-----------------------------------------------------------------------------
(* Time and crashes                                                        *)

\* An hour, the shortest delay, outlasts every call under way.  Time goes on when a job waits
\* for it.
Calm ==
  /\ ~InQueue("turn") /\ ~InQueue("nudge")
  /\ \A j \in Jobs : ~Queued(j)
  /\ plan.pc = "idle" /\ cancels = 0
  /\ inbound = "idle" /\ admin.pc = "idle" /\ echo.pc = "idle"

HoursPass ==
  /\ Calm
  /\ \E j \in Jobs : job[j].status = "pending" /\ job[j].from > old
  /\ old' = now
  /\ UNCHANGED <<now, db, task, plan, cancels, inbound, admin, echo, echoes, sent,
                 history, left>>

\* Nothing but the database is kept.  No code returns a job from processing.
Crash ==
  /\ ~Calm
  /\ Spend("others")
  /\ task' = [p \in Tasks |-> Idle]
  /\ plan' = NoPlan
  /\ cancels' = 0
  /\ inbound' = "idle"
  /\ admin' = NoRequest
  /\ echo' = NoEcho
  /\ loose' = loose \cup (UnderWay \ {0})
  /\ stuck' = {j \in Jobs : job[j].status = "processing"}
  /\ excuse' = (excuse \/ inbound = "clear")
  /\ UNCHANGED <<clock, db, echoes, sent, nudges, slotFor, early>>

-----------------------------------------------------------------------------

Sending(p) ==
  \/ SendPart(p) \/ SendAgain(p) \/ SendFails(p)
  \/ Persist(p) \/ PersistFails(p)

Next ==
  \/ RunCancel \/ PlanLoad \/ PlanWrite \/ SetEnabled
  \/ ClientWrites \/ ClearSlot
  \/ TurnStart \/ TurnQuiet \/ TurnDecide \/ TurnHandoff
  \/ \E p \in Tasks : Sending(p)
  \/ MonitorClaim \/ NudgeStep
  \/ EchoLookup \/ EchoCreate \/ EchoState
  \/ ManagerTypes \/ ReplySend \/ ReplyState \/ ResponsesNote
  \/ \E on \in BOOLEAN : SetResponses(on)
  \/ HoursPass \/ Crash

Spec == Init /\ [][Next]_vars

-----------------------------------------------------------------------------
(* Properties                                                              *)

\* "one nudge per silence cycle" (follow-up.ts): between two bubbles at most one nudge is
\* sent, whatever jobs there are, however passes overlap, sends fail or the process restarts.
OneNudgePerSilence == \A k \in DOMAIN nudges : nudges[k] <= 1

\* The slot is never left from a silence the client has broken: a bubble opens it again,
\* unless the task wrote it after the bubble or a crash came between.
SlotIsCurrent == slot /\ inbound = "idle" /\ ~excuse => slotFor = Silence

\* A send whose ids and row were not lost is one row once it is stored, whether its echo came
\* before or after: its own, which knows its ids, or, if the echo was matched by text with
\* the row of a send that has no ids, that one.
OwnSendOnce ==
  \A n \in 1..sent :
    n \notin loose \cup UnderWay \cup {task[p].send : p \in Tasks} =>
      \E r \in thread :
        /\ r.id = <<n, 1>>
        /\ \A q \in thread : q.id = <<n, 1>> => q = r
        /\ \/ r.send = n /\ <<n, 1>> \in r.extra
           \/ r.send \in loose /\ <<<<n, 1>>, r.send>> \in Like

\* The row of the send's first id is another's, so its later parts are nowhere.
Misfiled(n) == \E r \in thread : r.id = <<n, 1>> /\ r.send # n

\* A later part of a message that is no longer among the recent ones.
Forgotten(mid) == \E r \in Outbound \ Recent : mid \in r.extra /\ r.id # mid

\* Only an echo matched while its send was under way, of a send that lost its ids, of a copy, of
\* a later part whose message is misfiled or no longer recent is taken for a manager's: every
\* other is known, its first part however late.
EchoKnowsOwn ==
  \A r \in thread :
    Native(r) /\ r.send # 0 =>
      \/ r.id \in early \/ r.send \in loose \/ r.id = Copy(r.send)
      \/ r.id # <<r.send, 1>> /\ (Misfiled(r.send) \/ Forgotten(r.id))
=============================================================================
