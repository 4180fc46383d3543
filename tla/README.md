# Formal models of the Direct agent platform

This directory holds TLA+ specifications of the concurrent core of the platform,
the TLC configurations that model-check them, and proofs checked by TLAPS. Paths
below are relative to `src/apps/backend/src/` unless they start with `apps/`.

    tlasany InboundTurns.tla
    tlc -workers 2 -config turns_safety.cfg MCInboundTurns
    tlapm InboundTurnsProofs.tla

## 1. The system

A tenant runs one backend process (Fastify, Prisma over PostgreSQL). Clients write
to the tenant's Instagram account, Meta calls the webhook, and the backend lets
Claude answer, hands over to a human manager, takes orders and bookings, and
mirrors them to a CRM. A super-admin process creates, deploys, backs up and
destroys tenants. There are no threads: every hazard below comes from handlers
that interleave at their awaits, from timers, from a database that survives the
process, and from a model API that is slow, limited and fallible.

| component | state | operations | what is hard | what makes it correct |
|---|---|---|---|---|
| inbound coalescing: `lib/inbound-coalesce.ts`, `lib/inbound-coalesce-helpers.ts` | per conversation: timers, `burstStartedAt`, `flushing`, `dirty`; `claudeTurnId` on rows | schedule, flush, re-arm, load, claim, absorb, skip, release | bubbles that arrive at any await of a flush; two flushes of one conversation | no bubble forgotten, none read by two turns |
| turn queue: `lib/conversation-turn-queue.ts` | a promise tail per conversation | run serialized | a predecessor that throws | one turn at a time, in order |
| drain loop and turn: `services/conversation.ts`, `lib/conversation-bot-guard.ts`, `lib/agent-fallback.ts`, `lib/handoff-auto-return.ts` | locals of the call, `conversation.state`, message rows | drain, turn, guard, tools, handoff, send, persist | state read before a minute of Claude is used after it | the bot is silent once a manager took over; a reply saw what the client wrote; claims follow the outcome |
| retry monitor: `services/conversation-retry.ts` | message rows | evaluate, clear claims, flush | its pass races turns and the manager | nobody stays unanswered after a crash |
| manager actions and routes: `services/manager-chat-actions.ts`, `routes/conversations.ts` | conversation state, message rows | forced bot turn, reply, bot on and off | state read before the send, written after it | a takeover wins |
| webhook intake: `routes/webhooks.ts` | clients, conversations, messages | message, reaction and echo events | duplicates, echo of own messages, two webhooks of a new client | each bubble stored once, in one conversation |
| Claude lanes: `lib/queue.ts`, `services/claude.ts` | `_active`, `waiters` per lane | acquire, release, dispatch, cold retry, abort | a slot handed over, kept by a retry, freed by an error | slots conserved, none idle, first come first served, queue bounded |
| Claude quota circuit: `lib/claude-quota-gate.ts`, `services/claude-quota.ts`, `services/claude-usage-monitor.ts` | blocked-until, percentages, a persisted copy | evaluate, note a rate limit, release, sync from usage, hydrate | tested before a wait, used after it; late usage snapshots | a rate limit closes it for everybody; it opens again |
| Claude runtimes and login: `services/claude-cli-runtime.ts`, `services/claude-sdk-runtime.ts`, `services/claude-auth*.ts` | child processes, OAuth files | complete, stream, probe | timeout against a late answer | every call settles |
| silence follow-up: `services/follow-up.ts`, `lib/follow-up-*.ts` | job rows pending, processing, done, cancelled, failed; `followUpSentAt` | plan, replace, claim, gate, send, cancel, open the slot | two jobs for one silence; the client writes while the nudge is written; cancels nobody awaits; a crash in processing | at most one nudge per silence; the slot belongs to the present silence |
| typing indicator: `services/ig-typing-indicator.ts` | counter and timer per recipient | begin, refresh, end | nested turns | the indicator stops |
| outbound persistence and echo: `services/ig-outbound-persist.ts`, `services/ig-page-echo.ts`, `lib/ig-native-echo.ts` | message rows by Instagram id | persist, adopt, echo | the echo overtakes the insert; a message of two parts; a part sent twice; two sends of like text | one row per send; a late echo is not taken for a manager's message |
| visits: `services/appointment.ts`, `services/crm/beautypro.ts`, `services/crm/altegio-webhook.ts`, `services/order-crm-retry.ts`, `services/order-admin.ts`, `routes/orders.ts`, `lib/active-booking-resolve.ts`, `lib/booking-visit-merge.ts` | appointment rows, booking orders, the CRM's calendar | book, merge, move, cancel, remove a line, mirror, retry, admin cancel, assign masters, salon callback | three stores written one after the other, by the bot and by managers; an answer of the CRM that is lost | one visit in the CRM per row; a cancellation lasts; orders follow the visit; a confirmation names booked lines only |
| orders for goods, CRM retries: `services/order.ts`, `services/crm-mirror-retry.ts` | order rows, CRM ids | collect, confirm, push, retry | a push that succeeded but was not recorded | one CRM record per order |
| CRM synchronisation: `services/crm-sync*.ts`, `sync-worker.ts`, `services/client-crm-link.ts` | clients, job queue | sync, link, reschedule | overlapping schedules | one sync at a time |
| prompt, search, insights: `services/prompt-*.ts`, `services/product-search.ts`, `services/insights-snapshot.ts` | none of their own | build, query | none | text |
| voice and media: `services/voice-ingest.ts`, `services/media.ts`, `services/transcribe.ts` | files | download, convert | slow I/O | text |
| maintenance: `services/auto-update.ts`, `services/health-check.ts`, `services/log-retention.ts`, `services/ig-history.ts` | schedule | periodic work | none | none |
| Telegram bot, admin application: `telegram-bot.ts`, `apps/admin` | none of their own | notify, call the API | none | none |
| tenant jobs: `apps/super-admin/src/lib/*-job.ts` | job rows, an in-process set of running tenants | start, run, stale sweep | a job that outlives its sweep; a lock given back by another job | one job per tenant |
| webhook hub: `apps/super-admin/src/routes/webhooks.ts`, `lib/webhook-inbox.ts` there | inbox rows | store, forward, retry | lost or repeated forwarding | delivered at least once |
| platform worker: `apps/platform-worker`, `infra/scripts` | a table of remote jobs, the tenant's host | start, stream, answer; deploy, dump, deprovision | an answer or a stream is lost and the script goes on; two scripts on one host | a success is real; one deploy at a time |
| self deploy: `apps/super-admin/src/lib/sa-self-deploy.ts` | log files | run a script | restart in the middle | none |

How they interact: the webhook stores a row and calls the coalescer; a timer starts
a flush, which joins the turn queue; the drain loop claims rows and runs turns; a
turn calls Claude through a lane under the quota circuit, sends through the
Instagram API, and writes the rows that the guard, the retry monitor, the follow-up
worker and the admin routes read. These share nothing but the database and the
in-memory maps named above.

## 2. Plan

1. **`InboundTurns`**, with the abstract `InboundInbox` it implements and
   `InboundTurnsProofs`. Done.
2. **`ClaudeLanes`**, with `ClaudeLanesProofs`. Done.
3. **`TenantJobs`**, with `TenantJobsProofs`, and **`TenantHost`**, its composition
   with the worker and the scripts on the tenant's host, with `TenantHostProofs`. Done.
4. **`Bookings`**, with `BookingsProofs` and `BookingsCrmProofs`: visits, booking orders and the CRM's
   calendar under the bot, managers and the salon. Done, except for the funnel that
   leads to a booking.
5. **`FollowUps`**, with `FollowUpsProofs` and `FollowUpsSendProofs`: the follow-up jobs, the nudge slot, and
   the echo of the conversation's own sends. Done; one module, because an echo taken
   for a manager's message decides what a nudge may do.
6. `ClaudeQuota`: usage snapshots, persistence and hydration against rate limits;
   `ClaudeLanes` then composes with it in place of its two flags.
7. `WebhookHub` and `WebhookIntake`: at-least-once delivery, deduplication, the
   client and conversation created for a new sender.
8. `TypingIndicator`; then orders for goods and their CRM mirror; then the sync worker.

Planned runs of what exists: `InboundTurns` with `MaxBatch` below the number of
bubbles, with the bot switch in the safety run, with ties of `createdAt`, and with
timed retries against a turn in flight. Planned theorems: `ReplySawEveryBubble` for a
conversation that is returned to the bot.

## 3. `InboundTurns`: from a bubble to a reply

One conversation. The message table is the sequence `messages` of rows with a
`kind` and a `claim` (`claudeTurnId`); a row's position is its `createdAt`, and
`Len(messages)` is the clock. A claim is `free` (null), `skipped`, a worker (the id
of its running turn), or `done` (the id of a turn that is over). `webhooks`,
`armed`, `flushing`, `dirty` and `tail` are the in-memory state of the coalescer and
the turn queue; `pc` says where each call is; `round`, `since`, `seen`, `gate`,
`batch`, `started`, `plan`, `verdict` and `wasDirty` are its locals; `retry`,
`retryIds`, `manager` and `managerSaw` are the locals of the retry monitor and of
the manager's reply route. `answered` (rows claimed for a delivered reply and not
given back since, by a retry or a turn that throws), `overtaken` and `abandoned` (rows
dropped by a crash, by a call that rejected, or because there was nobody to write to,
in this process or before the model starts) are seen by the properties only.

Each stretch of code between two awaits is one action:

| code | actions |
|---|---|
| `processMessageEvent`, `processReactionEvent` | `ClientMessage`, `ReactionEvent`, `WebhookEnds` (access gate, or a call that rejects) |
| `scheduleInboundBotTurn`, `armTimers`, `flushConversation` | `ScheduleInboundBotTurn`, `FireTimer`, `StartFlush`, `Settle`, `Rearm`, `RearmThrows` |
| `runConversationTurnSerialized` | `StartFlush`, `BeginTurn`, `Settle` (append, head, pop) |
| `drainPendingInboundTurns` | `LoadPending`, `ClaimBatch`, `Finish` with `ClaimAfter`, `Throw`, `DrainThrows` |
| `handleIncomingMessageImpl` | `ReadConversation` ... `Persist`; `ConversationGone` (the outcome `released`) |
| `autoReturnHandoffToBotIfExpired` | `HandoffExpired`, `HandoffAutoReturn` |
| `isBotTurnStillValid` | `TurnStillValid`, used by `Guard` |
| `runForcedManagerBotTurn` | `ForceTurn`, `FinishForced` |
| `retryConversationBotReply` | `RetryEvaluate`, `RetryClear`, `RetryFlush` |
| manager's reply route, bot switch | `ManagerReads`, `ManagerPersists`, `ManagerTakesOver`, `ToggleBot` |
| the process dies | `Crash`: rows and conversation state survive, all else is initial |

Abstractions. The silence and the max-wait timer are one flag, `armed`: their
lengths only say when it fires. Claude's tool rounds before a terminal tool or a
reply are one choice of `ClaudeOutcomes`. Response delay, username ignore list and
closing a conversation are left out; a conversation that is gone, or a client without
an Instagram id, is `ConversationGone`. `sendText` may fail: the reply branch logs and
goes on (`Send`), the order branch throws (`Throw`). A rejecting call ends in one of
four ways. In a turn, or in the write of its outcome, the catch block gives the rows
back, unless that write rejects too: then they keep the id of a turn that is over, as
after a crash (`Throw`). In the load or the claim of the drain loop, outside its try
block, the flush ends (`DrainThrows`). In the load of the finally block the caught error
leaves `pendingCount` 0, and the flag is spent (`RearmThrows`). In the webhook, the row is
stored and never scheduled (`WebhookEnds`). In each case `abandoned` gets what nobody
but the retry monitor remembers now. The
load and claim inside `absorbLateInboundIntoTurn` are one action: turns are
serialized, so only the retry's clearing and new rows could come between, and a new
row that arrives there is found by the load that follows.

## 4. `ClaudeLanes`: calls to Claude

A call that finds the circuit open, or the queue longer than `MAX_PENDING`, gets a
fallback and changes nothing; otherwise `Ask` takes a slot or joins the queue. No
await separates the overload test from the push inside `acquire`, so they are one
action. `Invoke` is the runtime's own test of the circuit and the spawn; `Settle` is
the reply, the rate limit (which opens the circuit, and is never retried cold), or
the timeout, abort or broken process, which is retried once on the same slot when
the call resumed a session. `Leave` is `release` with the `dispatch` it calls.
`Abort` is the client of a stream going away. That test is
one guard, so no property restates it; what the lanes promise is order
(`NoOvertaking`), count and return. `blocked` and `soft` are the circuit as a call sees it; `Circuit` moves them freely, for expiry, usage snapshots and
probes. A cold retry passes through `granted` again: a circuit that moves right
then is more than the code allows, and the properties hold with it.

## 5. `TenantJobs`: deploy, destroy, backup and restore of one tenant

Paths of this section are in `apps/super-admin/src/`. `jobs` is the tenant's rows of
`deploy_jobs` in the order of `startedAt`, `tenant` whether the registry row is
there, `locked` the set `runningTenantIds` of each process: the server, and the
nightly `scripts/run-scheduled-backups.ts`, which calls `startBackupJob` in a process
of its own. `pc`, `kind` and `existing` are the locals of each call of
`startDeployJob`, `startDestroyJob`, `startBackupJob` and `startRestoreJob`.

| code | actions |
|---|---|
| `getActiveTenantJob` and the test after it | `Ask`, `Decide`, and `Recheck` for a deploy |
| `tenant.findUnique`, `requireS3ForTenant` | `ReadTenant` |
| `tryAcquireTenantJobLock`, `ensureLogDir` | `TryAcquire`; `Busy` when the lock was taken |
| `deployJob.create` and the outer catch block | `CreateRow` |
| the background function | `StartPipeline`, `PipelineEnds`, `Finish`, `DeleteTenant`, `Release` |
| `markStaleDeployJobsFailed` | `Sweep(n)`: the cutoff lies after the first `n` rows |
| `DELETE /api/tenants/:id`; a process dies | `SoftDelete`; `Crash` |

Three things are easy to miss. `Busy` goes on without the lock when it sees no row,
and `Release` then frees a lock that is another job's. `ensureLogDir` runs between
the lock and the try block: if the directory cannot be made, the lock stays (phase
`thrown`). `finishJob` throws when the row went with the tenant, throws again in the
catch block, and outside a destroy that is an unhandled rejection, which ends the
process (`Finish` with `Die`). The two queries of `Busy` are one action: the second
sees every row the first sees, or the row ended and the first answer counts.

**`TenantHost`** adds what happens on the tenant's host, where a pipeline outlives its
job. `host` is the script of each call, `flock` the holder of `/tmp/deploy-<id>.lock`,
the file that exists at the moment. A job knows of its script only what it hears: the
answer to its call, the lines of the event stream, one last look at the worker's
table. Each of these gives the end of the script or nothing (`LearnsSuccess`); the
script goes on in any case, and may be killed at any point. Every step of the
composition is a step of `TenantJobs` or leaves it alone.

| code | actions |
|---|---|
| `runPreDeployBackupInline` | `PreDeployBackup`, `DumpEnds`; `CallStarts` or `CallFails` after it |
| `POST /v1/jobs/pipeline`, `/v1/jobs/destroy` (`apps/platform-worker/src/server.ts`) | `CallStarts`, `CallFails` |
| `readSseLines`, `followJobLog`, `GET /v1/jobs/:id` (`lib/worker/http.ts`) | `StreamEnds` with `LearnsSuccess`, `ExitCode` |
| `infra/scripts/deploy-client.sh` | `DeployLocks`, `ScriptEnds` |
| `infra/scripts/deprovision-client.sh` | `ClearsLock`, `Deprovisions`, `ScriptEnds` |

The deprovisioning removes the lock file first (step 5) and kills the tenant's
processes later (step 6). A deploy that starts between the two takes a new lock file
while the old deploy still works; this is the one case `DeploysAlone` excludes, and it
needs the overlap of finding 2. The in-process client of the server's own host
(`lib/worker/in-process.ts`) hears every end, which is one of the choices of
`LearnsSuccess`. A dump that fails stays at `dumping`.

Left out: log files and those who follow them, the catalogue of backups, the update
of a tenant from provisioned to active, transient database errors after the insert,
the scripts of backups and restores asked for by themselves, and the steps inside a
script.

## 6. `Bookings`: visits, their orders and the CRM

`visit` is the table `appointments` of one client, `order` the booking orders that
show a visit to the managers, `crm` the visits of the salon's calendar, `hooks` the
callbacks of Altegio on their way. `task` is what each actor is doing: the bot, which
runs one tool at a time because turns are serialised, and the requests of the admin
API. `Slots` are a date and a time, `Services` a line of a visit (a service with its
master). `altegio` and `writes` are the CRM in use and its write setting. `told` are
the confirmations sent, `mishap` says what made an anomaly of a visit possible, and
only the properties read them.

| code (`services/appointment.ts` unless named) | actions |
|---|---|
| `handleBookAppointment`: the search for a visit, merge or create | `Book`, `RefuseBook`, `FindVisit`, `MergeVisit`, `CreateVisit` |
| `upsertBookingOrderMirror` | `FindOrder`, then `MirrorOrder` (an update by id, or `NewOrder`) |
| the CRM gate and what the client is told | `GateOpen`, `GateClosed`, `RereadAndConfirm` |
| `mirrorAppointmentToCrm` | `MirrorOff`, `MirrorKnown`, `MirrorNew`, `CreateBooking`, `LinkSameDay` (TIME_CONFLICT of a retry), `RecordBooking` |
| `reflectAppointmentCrmOnOrder` | `Reflect`, `RereadAndReflect` |
| appending lines to a CRM visit | `LoadForAppend`, `AppendServices`, `RecordAppend` |
| `resolveActiveBookingAppointment`, `mirrorCrmBookingToLocalAppointment` | `ResolveLocal`, `ResolveInCrm` |
| `handleCancelAppointment`, `handleRescheduleAppointment`, `handleRemoveBookingService` | `CancelTool`, `MoveTool`, `RemoveTool`, `CancelBooking`, `RemoveService`, `StoreServices` |
| `markLocalAppointmentCancelled` | `MarkVisit`, `MarkOrders` |
| `services/order-crm-retry.ts`, `services/order-admin.ts`, `updateAppointmentServiceMasters` | `Retry`, `AdminCancel`, `AssignMasters`, `StoreMasters` |
| `services/crm/altegio-webhook.ts` | `ApplyHook` |
| the salon, the setting, the process | `SalonCancels`, `SalonMoves`, `SetWrites`, `Crash` |

Every await between two of the three stores ends an action. A request to the CRM may
fail after it took effect (`CreateBooking`, `AppendServices`, `CancelBooking`,
`RemoveService`, each with a fault).

What the code allows, and the properties therefore exclude by `mishap`: a row whose
lines an append failed to send keeps them with `crmSyncStatus` pending, a retry
reports it synced because the visit has an id, and the next append confirms all lines
to the client (`short`, which also marks a row whose line was struck in the CRM by a
removal that then failed or died); two creations under way at once book the time twice
(`doubled`); the bot, finding in the CRM a visit that a manager's retry has made and
not yet entered in its row, adopts it as a second row, because `crmRecordId` is not
unique (`shared`); a cancellation by a manager or by the salon during `createBooking` is
overwritten by its result (`crossed`); the salon's cancellation leaves the orders
open, and a manager's cancellation of an order between the bot's read and its update
(`appointment.ts:839` and `:863`, the status is left as it is) leaves an open visit behind
a cancelled order (`torn`). An admin's retry forbids overlaps; on TIME_CONFLICT
`createBooking` answers with the client's visit of that day, whichever it is
(`LinkSameDay`): the row is `short` when that visit has not its lines, and both rows are
`shared` when it is another row's. No document of the repository promises more, except a comment of
`appointment.ts:718`, which `ConfirmedLinesBooked` states. The property says exactly
when it holds.

Left out: the funnel before a booking (slot offers, agenda, display name, client
card) and the checks that refuse a booking, which change no visit (one refusal,
`RefuseBook`); other services named in the arguments of a move; Altegio's callback for
a cancellation of our own, which finds the row cancelled or about to be; dates in the
past.

## 7. `FollowUps`: nudges and echoes of one conversation

The thread starts after the bot answered a bubble: its follow-up is planned, or is being
planned while the job of the silence before is in `processing`.
`job` is the table of jobs, `slot` the column `followUpSentAt`, `thread` the message
rows with the ids of Instagram they know (`id`, and `extra` for the parts of a message
of more than 1000 characters). `task` is the bot's turn, the nudge and a manager's
reply, which send and persist alike; the first two run in the turn queue, one at a time. `plan` is `scheduleFollowUpAfterBotOutbound`, `cancels` the
calls of `cancelPendingFollowUps` under way: nobody awaits either. `inbound`, `admin`
and `echo` are the handlers of a bubble, of a manager's request and of an echo.
`echoes` are the webhooks Meta may deliver, in any order, at any time, more than once.
Time is `now`, a counter of timestamps, and `old`: rows up to there are older than the
delay.

| code | actions |
|---|---|
| `scheduleFollowUpAfterBotOutbound` | `PlanLoad`, `PlanWrite` |
| `cancelPendingFollowUpsSafe`, `onFollowUpConfigSaved` | `CancelLater` and `RunCancel`, `SetEnabled` |
| `processMessageEvent` (`routes/webhooks.ts`) | `ClientWrites`, `ClearSlot` |
| the bot's turn as far as it sends (`services/conversation.ts`) | `TurnStart`, `TurnQuiet`, `TurnDecide`, `TurnHandoff` |
| `sendText`, `callIgApi` (`services/instagram.ts`) | `SendPart`, `SendAgain`, `SendFails` |
| `persistIgOutboundMessage` | `Persist`, `Store`, `PersistFails` |
| `runFollowUpDuePass` | `MonitorClaim` (passes overlap) |
| `processFollowUpJob`, `evaluateFollowUpNeed` | `NudgeStart`, `NudgeLoad`, `NudgeGate`, `Consume`, `NudgeClaim`, `NudgeClaude`, `NudgeCheck`, `NudgeRecheck`, `Reopen`, `Settle` |
| `persistNativeIgEcho`, `matchOwnPlatformSend` | `EchoLookup` (`Known`, `Alike`, `Recent`), `EchoCreate`, `EchoState` |
| `POST /:id/reply`, `PATCH /:id/bot-responses` | `ReplySend` and the send of task `reply`, `ReplyState`, `SetResponses`, `ResponsesNote` |
| a manager in the Instagram app; hours; a crash | `ManagerTypes`; `HoursPass`, `WindowOver`; `Crash` |

What the code allows: the echo of a part can come before `persistIgOutboundMessage`
has stored its id (the parts of a long message are 200 ms apart), is then stored as a
manager's message, and hands the conversation off; persisting adopts the row of the
first id only and never restores the state (`early` in `EchoKnowsOwn`).
The ids of later parts are compared with the `MaxRecent` newest outbound rows only (`take:
20`): a later or repeated echo of a second part is then a manager's (`Forgotten`). An
echo is also matched by text, equal or one contained in the other, with any row of the
last 45 s, and stamps its id on that row if it has none: when a send lost its ids and
a second one of like text follows (`Like`), the echo of the second stamps the row of the
first, and the sender of the second, finding its id there, adds no row of its own and
stores its later ids nowhere (`Misfiled`, and the last case of `OwnSendOnce`). A part that
was sent again because no answer came reaches the client twice, and the first copy's
echo is a manager's (`SendAgain`). A job put off as too soon and a job planned
meanwhile are both pending; only the slot prevents the second nudge. The last
transaction of a nudge takes the slot although a bubble has opened it since
(`excuse`). A crash leaves a job in `processing` for ever, and the slot it took
stays taken until the next bubble (`stuck`).

Abstractions: one echo handler, one admin request and one planning call at a time; a
text always matches the row of its own send, and those of `Like`; whether the 45 s are
over is left open until the rows are `old`, and whether the messaging window is over once
every bubble is; the automatic return from handoff is left open, as its delay is a setting. Hours pass
only when no call is under way, as the shortest delay is an hour. Left out: replanning
after a change of the delay, clearing and closing a conversation, the import of a
first contact's history, the Telegram channel.

## 8. Runs

| run | states | what it shows |
|---|---|---|
| `turns_safety` | 3.24 M | three bubbles, one manager reply, two overlapping flushes, one rejecting call at any await: `NoLostWakeup`, `NoDuplicateReply`, `ReplySawEveryBubble`, `TypeOK` |
| `turns_inbox` | 74 k | `RefinesInbox`: the whole machinery implements `InboundInbox`, its draining included |
| `turns_takeover` | 1.26 M | `TakeoverStopsBot` with coalescing off, so that two flushes queue, and the manager, the bot switch and the handoff timeout racing them |
| `turns_recovery` | 291 k | a crash, a rejecting call, a conversation that is gone and a forced turn, with the retry monitor on: `ClaimsOfTheRunningTurn`, `NobodyLeftWaiting` |
| `turns_reaction` | violation | `NoBubbleBelowFloor`: finding 1 |
| `jobs_safety` | 1.67 M | `TenantHost`: two jobs of the server and the nightly backup, with crashes, sweeps, deletion, lost connections and killed scripts: `NoLockLeak`, `BackupsAlone`, `RunningRowHasJob`, `RowsSettle`, `SuccessIsReal`, `DeploysAlone`, `NoDeployOverFailedDump`, `TypeOK`, `HostTypeOK` |
| `jobs_overlap` | violation | `DeployDestroyExclude`: finding 2 |
| `jobs_scheduled` | violation | `OneActiveJob`: finding 3 |
| `bookings` | 1.77 M | two tools of the bot, one request of a manager and two faults, or three tools, a request and no fault: `OneKnownVisit`, `OrderFollowsVisit`, `MoveFreesOldSlot`, `ConfirmedLinesBooked`, `CancelIsFinal`, `TypeOK` |
| `followups` | 3.14 M | two of one more bubble, a manager's reply and another action or fault; two jobs, three sends, one of two parts, two of like text, and echoes that see the newest row only: `OneNudgePerSilence`, `SlotIsCurrent`, `OwnSendOnce`, `EchoKnowsOwn`, `TypeOK` |
| `claude_lanes` | 30 k | `SlotsConserved`, `NoIdleSlot`, `QueueBounded`, `EveryCallReturns`, `TypeOK` |
| `claude_order` | 30 k | the same calls with one slot in each lane, so that two may wait for one slot: `NoOvertaking` |

**Findings.** (1) `routes/webhooks.ts:555` stores a reaction as already skipped, and
the floor of the pending query is the last row with any claim: a reaction that
arrives between a bubble and its load hides the bubble from every later load,
although `lib/inbound-coalesce.ts:86` chose that floor so that bubbles "are not
orphaned". The retry monitor rescues it when it is on. (2) `docs/TENANT-DOMAINS-AND-SCALING.md:433` says that
deploy and destroy block each other. `lib/destroy-job.ts:103` and
`lib/deploy-job.ts:225` go on when the lock is taken but no running row is visible:
before the other job's insert, or after the sweep failed its row while its pipeline
runs on. (3) The same line promises one active job per tenant; the nightly script has
a lock set of its own, so its backup and a job of the server can both be active.

**Bounds, and why they are enough.** Two flushes, because a third would only wait
behind them in the tail: what can go wrong is one flush re-arming while the next
one begins. Three bubbles reach: one claimed, one absorbed or deferring, one that
arrives after the last load. `MaxDrain` 2 or 3 reaches the bound with bubbles left.
`MaxBatch` 20 is the code's and is never reached (overflow is planned). `MaxAttempts`
2 and `MaxFallbacks` 1 let both limits be hit. Environment events have a `Budget`
each: one crash, throw, toggle or takeover at every point of every interleaving.
Deadlock is not checked for these runs because a conversation may go quiet. In
`claude_lanes` four calls for two slots, a queue limit of 0 and a one-slot lane make
every test of the code both true and false, and `claude_order` has one slot per lane
because two calls must wait for the same one to be served in order; its state space is finite without a
budget, and as its circuit can always move it is `EveryCallReturns` that finds a
stuck call, not the deadlock check. In the `jobs` runs every call is made once, which
makes the state space finite: three calls are an owner of the lock, one that goes on
without it, and one in the other process. Requests choose among deploy, destroy and
backup (`Asked`): a restore takes the same path as a backup. Two requests are also
two deploys that meet at the lock file, or a deploy and a destroy on one host. The runs may stop once
every job is over and every row settled. In `bookings` two tools are a booking and
what is done to it (merge, move, cancel, remove, or a second booking), one request is
a manager's action at any await of either, and two faults are an error with a
consequence and a restart, a callback or a setting; two rows and three CRM visits
are what these can create. An order is found by its slot and given to another visit
only by a third tool, which the second budget allows instead of the faults. The invariants of `ConfirmTheorem` were also checked with
five tools in two restricted forms: one request (a retry) and no events from outside,
3.3 M states, and no requests but crashes and the setting, 0.7 M. `Services` and `Slots` are symmetric: the model never
orders them. In `followups` one more bubble makes two silences, a reply is a
manager's, and the other event an action of his, a lost answer, a failed send or a crash
at every point; two of the three together (`MCBudgets`) are what each property needs to
be at risk. Two jobs are the job put off and the one planned meanwhile,
which the second initial state has without spending a send on it; three sends are
the answer and two of a nudge, a second answer and a reply, the last of two parts. The
first two are of like text. With `MaxRecent` 1 a single newer row hides an older one from
an echo, as 20 do in the code. Both models may stop: their
budgets are spent and nothing is under way.

**What the runs do not say.** `RefinesInbox` starts from a conversation with a
history and needs that nobody returns it to the bot while a drain runs.
`NobodyLeftWaiting` is checked for turns that write a row: after `[SILENCE]` the
monitor drains again at every pass until its age limit. `NoDuplicateReply` does not
count a bubble that the retry monitor gave back: it clears the claims of a turn that
outlasts the minimum age as well, and only a timed model could say when. `NoLostWakeup`
and `ReplySawEveryBubble` need room in the batch (section 9): with `MaxBatch` 1 and a
turn that throws, a load returns the oldest bubble only, and TLC finds a bubble that no
flag or timer remembers.

**Fairness.** Weak fairness of every worker (an await of the code settles: Claude
and Meta calls have timeouts, Prisma calls settle or throw), of the webhook handler,
the timer, the manager's route (the event loop runs ready callbacks) and the retry
interval. No fairness for the environment. In `ClaudeLanes`, weak fairness of
`Invoke` or `Settle` of each call: a granted slot is a resolved promise, and the
runtime resolves with a fallback after its timeout; that closing the query returns
is assumed. In `TenantJobs`, weak fairness of a sweep only: it runs every five
minutes and when the server starts, and any row gets older than 90 minutes. Nothing
bounds a pipeline or a script, so jobs have no fairness, and `RowsSettle` holds all the
same.
`Bookings` and `FollowUps` state no fairness: nothing in them is promised to happen (a
failed mirror waits for a manager, a job in `processing` for nobody).

## 9. Proofs

All theorems hold for any finite or infinite sets of workers and rows, any bounds,
history and budget (`InboundTurns`), and any finite set of calls, any lanes and
limits (`ClaudeLanes`), any sets of calls (`TenantJobs`, `TenantHost`), any rows, times, lines and
requests (`Bookings`), and any number of bubbles, jobs and sends (`FollowUps`), from
the `ASSUME`s of the modules, which TLC evaluates.

`InboundTurnsProofs`
- `ShapeInvariant`, `TypeInvariant`. `TypeOK` is not inductive: that `Tail(tail)` is
  a sequence needs a tail that is not empty when a turn ends, and `round <= MaxDrain`
  needs that a flush in the loop is below the bound. `Shape` adds `QueueOK` (live
  calls are exactly those in the tail, each once; only the head runs) and `RoundOK`.
- `TakeoverTheorem`: inductive `GuardOK`, "a flush past its guard while the
  conversation is not the bot's is in `overtaken`". Each action either keeps it, or
  passes the guard (then the state is `bot`), or moves the state (then `SetState`
  records the flush).
- `ClaimsTheorem`: inductive `ClaimsOK`, "a claim names a worker that is between its
  claim and its end", with `Shape` to say that worker is the head of the tail. The
  retry's clearing, crashes and throws are all covered.
- What a load returns: `PendingRows` replaces the floor of the query, a maximum, by
  `Above(Claimed)`, the free bubbles no claimed row lies above; `SettleRows`,
  `FreeRows`, `TakeAll` and `TakeSeen` say what each write of claims does to it. The
  four theorems below rest on these.
- `WakeupTheorem` (`NoLostWakeup`), under `[]NoOverflow`: what is held and what is
  pending never exceeds `MaxBatch`. The property speaks of what is pending now, but a
  turn that gives its rows back lowers the floor, so the inductive `WakeInv` speaks of
  `Strays`, all that would be pending then: unless a mark is up (a webhook, a timer,
  the dirty flag, a queued flush, a retry), each running flush is `Calm`, which says
  phase by phase that nothing came behind its back. What a rejecting call drops
  is `abandoned` and stays out of the property, also when a later bubble brings it back.
  `NoOverflow` cannot be dropped, as TLC
  shows with `MaxBatch` 1.
- `NoDuplicateTheorem` (`NoDuplicateReply`), with no hypothesis: inductive `AnswersInv`.
  An answered row is settled or held by the turn that answered it; what a turn has in
  its text and did not hold before it sends was free, so it was not answered.
- `ReplyTheorem` (`ReplySawEveryBubble`), under `[]NoOverflow` and `Quiet`, an assumption
  on the constants: some bubble of the history is settled and none is free, no retries, and
  a budget of 0 for reactions, the bot switch, the return from handoff and a conversation
  that is gone. Each of these can
  put a free bubble below a settled one, where no load finds it (`turns_reaction`), and in
  a conversation with no settled bubble a message of the bot does the same. The
  constants of `turns_safety` satisfy it, and it leaves any number of flushes, forced
  turns, managers, throws and crashes. The inductive `ReplyInv` is `InOrder` - settled
  rows lie below held ones, held below free, and free ones above what each running call
  noted of the clock - or `Lost`: a turn was skipped because a manager took over,
  which settles bubbles in the wrong order, but then no flush passes a guard again.
  `TextOK` adds that the text of a turn has all the rows it holds.
- `InboxTheorem`: `Spec => Inbox!SafeSpec`, the initial states and every step of
  `RefinesInbox`, when the history is settled and retries are off. Crashes, throws,
  forced turns and reactions, which `turns_inbox` leaves out for the sake of its
  liveness half, are allowed: a crash settles what is read, a throw puts it back.

`ClaudeLanesProofs`
- `LaneSafety`: `LaneInvariant` is inductive. The four parts need each other: a slot
  handed over keeps the count because the waiter was not holding (`QueueShape`), it
  is free because the lane was full (`NoIdleSlot`), and the cardinality of the
  holders changes by one in `Ask` and in a `Leave` that nobody waits for.
- `LaneTypes`, `LaneSlots`, `LaneWorks`, `LaneQueue` are its parts.
- `LaneOrder` (`NoOvertaking`): a slot is granted in `Ask`, only if nobody waits, or in
  `Leave`, to the head of the queue; `LaneInvariant` says that whoever waits is in the
  queue, once, and so behind the head.

`TenantJobsProofs`
- `TypeCorrect`: with `KindKnown`, "a call that was asked knows its kind", without
  which the row a call creates would have no type.
- `LockReleased` (`NoLockLeak`): each exit of the critical part frees the lock of its
  process, so a lock can lose its last job only by being freed.
- `BackupsExclude` (`BackupsAlone`): `Alone` adds that the lock is set while a call is
  inside, which fails as soon as a deploy goes on without it; backups and
  restores by themselves never break the exclusion.
- `RowsOwned` (`RunningRowHasJob`): a running row has its call between the insert and
  `finishJob`, or dead; overlapping jobs do not touch each other's rows.

`TenantHostProofs`
- `HostImplementsJobs`: `HostSpec => Spec`, with the fairness, so the four theorems
  above hold on a host as well.
- `DumpTheorem` (`NoDeployOverFailedDump`): with `Phased`, "where a call is bounds where
  its script can be", a dump is a deploy's own, and a deploy leaves `dumping` only by
  the end of the dump because nothing else lets `ExitCode` be good (`LearnsTruth`).
- `DeploysTheorem` (`DeploysAlone`): inductive `HoldsLock`, "a deploy at work holds the
  lock file, or the file was removed"; a removal is for good because a call keeps its
  kind.
- `SuccessTheorem` (`SuccessIsReal`): inductive `Real`, which speaks of calls, not rows:
  a call that is succeeding, deleting, or counted in a row has a script that ended
  well. `RowsStep` says how any step changes rows; `EndedStays` that no script leaves
  its good end.
- `HostTypeCorrect`.

`BookingsProofs`
- `TypeCorrect`: `TypeOK` is not inductive. `Typed` adds that whoever is past the
  choice of a row has one, and that an order names a row.
- `CancelTheorem` (`CancelIsFinal`): inductive `Crossings`, "an actor between its read
  and its write of a row that is cancelled is on record as `crossed`". Each step is
  shown `Careful`: it forgets no mishap, it reopens only a row that some actor is
  writing, and it leaves nobody before its write of a row cancelled just now without
  recording it. `MarkVisit` and `ApplyHook` record; whoever begins to write looks at
  the status first.

`BookingsCrmProofs`
- `MoveTheorem` (`MoveFreesOldSlot`): inductive `MoveInv`. A record that lives, or that a
  row or a call names, was created, so no later creation takes its number; the record
  a move is to free is the one its cancellation names, and then it is gone.
- `OneRecordTheorem` (`OneKnownVisit`): with `RowsExist`, "a record or a sender belongs to
  a row that exists", and `Sole`, "a row that was not sent by two at once has one sender
  at most, has no record while it is sent, and every record whose id was heard is the
  row's or its sender's".
- `OrdersTheorem` (`OrderFollowsVisit`): `Crossings` again, and `Closing`, "whoever is to
  close the orders of a row finds it cancelled, or crossed". With them, and
  `torn` for an order cancelled between `FindOrder` and `MirrorOrder`, the property is
  inductive.
- `ConfirmTheorem` (`ConfirmedLinesBooked`): the property speaks of the moment of the
  confirmation; the inductive `LinesInv` says when the CRM has the lines of a row
  (`Covers`). `RowLines`: always, unless the row is cancelled, to blame (`short`,
  `doubled`, `shared`), or the bot is between the merge of a line and its append or
  between the two halves of a removal (`Unfinished`). `BotLines`: what the bot has read
  of its row is still so, phase by phase (`Fits`). `SentLines`: a record about to be
  entered has the lines that were sent. All of it rests on `Unshared`, "a record that a
  row has, or a task is about to enter or to edit, is no other row's, or both are on
  record as `shared`": an append to one row's record changes no other row's. `Sole`, of
  `OneRecordTheorem`, tells that a row has no record while one is being made for it.
  The first attempts at this proof failed for two good reasons. A process that dies
  after the CRM struck the last line, before the row is cancelled, leaves a row that a
  later merge confirms; and a record adopted while a retry is entering it belongs to
  two rows, so that a removal from one takes lines from the other. Both need more
  tools than the run has, TLC shows both with five, and `mishap` now records them.

`FollowUpsProofs`
- `TypeCorrect`, with what each phase of a task knows of its job and its send.
- `OneNudgeTheorem` (`OneNudgePerSilence`): three parts that need each other. `Unheard`:
  a bubble whose update is still under way is younger than the delay, so it never
  opens a slot taken for its own silence. `Nudging`: where a nudge is tells whether
  it holds the slot of its silence and has sent. `Counted`: a nudged silence that
  is not over holds the slot, and later silences have no nudge yet. Jobs do not
  occur in the argument: however many there are, the slot alone decides.
- `SlotTheorem` (`SlotIsCurrent`).

`FollowUpsSendProofs`
- `EchoTheorem` (`EchoKnowsOwn`) and `OwnSendTheorem` (`OwnSendOnce`): inductive `OwnInv`.
  A send has one owner until its row is stored (`SendsInv`). `RowsInv` says what each kind
  of row may be: its sender's, with every id of the send; a row without ids, of a `loose`
  send, or stamped with the first id of a send of like text; an echo's, whose id is
  `Excused`. What an echo has read of the thread goes stale meanwhile, so `EchoInv` bounds
  what it may still write. The excuses must last: `RowsStay`, "a row with an id that
  no echo wrote stays, and every outbound row leaves one of its date", gives with the cardinality of a finite
  set that a row which is not among the newest never is again, and that a misfiled id
  stays so. The bound `MaxRecent` and the relation `Like` are arbitrary.

**Model-checked only.** Liveness (`RefinesInbox` with its draining,
`NobodyLeftWaiting`, `EveryCallReturns`, `RowsSettle`): outside what the prover supports, as are
ENABLED and induction over data. That `NoOverflow` holds is not proved: it bounds what
clients write in a burst, which no code does.

## 10. Not modelled

Components marked in the plan come next. Left out for good: prompt building, search
and insights (no protocol), media and voice (file I/O), process spawning and OAuth,
maintenance scripts, the Telegram bot and the admin application (no concurrency
control of their own), self deploy, and the steps inside the worker's shell scripts.
