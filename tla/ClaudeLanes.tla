---------------------------- MODULE ClaudeLanes ----------------------------
(***************************************************************************)
(* Calls to Claude: the concurrency lanes of claude.ts (one semaphore for  *)
(* customers and admin tools, one for the meta agent) under the quota      *)
(* circuit that every lane shares.                                         *)
(*                                                                         *)
(* A call tests the circuit, then the length of the queue, and takes or    *)
(* awaits a slot.  The circuit may open while it waits, so the runtime     *)
(* tests it again before it spawns.  A failed call that resumed a session  *)
(* is tried once more with a cold prompt, on the same slot.  The slot goes *)
(* straight to the first waiter when the call ends.                        *)
(***************************************************************************)
EXTENDS Integers, Sequences, FiniteSets

CONSTANTS
  Calls,           \* askClaude and askClaudeStream calls that can run at once
  Lanes,           \* the semaphores
  LaneOf,          \* claudeConcurrencyLane of the channel of each call
  PurposeOf,       \* the spawn purpose of each call
  Streams,         \* calls with an AbortSignal
  MaxConcurrency,  \* CLAUDE_MAX_CONCURRENCY and CLAUDE_META_MAX_CONCURRENCY
  MaxPending       \* MAX_PENDING

Purposes   == {"customer_dm", "admin", "follow_up", "open_agenda_infer"}
Background == {"follow_up", "open_agenda_infer"}

ASSUME CallsAssumption ==
  /\ IsFiniteSet(Calls)
  /\ LaneOf \in [Calls -> Lanes]
  /\ PurposeOf \in [Calls -> Purposes]
  /\ Streams \subseteq Calls

ASSUME LimitsAssumption ==
  /\ MaxConcurrency \in [Lanes -> Nat \ {0}]
  /\ MaxPending \in Nat

VARIABLES
  active,   \* Semaphore._active
  waiters,  \* Semaphore.waiters, as the calls whose promises it holds
  pc,       \* where each call is
  resume,   \* the next invocation of the call resumes a session
  aborted,  \* the call's signal
  blocked,  \* now < blockedUntilMs
  soft      \* a usage percentage is between the soft limit and 100

circuit == <<blocked, soft>>
vars == <<active, waiters, pc, resume, aborted, blocked, soft>>

Init ==
  /\ active = [l \in Lanes |-> 0]
  /\ waiters = [l \in Lanes |-> <<>>]
  /\ pc = [c \in Calls |-> "idle"]
  /\ resume = [c \in Calls |-> FALSE]
  /\ aborted = [c \in Calls |-> FALSE]
  /\ blocked \in BOOLEAN
  /\ soft \in BOOLEAN

\* evaluateClaudeSpawn(PurposeOf[c]).allowed
SpawnAllowed(c) == ~blocked /\ ~(soft /\ PurposeOf[c] \in Background)

\* shouldArmClaudeQuotaCircuit
Arms(c) == PurposeOf[c] # "open_agenda_infer"

-----------------------------------------------------------------------------
\* Defective: the queue is not measured before the call joins it.
AskUnbounded(c) ==
  LET l == LaneOf[c]
  IN  /\ pc[c] = "idle"
      /\ ~blocked
      /\ \/ /\ active[l] < MaxConcurrency[l]
            /\ active' = [active EXCEPT ![l] = @ + 1]
            /\ pc' = [pc EXCEPT ![c] = "granted"]
            /\ UNCHANGED waiters
         \/ /\ active[l] >= MaxConcurrency[l]
            /\ waiters' = [waiters EXCEPT ![l] = Append(@, c)]
            /\ pc' = [pc EXCEPT ![c] = "waiting"]
            /\ UNCHANGED active
      /\ \E r \in BOOLEAN : resume' = [resume EXCEPT ![c] = r]
      /\ UNCHANGED <<aborted, circuit>>

\* askClaude up to and including Semaphore.acquire.  When the circuit is open
\* or the queue is overloaded the caller gets a fallback and nothing changes.
Ask(c) ==
  LET l == LaneOf[c]
  IN  /\ pc[c] = "idle"
      /\ ~blocked
      /\ Len(waiters[l]) <= MaxPending
      /\ \/ /\ active[l] < MaxConcurrency[l]
            /\ active' = [active EXCEPT ![l] = @ + 1]
            /\ pc' = [pc EXCEPT ![c] = "granted"]
            /\ UNCHANGED waiters
         \/ /\ active[l] >= MaxConcurrency[l]
            /\ waiters' = [waiters EXCEPT ![l] = Append(@, c)]
            /\ pc' = [pc EXCEPT ![c] = "waiting"]
            /\ UNCHANGED active
      /\ \E r \in BOOLEAN : resume' = [resume EXCEPT ![c] = r]
      /\ UNCHANGED <<aborted, circuit>>

\* Defective: the slot is given back twice.
LeaveReleasingTwice(c) ==
  LET l == LaneOf[c]
  IN  /\ \/ /\ waiters[l] # <<>> /\ active[l] - 1 < MaxConcurrency[l]
            /\ pc' = [pc EXCEPT ![c] = "idle", ![Head(waiters[l])] = "granted"]
            /\ waiters' = [waiters EXCEPT ![l] = Tail(@)]
            /\ active' = [active EXCEPT ![l] = @ - 1]
         \/ /\ ~(waiters[l] # <<>> /\ active[l] - 1 < MaxConcurrency[l])
            /\ pc' = [pc EXCEPT ![c] = "idle"]
            /\ active' = [active EXCEPT ![l] = @ - 2]
            /\ UNCHANGED waiters
      /\ resume' = [resume EXCEPT ![c] = FALSE]
      /\ aborted' = [aborted EXCEPT ![c] = FALSE]

\* Defective: the slot handed over is not counted again.
LeaveUncounted(c) ==
  LET l == LaneOf[c]
  IN  /\ \/ /\ waiters[l] # <<>>
            /\ pc' = [pc EXCEPT ![c] = "idle", ![Head(waiters[l])] = "granted"]
            /\ waiters' = [waiters EXCEPT ![l] = Tail(@)]
         \/ /\ waiters[l] = <<>>
            /\ pc' = [pc EXCEPT ![c] = "idle"]
            /\ UNCHANGED waiters
      /\ active' = [active EXCEPT ![l] = @ - 1]
      /\ resume' = [resume EXCEPT ![c] = FALSE]
      /\ aborted' = [aborted EXCEPT ![c] = FALSE]

\* Defective: the last call that came is served first.
LeaveServingLast(c) ==
  LET l == LaneOf[c]
      n == Len(waiters[l])
  IN  /\ \/ /\ waiters[l] # <<>> /\ active[l] - 1 < MaxConcurrency[l]
            /\ pc' = [pc EXCEPT ![c] = "idle", ![waiters[l][n]] = "granted"]
            /\ waiters' = [waiters EXCEPT ![l] = SubSeq(@, 1, n - 1)]
            /\ UNCHANGED active
         \/ /\ ~(waiters[l] # <<>> /\ active[l] - 1 < MaxConcurrency[l])
            /\ pc' = [pc EXCEPT ![c] = "idle"]
            /\ active' = [active EXCEPT ![l] = @ - 1]
            /\ UNCHANGED waiters
      /\ resume' = [resume EXCEPT ![c] = FALSE]
      /\ aborted' = [aborted EXCEPT ![c] = FALSE]

\* Defective: nobody is woken.
LeaveAlone(c) ==
  /\ pc' = [pc EXCEPT ![c] = "idle"]
  /\ active' = [active EXCEPT ![LaneOf[c]] = @ - 1]
  /\ resume' = [resume EXCEPT ![c] = FALSE]
  /\ aborted' = [aborted EXCEPT ![c] = FALSE]
  /\ UNCHANGED waiters

\* The finally block: release, and dispatch of the first waiter.
Leave(c) ==
  LET l == LaneOf[c]
  IN  /\ \/ /\ waiters[l] # <<>> /\ active[l] - 1 < MaxConcurrency[l]
            /\ pc' = [pc EXCEPT ![c] = "idle", ![Head(waiters[l])] = "granted"]
            /\ waiters' = [waiters EXCEPT ![l] = Tail(@)]
            /\ UNCHANGED active
         \/ /\ ~(waiters[l] # <<>> /\ active[l] - 1 < MaxConcurrency[l])
            /\ pc' = [pc EXCEPT ![c] = "idle"]
            /\ active' = [active EXCEPT ![l] = @ - 1]
            /\ UNCHANGED waiters
      /\ resume' = [resume EXCEPT ![c] = FALSE]
      /\ aborted' = [aborted EXCEPT ![c] = FALSE]

\* The retry of a failed call: once, with a full cold prompt.
TryCold(c) ==
  /\ resume[c] /\ ~aborted[c]
  /\ resume' = [resume EXCEPT ![c] = FALSE]
  /\ pc' = [pc EXCEPT ![c] = "granted"]
  /\ UNCHANGED <<active, waiters, aborted>>

\* Defective: the retry resumes the session again.
FailKeepingSession(c) ==
  \/ /\ resume[c] /\ ~aborted[c]
     /\ pc' = [pc EXCEPT ![c] = "granted"]
     /\ UNCHANGED <<active, waiters, resume, aborted>>
  \/ (~resume[c] \/ aborted[c]) /\ Leave(c)

\* A fallback that is no rate limit.
Fail(c) ==
  \/ TryCold(c)
  \/ (~resume[c] \/ aborted[c]) /\ Leave(c)

\* The slot is there: the runtime tests the circuit once more and spawns.
Invoke(c) ==
  /\ pc[c] = "granted"
  /\ \/ /\ aborted[c] /\ Leave(c)
     \/ /\ ~aborted[c] /\ ~SpawnAllowed(c)
        /\ Fail(c)
     \/ /\ ~aborted[c] /\ SpawnAllowed(c)
        /\ pc' = [pc EXCEPT ![c] = "invoking"]
        /\ UNCHANGED <<active, waiters, resume, aborted>>
  /\ UNCHANGED circuit

\* The runtime settles: a reply, a rate limit that opens the circuit, or a
\* timeout, an abort or a broken process.
Settle(c) ==
  /\ pc[c] = "invoking"
  /\ \/ Leave(c) /\ UNCHANGED blocked
     \/ Leave(c) /\ blocked' = (blocked \/ Arms(c))
     \/ Fail(c) /\ UNCHANGED blocked
  /\ UNCHANGED soft

\* The client of a stream goes away.
Abort(c) ==
  /\ c \in Streams
  /\ pc[c] # "idle" /\ ~aborted[c]
  /\ aborted' = [aborted EXCEPT ![c] = TRUE]
  /\ UNCHANGED <<active, waiters, pc, resume, circuit>>

\* The window passes, a usage snapshot arrives, a probe hits the limit.
Circuit ==
  /\ blocked' \in BOOLEAN /\ soft' \in BOOLEAN
  /\ UNCHANGED <<active, waiters, pc, resume, aborted>>

Next ==
  \/ Circuit
  \/ \E c \in Calls : Ask(c) \/ Invoke(c) \/ Settle(c) \/ Abort(c)

\* A slot's promise is resolved by the event loop; every invocation settles,
\* because the runtime resolves it with a fallback after its timeout.
Fairness == \A c \in Calls : WF_vars(Invoke(c) \/ Settle(c))

Spec == Init /\ [][Next]_vars /\ Fairness

-----------------------------------------------------------------------------
(* Properties.                                                             *)

Holding(l) == {c \in Calls : LaneOf[c] = l /\ pc[c] \in {"granted", "invoking"}}

\* Every variable has its type; _active never goes below zero.
TypeOK ==
  /\ active \in [Lanes -> Nat]
  /\ waiters \in [Lanes -> Seq(Calls)]
  /\ pc \in [Calls -> {"idle", "waiting", "granted", "invoking"}]
  /\ resume \in [Calls -> BOOLEAN]
  /\ aborted \in [Calls -> BOOLEAN]
  /\ blocked \in BOOLEAN /\ soft \in BOOLEAN

\* Semaphore: the counter of a lane is the number of calls that hold one of
\* its slots, through retries, aborts, denials and slots handed from one call
\* to the next, and it never passes the limit.
SlotsConserved ==
  \A l \in Lanes : active[l] = Cardinality(Holding(l)) /\ active[l] <= MaxConcurrency[l]

\* Semaphore.dispatch: nobody waits in a lane that has a free slot, so a lane
\* never waits for the other one ("teach does not queue behind IG").
NoIdleSlot == \A l \in Lanes : waiters[l] # <<>> => active[l] = MaxConcurrency[l]

\* MAX_PENDING: the overload test and the acquire that follows it cannot be
\* separated by another call, so one call at most joins a queue at the limit.
QueueBounded == \A l \in Lanes : Len(waiters[l]) <= MaxPending + 1

\* c stands before d in the queue of its lane.
Ahead(c, d) ==
  LET q == waiters[LaneOf[c]]
  IN  \E i, j \in DOMAIN q : i < j /\ q[i] = c /\ q[j] = d

\* Semaphore: a slot goes to the call that has waited longest in its lane.  No
\* newcomer takes it between the release and the dispatch, and the end of a
\* call, however it ends, never serves a later waiter first.
NoOvertaking ==
  [][\A c, d \in Calls :
       LaneOf[c] = LaneOf[d] /\ pc[c] \in {"idle", "waiting"} /\ pc'[c] = "granted"
       /\ pc[d] = "waiting" /\ d # c => Ahead(c, d)]_vars

\* Every call to Claude ends, however often the circuit opens and closes.
EveryCallReturns == \A c \in Calls : pc[c] # "idle" ~> pc[c] = "idle"

\* The queue of a lane holds the calls that wait for it, each once.
QueueShape ==
  \A l \in Lanes :
    /\ \A i \in DOMAIN waiters[l] : LaneOf[waiters[l][i]] = l /\ pc[waiters[l][i]] = "waiting"
    /\ \A i, j \in DOMAIN waiters[l] : waiters[l][i] = waiters[l][j] => i = j

LaneInvariant == TypeOK /\ QueueShape /\ SlotsConserved /\ NoIdleSlot /\ QueueBounded
=============================================================================
