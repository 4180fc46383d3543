--------------------------- MODULE FollowUpsProofs ---------------------------
(***************************************************************************)
(* Proofs about FollowUps, for any number of bubbles, sends, jobs, manager *)
(* actions and faults: the type invariant, and that a silence is nudged at *)
(* most once.                                                              *)
(*                                                                         *)
(* A nudge takes the slot before it is written, for the silence its gate   *)
(* saw.  Two things can free the slot: the task itself, before it sends,   *)
(* and the bubble that begins the next silence.  The argument is that a    *)
(* bubble's update still under way never frees a slot taken later: the     *)
(* bubble is then younger than the delay, so no gate opens (Unheard).      *)
(***************************************************************************)
EXTENDS FollowUps, TLAPS

\* A bubble whose update of the conversation is under way.
Unheard ==
  /\ old <= now
  /\ inbound = "clear" =>
       /\ \E r \in thread : r.by = "client" /\ r.id = NoMid /\ r.at > old
       /\ nudges[Silence] = 0

\* The steps of a nudge after its gate, and those after its claim.
Written == {"claude", "check", "recheck", "reopen", "send", "persist", "settle"}
Passed  == Written \cup {"claim"}

\* The locals of a task at its step.
Fits(t) ==
  /\ t.pc \in {"handoff", "send", "persist"} => t.send \in Sends
  /\ t.pc = "send" => t.parts <= 1
  /\ t.pc \notin {"send", "persist", "settle"} => t.parts = 0

Locals ==
  /\ left["bubbles"] <= MaxBubbles
  /\ \A p \in Tasks : Fits(task[p])

TypeInv == TypeOK /\ Locals

\* Where the nudge is and what has been sent for its silence.
Nudging ==
  LET t == task["nudge"]
  IN /\ t.pc = "gate" => ~slot
     /\ t.pc \in Passed =>
          /\ t.silence <= Silence
          /\ \A k \in DOMAIN nudges : k > t.silence => nudges[k] = 0
          /\ t.silence = Silence => inbound = "idle"
     /\ t.pc \in Written /\ t.silence = Silence => slot
     /\ t.pc \in Passed /\ t.parts = 0 => nudges[t.silence] = 0

\* A silence that was nudged holds the slot; those to come were not nudged.
Counted ==
  /\ OneNudgePerSilence
  /\ \A k \in DOMAIN nudges : k > Silence => nudges[k] = 0
  /\ nudges[Silence] # 0 => slot /\ inbound = "idle"

IInv == TypeInv /\ Unheard /\ Nudging /\ Counted

-----------------------------------------------------------------------------
(* Types                                                                   *)

LEMMA Constants ==
  /\ MaxSends \in Nat /\ MaxSends >= 1 /\ MaxJobs \in Nat /\ MaxJobs >= 1
  /\ MaxBubbles \in Nat /\ Kinds = {"bubbles", "replies", "others"}
  /\ \A b \in Budgets : b \in [Kinds -> Nat] /\ b["bubbles"] <= MaxBubbles
  /\ Split \in SUBSET Sends
  BY BoundsAssumption, BudgetAssumption, SplitAssumption DEF Sends, Kinds

LEMMA IdleFits == Idle \in TaskRow /\ Fits(Idle)
  BY Constants DEF Idle, TaskRow, Fits

LEMMA SilenceType ==
  ASSUME TypeInv
  PROVE  Silence \in Nat /\ Silence <= MaxBubbles
  BY Constants DEF TypeInv, TypeOK, Locals, Silence

\* A message of any sender is a row.
LEMMA RowType ==
  ASSUME NEW at \in Nat, NEW by \in {"client", "bot", "manager", "system"}, NEW id \in Mids,
         NEW extra \in SUBSET Mids, NEW n \in 0..MaxSends
  PROVE  Message(at, by, id, extra, n) \in Row
  BY DEF Message, Row

LEMMA MidType ==
  /\ Typed \in Mids /\ NoMid \in Mids
  /\ \A n \in 0..MaxSends, i \in {1, 2, 3} : <<n, i>> \in Mids
  BY Constants DEF Typed, NoMid, Mids

LEMMA StoreType ==
  ASSUME TypeInv, NEW who \in {"client", "bot", "manager", "system"}, NEW n \in 0..MaxSends,
         NEW ids \in SUBSET Mids, NEW at \in Nat
  PROVE  Store(who, n, ids, at) \in SUBSET Row
<1> DEFINE first == IF ids = {} THEN NoMid ELSE <<n, 1>>
           there == {r \in thread : r.id = first /\ ids # {}}
<1>1. first \in Mids
  <2>1. <<n, 1>> \in Mids /\ NoMid \in Mids
    BY MidType
  <2> QED
    BY <2>1
<1>2. thread \in SUBSET Row
  BY DEF TypeInv, TypeOK
<1>3. Message(at, who, first, ids, n) \in Row
  BY <1>1, RowType
<1>4. \A r \in thread : r.at \in Nat
  BY <1>2 DEF Row
<1>5. \A r \in thread : Message(r.at, who, first, ids, n) \in Row
  BY <1>1, <1>4, RowType
<1>6. \A r \in thread :
        (IF r \in there /\ Native(r) THEN Message(r.at, who, first, ids, n) ELSE r) \in Row
  BY <1>2, <1>5
<1> QED
  BY <1>2, <1>3, <1>6 DEF Store

\* A task set to a row that fits leaves the other one alone.
LEMMA SetTaskType ==
  ASSUME TypeInv, NEW p \in Tasks, NEW row \in TaskRow, Fits(row), SetTask(p, row)
  PROVE  /\ task' \in [Tasks -> TaskRow]
         /\ \A q \in Tasks : Fits(task[q])'
         /\ task'[p] = row
         /\ \A q \in Tasks : q # p => task'[q] = task[q]
<1>1. task \in [Tasks -> TaskRow] /\ \A q \in Tasks : Fits(task[q])
  BY DEF TypeInv, TypeOK, Locals
<1>2. task' = [task EXCEPT ![p] = row]
  BY DEF SetTask
<1>3. \A q \in Tasks : task'[q] = IF q = p THEN row ELSE task[q]
  BY <1>1, <1>2
<1>4. \A q \in Tasks : Fits(task'[q])
  BY <1>1, <1>3
<1>5. \A q \in Tasks : Fits(task[q])'
  BY <1>4 DEF Fits
<1> QED
  BY <1>1, <1>2, <1>3, <1>5

\* A row of the nudge with another step keeps its type.
LEMMA StepType ==
  ASSUME TypeInv, NEW p \in Tasks,
         NEW pc \in {"load", "gate", "consume", "claim", "claude", "check", "recheck", "reopen"},
         task[p].parts = 0
  PROVE  [task[p] EXCEPT !.pc = pc] \in TaskRow /\ Fits([task[p] EXCEPT !.pc = pc])
<1>1. task[p] \in TaskRow
  BY DEF TypeInv, TypeOK
<1> QED
  BY <1>1 DEF TaskRow, Fits

LEMMA MarkedType ==
  ASSUME TypeInv, NEW status \in {"none", "pending", "processing", "done", "cancelled", "failed"}
  PROVE  Marked(status) \in [Jobs -> JobRow]
<1>1. job \in [Jobs -> JobRow]
  BY DEF TypeInv, TypeOK
<1>2. \A j \in Jobs : [job[j] EXCEPT !.status = status] \in JobRow
  BY <1>1 DEF JobRow
<1> QED
  BY <1>1, <1>2 DEF Marked

LEMMA CancelledType ==
  ASSUME TypeInv
  PROVE  Cancelled(job) \in [Jobs -> JobRow]
  BY DEF TypeInv, TypeOK, Cancelled, JobRow

LEMMA SpendType ==
  ASSUME TypeInv, NEW what \in Kinds, Spend(what)
  PROVE  /\ left' \in [Kinds -> Nat]
         /\ left'[what] = left[what] - 1
         /\ \A x \in Kinds : x # what => left'[x] = left[x]
         /\ what # "bubbles" => left'["bubbles"] = left["bubbles"]
         /\ left'["bubbles"] <= MaxBubbles
  BY Constants DEF TypeInv, TypeOK, Locals, Spend

\* No task moves.
LEMMA LocalsKept ==
  ASSUME TypeInv, task' = task, left'["bubbles"] <= MaxBubbles
  PROVE  Locals'
  BY DEF TypeInv, Locals, Fits

LEMMA InitType == Init => TypeInv
<1> SUFFICES ASSUME Init PROVE TypeInv
  OBVIOUS
<1>0. PICK b \in Budgets, got, again \in BOOLEAN :
        /\ got \/ b["others"] > 0
        /\ again => b["bubbles"] > 0
        /\ left = [b EXCEPT !["others"] = IF got THEN @ ELSE @ - 1,
                           !["bubbles"] = IF again THEN @ - 1 ELSE @]
        /\ loose = IF got THEN {} ELSE {1}
        /\ thread = {Message(1, "client", NoMid, {}, 0),
                     IF got THEN Message(3, "bot", <<1, 1>>, {<<1, 1>>}, 1)
                     ELSE Message(3, "bot", NoMid, {}, 1)}
        /\ job = [j \in Jobs |-> CASE j # 1 -> [status |-> "none", from |-> 0]
                                   [] again -> [status |-> "processing", from |-> 0]
                                   [] OTHER -> [status |-> "pending", from |-> 3]]
        /\ plan = IF again THEN [pc |-> "load", from |-> 3] ELSE NoPlan
  BY Zenon DEF Init
<1>1. thread \in SUBSET Row
  <2>1. 1 \in 0..MaxSends /\ 0 \in 0..MaxSends
    BY Constants
  <2>2. <<1, 1>> \in Mids /\ NoMid \in Mids
    BY <2>1, MidType
  <2>3. /\ Message(1, "client", NoMid, {}, 0) \in Row
        /\ Message(3, "bot", <<1, 1>>, {<<1, 1>>}, 1) \in Row
        /\ Message(3, "bot", NoMid, {}, 1) \in Row
    BY <2>1, <2>2, RowType
  <2> QED
    BY <1>0, <2>3
<1>2. job \in [Jobs -> JobRow]
  BY <1>0 DEF JobRow
<1>3. task \in [Tasks -> TaskRow] /\ \A p \in Tasks : Fits(task[p])
  BY IdleFits DEF Init
<1>4. /\ plan \in [pc: {"idle", "load", "write"}, from: Nat]
      /\ admin \in [pc: {"idle", "reply", "state", "note"}, saw: States]
      /\ echo \in [pc: {"idle", "create", "state"}, mid: Mids, at: Nat, takes: BOOLEAN]
  BY <1>0, MidType, Constants DEF Init, NoPlan, NoRequest, NoEcho, States
<1>5. echoes \in SUBSET [mid: Mids, at: Nat]
  <2>1. <<1, 1>> \in Mids
    <3>1. 1 \in 0..MaxSends
      BY Constants
    <3> QED
      BY <3>1, MidType
  <2> QED
    BY <2>1 DEF Init
<1>6. left \in [Kinds -> Nat] /\ left["bubbles"] <= MaxBubbles
  <2>1. /\ b \in [Kinds -> Nat] /\ b["bubbles"] <= MaxBubbles
        /\ "bubbles" \in Kinds /\ "others" \in Kinds
    BY Constants DEF Kinds
  <2> QED
    BY <1>0, <2>1, Constants
<1>7. nudges \in [0..MaxBubbles -> Nat] /\ sent \in 0..MaxSends
  BY Constants DEF Init
<1>8. loose \in SUBSET Sends
  BY <1>0, Constants DEF Sends
<1> QED
  BY <1>1, <1>2, <1>3, <1>4, <1>5, <1>6, <1>7, <1>8 DEF Init, TypeInv, TypeOK, Locals, States

\* The jobs and the calls nobody awaits.
LEMMA TypeOfCalls ==
  ASSUME TypeInv,
         RunCancel \/ PlanLoad \/ PlanWrite \/ SetEnabled \/ ClearSlot \/ MonitorClaim
  PROVE  TypeInv'
<1>1. CASE RunCancel
  BY <1>1, CancelledType
  DEF RunCancel, TypeInv, TypeOK, Locals, Fits, clock, history
<1>2. CASE PlanLoad
  BY <1>2 DEF PlanLoad, NoPlan, TypeInv, TypeOK, Locals, Fits, clock, db, history
<1>3. CASE PlanWrite
  <2>1. PICK j \in Jobs :
          job' = [Cancelled(job) EXCEPT ![j] = [status |-> "pending", from |-> plan.from]]
    BY <1>3 DEF PlanWrite
  <2>2. [status |-> "pending", from |-> plan.from] \in JobRow
    BY DEF TypeInv, TypeOK, JobRow
  <2>3. job' \in [Jobs -> JobRow]
    BY <2>1, <2>2, CancelledType
  <2> QED
    BY <1>3, <2>3 DEF PlanWrite, NoPlan, TypeInv, TypeOK, Locals, Fits, clock, history
<1>4. CASE SetEnabled
  <2>1. job' \in [Jobs -> JobRow]
    BY <1>4, CancelledType DEF SetEnabled, TypeInv, TypeOK
  <2>2. /\ left' \in [Kinds -> Nat]
        /\ left'["bubbles"] <= MaxBubbles
    BY <1>4, SpendType, Constants DEF SetEnabled
  <2> QED
    BY <1>4, <2>1, <2>2 DEF SetEnabled, TypeInv, TypeOK, Locals, Fits, clock, history
<1>5. CASE ClearSlot
  <2>1. Locals'
    BY <1>5 DEF ClearSlot, TypeInv, Locals, Fits
  <2>2. slot' \in BOOLEAN /\ excuse' \in BOOLEAN
    BY <1>5, Zenon DEF ClearSlot
  <2>3. cancels' \in Nat /\ inbound' \in {"idle", "clear"}
    BY <1>5 DEF ClearSlot, CancelLater, TypeInv, TypeOK
  <2> QED
    BY <1>5, <2>1, <2>2, <2>3 DEF ClearSlot, TypeInv, TypeOK, clock
<1>6. CASE MonitorClaim
  <2>1. job' \in [Jobs -> JobRow]
    BY <1>6 DEF MonitorClaim, TypeInv, TypeOK, JobRow
  <2> QED
    BY <1>6, <2>1 DEF MonitorClaim, TypeInv, TypeOK, Locals, Fits, clock, history
<1> QED
  BY <1>1, <1>2, <1>3, <1>4, <1>5, <1>6

LEMMA TypeOfClient ==
  ASSUME TypeInv, ClientWrites
  PROVE  TypeInv'
<1>1. Message(now + 1, "client", NoMid, {}, 0) \in Row
  BY RowType, MidType, Constants DEF TypeInv, TypeOK
<1>2. thread' \in SUBSET Row
  BY <1>1 DEF ClientWrites, TypeInv, TypeOK
<1>3. /\ left' \in [Kinds -> Nat]
      /\ left'["bubbles"] <= MaxBubbles
  BY SpendType, Constants DEF ClientWrites
<1>4. Locals'
  BY <1>3 DEF ClientWrites, TypeInv, Locals, Fits
<1> QED
  BY <1>2, <1>3, <1>4 DEF ClientWrites, TypeInv, TypeOK, history

\* The turn up to its send.
LEMMA TypeOfTurn ==
  ASSUME TypeInv, TurnStart \/ TurnQuiet \/ TurnDecide \/ TurnHandoff
  PROVE  TypeInv'
<1> DEFINE t == task["turn"]
<1>0. t \in TaskRow /\ Fits(t) /\ "turn" \in Tasks
  BY DEF TypeInv, TypeOK, Locals, Tasks
<1>1. CASE TurnStart
  <2> DEFINE row == [Idle EXCEPT !.pc = "claude", !.started = now + 1]
  <2>1. row \in TaskRow /\ Fits(row)
    <3>1. now + 1 \in Nat
      BY DEF TypeInv, TypeOK
    <3> QED
      BY <3>1, IdleFits DEF TaskRow, Fits, Idle
  <2>2. task' \in [Tasks -> TaskRow] /\ \A q \in Tasks : Fits(task[q])'
    BY <1>0, <1>1, <2>1, SetTaskType DEF TurnStart
  <2> QED
    BY <1>1, <2>2 DEF TurnStart, TypeInv, TypeOK, Locals, States, clock, history
<1>2. CASE TurnQuiet
  <2>1. task' \in [Tasks -> TaskRow] /\ \A q \in Tasks : Fits(task[q])'
    BY <1>0, <1>2, IdleFits, SetTaskType DEF TurnQuiet
  <2>2. Message(now + 1, "system", NoMid, {}, 0) \in Row
    BY RowType, MidType, Constants DEF TypeInv, TypeOK
  <2>3. thread' \in SUBSET Row /\ now' \in Nat
    BY <1>2, <2>2 DEF TurnQuiet, TypeInv, TypeOK
  <2> QED
    BY <1>2, <2>1, <2>3 DEF TurnQuiet, TypeInv, TypeOK, Locals, history
<1>3. CASE TurnDecide
  <2>1. PICK n \in Sends, pc \in {"send", "handoff"} :
          Fresh(n) /\ SetTask("turn", [t EXCEPT !.pc = pc, !.send = n, !.plans = (pc = "send")])
    BY <1>3 DEF TurnDecide
  <2> DEFINE row == [t EXCEPT !.pc = pc, !.send = n, !.plans = (pc = "send")]
  <2>2. t.parts = 0
    BY <1>0, <1>3 DEF TurnDecide, Fits
  <2>3. (pc = "send") \in BOOLEAN
    OBVIOUS
  <2>4. row \in TaskRow
    <3>1. n \in 0..MaxSends
      BY Constants DEF Sends
    <3>2. [t EXCEPT !.pc = pc, !.send = n] \in TaskRow
      BY <1>0, <3>1 DEF TaskRow
    <3>3. row = [[t EXCEPT !.pc = pc, !.send = n] EXCEPT !.plans = (pc = "send")]
      BY <1>0 DEF TaskRow
    <3> QED
      BY <2>3, <3>2, <3>3 DEF TaskRow
  <2>5. Fits(row)
    BY <1>0, <2>2 DEF TaskRow, Fits
  <2>6. task' \in [Tasks -> TaskRow] /\ \A q \in Tasks : Fits(task[q])'
    BY <1>0, <2>1, <2>4, <2>5, SetTaskType
  <2>7. sent' \in 0..MaxSends
    BY <2>1, Constants DEF Fresh, Sends
  <2> QED
    <3>1. UNCHANGED <<clock, db, plan, cancels, inbound, admin, echo, echoes, history, left>>
      BY <1>3, Zenon DEF TurnDecide
    <3> QED
      BY <2>6, <2>7, <3>1 DEF TypeInv, TypeOK, Locals, clock, db, history
<1>4. CASE TurnHandoff
  <2> DEFINE row == [t EXCEPT !.pc = "send"]
  <2>1. row \in TaskRow /\ Fits(row)
    BY <1>0, <1>4 DEF TurnHandoff, TaskRow, Fits
  <2>2. task' \in [Tasks -> TaskRow] /\ \A q \in Tasks : Fits(task[q])'
    BY <1>0, <1>4, <2>1, SetTaskType DEF TurnHandoff
  <2> QED
    BY <1>4, <2>2
    DEF TurnHandoff, CancelLater, TypeInv, TypeOK, Locals, States, clock, history
<1> QED
  BY <1>1, <1>2, <1>3, <1>4

\* Counting one more nudge keeps the type.
LEMMA NudgesType ==
  ASSUME TypeInv, NEW k
  PROVE  [nudges EXCEPT ![k] = @ + 1] \in [0..MaxBubbles -> Nat]
<1>1. nudges \in [0..MaxBubbles -> Nat]
  BY DEF TypeInv, TypeOK
<1>2. CASE k \in 0..MaxBubbles
  <2>1. nudges[k] + 1 \in Nat
    BY <1>1, <1>2
  <2> QED
    BY <1>1, <2>1
<1>3. CASE k \notin 0..MaxBubbles
  BY <1>1, <1>3
<1> QED
  BY <1>2, <1>3

Requests == [pc: {"idle", "reply", "state", "note"}, saw: States]

\* The request of a manager goes on, or ends.
LEMMA AdminType ==
  ASSUME TypeInv
  PROVE  admin \in Requests /\ NoRequest \in Requests
         /\ \A pc \in {"reply", "state", "note"} : [admin EXCEPT !.pc = pc] \in Requests
  BY DEF TypeInv, TypeOK, Requests, NoRequest, States

LEMMA TypeOfSending ==
  ASSUME TypeInv, NEW p \in Tasks, Sending(p)
  PROVE  TypeInv'
<1> DEFINE t == task[p]
<1>0. t \in TaskRow /\ Fits(t)
  BY DEF TypeInv, TypeOK, Locals
<1>a. CASE t.pc = "send"
  <2>1. t.send \in 0..MaxSends /\ t.send \in Sends /\ t.parts \in 0..1
    BY <1>0, <1>a DEF TaskRow, Fits
  <2>2. t.parts + 1 \in {1, 2, 3}
    BY <2>1
  <2>3. <<t.send, t.parts + 1>> \in Mids /\ Copy(t.send) \in Mids
    BY <2>1, <2>2, MidType DEF Copy
  <2>4. /\ [mid |-> <<t.send, t.parts + 1>>, at |-> now + 1] \in [mid: Mids, at: Nat]
        /\ [mid |-> Copy(t.send), at |-> now + 1] \in [mid: Mids, at: Nat]
    BY <2>3 DEF TypeInv, TypeOK
  <2>5. CASE SendPart(p)
    <3> DEFINE last == t.parts + 1 = 2 \/ t.send \notin Split
               row == [t EXCEPT !.parts = t.parts + 1,
                                !.pc = IF last THEN "persist" ELSE "send", !.at = now + 2]
    <3>a. t.parts + 1 \in 0..2 /\ now + 2 \in Nat
      BY <2>1 DEF TypeInv, TypeOK
    <3>b. (IF last THEN "persist" ELSE "send") \in {"persist", "send"}
      OBVIOUS
    <3>1. row \in TaskRow
      BY <1>0, <3>a, <3>b DEF TaskRow
    <3>2. Fits(row)
      BY <1>0, <2>1 DEF Fits, TaskRow
    <3>3. task' \in [Tasks -> TaskRow] /\ \A q \in Tasks : Fits(task[q])'
      BY <2>5, <3>1, <3>2, SetTaskType DEF SendPart
    <3>4. nudges' \in [0..MaxBubbles -> Nat]
      <4>1. \/ nudges' = nudges
            \/ nudges' = [nudges EXCEPT ![t.silence] = @ + 1]
        BY <2>5 DEF SendPart
      <4>2. nudges \in [0..MaxBubbles -> Nat]
        BY DEF TypeInv, TypeOK
      <4>3. [nudges EXCEPT ![t.silence] = @ + 1] \in [0..MaxBubbles -> Nat]
        BY NudgesType
      <4> QED
        BY <4>1, <4>2, <4>3
    <3>5. echoes' \in SUBSET [mid: Mids, at: Nat]
      BY <2>4, <2>5 DEF SendPart, TypeInv, TypeOK
    <3>6. /\ now' = now + 2
          /\ UNCHANGED <<old, db, plan, cancels, inbound, admin, echo, sent, slotFor,
                         excuse, early, loose, stuck, left>>
      BY <2>5, Zenon DEF SendPart
    <3> QED
      BY <3>3, <3>4, <3>5, <3>6 DEF TypeInv, TypeOK, Locals, db
  <2>6. CASE SendAgain(p)
    <3>1. echoes' \in SUBSET [mid: Mids, at: Nat]
      BY <2>4, <2>6 DEF SendAgain, TypeInv, TypeOK
    <3>2. /\ left' \in [Kinds -> Nat]
          /\ left'["bubbles"] <= MaxBubbles
      BY <2>6, SpendType, Constants DEF SendAgain
    <3> QED
      <4>1. /\ now' = now + 1
            /\ UNCHANGED <<old, db, task, plan, cancels, inbound, admin, echo, sent,
                           history>>
        BY <2>6, Zenon DEF SendAgain
      <4>2. Locals'
        BY <3>2, <4>1, LocalsKept
      <4> QED
        BY <3>1, <3>2, <4>1, <4>2 DEF TypeInv, TypeOK, db, history
  <2>7. CASE SendFails(p)
    <3>1. nudges' \in [0..MaxBubbles -> Nat]
      <4>1. \/ nudges' = nudges
            \/ nudges' = [nudges EXCEPT ![t.silence] = @ + 1]
        BY <2>7 DEF SendFails
      <4>2. nudges \in [0..MaxBubbles -> Nat]
        BY DEF TypeInv, TypeOK
      <4>3. [nudges EXCEPT ![t.silence] = @ + 1] \in [0..MaxBubbles -> Nat]
        BY NudgesType
      <4> QED
        BY <4>1, <4>2, <4>3
    <3>2. echoes' \in SUBSET [mid: Mids, at: Nat] /\ now' \in Nat
      BY <2>4, <2>7 DEF SendFails, TypeInv, TypeOK
    <3>3. /\ left' \in [Kinds -> Nat]
          /\ left'["bubbles"] <= MaxBubbles
      BY <2>7, SpendType, Constants DEF SendFails
    <3>4. loose' \in SUBSET Sends
      BY <2>1, <2>7 DEF SendFails, TypeInv, TypeOK
    <3> DEFINE row == IF p = "turn" THEN [t EXCEPT !.pc = "persist", !.got = FALSE] ELSE Idle
    <3>5. row \in TaskRow /\ Fits(row)
      <4>1. /\ [t EXCEPT !.pc = "persist", !.got = FALSE] \in TaskRow
            /\ Fits([t EXCEPT !.pc = "persist", !.got = FALSE])
        BY <1>0, <2>1 DEF TaskRow, Fits
      <4> QED
        BY <4>1, IdleFits
    <3>6. task' \in [Tasks -> TaskRow] /\ \A q \in Tasks : Fits(task[q])'
      <4>1. SetTask(p, row)
        BY <2>7 DEF SendFails
      <4> HIDE DEF row
      <4> QED
        BY <3>5, <4>1, SetTaskType
    <3>7. job' \in [Jobs -> JobRow]
      BY <2>7, MarkedType DEF SendFails, TypeInv, TypeOK
    <3>8. UNCHANGED <<old, state, slot, thread, enabled, plan, cancels, inbound,
                      echo, sent, slotFor, excuse, early, stuck>>
      BY <2>7, Zenon DEF SendFails
    <3>9. admin' \in Requests
      BY <2>7, AdminType DEF SendFails
    <3> QED
      <4>1. Locals'
        BY <3>3, <3>6 DEF Locals
      <4> QED
        BY <3>1, <3>2, <3>3, <3>4, <3>6, <3>7, <3>8, <3>9, <4>1 DEF TypeInv, TypeOK, Requests
  <2> QED
    BY <1>a, <2>5, <2>6, <2>7 DEF Sending, Persist, PersistFails
<1>b. CASE t.pc = "persist"
  <2>1. t.send \in Sends /\ t.send \in 0..MaxSends /\ t.parts \in 0..2 /\ t.at \in Nat
    BY <1>0, <1>b DEF TaskRow, Fits
  <2>2. CASE Persist(p)
    <3> DEFINE at == IF p = "nudge" THEN t.at ELSE now + 1
               ids == IF t.got THEN {<<t.send, i>> : i \in 1..t.parts} ELSE {}
    <3>1. \A i \in 1..t.parts : i \in {1, 2, 3}
      BY <2>1
    <3>2. ids \in SUBSET Mids
      BY <2>1, <3>1, MidType
    <3>3. at \in Nat /\ now' \in Nat
      BY <2>1, <2>2 DEF Persist, TypeInv, TypeOK
    <3>4. thread' \in SUBSET Row
      BY <2>1, <2>2, <3>2, <3>3, StoreType DEF Persist
    <3> DEFINE row == IF p = "nudge" THEN [t EXCEPT !.pc = "settle"] ELSE Idle
    <3>5. row \in TaskRow /\ Fits(row)
      <4>1. [t EXCEPT !.pc = "settle"] \in TaskRow /\ Fits([t EXCEPT !.pc = "settle"])
        BY <1>0 DEF TaskRow, Fits
      <4> QED
        BY <4>1, IdleFits
    <3>6. task' \in [Tasks -> TaskRow] /\ \A q \in Tasks : Fits(task[q])'
      <4>1. SetTask(p, row)
        BY <2>2 DEF Persist
      <4> HIDE DEF row
      <4> QED
        BY <3>5, <4>1, SetTaskType
    <3>7. plan' \in [pc: {"idle", "load", "write"}, from: Nat]
      BY <2>2 DEF Persist, TypeInv, TypeOK
    <3>8. UNCHANGED <<old, state, slot, job, enabled, cancels, inbound, echo,
                      echoes, sent, history, left>>
      BY <2>2, Zenon DEF Persist
    <3>9. admin' \in Requests
      BY <2>2, AdminType DEF Persist
    <3> QED
      BY <3>3, <3>4, <3>6, <3>7, <3>8, <3>9 DEF TypeInv, TypeOK, Locals, history, Requests
  <2>3. CASE PersistFails(p)
    <3>1. /\ left' \in [Kinds -> Nat]
          /\ left'["bubbles"] <= MaxBubbles
      BY <2>3, SpendType, Constants DEF PersistFails
    <3>2. loose' \in SUBSET Sends
      BY <2>1, <2>3 DEF PersistFails, TypeInv, TypeOK
    <3>3. task' \in [Tasks -> TaskRow] /\ \A q \in Tasks : Fits(task[q])'
      BY <2>3, IdleFits, SetTaskType DEF PersistFails
    <3>4. job' \in [Jobs -> JobRow]
      BY <2>3, MarkedType DEF PersistFails, TypeInv, TypeOK
    <3>5. admin' \in Requests
      BY <2>3, AdminType DEF PersistFails
    <3> QED
      BY <2>3, <3>1, <3>2, <3>3, <3>4, <3>5
      DEF PersistFails, TypeInv, TypeOK, Locals, clock, Requests
  <2> QED
    BY <1>b, <2>2, <2>3 DEF Sending, SendPart, SendAgain, SendFails
<1> QED
  BY <1>a, <1>b DEF Sending, SendPart, SendAgain, SendFails, Persist, PersistFails

\* Taking the slot, or giving it back, keeps the types.
LEMMA TakeSlotType ==
  ASSUME TypeInv, TakeSlot
  PROVE  slot' \in BOOLEAN /\ slotFor' \in Nat /\ excuse' \in BOOLEAN
<1>1. slot' \in BOOLEAN
  BY Zenon DEF TakeSlot
<1>2. excuse' \in BOOLEAN
  BY Zenon DEF TakeSlot
<1>3. task["nudge"] \in TaskRow
  BY DEF TypeInv, TypeOK, Tasks
<1>4. slotFor' \in Nat
  BY <1>3 DEF TakeSlot, TaskRow
<1> QED
  BY <1>1, <1>2, <1>4

\* The steps of a nudge: its row and its job.
LEMMA NudgeTasks ==
  ASSUME TypeInv, NudgeStep
  PROVE  task' \in [Tasks -> TaskRow] /\ \A q \in Tasks : Fits(task[q])'
<1> DEFINE t == task["nudge"]
<1>0. t \in TaskRow /\ Fits(t) /\ "nudge" \in Tasks
  BY DEF TypeInv, TypeOK, Locals, Tasks
<1>1. CASE NudgeStart
  <2>1. PICK j \in Jobs :
          SetTask("nudge", [Idle EXCEPT !.pc = "load", !.started = now + 1, !.job = j])
    BY <1>1 DEF NudgeStart
  <2> DEFINE row == [Idle EXCEPT !.pc = "load", !.started = now + 1, !.job = j]
  <2>2. now + 1 \in Nat /\ j \in Jobs \cup {0}
    BY DEF TypeInv, TypeOK
  <2>3. row \in TaskRow /\ Fits(row)
    BY <2>2, IdleFits DEF TaskRow, Fits, Idle
  <2> QED
    BY <1>0, <2>1, <2>3, SetTaskType
<1>2. ASSUME NEW pc \in {"gate", "claude", "check", "recheck", "reopen"}, NudgeTo(pc),
             t.parts = 0
      PROVE  task' \in [Tasks -> TaskRow] /\ \A q \in Tasks : Fits(task[q])'
  <2>1. [t EXCEPT !.pc = pc] \in TaskRow /\ Fits([t EXCEPT !.pc = pc])
    BY <1>0, <1>2, StepType
  <2> QED
    BY <1>0, <1>2, <2>1, SetTaskType DEF NudgeTo
<1>3. ASSUME NEW pc \in {"consume", "claim"}, t.parts = 0,
             SetTask("nudge", [t EXCEPT !.pc = pc, !.silence = Silence])
      PROVE  task' \in [Tasks -> TaskRow] /\ \A q \in Tasks : Fits(task[q])'
  <2>1. /\ [t EXCEPT !.pc = pc, !.silence = Silence] \in TaskRow
        /\ Fits([t EXCEPT !.pc = pc, !.silence = Silence])
    BY <1>0, <1>3, SilenceType DEF TaskRow, Fits
  <2> QED
    BY <1>0, <1>3, <2>1, SetTaskType
<1>4. ASSUME SetTask("nudge", Idle)
      PROVE  task' \in [Tasks -> TaskRow] /\ \A q \in Tasks : Fits(task[q])'
  BY <1>0, <1>4, IdleFits, SetTaskType
<1>5. t.pc \notin {"send", "persist", "settle"} => t.parts = 0
  BY <1>0 DEF Fits
<1>6. CASE NudgeLoad
  BY <1>2, <1>3, <1>4, <1>5, <1>6 DEF NudgeLoad, GiveUp
<1>7. CASE NudgeGate
  BY <1>3, <1>4, <1>5, <1>7 DEF NudgeGate, GiveUp
<1>8. CASE Consume
  BY <1>4, <1>8 DEF Consume
<1>9. CASE NudgeClaim
  BY <1>2, <1>4, <1>5, <1>9 DEF NudgeClaim, GiveUp
<1>10. CASE NudgeClaude
  BY <1>2, <1>4, <1>5, <1>10 DEF NudgeClaude, GiveUp
<1>11. CASE NudgeCheck
  BY <1>2, <1>5, <1>11 DEF NudgeCheck
<1>12. CASE NudgeRecheck
  <2>1. CASE NudgeTo("reopen")
    BY <1>2, <1>5, <1>12, <2>1 DEF NudgeRecheck
  <2>2. CASE SetTask("nudge", Idle)
    BY <1>4, <2>2
  <2>3. ASSUME NEW n \in Sends, SetTask("nudge", [t EXCEPT !.pc = "send", !.send = n])
        PROVE  task' \in [Tasks -> TaskRow] /\ \A q \in Tasks : Fits(task[q])'
    <3>1. n \in 0..MaxSends
      BY Constants DEF Sends
    <3>2. t.parts = 0
      BY <1>5, <1>12 DEF NudgeRecheck
    <3> DEFINE row == [t EXCEPT !.pc = "send", !.send = n]
    <3>3. row \in TaskRow
      BY <1>0, <3>1 DEF TaskRow
    <3>4. row.pc = "send" /\ row.send = n /\ row.parts = 0
      BY <1>0, <3>2 DEF TaskRow
    <3>5. Fits(row)
      BY <3>4 DEF Fits
    <3> HIDE DEF row
    <3> QED
      BY <1>0, <2>3, <3>3, <3>5, SetTaskType DEF row
  <2> QED
    BY <1>12, <2>1, <2>2, <2>3 DEF NudgeRecheck, GiveUp
<1>13. CASE Reopen
  BY <1>4, <1>13 DEF Reopen
<1>14. CASE Settle
  BY <1>4, <1>14 DEF Settle, GiveUp
<1> QED
  BY <1>1, <1>6, <1>7, <1>8, <1>9, <1>10, <1>11, <1>12, <1>13, <1>14 DEF NudgeStep

LEMMA NudgeJobs ==
  ASSUME TypeInv, NudgeStep
  PROVE  job' \in [Jobs -> JobRow]
<1>0. job \in [Jobs -> JobRow] /\ thread \in SUBSET Row
  BY DEF TypeInv, TypeOK
<1>1. ASSUME NEW status \in {"done", "cancelled", "failed"}, job' = Marked(status)
      PROVE  job' \in [Jobs -> JobRow]
  BY <1>1, MarkedType
<1>2. CASE NudgeGate
  <2>1. ASSUME NEW r \in Newest(thread),
               job' = [job EXCEPT ![task["nudge"].job] =
                         [status |-> "pending", from |-> r.at]]
        PROVE  job' \in [Jobs -> JobRow]
    <3>1. r \in Row
      BY <1>0 DEF Newest
    <3>2. [status |-> "pending", from |-> r.at] \in JobRow
      BY <3>1 DEF Row, JobRow
    <3> QED
      BY <1>0, <2>1, <3>2
  <2> QED
    BY <1>0, <1>1, <1>2, <2>1 DEF NudgeGate, GiveUp
<1>3. CASE NudgeLoad
  BY <1>0, <1>1, <1>3 DEF NudgeLoad, GiveUp
<1>4. CASE NudgeClaim \/ NudgeClaude \/ NudgeCheck
  BY <1>0, <1>1, <1>4 DEF NudgeClaim, NudgeClaude, NudgeCheck, GiveUp
<1>5. CASE NudgeRecheck
  BY <1>0, <1>1, <1>5 DEF NudgeRecheck, GiveUp
<1>6. CASE Settle
  BY <1>1, <1>6 DEF Settle, GiveUp
<1>7. CASE NudgeStart \/ Consume \/ Reopen
  BY <1>0, <1>7 DEF NudgeStart, Consume, Reopen, db
<1> QED
  BY <1>2, <1>3, <1>4, <1>5, <1>6, <1>7 DEF NudgeStep

LEMMA TypeOfNudge ==
  ASSUME TypeInv, NudgeStep
  PROVE  TypeInv'
<1>1. task' \in [Tasks -> TaskRow] /\ \A q \in Tasks : Fits(task[q])'
  BY NudgeTasks
<1>2. job' \in [Jobs -> JobRow]
  BY NudgeJobs
<1>3. CASE NudgeStart
  BY <1>1, <1>3 DEF NudgeStart, TypeInv, TypeOK, Locals, clock, db, history
<1>4. CASE NudgeLoad
  BY <1>1, <1>2, <1>4 DEF NudgeLoad, TypeInv, TypeOK, Locals, clock, history
<1>5. CASE NudgeGate
  BY <1>1, <1>2, <1>5 DEF NudgeGate, TypeInv, TypeOK, Locals, clock, history
<1>6. CASE Consume
  <2>1. slot' \in BOOLEAN /\ slotFor' \in Nat /\ excuse' \in BOOLEAN
    BY <1>6, TakeSlotType DEF Consume
  <2> QED
    BY <1>1, <1>6, <2>1 DEF Consume, TypeInv, TypeOK, Locals, clock
<1>7. CASE NudgeClaim
  <2>1. slot' \in BOOLEAN /\ slotFor' \in Nat /\ excuse' \in BOOLEAN
    <3>1. CASE TakeSlot
      BY <3>1, TakeSlotType
    <3>2. CASE UNCHANGED <<slot, slotFor, excuse>>
      BY <3>2 DEF TypeInv, TypeOK
    <3> QED
      BY <1>7, <3>1, <3>2 DEF NudgeClaim
  <2> QED
    BY <1>1, <1>2, <1>7, <2>1 DEF NudgeClaim, TypeInv, TypeOK, Locals, clock
<1>8. CASE NudgeClaude
  BY <1>1, <1>2, <1>8 DEF NudgeClaude, TypeInv, TypeOK, Locals, clock, history
<1>9. CASE NudgeCheck
  BY <1>1, <1>2, <1>9 DEF NudgeCheck, TypeInv, TypeOK, Locals, clock, history
<1>10. CASE NudgeRecheck
  <2>1. sent' \in 0..MaxSends
    <3>1. CASE UNCHANGED sent
      BY <3>1 DEF TypeInv, TypeOK
    <3>2. CASE \E n \in Sends : Fresh(n)
      BY <3>2, Constants DEF Fresh, Sends
    <3> QED
      BY <1>10, <3>1, <3>2 DEF NudgeRecheck
  <2> QED
    <3>1. UNCHANGED <<clock, state, slot, thread, enabled, plan, cancels, inbound, admin, echo,
                      echoes, history, left>>
      BY <1>10, Zenon DEF NudgeRecheck
    <3> QED
      BY <1>1, <1>2, <2>1, <3>1 DEF TypeInv, TypeOK, Locals, clock, history
<1>11. CASE Reopen
  <2>1. slot' \in BOOLEAN /\ excuse' \in BOOLEAN
    BY <1>11, Zenon DEF Reopen
  <2> QED
    BY <1>1, <1>11, <2>1 DEF Reopen, TypeInv, TypeOK, Locals, clock
<1>12. CASE Settle
  <2>1. slot' \in BOOLEAN /\ slotFor' \in Nat /\ excuse' \in BOOLEAN
    BY <1>12, TakeSlotType DEF Settle
  <2> QED
    BY <1>1, <1>2, <1>12, <2>1 DEF Settle, TypeInv, TypeOK, Locals, clock
<1> QED
  BY <1>3, <1>4, <1>5, <1>6, <1>7, <1>8, <1>9, <1>10, <1>11, <1>12 DEF NudgeStep

\* The echo handler: its rows are a manager's, or one it has found.
LEMMA TypeOfEcho ==
  ASSUME TypeInv, EchoLookup \/ EchoCreate \/ EchoState
  PROVE  TypeInv'
<1>0. /\ thread \in SUBSET Row /\ early \in SUBSET Mids
      /\ echo \in [pc: {"idle", "create", "state"}, mid: Mids, at: Nat, takes: BOOLEAN]
      /\ echoes \in SUBSET [mid: Mids, at: Nat]
  BY DEF TypeInv, TypeOK
<1>1. NoEcho \in [pc: {"idle", "create", "state"}, mid: Mids, at: Nat, takes: BOOLEAN]
  BY MidType, Constants DEF NoEcho
<1>2. CASE EchoLookup
  <2>1. PICK e \in echoes :
          \/ /\ echo' = [pc |-> "create", mid |-> e.mid, at |-> e.at, takes |-> state = "bot"]
             /\ early' = IF e.mid[1] \in UnderWay THEN early \cup {e.mid} ELSE early
             /\ UNCHANGED thread
          \/ /\ \E r \in Newest(Alike(e.mid)) :
                  thread' = (thread \ {r}) \cup {[r EXCEPT !.id = e.mid]}
             /\ UNCHANGED <<echo, early>>
    BY <1>2 DEF EchoLookup
  <2>2. e.mid \in Mids /\ e.at \in Nat
    BY <1>0
  <2>3. (state = "bot") \in BOOLEAN
    OBVIOUS
  <2>4. echo' \in [pc: {"idle", "create", "state"}, mid: Mids, at: Nat, takes: BOOLEAN]
    <3>1. CASE echo' = [pc |-> "create", mid |-> e.mid, at |-> e.at, takes |-> state = "bot"]
      <4> DEFINE takes == state = "bot"
      <4>1. takes \in BOOLEAN
        BY <2>3
      <4>2. echo' = [pc |-> "create", mid |-> e.mid, at |-> e.at, takes |-> takes]
        BY <3>1
      <4> HIDE DEF takes
      <4> QED
        BY <2>2, <4>1, <4>2
    <3> QED
      BY <1>0, <2>1, <3>1
  <2>5. early' \in SUBSET Mids
    BY <1>0, <2>1, <2>2
  <2>6. thread' \in SUBSET Row
    <3>1. \A r \in Newest(Alike(e.mid)) : r \in Row
      BY <1>0 DEF Newest, Alike, Recent, Outbound
    <3>2. \A r \in Row : [r EXCEPT !.id = e.mid] \in Row
      BY <2>2 DEF Row
    <3> QED
      BY <1>0, <2>1, <3>1, <3>2
  <2> QED
    BY <1>2, <2>4, <2>5, <2>6 DEF EchoLookup, TypeInv, TypeOK, Locals, Fits, clock
<1>3. CASE EchoCreate
  <2>1. echo.mid[1] \in 0..MaxSends
    BY <1>0 DEF Mids
  <2>2. Message(echo.at, "manager", echo.mid, {}, echo.mid[1]) \in Row
    BY <1>0, <2>1, RowType
  <2>3. thread' \in SUBSET Row
    BY <1>0, <1>3, <2>2 DEF EchoCreate
  <2>4. echo' \in [pc: {"idle", "create", "state"}, mid: Mids, at: Nat, takes: BOOLEAN]
    BY <1>0, <1>1, <1>3 DEF EchoCreate
  <2> QED
    BY <1>3, <2>3, <2>4 DEF EchoCreate, TypeInv, TypeOK, Locals, Fits, clock, history
<1>4. CASE EchoState
  <2>1. state' \in States /\ cancels' \in Nat
    BY <1>4 DEF EchoState, CancelLater, States, TypeInv, TypeOK
  <2> QED
    BY <1>1, <1>4, <2>1 DEF EchoState, TypeInv, TypeOK, Locals, Fits, clock, history
<1> QED
  BY <1>2, <1>3, <1>4

\* A send begins, or none.
LEMMA FreshType ==
  ASSUME NEW n \in Sends, Fresh(n)
  PROVE  sent' \in 0..MaxSends /\ n \in 0..MaxSends
  BY Constants DEF Fresh, Sends

\* The managers, in the app and in the admin.
LEMMA TypeOfManagers ==
  ASSUME TypeInv,
         \/ ManagerTypes \/ ReplySend \/ ReplyState \/ ResponsesNote
         \/ \E on \in BOOLEAN : SetResponses(on)
  PROVE  TypeInv'
<1>0. /\ admin \in Requests /\ state \in States /\ now \in Nat /\ now + 1 \in Nat
      /\ thread \in SUBSET Row
      /\ echoes \in SUBSET [mid: Mids, at: Nat] /\ cancels \in Nat
  BY DEF TypeInv, TypeOK, Requests
<1>1. NoRequest \in Requests
  BY Constants DEF NoRequest, Requests, States
<1>2. CASE ManagerTypes
  <2>1. echoes' \in SUBSET [mid: Mids, at: Nat]
    BY <1>0, <1>2, MidType DEF ManagerTypes
  <2>2. /\ left' \in [Kinds -> Nat]
        /\ left'["bubbles"] <= MaxBubbles
    BY <1>2, SpendType, Constants DEF ManagerTypes
  <2> QED
    BY <1>0, <1>2, <2>1, <2>2 DEF ManagerTypes, TypeInv, TypeOK, Locals, Fits, db, history
<1>3. CASE ReplySend
  <2>1. PICK n \in Sends :
          Fresh(n) /\ SetTask("reply", [Idle EXCEPT !.pc = "send", !.send = n])
    BY <1>3 DEF ReplySend
  <2>2. sent' \in 0..MaxSends /\ n \in 0..MaxSends
    BY <2>1, FreshType
  <2>3. admin' \in Requests
    BY <1>0, <1>3 DEF ReplySend, Requests
  <2> DEFINE row == [Idle EXCEPT !.pc = "send", !.send = n]
  <2>4. row \in TaskRow /\ Fits(row)
    <3>1. row \in TaskRow
      BY <2>2, IdleFits DEF TaskRow
    <3>2. row.pc = "send" /\ row.send = n /\ row.parts = 0 /\ n \in Sends
      BY <2>1 DEF Idle
    <3> HIDE DEF row
    <3> QED
      BY <3>1, <3>2 DEF Fits
  <2>5. task' \in [Tasks -> TaskRow] /\ \A q \in Tasks : Fits(task[q])'
    <3>1. "reply" \in Tasks
      BY DEF Tasks
    <3> QED
      BY <2>1, <2>4, <3>1, SetTaskType
  <2>6. /\ left' \in [Kinds -> Nat]
        /\ left'["bubbles"] <= MaxBubbles
    BY <1>3, SpendType, Constants DEF ReplySend
  <2>7. UNCHANGED <<clock, db, plan, cancels, inbound, echo, echoes, history>>
    BY <1>3, Zenon DEF ReplySend
  <2> QED
    BY <2>2, <2>3, <2>5, <2>6, <2>7 DEF TypeInv, TypeOK, Locals, Requests, clock, db, history
<1>5. CASE ReplyState
  <2>1. state' \in States
    BY <1>0, <1>5 DEF ReplyState, States
  <2> QED
    BY <1>0, <1>1, <1>5, <2>1
    DEF ReplyState, CancelLater, TypeInv, TypeOK, Locals, Fits, clock, history, Requests
<1>6. CASE ResponsesNote
  <2>1. Message(now + 1, "system", NoMid, {}, 0) \in Row
    BY <1>0, RowType, MidType, Constants
  <2>2. thread' \in SUBSET Row
    BY <1>0, <1>6, <2>1 DEF ResponsesNote
  <2> QED
    BY <1>0, <1>1, <1>6, <2>2
    DEF ResponsesNote, TypeInv, TypeOK, Locals, Fits, history, Requests
<1>7. ASSUME NEW on \in BOOLEAN, SetResponses(on)
      PROVE  TypeInv'
  <2>1. state' \in States /\ cancels' \in Nat
    BY <1>0, <1>7 DEF SetResponses, CancelLater, States
  <2>2. admin' \in Requests
    BY <1>0, <1>7 DEF SetResponses, Requests
  <2>3. /\ left' \in [Kinds -> Nat]
        /\ left'["bubbles"] <= MaxBubbles
    BY <1>7, SpendType, Constants DEF SetResponses
  <2> QED
    <3>1. UNCHANGED <<clock, slot, thread, job, enabled, task, plan, inbound, echo, echoes,
                      sent, history>>
      BY <1>7, Zenon DEF SetResponses
    <3> QED
      BY <2>1, <2>2, <2>3, <3>1, LocalsKept DEF TypeInv, TypeOK, clock, history, Requests
<1> QED
  BY <1>2, <1>3, <1>5, <1>6, <1>7

\* Time passes; the process restarts.
LEMMA TypeOfTime ==
  ASSUME TypeInv, HoursPass \/ Crash
  PROVE  TypeInv'
<1>1. CASE HoursPass
  BY <1>1 DEF HoursPass, TypeInv, TypeOK, Locals, Fits, db, history
<1>3. CASE Crash
  <2>1. task' \in [Tasks -> TaskRow] /\ \A p \in Tasks : Fits(task'[p])
    BY <1>3, IdleFits DEF Crash
  <2>2. /\ NoPlan \in [pc: {"idle", "load", "write"}, from: Nat]
        /\ NoRequest \in [pc: {"idle", "reply", "state", "note"}, saw: States]
        /\ NoEcho \in [pc: {"idle", "create", "state"}, mid: Mids, at: Nat, takes: BOOLEAN]
    BY MidType, Constants DEF NoPlan, NoRequest, NoEcho, States
  <2>3. UnderWay \subseteq 0..MaxSends
    BY DEF UnderWay, TypeInv, TypeOK, TaskRow
  <2>4. loose' \in SUBSET Sends
    <3>1. (0..MaxSends) \ {0} = Sends
      BY Constants DEF Sends
    <3> QED
      BY <1>3, <2>3, <3>1 DEF Crash, TypeInv, TypeOK
  <2>5. excuse' \in BOOLEAN
    BY <1>3, Zenon DEF Crash
  <2>6. stuck' \in SUBSET Jobs
    BY <1>3 DEF Crash
  <2>7. /\ left' \in [Kinds -> Nat]
        /\ left'["bubbles"] <= MaxBubbles
    BY <1>3, SpendType, Constants DEF Crash
  <2>8. Locals'
    BY <2>1, <2>7 DEF Locals, Fits
  <2> QED
    BY <1>3, <2>1, <2>2, <2>4, <2>5, <2>6, <2>7, <2>8
    DEF Crash, TypeInv, TypeOK, clock, db
<1> QED
  BY <1>1, <1>3

LEMMA TypeStep == TypeInv /\ [Next]_vars => TypeInv'
<1> SUFFICES ASSUME TypeInv, [Next]_vars PROVE TypeInv'
  OBVIOUS
<1>1. CASE UNCHANGED vars
  BY <1>1 DEF vars, TypeInv, TypeOK, Locals, Fits
<1>2. CASE Next
  BY <1>2, TypeOfCalls, TypeOfClient, TypeOfTurn, TypeOfSending, TypeOfNudge, TypeOfEcho,
     TypeOfManagers, TypeOfTime
  DEF Next
<1> QED
  BY <1>1, <1>2

\* The tables and the locals of every call keep their types, whatever the numbers of bubbles,
\* sends, jobs and faults: no step of follow-up.ts, conversation.ts or ig-page-echo.ts leaves
\* the states the model means.
THEOREM TypeCorrect == Spec => []TypeOK
<1>1. Spec => []TypeInv
  BY InitType, TypeStep, PTL DEF Spec
<1>2. TypeInv => TypeOK
  BY DEF TypeInv
<1> QED
  BY <1>1, <1>2, PTL

-----------------------------------------------------------------------------
(* One nudge per silence                                                   *)

LEMMA InitInv == Init => IInv
<1> SUFFICES ASSUME Init PROVE IInv
  OBVIOUS
<1>1. TypeInv
  BY InitType
<1>2. Silence \in 0..MaxBubbles
  BY <1>1, SilenceType, Constants
<1>3. \A k \in DOMAIN nudges : nudges[k] = 0
  BY DEF Init
<1>4. nudges[Silence] = 0
  BY <1>2 DEF Init
<1>5. task["nudge"].pc = "idle"
  BY DEF Init, Tasks, Idle
<1> QED
  BY <1>1, <1>3, <1>4, <1>5
  DEF IInv, Unheard, Nudging, Counted, OneNudgePerSilence, Passed, Written, Init

\* A step that sends no nudge, lets no hours pass and leaves the bubbles alone.
Kept ==
  /\ inbound' = inbound /\ old' = old /\ nudges' = nudges /\ now <= now'
  /\ left'["bubbles"] = left["bubbles"]
  /\ \A r \in thread : r.by = "client" /\ r.id = NoMid => r \in thread'

LEMMA KeptSilence ==
  ASSUME Kept
  PROVE  Silence' = Silence
  BY DEF Kept, Silence

\* The history of such a step, if it does not free the slot.
LEMMA HistoryKept ==
  ASSUME IInv, TypeInv', Kept, slot => slot'
  PROVE  Unheard' /\ Counted'
<1>1. Silence' = Silence
  BY KeptSilence
<1>2. Unheard'
  BY <1>1 DEF IInv, Unheard, Kept, TypeInv, TypeOK
<1>3. Counted'
  BY <1>1 DEF IInv, Counted, OneNudgePerSilence, Kept
<1> QED
  BY <1>2, <1>3

\* The nudge has not passed its gate.
LEMMA NotPassed ==
  ASSUME task'["nudge"].pc \in {"idle", "load", "consume"}
  PROVE  Nudging'
  BY DEF Nudging, Passed, Written

\* The nudge is where it was, and so is the slot.
LEMMA NudgeStays ==
  ASSUME IInv, Kept, task'["nudge"] = task["nudge"], slot' = slot
  PROVE  Nudging'
  BY KeptSilence DEF IInv, Nudging, Kept

\* The nudge goes on with what it has: after its claim the slot is taken.
LEMMA NudgeGoesOn ==
  ASSUME IInv, Kept, slot => slot',
         task["nudge"].pc \in Passed, task'["nudge"].pc \in Written,
         task'["nudge"].silence = task["nudge"].silence,
         task'["nudge"].parts = task["nudge"].parts,
         task["nudge"].pc = "claim" => slot'
  PROVE  Nudging'
<1>1. task["nudge"].pc \in Written \/ slot'
  BY DEF Passed
<1>2. task'["nudge"].pc # "gate" /\ task'["nudge"].pc \in Passed
  BY DEF Passed, Written
<1> QED
  BY <1>1, <1>2, KeptSilence DEF IInv, Nudging, Kept

\* An adopted or identified row is never a bubble's.
LEMMA StoreKeeps ==
  ASSUME NEW who, NEW n, NEW ids, NEW at, NEW r \in thread, r.by = "client", r.id = NoMid
  PROVE  r \in Store(who, n, ids, at)
<1>1. <<n, 1>> # NoMid
  BY DEF NoMid
<1> DEFINE there == {q \in thread : q.id = <<n, 1>> /\ ids # {}}
<1>2. r \notin there
  BY <1>1
<1> QED
  BY <1>2 DEF Store

\* Every step but those of a nudge, of a bubble and of time keeps all of this.
LEMMA OtherSteps ==
  ASSUME IInv, TypeInv',
         \/ RunCancel \/ PlanLoad \/ PlanWrite \/ SetEnabled \/ MonitorClaim
         \/ TurnStart \/ TurnQuiet \/ TurnDecide \/ TurnHandoff
         \/ \E p \in Tasks \ {"nudge"} : Sending(p)
         \/ SendAgain("nudge")
         \/ EchoLookup \/ EchoCreate \/ EchoState
         \/ ManagerTypes \/ ReplySend \/ ReplyState \/ ResponsesNote
         \/ \E on \in BOOLEAN : SetResponses(on)
  PROVE  Unheard' /\ Counted' /\ Nudging'
<1>0. /\ TypeInv /\ now \in Nat /\ "turn" \in Tasks /\ "nudge" \in Tasks
      /\ task \in [Tasks -> TaskRow]
  BY DEF IInv, TypeInv, TypeOK, Tasks
<1>a. ASSUME NEW p \in Tasks \ {"nudge"}, NEW row, SetTask(p, row)
      PROVE  task'["nudge"] = task["nudge"]
  BY <1>0, <1>a DEF SetTask
<1>b. ASSUME Spend("others")
      PROVE  left'["bubbles"] = left["bubbles"]
  BY <1>0, <1>b, SpendType, Constants
<1>1. CASE RunCancel \/ PlanLoad \/ PlanWrite \/ MonitorClaim \/ EchoState \/ ReplyState
  <2>1. Kept /\ slot' = slot /\ task' = task
    BY <1>0, <1>1 DEF Kept, RunCancel, PlanLoad, PlanWrite, MonitorClaim, EchoState,
       ReplyState, clock, db, history
  <2> QED
    BY <2>1, HistoryKept, NudgeStays
<1>2. CASE SetEnabled \/ ManagerTypes \/ SendAgain("nudge")
           \/ \E on \in BOOLEAN : SetResponses(on)
  <2>1. Kept /\ slot' = slot /\ task' = task
    BY <1>0, <1>2, <1>b DEF Kept, SetEnabled, ManagerTypes, SendAgain,
       SetResponses, clock, db, history
  <2> QED
    BY <2>1, HistoryKept, NudgeStays
<1>3. CASE EchoCreate \/ ResponsesNote
  <2>1. Kept /\ slot' = slot /\ task' = task
    BY <1>0, <1>3 DEF Kept, EchoCreate, ResponsesNote, clock, db, history
  <2> QED
    BY <2>1, HistoryKept, NudgeStays
<1>4. CASE TurnStart \/ TurnQuiet \/ TurnDecide \/ TurnHandoff
  <2>1. task'["nudge"] = task["nudge"]
    <3>1. \E row : SetTask("turn", row)
      <4>1. CASE TurnDecide
        <5>1. PICK n \in Sends, pc \in {"send", "handoff"} :
                SetTask("turn", [task["turn"] EXCEPT !.pc = pc, !.send = n,
                                                     !.plans = (pc = "send")])
          BY <4>1 DEF TurnDecide
        <5> QED
          BY <5>1
      <4> QED
        BY <1>4, <4>1 DEF TurnStart, TurnQuiet, TurnHandoff
    <3> QED
      BY <1>0, <3>1, <1>a
  <2>2. Kept /\ slot' = slot
    <3>1. CASE TurnStart \/ TurnHandoff
      BY <1>0, <3>1 DEF Kept, TurnStart, TurnHandoff, clock, history
    <3>2. CASE TurnDecide
      <4>1. UNCHANGED <<clock, db, inbound, history, left>>
        BY <3>2, Zenon DEF TurnDecide
      <4> QED
        BY <1>0, <4>1 DEF Kept, clock, db, history
    <3>3. CASE TurnQuiet
      <4>1. /\ inbound' = inbound /\ old' = old /\ nudges' = nudges /\ left' = left
            /\ slot' = slot
        BY <3>3 DEF TurnQuiet, history
      <4>2. now <= now' /\ thread \subseteq thread'
        BY <1>0, <3>3 DEF TurnQuiet
      <4> QED
        BY <4>1, <4>2 DEF Kept
    <3> QED
      BY <1>4, <3>1, <3>2, <3>3
  <2> QED
    BY <2>1, <2>2, HistoryKept, NudgeStays
<1>5. CASE ReplySend
  <2>1. /\ UNCHANGED <<clock, db, inbound, history>>
        /\ left'["bubbles"] = left["bubbles"]
    BY <1>0, <1>5, SpendType, Constants DEF ReplySend
  <2>2. Kept /\ slot' = slot
    BY <1>0, <2>1 DEF Kept, clock, db, history
  <2>3. task'["nudge"] = task["nudge"]
    <3>1. "reply" \in Tasks \ {"nudge"}
      BY DEF Tasks
    <3> QED
      BY <1>5, <1>a, <3>1 DEF ReplySend
  <2> QED
    BY <2>2, <2>3, HistoryKept, NudgeStays
<1>6. CASE EchoLookup
  <2>1. \A e \in echoes : \A r \in Newest(Alike(e.mid)) : r.by # "client"
    BY DEF Newest, Alike, Recent, Outbound
  <2>2. \A r \in thread : r.by = "client" /\ r.id = NoMid => r \in thread'
    BY <1>6, <2>1 DEF EchoLookup
  <2>3. Kept /\ slot' = slot /\ task' = task
    BY <1>0, <1>6, <2>2 DEF Kept, EchoLookup, clock
  <2> QED
    BY <2>3, HistoryKept, NudgeStays
<1>7. ASSUME NEW p \in Tasks \ {"nudge"}, Sending(p)
      PROVE  Unheard' /\ Counted' /\ Nudging'
  <2>1. CASE SendPart(p) \/ SendAgain(p) \/ SendFails(p)
    <3>1. task'["nudge"] = task["nudge"]
      BY <2>1, <1>a DEF SendPart, SendAgain, SendFails
    <3>2. Kept /\ slot' = slot
      BY <1>0, <2>1, <1>b DEF Kept, SendPart, SendAgain, SendFails, db, history
    <3> QED
      BY <3>1, <3>2, HistoryKept, NudgeStays
  <2>2. CASE Persist(p)
    <3>1. task'["nudge"] = task["nudge"]
      BY <2>2, <1>a DEF Persist
    <3>2. Kept /\ slot' = slot
      BY <1>0, <2>2, StoreKeeps DEF Kept, Persist, history
    <3> QED
      BY <3>1, <3>2, HistoryKept, NudgeStays
  <2>3. CASE PersistFails(p)
    <3>1. task'["nudge"] = task["nudge"]
      BY <2>3, <1>a DEF PersistFails
    <3>2. Kept /\ slot' = slot
      BY <1>0, <2>3, <1>b DEF Kept, PersistFails, clock
    <3> QED
      BY <3>1, <3>2, HistoryKept, NudgeStays
  <2> QED
    BY <1>7, <2>1, <2>2, <2>3 DEF Sending
<1> QED
  BY <1>1, <1>2, <1>3, <1>4, <1>5, <1>6, <1>7

\* A bubble begins the next silence.
LEMMA BubbleStep ==
  ASSUME IInv, TypeInv', ClientWrites
  PROVE  Unheard' /\ Counted' /\ Nudging'
<1>0. /\ TypeInv /\ now \in Nat /\ old \in Nat /\ old <= now
      /\ nudges \in [0..MaxBubbles -> Nat]
      /\ MaxBubbles \in Nat /\ left["bubbles"] \in Nat
  BY Constants DEF IInv, Unheard, TypeInv, TypeOK
<1>1. left'["bubbles"] = left["bubbles"] - 1 /\ left["bubbles"] > 0
      /\ left["bubbles"] <= MaxBubbles
  BY <1>0, SpendType, Constants DEF ClientWrites, Spend, TypeInv, Locals
<1>2. Silence' = Silence + 1 /\ Silence \in Nat /\ Silence + 1 \in 0..MaxBubbles
  BY <1>0, <1>1 DEF Silence
<1>3. nudges[Silence + 1] = 0 /\ nudges' = nudges
  BY <1>0, <1>2 DEF IInv, Counted, ClientWrites, history
<1>4. Unheard'
  <2>1. LET r == Message(now + 1, "client", NoMid, {}, 0)
        IN  r \in thread' /\ r.by = "client" /\ r.id = NoMid /\ r.at > old
    BY <1>0 DEF ClientWrites, Message
  <2>2. nudges'[Silence'] = 0
    BY <1>2, <1>3
  <2>3. old' = old /\ now' = now + 1
    BY DEF ClientWrites
  <2> QED
    BY <1>0, <2>1, <2>2, <2>3 DEF Unheard
<1>5. Counted'
  <2>1. \A k \in DOMAIN nudges : k > Silence + 1 => nudges[k] = 0
    BY <1>0, <1>2 DEF IInv, Counted
  <2> QED
    BY <1>2, <1>3, <2>1 DEF IInv, Counted, OneNudgePerSilence
<1>6. Nudging'
  <2> DEFINE t == task["nudge"]
  <2>1. task' = task /\ slot' = slot
    BY DEF ClientWrites
  <2>2. t.pc \in Passed => t.silence \in Nat /\ t.silence <= Silence
    BY <1>0 DEF IInv, Nudging, TypeInv, TypeOK, TaskRow, Tasks
  <2>3. t.pc \in Written => t.pc \in Passed
    BY DEF Passed
  <2> QED
    BY <1>2, <1>3, <2>1, <2>2, <2>3 DEF IInv, Nudging
<1> QED
  BY <1>4, <1>5, <1>6

\* The bubble's update frees the slot: nothing was sent for its silence.
LEMMA ClearStep ==
  ASSUME IInv, TypeInv', ClearSlot
  PROVE  Unheard' /\ Counted' /\ Nudging'
<1>1. /\ Silence' = Silence /\ nudges' = nudges /\ task' = task /\ ~slot'
      /\ inbound = "clear" /\ inbound' = "idle" /\ old' = old /\ now' = now
  BY DEF ClearSlot, Silence, clock
<1>2. nudges[Silence] = 0
  BY <1>1 DEF IInv, Unheard
<1>3. Unheard'
  BY <1>1 DEF IInv, Unheard
<1>4. Counted'
  BY <1>1, <1>2 DEF IInv, Counted, OneNudgePerSilence
<1>5. Nudging'
  <2> DEFINE t == task["nudge"]
  <2>1. t.pc \in Passed => t.silence # Silence
    BY <1>1 DEF IInv, Nudging
  <2>2. t.pc \in Written => t.pc \in Passed
    BY DEF Passed
  <2> QED
    BY <1>1, <2>1, <2>2 DEF IInv, Nudging
<1> QED
  BY <1>3, <1>4, <1>5

\* Hours pass when nothing is under way, and a crash leaves nothing under way.
LEMMA TimeStep ==
  ASSUME IInv, TypeInv', HoursPass \/ Crash
  PROVE  Unheard' /\ Counted' /\ Nudging'
<1>0. TypeInv /\ now \in Nat
  BY DEF IInv, TypeInv, TypeOK
<1>1. /\ inbound' = "idle" /\ task'["nudge"].pc = "idle"
      /\ slot' = slot /\ nudges' = nudges /\ now' = now
      /\ old' = old \/ old' = now
  <2>1. CASE HoursPass
    BY <2>1 DEF HoursPass, Calm, InQueue, db, history
  <2>2. CASE Crash
    BY <2>2 DEF Crash, clock, db, Tasks, Idle
  <2> QED
    BY <2>1, <2>2
<1>2. Silence' = Silence
  <2>1. left'["bubbles"] = left["bubbles"]
    BY <1>0, SpendType, Constants DEF HoursPass, Crash
  <2> QED
    BY <2>1 DEF Silence
<1>3. Unheard'
  BY <1>0, <1>1 DEF IInv, Unheard
<1>4. Counted'
  BY <1>1, <1>2 DEF IInv, Counted, OneNudgePerSilence
<1>5. Nudging'
  BY <1>1, NotPassed
<1> QED
  BY <1>3, <1>4, <1>5

\* What has been counted for the silence of a nudge that is about to send, and what follows
\* when one more is.
LEMMA OneMore ==
  ASSUME IInv, TypeInv', task["nudge"].pc = "send",
         nudges' = nudges \/ (/\ task["nudge"].parts = 0
                              /\ nudges' = [nudges EXCEPT ![task["nudge"].silence] = @ + 1]),
         inbound' = inbound, old' = old, now <= now', slot' = slot, thread' = thread,
         left'["bubbles"] = left["bubbles"]
  PROVE  /\ Unheard' /\ Counted'
         /\ \A k \in DOMAIN nudges : k > task["nudge"].silence => nudges'[k] = 0
<1> DEFINE t == task["nudge"]
<1>0. /\ nudges \in [0..MaxBubbles -> Nat]
      /\ old \in Nat /\ now \in Nat /\ now' \in Nat /\ old <= now
      /\ Silence \in Nat /\ Silence <= MaxBubbles /\ MaxBubbles \in Nat
      /\ t.silence \in Nat
  BY SilenceType, Constants DEF IInv, Unheard, TypeInv, TypeOK, TaskRow, Tasks
<1>1. /\ t.silence <= Silence
      /\ \A k \in DOMAIN nudges : k > t.silence => nudges[k] = 0
      /\ t.silence = Silence => inbound = "idle" /\ slot
      /\ t.parts = 0 => nudges[t.silence] = 0
  BY DEF IInv, Nudging, Passed, Written
<1>2. Silence' = Silence
  BY DEF Silence
<1>3. /\ DOMAIN nudges' = DOMAIN nudges
      /\ \A k \in DOMAIN nudges : k # t.silence => nudges'[k] = nudges[k]
      /\ nudges'[t.silence] = nudges[t.silence] \/ nudges'[t.silence] = 1
  BY <1>0, <1>1
<1>4. Unheard'
  <2>1. inbound = "clear" => nudges'[Silence] = 0
    BY <1>0, <1>1, <1>3 DEF IInv, Unheard
  <2> QED
    BY <1>0, <1>2, <2>1 DEF IInv, Unheard
<1>5. Counted'
  <2>1. \A k \in DOMAIN nudges : nudges'[k] <= 1
    BY <1>0, <1>3 DEF IInv, Counted, OneNudgePerSilence
  <2>2. \A k \in DOMAIN nudges : k > Silence => nudges'[k] = 0
    BY <1>0, <1>1, <1>3 DEF IInv, Counted
  <2>3. nudges'[Silence] # 0 => slot /\ inbound = "idle"
    BY <1>0, <1>1, <1>3 DEF IInv, Counted
  <2> QED
    BY <1>2, <1>3, <2>1, <2>2, <2>3 DEF Counted, OneNudgePerSilence
<1> QED
  BY <1>0, <1>1, <1>3, <1>4, <1>5

\* A nudge that sends, or fails to.
LEMMA NudgeSends ==
  ASSUME IInv, TypeInv', \/ SendPart("nudge") \/ SendFails("nudge")
                         \/ Persist("nudge") \/ PersistFails("nudge")
  PROVE  Unheard' /\ Counted' /\ Nudging'
<1> DEFINE t == task["nudge"]
<1>0. /\ TypeInv /\ now \in Nat /\ "nudge" \in Tasks /\ t \in TaskRow /\ Fits(t)
      /\ task \in [Tasks -> TaskRow]
      /\ nudges \in [0..MaxBubbles -> Nat]
  BY DEF IInv, TypeInv, TypeOK, Locals, Tasks
<1>a. ASSUME NEW row, SetTask("nudge", row)
      PROVE  task'["nudge"] = row
  BY <1>0, <1>a DEF SetTask
<1>b. ASSUME Spend("others")
      PROVE  left'["bubbles"] = left["bubbles"]
  BY <1>0, <1>b, SpendType, Constants
<1>c. t.pc \in {"send", "persist"} => t.pc \in Passed /\ t.pc \in Written
  BY DEF Passed, Written
<1>1. CASE SendPart("nudge")
  <2>1. /\ t.pc = "send" /\ t.parts + 1 \in {1, 2} /\ t.parts \in 0..1
    BY <1>0, <1>1 DEF SendPart, Fits, TaskRow
  <2>2. nudges' = nudges \/ (t.parts = 0 /\ nudges' = [nudges EXCEPT ![t.silence] = @ + 1])
    BY <1>1, <2>1 DEF SendPart
  <2>3. /\ inbound' = inbound /\ old' = old /\ now <= now' /\ slot' = slot
        /\ thread' = thread /\ left' = left
    BY <1>0, <1>1 DEF SendPart, db
  <2>4. /\ Unheard' /\ Counted'
        /\ \A k \in DOMAIN nudges : k > t.silence => nudges'[k] = 0
    BY <2>1, <2>2, <2>3, OneMore
  <2> DEFINE last == t.parts + 1 = 2 \/ t.send \notin Split
             row == [t EXCEPT !.parts = t.parts + 1,
                              !.pc = IF last THEN "persist" ELSE "send", !.at = now + 2]
  <2>5. task'["nudge"] = row
    BY <1>1, <1>a DEF SendPart
  <2>6. row.silence = t.silence /\ row.parts # 0 /\ row.pc \in {"send", "persist"}
    BY <1>0, <2>1 DEF TaskRow
  <2>7. Silence' = Silence /\ DOMAIN nudges' = DOMAIN nudges
    BY <2>2, <2>3 DEF Silence
  <2>8. /\ t.silence <= Silence
        /\ t.silence = Silence => inbound = "idle" /\ slot
    BY <1>c, <2>1 DEF IInv, Nudging
  <2> HIDE DEF row
  <2> QED
    BY <2>3, <2>4, <2>5, <2>6, <2>7, <2>8 DEF Nudging
<1>2. CASE SendFails("nudge")
  <2>1. /\ t.pc = "send" /\ t.parts \in 0..1
    BY <1>0, <1>2 DEF SendFails, Fits, TaskRow
  <2>2. nudges' = nudges \/ (t.parts = 0 /\ nudges' = [nudges EXCEPT ![t.silence] = @ + 1])
    BY <1>2, <2>1 DEF SendFails
  <2>3. /\ inbound' = inbound /\ old' = old /\ now <= now' /\ slot' = slot
        /\ thread' = thread
    BY <1>0, <1>2 DEF SendFails
  <2>4. Unheard' /\ Counted'
    BY <1>2, <1>b, <2>1, <2>2, <2>3, OneMore DEF SendFails
  <2>5. task'["nudge"].pc = "idle"
    BY <1>2, <1>a DEF SendFails, Idle
  <2> QED
    BY <2>4, <2>5, NotPassed
<1>3. CASE Persist("nudge")
  <2>1. Kept /\ slot' = slot
    BY <1>0, <1>3, StoreKeeps DEF Kept, Persist, history
  <2>2. task'["nudge"] = [t EXCEPT !.pc = "settle"]
    BY <1>3, <1>a DEF Persist
  <2>3. /\ task'["nudge"].pc \in Written /\ task'["nudge"].silence = t.silence
        /\ task'["nudge"].parts = t.parts
    BY <1>0, <2>2 DEF Written, TaskRow
  <2>4. t.pc \in Passed /\ t.pc # "claim"
    BY <1>3, <1>c DEF Persist
  <2> QED
    BY <2>1, <2>3, <2>4, HistoryKept, NudgeGoesOn
<1>4. CASE PersistFails("nudge")
  <2>1. Kept /\ slot' = slot
    BY <1>0, <1>4, <1>b DEF Kept, PersistFails, clock
  <2>2. task'["nudge"].pc = "idle"
    BY <1>4, <1>a DEF PersistFails, Idle
  <2> QED
    BY <2>1, <2>2, HistoryKept, NotPassed
<1> QED
  BY <1>1, <1>2, <1>3, <1>4

\* The gate of a nudge: the client's bubbles are older than the delay, so none of them is
\* still to free the slot, and the slot is free, so nothing was sent in this silence.
LEMMA GateOpens ==
  ASSUME IInv, TypeInv', NudgeGate, task'["nudge"].pc = "claim"
  PROVE  inbound = "idle" /\ nudges[Silence] = 0
<1>0. old \in Nat /\ thread \in SUBSET Row /\ inbound \in {"idle", "clear"}
  BY DEF IInv, TypeInv, TypeOK
<1>1. LastBy("bot") /\ ~(\E r \in Newest(thread) : r.at > old)
  <2>1. task["nudge"] \in TaskRow /\ "nudge" \in Tasks /\ task \in [Tasks -> TaskRow]
    BY DEF IInv, TypeInv, TypeOK, Tasks
  <2>2. ASSUME NEW row, SetTask("nudge", row)
        PROVE  task'["nudge"] = row
    BY <2>1, <2>2 DEF SetTask
  <2>3. ~SetTask("nudge", Idle)
    BY <2>2 DEF Idle
  <2>4. ~SetTask("nudge", [task["nudge"] EXCEPT !.pc = "consume", !.silence = Silence])
    BY <2>1, <2>2 DEF TaskRow
  <2> QED
    BY <2>3, <2>4 DEF NudgeGate, GiveUp
<1>2. PICK r \in Newest(thread) : r.at <= old
  BY <1>0, <1>1 DEF LastBy, Newest, Row
<1>3. \A q \in thread : q.at <= old
  BY <1>0, <1>2 DEF Newest, Row
<1>4. inbound = "idle"
  BY <1>0, <1>3 DEF IInv, Unheard, Row
<1>5. task["nudge"].pc = "gate"
  BY DEF NudgeGate
<1>6. nudges[Silence] = 0
  BY <1>5 DEF IInv, Nudging, Counted
<1> QED
  BY <1>4, <1>6

LEMMA NudgeKeeps ==
  ASSUME IInv, NudgeStep
  PROVE  Kept /\ (slot' = slot \/ TakeSlot \/ Reopen)
<1>0. now \in Nat
  BY DEF IInv, TypeInv, TypeOK
<1>1. CASE NudgeStart
  BY <1>0, <1>1 DEF NudgeStart, Kept, clock, db, history
<1>2. CASE NudgeLoad
  BY <1>0, <1>2 DEF NudgeLoad, Kept, clock, history
<1>3. CASE NudgeGate
  <2>1. UNCHANGED <<clock, slot, thread, inbound, history, left>>
    BY <1>3 DEF NudgeGate
  <2> QED
    BY <1>0, <2>1 DEF Kept, clock, history
<1>4. CASE Consume \/ Settle
  BY <1>0, <1>4 DEF Consume, Settle, Kept, clock
<1>5. CASE NudgeClaim
  <2>1. UNCHANGED <<clock, thread, inbound, nudges, left>> /\ (slot' = slot \/ TakeSlot)
    BY <1>5 DEF NudgeClaim
  <2> QED
    BY <1>0, <2>1 DEF Kept, clock
<1>6. CASE NudgeClaude \/ NudgeCheck \/ NudgeRecheck
  <2>1. UNCHANGED <<clock, slot, thread, inbound, history, left>>
    BY <1>6 DEF NudgeClaude, NudgeCheck, NudgeRecheck
  <2> QED
    BY <1>0, <2>1 DEF Kept, clock, history
<1>7. CASE Reopen
  BY <1>0, <1>7 DEF Reopen, Kept, clock
<1> QED
  BY <1>1, <1>2, <1>3, <1>4, <1>5, <1>6, <1>7 DEF NudgeStep

LEMMA NudgeStepInv ==
  ASSUME IInv, TypeInv', NudgeStep
  PROVE  Unheard' /\ Counted' /\ Nudging'
<1> DEFINE t == task["nudge"]
<1>0. /\ TypeInv /\ "nudge" \in Tasks /\ t \in TaskRow /\ Fits(t) /\ Kept
      /\ task \in [Tasks -> TaskRow] /\ nudges \in [0..MaxBubbles -> Nat]
      /\ Silence \in Nat /\ Silence <= MaxBubbles /\ MaxBubbles \in Nat
      /\ t.silence \in Nat
  BY NudgeKeeps, SilenceType, Constants DEF IInv, TypeInv, TypeOK, Locals, Tasks, TaskRow
<1>a. ASSUME NEW row, SetTask("nudge", row)
      PROVE  task'["nudge"] = row
  BY <1>0, <1>a DEF SetTask
<1>b. ASSUME NEW pc, NudgeTo(pc)
      PROVE  task'["nudge"] = [t EXCEPT !.pc = pc]
  BY <1>a, <1>b DEF NudgeTo
<1>c. ASSUME NEW pc
      PROVE  LET row == [t EXCEPT !.pc = pc]
             IN  row.pc = pc /\ row.silence = t.silence /\ row.parts = t.parts
  BY <1>0 DEF TaskRow
<1>d. SetTask("nudge", Idle) => task'["nudge"].pc = "idle"
  BY <1>a DEF Idle
<1>e. ASSUME slot => slot'
      PROVE  Unheard' /\ Counted'
  BY <1>0, <1>e, HistoryKept
<1>f. TakeSlot => slot'
  BY DEF TakeSlot
\* A step from the claim on that goes on.
<1>g. ASSUME NEW pc \in Written, NudgeTo(pc), t.pc \in Passed, slot => slot',
             t.pc = "claim" => slot'
      PROVE  Nudging'
  <2>1. /\ task'["nudge"].pc = pc /\ task'["nudge"].silence = t.silence
        /\ task'["nudge"].parts = t.parts
    <3> DEFINE row == [t EXCEPT !.pc = pc]
    <3>1. row.pc = pc /\ row.silence = t.silence /\ row.parts = t.parts
      BY <1>c
    <3>2. task'["nudge"] = row
      BY <1>b, <1>g
    <3> HIDE DEF row
    <3> QED
      BY <3>1, <3>2
  <2> QED
    BY <1>0, <1>g, <2>1, NudgeGoesOn
<1>1. CASE NudgeStart
  <2>1. PICK j \in Jobs :
          SetTask("nudge", [Idle EXCEPT !.pc = "load", !.started = now + 1, !.job = j])
    BY <1>1 DEF NudgeStart
  <2>2. task'["nudge"].pc = "load"
    BY <2>1, <1>a DEF Idle
  <2>3. slot' = slot
    BY <1>1 DEF NudgeStart, db
  <2> QED
    BY <1>e, <2>2, <2>3, NotPassed
<1>2. CASE NudgeLoad
  <2>1. slot' = slot
    BY <1>2 DEF NudgeLoad
  <2>2. CASE SetTask("nudge", Idle)
    BY <1>d, <1>e, <2>1, <2>2, NotPassed
  <2>3. CASE SlotFree /\ NudgeTo("gate")
    <3>1. task'["nudge"].pc = "gate" /\ ~slot'
      BY <1>b, <1>c, <2>1, <2>3 DEF SlotFree
    <3>2. Nudging'
      BY <3>1 DEF Nudging, Passed, Written
    <3> QED
      BY <1>e, <2>1, <3>2
  <2>4. CASE SetTask("nudge", [t EXCEPT !.pc = "consume", !.silence = Silence])
    <3>1. task'["nudge"].pc = "consume"
      BY <1>0, <1>a, <2>4 DEF TaskRow
    <3> QED
      BY <1>e, <2>1, <3>1, NotPassed
  <2> QED
    BY <1>2, <2>2, <2>3, <2>4 DEF NudgeLoad, GiveUp
<1>3. CASE NudgeGate
  <2>1. slot' = slot /\ t.pc = "gate"
    BY <1>3 DEF NudgeGate
  <2>2. CASE SetTask("nudge", Idle)
    BY <1>d, <1>e, <2>1, <2>2, NotPassed
  <2>3. CASE SetTask("nudge", [t EXCEPT !.pc = "consume", !.silence = Silence])
    <3>1. task'["nudge"].pc = "consume"
      BY <1>0, <1>a, <2>3 DEF TaskRow
    <3> QED
      BY <1>e, <2>1, <3>1, NotPassed
  <2>4. CASE SetTask("nudge", [t EXCEPT !.pc = "claim", !.silence = Silence])
    <3>1. task'["nudge"].pc = "claim" /\ task'["nudge"].silence = Silence
      BY <1>0, <1>a, <2>4 DEF TaskRow
    <3>2. inbound = "idle" /\ nudges[Silence] = 0
      BY <1>3, <3>1, GateOpens
    <3>3. \A k \in DOMAIN nudges : k > Silence => nudges[k] = 0
      BY DEF IInv, Counted
    <3>4. inbound' = inbound /\ nudges' = nudges /\ Silence' = Silence
      BY <1>0, KeptSilence DEF Kept
    <3>5. Nudging'
      BY <1>0, <3>1, <3>2, <3>3, <3>4 DEF Nudging, Written
    <3> QED
      BY <1>e, <2>1, <3>5
  <2> QED
    BY <1>3, <2>2, <2>3, <2>4 DEF NudgeGate, GiveUp
<1>4. CASE Consume
  BY <1>d, <1>e, <1>f, <1>4, NotPassed DEF Consume
<1>5. CASE NudgeClaim
  <2>1. CASE TakeSlot /\ NudgeTo("claude")
    <3>1. "claude" \in Written /\ t.pc \in Passed
      BY <1>5 DEF NudgeClaim, Written, Passed
    <3> QED
      BY <1>e, <1>f, <1>g, <2>1, <3>1
  <2>2. CASE SetTask("nudge", Idle) /\ UNCHANGED slot
    BY <1>d, <1>e, <2>2, NotPassed
  <2> QED
    BY <1>5, <2>1, <2>2 DEF NudgeClaim, GiveUp
<1>6. CASE NudgeClaude
  <2>1. slot' = slot /\ t.pc \in Passed /\ t.pc # "claim" /\ "check" \in Written
    BY <1>6 DEF NudgeClaude, Passed, Written
  <2> QED
    BY <1>d, <1>e, <1>g, <1>6, <2>1, NotPassed DEF NudgeClaude, GiveUp
<1>7. CASE NudgeCheck
  <2>1. /\ slot' = slot /\ t.pc \in Passed /\ t.pc # "claim"
        /\ "recheck" \in Written /\ "reopen" \in Written
    BY <1>7 DEF NudgeCheck, Passed, Written
  <2> QED
    BY <1>e, <1>g, <1>7, <2>1 DEF NudgeCheck
<1>8. CASE NudgeRecheck
  <2>1. slot' = slot /\ t.pc \in Passed /\ t.pc # "claim" /\ "reopen" \in Written
    BY <1>8 DEF NudgeRecheck, Passed, Written
  <2>2. CASE NudgeTo("reopen")
    BY <1>e, <1>g, <2>1, <2>2
  <2>3. CASE SetTask("nudge", Idle)
    BY <1>d, <1>e, <2>1, <2>3, NotPassed
  <2>4. ASSUME NEW n \in Sends, SetTask("nudge", [t EXCEPT !.pc = "send", !.send = n])
        PROVE  Nudging'
    <3> DEFINE row == [t EXCEPT !.pc = "send", !.send = n]
    <3>1. row.pc = "send" /\ row.silence = t.silence /\ row.parts = t.parts
      BY <1>0 DEF TaskRow
    <3>2. task'["nudge"] = row
      BY <2>4, <1>a
    <3>3. "send" \in Written
      BY DEF Written
    <3> HIDE DEF row
    <3> QED
      BY <1>0, <2>1, <3>1, <3>2, <3>3, NudgeGoesOn
  <2> QED
    <3>1. \/ NudgeTo("reopen")
          \/ SetTask("nudge", Idle)
          \/ \E n \in Sends : SetTask("nudge", [t EXCEPT !.pc = "send", !.send = n])
      BY <1>8 DEF NudgeRecheck, GiveUp
    <3>2. Unheard' /\ Counted'
      BY <1>e, <2>1
    <3> QED
      BY <2>2, <2>3, <2>4, <3>1, <3>2
<1>9. CASE Reopen
  <2>1. t.pc = "reopen" /\ t.pc \in Passed /\ SetTask("nudge", Idle) /\ t.parts = 0
    BY <1>0, <1>9 DEF Reopen, Passed, Written, Fits
  <2>2. nudges[Silence] = 0
    BY <1>0, <2>1 DEF IInv, Nudging
  <2>3. Silence' = Silence
    BY <1>0, KeptSilence
  <2>4. Unheard'
    <3>1. now \in Nat /\ now' \in Nat /\ old \in Nat
      BY DEF IInv, TypeInv, TypeOK
    <3> QED
      BY <1>0, <2>3, <3>1 DEF IInv, Unheard, Kept
  <2>5. Counted'
    BY <1>0, <2>2, <2>3 DEF IInv, Counted, OneNudgePerSilence, Kept
  <2> QED
    BY <1>d, <2>1, <2>4, <2>5, NotPassed
<1>10. CASE Settle
  BY <1>d, <1>e, <1>f, <1>10, NotPassed DEF Settle, GiveUp
<1> QED
  BY <1>1, <1>2, <1>3, <1>4, <1>5, <1>6, <1>7, <1>8, <1>9, <1>10 DEF NudgeStep

LEMMA InvStep == IInv /\ [Next]_vars => IInv'
<1> SUFFICES ASSUME IInv, [Next]_vars PROVE IInv'
  OBVIOUS
<1>1. TypeInv'
  BY TypeStep DEF IInv
<1>2. Unheard' /\ Counted' /\ Nudging'
  <2>1. CASE UNCHANGED vars
    BY <2>1 DEF vars, IInv, Unheard, Counted, OneNudgePerSilence, Nudging, Silence
  <2>2. CASE Next
    <3>1. ASSUME NEW p \in Tasks, Sending(p)
          PROVE  Unheard' /\ Counted' /\ Nudging'
      <4>1. CASE p = "nudge"
        BY <1>1, <3>1, <4>1, OtherSteps, NudgeSends DEF Sending
      <4>2. CASE p # "nudge"
        BY <1>1, <3>1, <4>2, OtherSteps
      <4> QED
        BY <4>1, <4>2
    <3> QED
      BY <1>1, <2>2, <3>1, OtherSteps, BubbleStep, ClearStep, TimeStep, NudgeStepInv DEF Next
  <2> QED
    BY <2>1, <2>2
<1> QED
  BY <1>1, <1>2 DEF IInv

\* "one nudge per silence cycle": between two bubbles at most one nudge goes out, however the
\* due passes, the bubble's update of the conversation, failed sends and restarts interleave
\* with the task of follow-up.ts.
THEOREM OneNudgeTheorem == Spec => []OneNudgePerSilence
<1>1. Spec => []IInv
  BY InitInv, InvStep, PTL DEF Spec
<1>2. IInv => OneNudgePerSilence
  BY DEF IInv, Counted
<1> QED
  BY <1>1, <1>2, PTL

-----------------------------------------------------------------------------
(* The slot belongs to the silence the client is in.                       *)

\* A step that is not about the slot.
Apart ==
  /\ UNCHANGED <<slot, slotFor, excuse, inbound>>
  /\ left'["bubbles"] = left["bubbles"]

LEMMA ApartKeeps ==
  ASSUME SlotIsCurrent, Apart
  PROVE  SlotIsCurrent'
  BY DEF SlotIsCurrent, Apart, Silence

\* Whoever takes the slot says for which silence, and whether that one is over.
LEMMA TakenIsCurrent ==
  ASSUME TakeSlot, left' = left
  PROVE  SlotIsCurrent'
  BY DEF TakeSlot, SlotIsCurrent, Silence

LEMMA ApartSteps ==
  ASSUME TypeInv,
         \/ RunCancel \/ PlanLoad \/ PlanWrite \/ SetEnabled \/ MonitorClaim
         \/ TurnStart \/ TurnQuiet \/ TurnDecide \/ TurnHandoff
         \/ \E p \in Tasks : Sending(p)
         \/ NudgeStart \/ NudgeLoad \/ NudgeGate \/ NudgeClaude \/ NudgeCheck \/ NudgeRecheck
         \/ EchoLookup \/ EchoCreate \/ EchoState \/ HoursPass
         \/ ManagerTypes \/ ReplySend \/ ReplyState \/ ResponsesNote
         \/ \E on \in BOOLEAN : SetResponses(on)
  PROVE  Apart
<1>a. Spend("others") \/ Spend("replies") => left'["bubbles"] = left["bubbles"]
  BY SpendType, Constants
<1>1. CASE RunCancel \/ PlanLoad \/ PlanWrite \/ MonitorClaim
  BY <1>1 DEF RunCancel, PlanLoad, PlanWrite, MonitorClaim, Apart, db, history
<1>2. CASE SetEnabled \/ ManagerTypes \/ ReplySend \/ \E on \in BOOLEAN : SetResponses(on)
  BY <1>2, <1>a DEF SetEnabled, ManagerTypes, ReplySend, SetResponses, Apart, db, history
<1>3. CASE TurnStart \/ TurnHandoff
  BY <1>3 DEF TurnStart, TurnHandoff, Apart, history
<1>4. CASE TurnQuiet
  <2>1. UNCHANGED <<slot, inbound, history, left>>
    BY <1>4 DEF TurnQuiet
  <2> QED
    BY <2>1 DEF Apart, history
<1>5. CASE TurnDecide
  <2>1. UNCHANGED <<db, inbound, history, left>>
    BY <1>5, Zenon DEF TurnDecide
  <2> QED
    BY <2>1 DEF Apart, db, history
<1>6. ASSUME NEW p \in Tasks, Sending(p)
      PROVE  Apart
  <2>1. CASE SendPart(p)
    BY <2>1 DEF SendPart, Apart, db
  <2>2. CASE SendAgain(p)
    BY <2>2, <1>a DEF SendAgain, Apart, db, history
  <2>3. CASE SendFails(p)
    BY <2>3, <1>a DEF SendFails, Apart
  <2>4. CASE Persist(p)
    BY <2>4 DEF Persist, Apart, history
  <2>5. CASE PersistFails(p)
    BY <2>5, <1>a DEF PersistFails, Apart
  <2> QED
    BY <1>6, <2>1, <2>2, <2>3, <2>4, <2>5 DEF Sending
<1>7. CASE \/ NudgeStart \/ NudgeLoad \/ NudgeGate \/ NudgeClaude \/ NudgeCheck \/ NudgeRecheck
  <2>1. CASE NudgeStart
    <3>1. UNCHANGED <<db, inbound, history, left>>
      BY <2>1, Zenon DEF NudgeStart
    <3> QED
      BY <3>1 DEF Apart, db, history
  <2>2. CASE NudgeLoad
    BY <2>2 DEF NudgeLoad, Apart, history
  <2>3. CASE NudgeGate
    <3>1. UNCHANGED <<slot, inbound, history, left>>
      BY <2>3, Zenon DEF NudgeGate
    <3> QED
      BY <3>1 DEF Apart, history
  <2>4. CASE NudgeClaude \/ NudgeCheck \/ NudgeRecheck
    <3>1. UNCHANGED <<slot, inbound, history, left>>
      BY <2>4, Zenon DEF NudgeClaude, NudgeCheck, NudgeRecheck
    <3> QED
      BY <3>1 DEF Apart, history
  <2> QED
    BY <1>7, <2>1, <2>2, <2>3, <2>4
<1>8. CASE EchoLookup \/ EchoCreate \/ EchoState
  BY <1>8 DEF EchoLookup, EchoCreate, EchoState, Apart, history
<1>9. CASE HoursPass \/ ReplyState \/ ResponsesNote
  BY <1>9 DEF HoursPass, ReplyState, ResponsesNote, Apart, db, history
<1> QED
  BY <1>1, <1>2, <1>3, <1>4, <1>5, <1>6, <1>7, <1>8, <1>9

LEMMA SlotStep ==
  ASSUME TypeInv, SlotIsCurrent, [Next]_vars
  PROVE  SlotIsCurrent'
<1>1. CASE UNCHANGED vars
  BY <1>1, ApartKeeps DEF vars, Apart
<1>2. CASE ClientWrites
  BY <1>2 DEF ClientWrites, SlotIsCurrent
<1>3. CASE ClearSlot \/ Reopen
  BY <1>3 DEF ClearSlot, Reopen, SlotIsCurrent
<1>4. CASE Consume \/ Settle
  BY <1>4, TakenIsCurrent DEF Consume, Settle
<1>5. CASE NudgeClaim
  <2>1. UNCHANGED <<inbound, left>> /\ (TakeSlot \/ UNCHANGED <<slot, slotFor, excuse>>)
    BY <1>5 DEF NudgeClaim
  <2> QED
    BY <2>1, TakenIsCurrent, ApartKeeps DEF Apart
<1>6. CASE Crash
  <2>1. /\ slot' = slot /\ slotFor' = slotFor /\ inbound' = "idle"
        /\ excuse' = (excuse \/ inbound = "clear")
    BY <1>6 DEF Crash, db
  <2>2. Silence' = Silence
    BY <1>6, SpendType, Constants DEF Crash, Silence
  <2>3. inbound \in {"idle", "clear"} /\ excuse \in BOOLEAN
    BY DEF TypeInv, TypeOK
  <2>4. ~excuse' => ~excuse /\ inbound # "clear"
    BY <2>1, Zenon
  <2> QED
    BY <2>1, <2>2, <2>3, <2>4 DEF SlotIsCurrent
<1> QED
  BY <1>1, <1>2, <1>3, <1>4, <1>5, <1>6, ApartSteps, ApartKeeps DEF Next, NudgeStep

\* A slot that is taken was taken for the silence the client is in: no bubble finds it taken
\* by an earlier one, unless the task of follow-up.ts wrote it after the bubble did, or the
\* process died between the bubble's row and its update of the conversation.
THEOREM SlotTheorem == Spec => []SlotIsCurrent
<1>1. Init => TypeInv /\ SlotIsCurrent
  BY InitType DEF Init, SlotIsCurrent
<1>2. TypeInv /\ SlotIsCurrent /\ [Next]_vars => (TypeInv /\ SlotIsCurrent)'
  BY TypeStep, SlotStep
<1> QED
  BY <1>1, <1>2, PTL DEF Spec
=============================================================================
