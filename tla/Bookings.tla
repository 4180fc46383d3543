------------------------------ MODULE Bookings ------------------------------
(***************************************************************************)
(* The visits a client books through the bot: the rows of appointments,    *)
(* the booking orders that mirror them for the managers, and the CRM's     *)
(* calendar.  The bot runs one tool at a time, because the turns of a      *)
(* conversation are serialised; managers cancel, retry and reassign        *)
(* through the admin API whenever they like; the salon changes its         *)
(* calendar itself.  Every await of a handler that reads or writes one of  *)
(* the three is a step of its own.                                         *)
(***************************************************************************)
EXTENDS Naturals, FiniteSets

CONSTANTS
  Services,    \* catalogue lines (a service with its master)
  Slots,       \* a date and a clock time
  NoSlot,
  Bot,         \* the turn of the conversation
  Managers,    \* requests of the admin API that may be under way at once
  MaxVisits,   \* rows of appointments
  MaxRecords,  \* visits created in the CRM
  Budgets      \* how many tools, requests and faults there may be: the alternatives

ASSUME BotAssumption    == Bot \notin Managers
ASSUME SlotAssumption   == NoSlot \notin Slots
ASSUME BoundsAssumption == MaxVisits \in Nat /\ MaxRecords \in Nat
ASSUME BudgetAssumption == Budgets \subseteq [{"tools", "requests", "faults"} -> Nat]

Actors  == {Bot} \cup Managers
Visits  == 1..MaxVisits
Orders  == 1..(MaxVisits + 1)
Records == 1..MaxRecords

VARIABLES
  altegio,  \* the booking CRM is Altegio, not BeautyPro
  writes,   \* isCrmWriteEnabled
  visit,    \* the rows of appointments
  order,    \* the orders of kind booking
  crm,      \* the visits of the CRM's calendar
  hooks,    \* callbacks of the CRM not yet delivered
  task,     \* what each actor is doing
  told,     \* confirmations sent to the client
  mishap,   \* history: what made an anomaly of a visit possible
  left      \* what remains of the budget

vars == <<altegio, writes, visit, order, crm, hooks, task, told, mishap, left>>

Ops == {"none", "book", "move", "cancel", "remove", "retry", "adminCancel", "assign"}

\* From the read of the row to the last write of its status.
Writing == {"store", "order", "writeOrder", "gate", "load", "create", "record",
            "appendLoad", "append", "recordAppend"}

Phases == Writing \cup {"idle", "find", "reflect", "reread", "crmCancel", "markVisit",
                        "markOrders", "crmRemove", "storeServices", "assign"}

VisitRow == [slot: Slots \cup {NoSlot}, services: SUBSET Services,
             status: {"none", "confirmed", "synced", "failed", "cancelled"},
             rec: Records \cup {0}, sync: {"pending", "synced", "failed", "skipped"}]

OrderRow == [visit: Visits \cup {0}, slot: Slots \cup {NoSlot},
             status: {"none", "confirmed", "cancelled"},
             sync: {"pending", "synced", "failed", "skipped"}]

\* visit: the row it was created for; heard: its id reached, or may still reach, that row.
RecordRow == [visit: Visits \cup {0}, slot: Slots \cup {NoSlot}, services: SUBSET Services,
              live: BOOLEAN, heard: BOOLEAN]

Hook == [kind: {"cancel_record", "update_record"}, rec: Records, slot: Slots \cup {NoSlot}]

TaskRow == [pc: Phases, op: Ops, v: Visits \cup {0}, slot: Slots \cup {NoSlot},
            want: SUBSET Services, seen: VisitRow, adds: BOOLEAN, sent: SUBSET Services,
            rec: Records \cup {0}, old: Records \cup {0}, ord: Orders \cup {0}]

\* doubled: two creations in the CRM at once; crossed: cancelled between another actor's
\* read and write; torn: the orders did not follow, or one was cancelled as it was linked;
\* short: lines were kept that the CRM did not get, or no longer has, or a record without
\* them was taken for the row's; shared: a record of the CRM was entered in two rows.
Mishaps == {"doubled", "crossed", "torn", "short", "shared"}

NoVisit  == [slot |-> NoSlot, services |-> {}, status |-> "none", rec |-> 0,
             sync |-> "pending"]
NoOrder  == [visit |-> 0, slot |-> NoSlot, status |-> "none", sync |-> "skipped"]
NoRecord == [visit |-> 0, slot |-> NoSlot, services |-> {}, live |-> FALSE, heard |-> FALSE]
Idle     == [pc |-> "idle", op |-> "none", v |-> 0, slot |-> NoSlot, want |-> {},
             seen |-> NoVisit, adds |-> FALSE, sent |-> {}, rec |-> 0, old |-> 0, ord |-> 0]

TypeOK ==
  /\ altegio \in BOOLEAN
  /\ writes \in BOOLEAN
  /\ visit \in [Visits -> VisitRow]
  /\ order \in [Orders -> OrderRow]
  /\ crm \in [Records -> RecordRow]
  /\ hooks \in SUBSET Hook
  /\ task \in [Actors -> TaskRow]
  /\ told \in SUBSET [visit: Visits, services: SUBSET Services, how: {"crm", "local"},
                       booked: SUBSET Services]
  /\ mishap \in [Visits -> SUBSET Mishaps]
  /\ left \in [{"tools", "requests", "faults"} -> Nat]

Init ==
  /\ altegio \in BOOLEAN
  /\ writes = TRUE
  /\ visit = [v \in Visits |-> NoVisit]
  /\ order = [o \in Orders |-> NoOrder]
  /\ crm = [k \in Records |-> NoRecord]
  /\ hooks = {}
  /\ task = [p \in Actors |-> Idle]
  /\ told = {}
  /\ mishap = [v \in Visits |-> {}]
  /\ left \in Budgets

-----------------------------------------------------------------------------
(* Rows                                                                    *)

\* Rows are numbered in the order of createdAt.
IsLast(i, S)  == i \in S /\ \A j \in S : j <= i
IsFirst(i, S) == i \in S /\ \A j \in S : i <= j

FreshVisits  == {v \in Visits : visit[v].status = "none"}
FreshOrders  == {o \in Orders : order[o].status = "none"}
FreshRecords == {k \in Records : crm[k].visit = 0}

Live(o) == order[o].status = "confirmed"

Spend(what) == left[what] > 0 /\ left' = [left EXCEPT ![what] = @ - 1]

Blame(v, what) == mishap' = [mishap EXCEPT ![v] = @ \cup what]

\* Another actor is between its read of visit v and the write that follows.
Contended(p, v) == \E q \in Actors \ {p} : task[q].v = v /\ task[q].pc \in Writing

-----------------------------------------------------------------------------
(* handleBookAppointment.  Its checks of names, branches, CRM ids, masters *)
(* and free hours change nothing; they may refuse.  task.seen is the row   *)
(* it read (NoVisit if none), task.adds whether lines are new on it.       *)

Book(slot, s) ==
  /\ task[Bot].pc = "idle"
  /\ Spend("tools")
  /\ task' = [task EXCEPT ![Bot] = [Idle EXCEPT !.pc = "find", !.op = "book",
                                                !.slot = slot, !.want = {s}]]
  /\ UNCHANGED <<altegio, writes, visit, order, crm, hooks, told, mishap>>

RefuseBook ==
  /\ task[Bot].pc = "find"
  /\ task' = [task EXCEPT ![Bot] = Idle]
  /\ UNCHANGED <<altegio, writes, visit, order, crm, hooks, told, mishap, left>>

\* Defective: a cancelled row of the slot is merged into.
MergeTargetsAny(slot) == {v \in Visits : visit[v].status # "none" /\ visit[v].slot = slot}

\* The last row of the slot that is not cancelled.
MergeTargets(slot) ==
  {v \in Visits : visit[v].status \notin {"none", "cancelled"} /\ visit[v].slot = slot}

\* A visit of another master is no merge target in Altegio (bookingVisitsCanMerge).
FindVisit ==
  LET t == task[Bot]
      hits == MergeTargets(t.slot)
  IN /\ t.pc = "find"
     /\ \/ \E v \in Visits :
             /\ IsLast(v, hits)
             /\ task' = [task EXCEPT ![Bot] = [t EXCEPT !.pc = "store", !.v = v,
                                                        !.seen = visit[v]]]
        \/ /\ hits = {} \/ altegio
           /\ task' = [task EXCEPT ![Bot] = [t EXCEPT !.pc = "store", !.v = 0,
                                                      !.seen = NoVisit]]
     /\ UNCHANGED <<altegio, writes, visit, order, crm, hooks, told, mishap, left>>

MergeVisit ==
  LET t == task[Bot]
      new == t.want \ t.seen.services
  IN /\ t.pc = "store"
     /\ t.v # 0
     /\ visit' = [visit EXCEPT
                    ![t.v].services = t.seen.services \cup t.want,
                    ![t.v].sync = IF new # {} /\ t.seen.rec # 0 THEN "pending" ELSE @]
     /\ task' = [task EXCEPT ![Bot] = [t EXCEPT !.pc = "order", !.adds = (new # {}),
                                                !.want = t.seen.services \cup t.want]]
     /\ Blame(t.v, IF t.seen.rec # visit[t.v].rec THEN {"short"} ELSE {})
     /\ UNCHANGED <<altegio, writes, order, crm, hooks, told, left>>

CreateVisit ==
  LET t == task[Bot]
  IN /\ t.pc = "store"
     /\ t.v = 0
     /\ \E v \in Visits :
          /\ IsFirst(v, FreshVisits)
          /\ visit' = [visit EXCEPT ![v] = [slot |-> t.slot, services |-> t.want,
                                            status |-> "confirmed", rec |-> 0,
                                            sync |-> "pending"]]
          /\ task' = [task EXCEPT ![Bot] = [t EXCEPT !.pc = "order", !.v = v, !.adds = TRUE]]
     /\ UNCHANGED <<altegio, writes, order, crm, hooks, told, mishap, left>>

\* upsertBookingOrderMirror reads the order of this visit, else (a merge) of the slot, else
\* a recent one of the slot to leave as it is.  No other actor opens an order, so its reads
\* are one step.
OrdersOf(v)    == {o \in Orders : Live(o) /\ order[o].visit = v}
OrdersIn(slot) == {o \in Orders : Live(o) /\ order[o].slot = slot}

\* The mirror is not fatal when it fails.
FindOrder ==
  LET t == task[Bot]
      merged == t.seen.status # "none"
      write(o) == task' = [task EXCEPT ![Bot] = [t EXCEPT !.pc = "writeOrder", !.ord = o]]
      leave == task' = [task EXCEPT ![Bot].pc = "gate"]
  IN /\ t.pc = "order"
     /\ \/ /\ \E o \in Orders : IsLast(o, OrdersOf(t.v)) /\ write(o)
           /\ UNCHANGED left
        \/ /\ OrdersOf(t.v) = {} /\ merged
           /\ \E o \in Orders : IsLast(o, OrdersIn(t.slot)) /\ write(o)
           /\ UNCHANGED left
        \/ /\ OrdersOf(t.v) = {} /\ ~merged /\ OrdersIn(t.slot) # {} /\ leave
           /\ UNCHANGED left
        \/ /\ OrdersOf(t.v) = {} /\ ~(merged /\ OrdersIn(t.slot) # {}) /\ write(0)
           /\ UNCHANGED left
        \/ Spend("faults") /\ leave
     /\ UNCHANGED <<altegio, writes, visit, order, crm, hooks, told, mishap>>

NewOrder(v, slot) ==
  \E o \in Orders :
    /\ IsFirst(o, FreshOrders)
    /\ order' = [order EXCEPT ![o] = [visit |-> v, slot |-> slot, status |-> "confirmed",
                                     sync |-> "skipped"]]

\* The update names the visit and the slot and leaves the status, whatever it is by now.
MirrorOrder ==
  LET t == task[Bot]
      late == t.ord # 0 /\ ~Live(t.ord)
  IN /\ t.pc = "writeOrder"
     /\ task' = [task EXCEPT ![Bot].pc = "gate"]
     /\ \/ /\ t.ord # 0
           /\ order' = [order EXCEPT ![t.ord].visit = t.v, ![t.ord].slot = t.slot]
           /\ Blame(t.v, IF late THEN {"torn"} ELSE {})
           /\ UNCHANGED left
        \/ t.ord = 0 /\ NewOrder(t.v, t.slot) /\ UNCHANGED <<mishap, left>>
        \/ Spend("faults") /\ UNCHANGED <<order, mishap>>
     /\ UNCHANGED <<altegio, writes, visit, crm, hooks, told>>

\* The confirmation names every line of the visit; a repeated booking is not confirmed
\* twice.  booked: the lines the CRM has at that moment.
Confirmed(t, how) ==
  LET rec == visit[t.v].rec
  IN told \cup
     (IF t.adds
      THEN {[visit |-> t.v, services |-> t.want, how |-> how,
             booked |-> IF how = "crm" /\ rec # 0 THEN crm[rec].services ELSE {}]}
      ELSE {})

\* Defective: the wrong column is written.
GateClosedStatus ==
  LET t == task[Bot]
  IN /\ t.pc = "gate"
     /\ ~writes
     /\ visit' = [visit EXCEPT ![t.v].status = "skipped"]
     /\ told' = Confirmed(t, "local")
     /\ Blame(t.v, IF t.adds /\ t.seen.rec # 0 THEN {"short"} ELSE {})
     /\ task' = [task EXCEPT ![Bot] = Idle]
     /\ UNCHANGED <<altegio, writes, order, crm, hooks, left>>

GateClosed ==
  LET t == task[Bot]
  IN /\ t.pc = "gate"
     /\ ~writes
     /\ visit' = [visit EXCEPT ![t.v].sync = "skipped"]
     /\ told' = Confirmed(t, "local")
     /\ Blame(t.v, IF t.adds /\ t.seen.rec # 0 THEN {"short"} ELSE {})
     /\ task' = [task EXCEPT ![Bot] = Idle]
     /\ UNCHANGED <<altegio, writes, order, crm, hooks, left>>

\* A visit of the CRM is extended, a new one created; nothing new is not sent.
GateOpen ==
  LET t == task[Bot]
  IN /\ t.pc = "gate"
     /\ writes
     /\ task' = [task EXCEPT ![Bot] = IF t.seen.rec = 0 THEN [t EXCEPT !.pc = "load"]
                                      ELSE IF t.adds THEN [t EXCEPT !.pc = "appendLoad"]
                                      ELSE Idle]
     /\ UNCHANGED <<altegio, writes, visit, order, crm, hooks, told, mishap, left>>

-----------------------------------------------------------------------------
(* mirrorAppointmentToCrm, for the bot or for a manager's retry.           *)

Done(p) == [task EXCEPT ![p] = Idle]

Syncing(v) == {p \in Actors : task[p].v = v /\ task[p].pc \in {"create", "record"}}

\* isCrmWriteEnabled is asked again, unless a manager forces it; then the row is read.
MirrorOff ==
  /\ task[Bot].pc = "load"
  /\ ~writes
  /\ task' = [task EXCEPT ![Bot].pc = "reread"]
  /\ UNCHANGED <<altegio, writes, visit, order, crm, hooks, told, mishap, left>>

\* A row that got its record meanwhile counts as synced, whatever lines the record has.
MirrorKnown(p) ==
  LET t == task[p]
      row == visit[t.v]
  IN /\ t.pc = "load"
     /\ p = Bot => writes
     /\ row.rec # 0
     /\ visit' = [visit EXCEPT ![t.v].sync = "synced"]
     /\ task' = [task EXCEPT ![p] = [t EXCEPT !.pc = "reflect", !.rec = row.rec]]
     /\ UNCHANGED <<altegio, writes, order, crm, hooks, told, mishap, left>>

\* Defective: a row that has a record is sent again.
MirrorAgain(p) ==
  LET t == task[p]
  IN /\ t.pc = "load"
     /\ p = Bot => writes
     /\ task' = [task EXCEPT ![p] = [t EXCEPT !.pc = "create", !.sent = visit[t.v].services]]
     /\ Blame(t.v, IF Syncing(t.v) # {} THEN {"doubled"} ELSE {})
     /\ UNCHANGED <<altegio, writes, visit, order, crm, hooks, told, left>>

MirrorNew(p) ==
  LET t == task[p]
      row == visit[t.v]
  IN /\ t.pc = "load"
     /\ p = Bot => writes
     /\ row.rec = 0
     /\ task' = [task EXCEPT ![p] = [t EXCEPT !.pc = "create", !.sent = row.services]]
     /\ Blame(t.v, IF Syncing(t.v) # {} THEN {"doubled"} ELSE {})
     /\ UNCHANGED <<altegio, writes, visit, order, crm, hooks, told, left>>

\* createBooking.  The visit may exist although the answer is an error.
CreateBooking(p) ==
  LET t == task[p]
      made(k, heard) == [crm EXCEPT ![k] = [visit |-> t.v, slot |-> visit[t.v].slot,
                                            services |-> t.sent, live |-> TRUE,
                                            heard |-> heard]]
  IN /\ t.pc = "create"
     /\ \/ \E k \in Records :
             /\ IsFirst(k, FreshRecords)
             /\ crm' = made(k, TRUE)
             /\ task' = [task EXCEPT ![p] = [t EXCEPT !.pc = "record", !.rec = k]]
             /\ UNCHANGED left
        \/ /\ Spend("faults")
           /\ \/ \E k \in Records : IsFirst(k, FreshRecords) /\ crm' = made(k, FALSE)
              \/ UNCHANGED crm
           /\ task' = [task EXCEPT ![p] = [t EXCEPT !.pc = "record", !.rec = 0]]
     /\ UNCHANGED <<altegio, writes, visit, order, hooks, told, mishap>>

\* The rows that have record k, or whose actor has it in hand.
Holders(k) ==
  {v \in Visits : \/ visit[v].rec = k
                  \/ \E p \in Actors : task[p].v = v /\ k \in {task[p].rec, task[p].seen.rec}}

\* A retry that forbids overlaps meets one (TIME_CONFLICT) and takes the client's visit of
\* that day, which need not be of this row nor have its lines, for the one it asked for.
LinkSameDay(m) ==
  LET t == task[m]
      others(k) == Holders(k) \ {t.v}
      harm(v, k) == (IF others(k) # {} /\ v \in Holders(k) \cup {t.v} THEN {"shared"} ELSE {})
                    \cup (IF v = t.v /\ ~(t.sent \subseteq crm[k].services) THEN {"short"} ELSE {})
  IN /\ t.pc = "create"
     /\ ~altegio
     /\ Spend("faults")
     /\ \E k \in Records :
          /\ crm[k].live
          /\ crm' = [crm EXCEPT ![k].heard = @ \/ crm[k].visit = t.v]
          /\ task' = [task EXCEPT ![m] = [t EXCEPT !.pc = "record", !.rec = k]]
          /\ mishap' = [v \in Visits |-> mishap[v] \cup harm(v, k)]
     /\ UNCHANGED <<altegio, writes, visit, order, hooks, told>>

\* The status is written without looking at the row again.
RecordBooking(p) ==
  LET t == task[p]
      result == IF t.rec # 0 THEN "synced" ELSE "failed"
  IN /\ t.pc = "record"
     /\ visit' = [visit EXCEPT ![t.v].status = result, ![t.v].sync = result,
                               ![t.v].rec = IF t.rec # 0 THEN t.rec ELSE @]
     /\ task' = [task EXCEPT ![p] = [t EXCEPT !.pc = "reflect"]]
     /\ Blame(t.v, IF visit[t.v].services # t.sent THEN {"short"} ELSE {})
     /\ UNCHANGED <<altegio, writes, order, crm, hooks, told, left>>

\* reflectAppointmentCrmOnOrder, every order that names the visit; after an error it throws.
SyncOrders(v, status) ==
  [o \in Orders |-> IF order[o].visit = v THEN [order[o] EXCEPT !.sync = status]
                    ELSE order[o]]

Reflect(p) ==
  LET t == task[p]
  IN /\ t.pc = "reflect"
     /\ order' = SyncOrders(t.v, IF t.rec # 0 THEN "synced" ELSE "failed")
     /\ task' = IF t.rec # 0 THEN [task EXCEPT ![p].pc = "reread"] ELSE Done(p)
     /\ UNCHANGED <<altegio, writes, visit, crm, hooks, told, mishap, left>>

\* Defective: the booking is confirmed without a look at the row.
ConfirmAnyway ==
  LET t == task[Bot]
  IN /\ t.pc = "reread"
     /\ told' = Confirmed(t, "crm")
     /\ task' = Done(Bot)
     /\ UNCHANGED <<altegio, writes, visit, order, crm, hooks, mishap, left>>

\* The bot reads the row again before it confirms anything.
RereadAndConfirm ==
  LET t == task[Bot]
  IN /\ t.pc = "reread"
     /\ told' = IF visit[t.v].sync = "synced" /\ visit[t.v].rec # 0
                THEN Confirmed(t, "crm") ELSE told
     /\ task' = Done(Bot)
     /\ UNCHANGED <<altegio, writes, visit, order, crm, hooks, mishap, left>>

\* A manager's retry reflects the row it reads.
RereadAndReflect(m) ==
  LET t == task[m]
      row == visit[t.v]
  IN /\ t.pc = "reread"
     /\ order' = SyncOrders(t.v, IF row.rec # 0 THEN "synced" ELSE row.sync)
     /\ task' = Done(m)
     /\ UNCHANGED <<altegio, writes, visit, crm, hooks, told, mishap, left>>

Mirror(p) == MirrorKnown(p) \/ MirrorNew(p) \/ CreateBooking(p) \/ RecordBooking(p) \/ Reflect(p)

-----------------------------------------------------------------------------
(* appendAppointmentServicesToCrm.                                         *)

\* BeautyPro is sent the lines beyond those the bot found, Altegio all of them.
LoadForAppend ==
  LET t == task[Bot]
      row == visit[t.v]
  IN /\ t.pc = "appendLoad"
     /\ task' = [task EXCEPT ![Bot] =
                   [t EXCEPT !.pc = "append", !.rec = row.rec,
                             !.sent = IF altegio THEN row.services
                                      ELSE row.services \ t.seen.services]]
     /\ UNCHANGED <<altegio, writes, visit, order, crm, hooks, told, mishap, left>>

\* An error ends the tool; the row keeps its lines, and nothing will send them.
AppendServices ==
  LET t == task[Bot]
      grown == [crm EXCEPT ![t.rec].services = IF altegio THEN t.sent ELSE @ \cup t.sent]
  IN /\ t.pc = "append"
     /\ \/ /\ crm' = grown
           /\ task' = [task EXCEPT ![Bot].pc = "recordAppend"]
           /\ UNCHANGED <<mishap, left>>
        \/ /\ Spend("faults")
           /\ \/ crm' = grown /\ UNCHANGED mishap
              \/ UNCHANGED crm /\ Blame(t.v, {"short"})
           /\ task' = Done(Bot)
     /\ UNCHANGED <<altegio, writes, visit, order, hooks, told>>

RecordAppend ==
  LET t == task[Bot]
  IN /\ t.pc = "recordAppend"
     /\ visit' = [visit EXCEPT ![t.v].status = "synced", ![t.v].sync = "synced"]
     /\ task' = [task EXCEPT ![Bot].pc = "reflect"]
     /\ UNCHANGED <<altegio, writes, order, crm, hooks, told, mishap, left>>

-----------------------------------------------------------------------------
(* The other tools: resolveActiveBookingAppointment and what follows.      *)

Active == {v \in Visits : visit[v].status \in {"confirmed", "synced"}}

\* Altegio cannot list a client's visits.
Upcoming == IF altegio THEN {} ELSE {k \in Records : crm[k].live}

\* A date in the tool's arguments picks among several.
OnlyUpcoming(op, k) ==
  \/ Upcoming = {k}
  \/ op # "remove" /\ \A j \in Upcoming \ {k} : crm[j].slot # crm[k].slot

\* What a tool does with the row it resolved.
Begin(op, v, row, slot, lines) ==
  LET rest == row.services \ lines
      inCrm == row.rec # 0 /\ writes
      first == IF inCrm THEN IF op = "remove" THEN "crmRemove" ELSE "crmCancel"
               ELSE IF op # "remove" \/ rest = {} THEN "markVisit" ELSE "storeServices"
  IN task' = [task EXCEPT ![Bot] =
                [Idle EXCEPT !.pc = first, !.op = op, !.v = v, !.seen = row, !.slot = slot,
                             !.want = lines,
                             !.old = IF inCrm /\ op = "move" THEN row.rec ELSE 0]]

ResolveLocal(op, slot, lines) ==
  /\ \E v \in Visits : IsLast(v, Active) /\ Begin(op, v, visit[v], slot, lines)
  /\ UNCHANGED <<visit, mishap>>

\* A new row v takes record k, whose creators have yet to enter it in theirs.
Adopted(v, k) ==
  LET heirs == {w \in Visits : \E p \in Actors : /\ task[p].v = w /\ task[p].pc = "record"
                                                  /\ task[p].rec = k}
  IN mishap' = [w \in Visits |-> IF heirs # {} /\ w \in heirs \cup {v}
                                 THEN mishap[w] \cup {"shared"} ELSE mishap[w]]

\* mirrorCrmBookingToLocalAppointment: the row that has the record, else a new one.
ResolveInCrm(op, slot, lines) ==
  /\ Active = {}
  /\ \E k \in Upcoming :
       LET known == {v \in Visits : visit[v].rec = k}
           row == [slot |-> crm[k].slot, services |-> crm[k].services, status |-> "synced",
                   rec |-> k, sync |-> "synced"]
       IN /\ OnlyUpcoming(op, k)
          /\ \/ /\ \E v \in known : Begin(op, v, visit[v], slot, lines)
                /\ UNCHANGED <<visit, mishap>>
             \/ /\ known = {}
                /\ \E v \in Visits :
                     /\ IsFirst(v, FreshVisits)
                     /\ visit' = [visit EXCEPT ![v] = row]
                     /\ Adopted(v, k)
                     /\ Begin(op, v, row, slot, lines)

StartTool(op, slot, lines) ==
  /\ task[Bot].pc = "idle"
  /\ Spend("tools")
  /\ ResolveLocal(op, slot, lines) \/ ResolveInCrm(op, slot, lines)
  /\ UNCHANGED <<altegio, writes, order, crm, hooks, told>>

CancelTool == StartTool("cancel", NoSlot, {})
MoveTool(slot) == StartTool("move", slot, {})
RemoveTool(s) == StartTool("remove", NoSlot, {s})

\* Defective: the bot goes on after an error, as a manager's cancel does.
CancelGoesOn(p) ==
  LET t == task[p]
      gone == [crm EXCEPT ![t.seen.rec].live = FALSE]
  IN /\ t.pc = "crmCancel"
     /\ task' = [task EXCEPT ![p].pc = "markVisit"]
     /\ \/ crm' = gone /\ UNCHANGED left
        \/ Spend("faults") /\ UNCHANGED crm
     /\ UNCHANGED <<altegio, writes, visit, order, hooks, told, mishap>>

\* cancelBooking.  The bot stops at an error, a manager's cancel goes on.
CancelBooking(p) ==
  LET t == task[p]
      gone == [crm EXCEPT ![t.seen.rec].live = FALSE]
      failed == IF p = Bot THEN Done(p) ELSE [task EXCEPT ![p].pc = "markVisit"]
  IN /\ t.pc = "crmCancel"
     /\ \/ /\ crm' = gone
           /\ task' = [task EXCEPT ![p].pc = "markVisit"]
           /\ UNCHANGED left
        \/ /\ altegio /\ ~crm[t.seen.rec].live
           /\ task' = failed
           /\ UNCHANGED <<crm, left>>
        \/ /\ Spend("faults")
           /\ crm' \in {crm, gone}
           /\ task' = failed
     /\ UNCHANGED <<altegio, writes, visit, order, hooks, told, mishap>>

\* markLocalAppointmentCancelled, the row and then the orders that name it.
MarkVisit(p) ==
  LET t == task[p]
  IN /\ t.pc = "markVisit"
     /\ visit' = [visit EXCEPT ![t.v].status = "cancelled"]
     /\ Blame(t.v, IF Contended(p, t.v) THEN {"crossed"} ELSE {})
     /\ task' = [task EXCEPT ![p].pc = "markOrders"]
     /\ UNCHANGED <<altegio, writes, order, crm, hooks, told, left>>

\* Defective: a move leaves the orders of the old visit open.
MarkOrdersUnlessMoved(p) ==
  LET t == task[p]
  IN /\ t.pc = "markOrders"
     /\ order' = [o \in Orders |-> IF order[o].visit = t.v /\ t.op # "move"
                                   THEN [order[o] EXCEPT !.status = "cancelled"]
                                   ELSE order[o]]
     /\ task' = IF t.op = "move"
                THEN [task EXCEPT ![p] = [t EXCEPT !.pc = "find", !.v = 0,
                                                   !.want = t.seen.services,
                                                   !.seen = NoVisit]]
                ELSE Done(p)
     /\ UNCHANGED <<altegio, writes, visit, crm, hooks, told, mishap, left>>

\* A move then books the lines of the old visit at the new time.
MarkOrders(p) ==
  LET t == task[p]
  IN /\ t.pc = "markOrders"
     /\ order' = [o \in Orders |-> IF order[o].visit = t.v
                                   THEN [order[o] EXCEPT !.status = "cancelled"]
                                   ELSE order[o]]
     /\ task' = IF t.op = "move"
                THEN [task EXCEPT ![p] = [t EXCEPT !.pc = "find", !.v = 0,
                                                   !.want = t.seen.services,
                                                   !.seen = NoVisit]]
                ELSE Done(p)
     /\ UNCHANGED <<altegio, writes, visit, crm, hooks, told, mishap, left>>

\* removeBookingService.  The last line takes the visit with it; BeautyPro refuses a line
\* it does not have.
RemoveService ==
  LET t == task[Bot]
      k == t.seen.rec
      rest == crm[k].services \ t.want
      thinned == [crm EXCEPT ![k].services = IF rest = {} THEN @ ELSE rest,
                             ![k].live = IF rest = {} THEN FALSE ELSE @]
      last == rest = {} \/ t.seen.services \subseteq t.want
  IN /\ t.pc = "crmRemove"
     /\ \/ /\ altegio \/ t.want \subseteq crm[k].services
           /\ crm' = thinned
           /\ task' = [task EXCEPT ![Bot].pc = IF last THEN "markVisit" ELSE "storeServices"]
           /\ UNCHANGED <<mishap, left>>
        \/ /\ Spend("faults")
           /\ \/ crm' = thinned /\ Blame(t.v, {"short"})
              \/ UNCHANGED <<crm, mishap>>
           /\ task' = Done(Bot)
        \/ /\ ~altegio /\ ~(t.want \subseteq crm[k].services)
           /\ task' = Done(Bot)
           /\ UNCHANGED <<crm, mishap, left>>
     /\ UNCHANGED <<altegio, writes, visit, order, hooks, told>>

StoreServices ==
  LET t == task[Bot]
  IN /\ t.pc = "storeServices"
     /\ visit' = [visit EXCEPT ![t.v].services = t.seen.services \ t.want]
     /\ task' = Done(Bot)
     /\ UNCHANGED <<altegio, writes, order, crm, hooks, told, mishap, left>>

-----------------------------------------------------------------------------
(* The admin API.  Each request names an order that is not cancelled; the  *)
(* visit it names is read next.                                            *)

Request(m, o) == task[m].pc = "idle" /\ Live(o) /\ Spend("requests")

StartRequest(m, op, o, first) ==
  LET v == order[o].visit
  IN /\ visit[v].status # "cancelled"
     /\ task' = [task EXCEPT ![m] = [Idle EXCEPT !.pc = first, !.op = op, !.v = v,
                                                 !.seen = visit[v], !.rec = visit[v].rec]]
     /\ UNCHANGED <<altegio, writes, visit, order, crm, hooks, told, mishap>>

\* retryBookingCrmSync: a visit of the CRM is only reflected, whatever its sync.
Retry(m, o) ==
  LET row == visit[order[o].visit]
  IN /\ Request(m, o)
     /\ row.rec # 0 \/ writes
     /\ StartRequest(m, "retry", o, IF row.rec # 0 THEN "reread" ELSE "load")

\* cancelAdminOrder, in the CRM too if asked.
AdminCancel(m, o) ==
  LET row == visit[order[o].visit]
  IN /\ Request(m, o)
     /\ \E inCrm \in BOOLEAN :
          StartRequest(m, "adminCancel", o,
                       IF inCrm /\ row.rec # 0 /\ writes THEN "crmCancel" ELSE "markVisit")

\* updateAppointmentServiceMasters: the lines it read go back, with other masters; on a
\* visit of the CRM too, if forced.
AssignMasters(m, o) == Request(m, o) /\ StartRequest(m, "assign", o, "assign")

StoreMasters(m) ==
  LET t == task[m]
  IN /\ t.pc = "assign"
     /\ visit' = [visit EXCEPT ![t.v].services = t.seen.services]
     /\ Blame(t.v, IF visit[t.v].services = t.seen.services THEN {} ELSE {"short"})
     /\ task' = Done(m)
     /\ UNCHANGED <<altegio, writes, order, crm, hooks, told, left>>

-----------------------------------------------------------------------------
(* The salon, the setting and the process.                                 *)

Notify(kind, k, slot) ==
  hooks' = IF altegio THEN hooks \cup {[kind |-> kind, rec |-> k, slot |-> slot]} ELSE hooks

SalonCancels(k) ==
  /\ crm[k].live
  /\ Spend("faults")
  /\ crm' = [crm EXCEPT ![k].live = FALSE]
  /\ Notify("cancel_record", k, NoSlot)
  /\ UNCHANGED <<altegio, writes, visit, order, task, told, mishap>>

SalonMoves(k, slot) ==
  /\ crm[k].live
  /\ Spend("faults")
  /\ crm' = [crm EXCEPT ![k].slot = slot]
  /\ Notify("update_record", k, slot)
  /\ UNCHANGED <<altegio, writes, visit, order, task, told, mishap>>

\* applyAltegioWebhook: the rows of the record; the orders are not touched.
ApplyHook(h) ==
  LET rows == {v \in Visits : visit[v].rec = h.rec /\ visit[v].status # "cancelled"}
      applied(row) == IF h.kind = "cancel_record"
                      THEN [row EXCEPT !.status = "cancelled", !.sync = "synced"]
                      ELSE [row EXCEPT !.slot = h.slot, !.sync = "synced"]
      harm(v) == IF h.kind # "cancel_record" \/ v \notin rows THEN {}
                 ELSE {"torn"} \cup (IF \E p \in Actors : task[p].v = v /\ task[p].pc \in Writing
                                     THEN {"crossed"} ELSE {})
  IN /\ hooks' = hooks \ {h}
     /\ visit' = [v \in Visits |-> IF v \in rows THEN applied(visit[v]) ELSE visit[v]]
     /\ mishap' = [v \in Visits |-> mishap[v] \cup harm(v)]
     /\ UNCHANGED <<altegio, writes, order, crm, task, told, left>>

SetWrites ==
  /\ Spend("faults")
  /\ writes' = ~writes
  /\ UNCHANGED <<altegio, visit, order, crm, hooks, task, told, mishap>>

\* The process dies: what it was doing is not resumed.
Crash ==
  LET at(v, pcs) == \E p \in Actors : task[p].v = v /\ task[p].pc \in pcs
      removed(v) == task[Bot].v = v /\ task[Bot].op = "remove" /\ task[Bot].pc = "markVisit"
      harm(v) == (IF at(v, {"markOrders"}) THEN {"torn"} ELSE {})
                 \cup (IF \/ at(v, {"order", "writeOrder", "gate"})
                          \/ at(v, {"appendLoad", "append", "storeServices"})
                          \/ removed(v)
                       THEN {"short"} ELSE {})
  IN /\ Spend("faults")
     /\ task' = [p \in Actors |-> Idle]
     /\ crm' = [k \in Records |->
                  IF \E p \in Actors : /\ task[p].pc = "record" /\ task[p].rec = k
                                      /\ task[p].v = crm[k].visit
                  THEN [crm[k] EXCEPT !.heard = FALSE] ELSE crm[k]]
     /\ mishap' = [v \in Visits |-> mishap[v] \cup harm(v)]
     /\ UNCHANGED <<altegio, writes, visit, order, hooks, told>>

-----------------------------------------------------------------------------

BotStep ==
  \/ \E slot \in Slots, s \in Services : Book(slot, s)
  \/ RefuseBook \/ FindVisit \/ MergeVisit \/ CreateVisit
  \/ FindOrder \/ MirrorOrder
  \/ GateClosed \/ GateOpen \/ MirrorOff
  \/ LoadForAppend \/ AppendServices \/ RecordAppend \/ RereadAndConfirm
  \/ CancelTool
  \/ \E slot \in Slots : MoveTool(slot)
  \/ \E s \in Services : RemoveTool(s)
  \/ RemoveService \/ StoreServices

ManagerStep(m) ==
  \/ \E o \in Orders : Retry(m, o) \/ AdminCancel(m, o) \/ AssignMasters(m, o)
  \/ LinkSameDay(m)
  \/ StoreMasters(m)
  \/ RereadAndReflect(m)

SharedStep(p) == Mirror(p) \/ CancelBooking(p) \/ MarkVisit(p) \/ MarkOrders(p)

World ==
  \/ \E k \in Records : SalonCancels(k) \/ \E slot \in Slots : SalonMoves(k, slot)
  \/ \E h \in hooks : ApplyHook(h)
  \/ SetWrites
  \/ Crash

Next ==
  \/ BotStep
  \/ \E m \in Managers : ManagerStep(m)
  \/ \E p \in Actors : SharedStep(p)
  \/ World

Spec == Init /\ [][Next]_vars

-----------------------------------------------------------------------------
(* Properties.                                                             *)

\* A visit has at most one living record in the CRM whose id it was given, unless two
\* actors sent it at the same time: mirrorAppointmentToCrm sends only a row it read
\* without crmRecordId, and no retry follows a success.
OneKnownVisit ==
  \A j, k \in Records :
    /\ crm[j].live /\ crm[j].heard /\ crm[k].live /\ crm[k].heard
    /\ crm[j].visit = crm[k].visit
    /\ crm[j].visit # 0
    /\ "doubled" \notin mishap[crm[j].visit]
    => j = k

\* A cancelled row stays cancelled (order-crm-retry.ts refuses it, a booking never merges
\* into it), unless it was cancelled between the read and the write of another actor.
CancelIsFinal ==
  [][\A v \in Visits :
       visit[v].status = "cancelled" /\ "crossed" \notin mishap[v]
       => visit'[v].status = "cancelled"]_vars

\* What managers see follows the visit: an order is open while its visit is, and closed
\* once it is cancelled, but for the moment between the two writes, and except after a
\* crash there, a cancellation by the salon, a crossing, or a cancellation that closed the
\* order between the bot's read of it and the write that gives it to the visit.
OrderFollowsVisit ==
  \A o \in Orders :
    LET v == order[o].visit
    IN order[o].status # "none" /\ mishap[v] \cap {"torn", "crossed"} = {} =>
         /\ order[o].status = "cancelled" => visit[v].status = "cancelled"
         /\ Live(o) /\ visit[v].status = "cancelled" =>
              \E p \in Actors : task[p].v = v /\ task[p].pc = "markOrders"

\* handleRescheduleAppointment: once the bot goes on to book the new time, the old visit
\* is no longer in the salon's calendar.
MoveFreesOldSlot ==
  \A p \in Actors :
    task[p].op = "move" /\ task[p].old # 0 /\ task[p].pc # "crmCancel"
    => ~crm[task[p].old].live

\* appointment.ts:718, "CRM failed — never send «записали» to the client": every line of
\* a confirmation is in the CRM's visit, unless the visit was created twice or entered in
\* two rows, or the row had lines the CRM had not (an append or a removal that failed or
\* was cut short, writes turned off, masters assigned or a retry at the same time, or a
\* retry that was given another visit of the day, without the lines, for its own).
ConfirmedLinesBooked ==
  \A c \in told :
    c.how = "crm" /\ mishap[c.visit] \cap {"short", "doubled", "shared"} = {}
    => c.services \subseteq c.booked
=============================================================================
