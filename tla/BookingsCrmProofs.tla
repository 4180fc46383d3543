------------------------ MODULE BookingsCrmProofs --------------------------
(***************************************************************************)
(* Proofs about Bookings, continued: the visits of the CRM's calendar and  *)
(* the orders.  A move frees the old time before it books the new one, no  *)
(* visit is known to the CRM twice unless two actors sent it at the same   *)
(* time, orders follow their visit, and a confirmation names lines the     *)
(* CRM has.                                                                *)
(***************************************************************************)
EXTENDS BookingsProofs

USE DEF Actors, Records, Orders, Visits

-----------------------------------------------------------------------------
(* A move frees the old time.                                              *)

\* A record that lives, or that a row or a task names, was created: no later creation
\* takes its number.
CalendarOK == \A k \in Records : crm[k].live => crm[k].visit # 0

Created(k) == k # 0 => crm[k].visit # 0

\* The record a move is to free is the one its cancellation names, and then it is gone.
Freeing(t) ==
  t.old # 0 => IF t.pc = "crmCancel" THEN t.seen.rec = t.old ELSE ~crm[t.old].live

MoveInv ==
  /\ CalendarOK
  /\ \A v \in Visits : Created(visit[v].rec)
  /\ \A p \in Actors : Created(task[p].rec) /\ Created(task[p].old)
  /\ \A p \in Actors : Freeing(task[p]) /\ (p # Bot => task[p].old = 0)

\* What no step does: forget a record, or bring one back.
CalendarAges ==
  \A k \in Records :
    /\ crm[k].visit # 0 => crm'[k].visit # 0
    /\ crm'[k].live => crm'[k].visit # 0 /\ (crm[k].live \/ crm[k].visit = 0)

CreatedNext(k) == k # 0 => crm'[k].visit # 0

RowsName ==
  \A v \in Visits : visit'[v].rec = visit[v].rec \/ CreatedNext(visit'[v].rec)

\* A task becomes u: it has nothing to free, it is elsewhere than at its cancellation
\* and was before, its cancellation succeeded, or it begins a move.
Turns(p, t, u) ==
  /\ u.rec = t.rec \/ CreatedNext(u.rec)
  /\ \/ u.old = 0
     \/ u.old = t.old /\ u.pc # "crmCancel" /\ t.pc # "crmCancel"
     \/ u.old = t.old /\ u.pc # "crmCancel" /\ ~crm'[t.seen.rec].live
     \/ p = Bot /\ u.pc = "crmCancel" /\ u.seen.rec = u.old /\ CreatedNext(u.old)

TasksName == \A p \in Actors : task'[p] = task[p] \/ Turns(p, task[p], task'[p])

Faithful == CalendarAges /\ RowsName /\ TasksName

LEMMA FaithfulKeeps ==
  ASSUME Typed, Typed', MoveInv, Faithful
  PROVE  MoveInv'
<1>1. CalendarOK'
  BY DEF Faithful, CalendarAges, CalendarOK
<1>2. \A k \in Records \cup {0} : Created(k) => CreatedNext(k)
  BY DEF Faithful, CalendarAges, Created, CreatedNext
<1>3. ASSUME NEW v \in Visits PROVE Created(visit[v].rec)'
  <2>1. visit[v].rec \in Records \cup {0}
    BY DEF Typed, TypeOK, VisitRow
  <2>2. CreatedNext(visit'[v].rec)
    BY <1>2, <2>1 DEF MoveInv, Faithful, RowsName
  <2> QED
    BY <2>2 DEF Created, CreatedNext
<1>4. ASSUME NEW p \in Actors
      PROVE  /\ Created(task[p].rec)' /\ Created(task[p].old)'
             /\ Freeing(task[p])' /\ (p # Bot => task'[p].old = 0)
  <2> DEFINE t == task[p]
             u == task'[p]
  <2>1. t.rec \in Records \cup {0} /\ t.old \in Records \cup {0}
    BY TaskType DEF Typed, TaskRow
  <2>2. u.rec \in Records \cup {0} /\ u.old \in Records \cup {0}
    BY DEF Typed, TypeOK, TaskRow
  <2>3. u = t \/ Turns(p, t, u)
    BY DEF Faithful, TasksName
  <2>4. Created(t.rec) /\ Created(t.old) /\ Freeing(t) /\ (p # Bot => t.old = 0)
    BY DEF MoveInv
  <2>5. CreatedNext(t.rec) /\ CreatedNext(t.old)
    BY <1>2, <2>1, <2>4
  <2>6. CreatedNext(u.rec) /\ CreatedNext(u.old)
    BY <2>3, <2>5 DEF Turns, CreatedNext
  <2>7. p # Bot => u.old = 0
    BY <2>3, <2>4 DEF Turns
  <2>8. ASSUME t.old # 0, ~crm[t.old].live PROVE ~crm'[t.old].live
    BY <2>1, <2>4, <2>8 DEF Created, Faithful, CalendarAges
  <2>9. u.old # 0 => IF u.pc = "crmCancel" THEN u.seen.rec = u.old ELSE ~crm'[u.old].live
    <3>1. CASE u = t
      BY <2>4, <2>8, <3>1 DEF Freeing
    <3>2. CASE u.old = t.old /\ u.pc # "crmCancel" /\ t.pc # "crmCancel"
      BY <2>4, <2>8, <3>2 DEF Freeing
    <3>3. CASE u.old = t.old /\ u.pc # "crmCancel" /\ ~crm'[t.seen.rec].live
      BY <2>4, <2>8, <3>3 DEF Freeing
    <3> QED
      BY <2>3, <3>1, <3>2, <3>3 DEF Turns
  <2> QED
    BY <2>6, <2>7, <2>9 DEF Created, CreatedNext, Freeing
<1> QED
  BY <1>1, <1>3, <1>4 DEF MoveInv

LEMMA SameCalendar ==
  ASSUME MoveInv, UNCHANGED crm
  PROVE  CalendarAges
BY DEF MoveInv, CalendarOK, CalendarAges

LEMMA SameRows ==
  ASSUME UNCHANGED visit
  PROVE  RowsName
BY DEF RowsName

LEMMA SameTasks ==
  ASSUME UNCHANGED task
  PROVE  TasksName
BY DEF TasksName

LEMMA TaskTurns ==
  ASSUME Typed, NEW p \in Actors, NEW row, task' = [task EXCEPT ![p] = row],
         Turns(p, task[p], row)
  PROVE  TasksName
BY DEF Typed, TypeOK, TasksName

LEMMA PcTurns ==
  ASSUME Typed, NEW p \in Actors, NEW q, task' = [task EXCEPT ![p].pc = q],
         q # "crmCancel", task[p].pc # "crmCancel"
  PROVE  TasksName
<1> DEFINE row == [task[p] EXCEPT !.pc = q]
<1>1. row.pc = q /\ row.old = task[p].old /\ row.rec = task[p].rec
  BY TaskType DEF Typed, TaskRow
<1>2. task' = [task EXCEPT ![p] = row]
  OBVIOUS
<1> HIDE DEF row
<1> QED
  BY <1>1, <1>2, TaskTurns DEF Turns

LEMMA DoneTurns ==
  ASSUME Typed, NEW p \in Actors, task' = Done(p)
  PROVE  TasksName
<1>1. Idle.rec = 0 /\ Idle.old = 0
  BY DEF Idle
<1> QED
  BY <1>1, TaskTurns DEF Done, Turns, CreatedNext

LEMMA BookingFaithful ==
  ASSUME Typed, MoveInv,
         \/ \E slot \in Slots, s \in Services : Book(slot, s)
         \/ RefuseBook \/ FindVisit \/ MergeVisit \/ CreateVisit \/ FindOrder \/ MirrorOrder
         \/ GateClosed \/ GateOpen \/ MirrorOff
  PROVE  Faithful
<1> DEFINE t == task[Bot]
<1>0. t \in TaskRow
  BY TaskType DEF Typed
<1>1. ASSUME NEW slot \in Slots, NEW s \in Services, Book(slot, s)
      PROVE  Faithful
  <2> DEFINE row == [Idle EXCEPT !.pc = "find", !.op = "book", !.slot = slot, !.want = {s}]
  <2>1. row.old = 0 /\ row.rec = 0
    BY DEF Idle
  <2>2. task' = [task EXCEPT ![Bot] = row]
    BY <1>1 DEF Book
  <2>3. UNCHANGED <<visit, crm>>
    BY <1>1 DEF Book
  <2> HIDE DEF row
  <2>4. Turns(Bot, t, row)
    BY <2>1 DEF Turns, CreatedNext
  <2>5. TasksName
    BY <2>2, <2>4, TaskTurns
  <2> QED
    BY <2>3, <2>5, SameRows, SameCalendar DEF Faithful
<1>2. CASE RefuseBook
  <2>1. task' = Done(Bot) /\ UNCHANGED <<visit, crm>>
    BY <1>2 DEF RefuseBook, Done
  <2> QED
    BY <2>1, SameCalendar, SameRows, DoneTurns DEF Faithful
<1>3. CASE FindVisit
  <2>1. PICK v \in Visits \cup {0}, found \in VisitRow :
          task' = [task EXCEPT ![Bot] = [t EXCEPT !.pc = "store", !.v = v, !.seen = found]]
    BY <1>3, RowTypes DEF FindVisit, Typed, TypeOK
  <2> DEFINE row == [t EXCEPT !.pc = "store", !.v = v, !.seen = found]
  <2>2. row.pc = "store" /\ row.old = t.old /\ row.rec = t.rec
    BY <1>0 DEF TaskRow
  <2>3. task' = [task EXCEPT ![Bot] = row]
    BY <2>1
  <2>4. UNCHANGED <<visit, crm>> /\ t.pc = "find"
    BY <1>3 DEF FindVisit
  <2> HIDE DEF row
  <2>5. Turns(Bot, t, row)
    BY <2>2, <2>4 DEF Turns
  <2>6. TasksName
    BY <2>3, <2>5, TaskTurns
  <2> QED
    BY <2>4, <2>6, SameRows, SameCalendar DEF Faithful
<1>4. CASE MergeVisit
  <2> DEFINE adds == t.want \ t.seen.services # {}
             want == t.seen.services \cup t.want
             row == [t EXCEPT !.pc = "order", !.adds = adds, !.want = want]
  <2>1. task' = [task EXCEPT ![Bot] = row]
    BY <1>4 DEF MergeVisit
  <2>2. row.pc = "order" /\ row.old = t.old /\ row.rec = t.rec
    <3> HIDE DEF adds, want
    <3> QED
      BY <1>0 DEF TaskRow
  <2>3. t.pc = "store" /\ UNCHANGED crm
    BY <1>4 DEF MergeVisit
  <2> HIDE DEF row
  <2>4. RowsName
    BY <1>4 DEF MergeVisit, RowsName, Typed, TypeOK, VisitRow
  <2>5. Turns(Bot, t, row)
    BY <2>2, <2>3 DEF Turns
  <2>6. TasksName
    BY <2>1, <2>5, TaskTurns
  <2> QED
    BY <2>3, <2>4, <2>6, SameCalendar DEF Faithful
<1>5. CASE CreateVisit
  <2> DEFINE new == [slot |-> t.slot, services |-> t.want, status |-> "confirmed",
                     rec |-> 0, sync |-> "pending"]
  <2>1. PICK v \in Visits :
          /\ visit' = [visit EXCEPT ![v] = new]
          /\ task' = [task EXCEPT ![Bot] = [t EXCEPT !.pc = "order", !.v = v, !.adds = TRUE]]
    BY <1>5 DEF CreateVisit
  <2> DEFINE row == [t EXCEPT !.pc = "order", !.v = v, !.adds = TRUE]
  <2>2. row.pc = "order" /\ row.old = t.old /\ row.rec = t.rec
    BY <1>0 DEF TaskRow
  <2>3. t.pc = "store" /\ UNCHANGED crm
    BY <1>5 DEF CreateVisit
  <2>4. RowsName
    BY <2>1 DEF RowsName, CreatedNext, Typed, TypeOK
  <2>7. task' = [task EXCEPT ![Bot] = row]
    BY <2>1
  <2> HIDE DEF row
  <2>5. Turns(Bot, t, row)
    BY <2>2, <2>3 DEF Turns
  <2>6. TasksName
    BY <2>5, <2>7, TaskTurns
  <2> QED
    BY <2>3, <2>4, <2>6, SameCalendar DEF Faithful
<1>10. CASE FindOrder
  <2>1. PICK q \in {"writeOrder", "gate"}, i \in Orders \cup {0} :
          task' = [task EXCEPT ![Bot] = [t EXCEPT !.pc = q, !.ord = i]]
    BY <1>10, FindOrderCases
  <2> DEFINE row == [t EXCEPT !.pc = q, !.ord = i]
  <2>2. row.pc = q /\ row.old = t.old /\ row.rec = t.rec
    BY <1>0 DEF TaskRow
  <2>3. task' = [task EXCEPT ![Bot] = row]
    BY <2>1
  <2>4. UNCHANGED <<visit, crm>> /\ t.pc = "order"
    BY <1>10 DEF FindOrder
  <2> HIDE DEF row
  <2>5. Turns(Bot, t, row)
    BY <2>2, <2>4 DEF Turns
  <2>6. TasksName
    BY <2>3, <2>5, TaskTurns
  <2> QED
    BY <2>4, <2>6, SameRows, SameCalendar DEF Faithful
<1>6. CASE MirrorOrder
  <2>1. /\ UNCHANGED <<visit, crm>> /\ t.pc = "writeOrder"
        /\ task' = [task EXCEPT ![Bot].pc = "gate"]
    BY <1>6 DEF MirrorOrder
  <2> QED
    BY <2>1, SameCalendar, SameRows, PcTurns DEF Faithful
<1>7. CASE GateClosed
  <2>1. RowsName
    BY <1>7 DEF GateClosed, RowsName, Typed, TypeOK, VisitRow
  <2>2. task' = Done(Bot) /\ UNCHANGED crm
    BY <1>7 DEF GateClosed, Done
  <2> QED
    BY <2>1, <2>2, SameCalendar, DoneTurns DEF Faithful
<1>8. CASE GateOpen
  <2>1. /\ UNCHANGED <<visit, crm>> /\ t.pc = "gate"
        /\ \/ task' = [task EXCEPT ![Bot].pc = "load"]
           \/ task' = [task EXCEPT ![Bot].pc = "appendLoad"]
           \/ task' = Done(Bot)
    BY <1>8 DEF GateOpen, Done, Typed, TypeOK
  <2>2. TasksName
    BY <2>1, PcTurns, DoneTurns
  <2> QED
    BY <2>1, <2>2, SameCalendar, SameRows DEF Faithful
<1>9. CASE MirrorOff
  <2>1. /\ UNCHANGED <<visit, crm>> /\ t.pc = "load"
        /\ task' = [task EXCEPT ![Bot].pc = "reread"]
    BY <1>9 DEF MirrorOff
  <2> QED
    BY <2>1, SameCalendar, SameRows, PcTurns DEF Faithful
<1> QED
  BY <1>1, <1>2, <1>3, <1>4, <1>5, <1>6, <1>7, <1>8, <1>9, <1>10

LEMMA MirrorFaithful ==
  ASSUME Typed, MoveInv, NEW p \in Actors, Mirror(p)
  PROVE  Faithful
<1> DEFINE t == task[p]
<1>0. t \in TaskRow
  BY TaskType DEF Typed
<1>1. CASE MirrorKnown(p)
  <2> DEFINE row == [t EXCEPT !.pc = "reflect", !.rec = visit[t.v].rec]
  <2>1. t.v \in Visits /\ t.pc = "load"
    BY <1>1, RowOf DEF MirrorKnown
  <2>2. row.pc = "reflect" /\ row.old = t.old /\ row.rec = visit[t.v].rec
    BY <1>0 DEF TaskRow
  <2>3. task' = [task EXCEPT ![p] = row] /\ UNCHANGED crm
    BY <1>1 DEF MirrorKnown
  <2>4. CreatedNext(row.rec)
    BY <2>1, <2>2, <2>3 DEF MoveInv, Created, CreatedNext
  <2>5. RowsName
    BY <1>1 DEF MirrorKnown, RowsName, Typed, TypeOK, VisitRow
  <2> HIDE DEF row
  <2>6. Turns(p, t, row)
    BY <2>1, <2>2, <2>4 DEF Turns
  <2>7. TasksName
    BY <2>3, <2>6, TaskTurns
  <2> QED
    BY <2>3, <2>5, <2>7, SameCalendar DEF Faithful
<1>2. CASE MirrorNew(p)
  <2> DEFINE row == [t EXCEPT !.pc = "create", !.sent = visit[t.v].services]
  <2>1. row.pc = "create" /\ row.old = t.old /\ row.rec = t.rec
    BY <1>0 DEF TaskRow
  <2>2. t.pc = "load" /\ task' = [task EXCEPT ![p] = row] /\ UNCHANGED <<visit, crm>>
    BY <1>2 DEF MirrorNew
  <2> HIDE DEF row
  <2>3. Turns(p, t, row)
    BY <2>1, <2>2 DEF Turns
  <2>4. TasksName
    BY <2>2, <2>3, TaskTurns
  <2> QED
    BY <2>2, <2>4, SameCalendar, SameRows DEF Faithful
<1>3. CASE CreateBooking(p)
  <2>1. PICK k \in Records \cup {0}, heard \in BOOLEAN : Made(p, k, heard)
    BY <1>3, CreateBookingCases
  <2> DEFINE rec == IF heard THEN k ELSE 0
             row == [t EXCEPT !.pc = "record", !.rec = rec]
             new == [visit |-> t.v, slot |-> visit[t.v].slot, services |-> t.sent,
                     live |-> TRUE, heard |-> heard]
  <2>2. t.v # 0 /\ t.pc = "create" /\ UNCHANGED visit
    BY <1>3, RowOf, BoundsAssumption DEF CreateBooking, Typed, Placed
  <2>3. crm' = [crm EXCEPT ![k] = new] /\ (k # 0 => crm[k].visit = 0) /\ (heard => k # 0)
    BY <2>1 DEF Made
  <2>4. new.visit # 0 /\ new.live
    BY <2>2
  <2>5. row.pc = "record" /\ row.old = t.old /\ row.rec = rec
    BY <1>0 DEF TaskRow
  <2>6. task' = [task EXCEPT ![p] = row]
    BY <2>1 DEF Made
  <2>9. crm \in [Records -> RecordRow] /\ \A j \in Records : j # 0
    BY BoundsAssumption DEF Typed, TypeOK
  <2> HIDE DEF row, new
  <2>7. CalendarAges
    BY <2>3, <2>4, <2>9 DEF CalendarAges, MoveInv, CalendarOK
  <2>8. CreatedNext(rec)
    BY <2>3, <2>4, <2>9 DEF CreatedNext
  <2>10. Turns(p, t, row)
    BY <2>2, <2>5, <2>8 DEF Turns
  <2>11. TasksName
    BY <2>6, <2>10, TaskTurns
  <2> QED
    BY <2>2, <2>7, <2>11, SameRows DEF Faithful
<1>4. CASE RecordBooking(p)
  <2>1. t.pc = "record" /\ task' = [task EXCEPT ![p] = [t EXCEPT !.pc = "reflect"]] /\ UNCHANGED crm
    BY <1>4 DEF RecordBooking
  <2>2. PICK result : visit' = [visit EXCEPT ![t.v].status = result, ![t.v].sync = result,
                                             ![t.v].rec = IF t.rec # 0 THEN t.rec ELSE @]
    BY <1>4 DEF RecordBooking
  <2>3. \A v \in Visits : visit'[v].rec = visit[v].rec \/ (t.rec # 0 /\ visit'[v].rec = t.rec)
    BY <2>2 DEF Typed, TypeOK, VisitRow
  <2>4. RowsName
    BY <2>1, <2>3 DEF RowsName, CreatedNext, MoveInv, Created
  <2>5. task' = [task EXCEPT ![p].pc = "reflect"]
    BY <2>1
  <2> QED
    BY <2>1, <2>4, <2>5, SameCalendar, PcTurns DEF Faithful
<1>5. CASE Reflect(p)
  <2>1. /\ UNCHANGED <<visit, crm>> /\ t.pc = "reflect"
        /\ task' = [task EXCEPT ![p].pc = "reread"] \/ task' = Done(p)
    BY <1>5 DEF Reflect
  <2> QED
    BY <2>1, SameCalendar, SameRows, PcTurns, DoneTurns DEF Faithful
<1> QED
  BY <1>1, <1>2, <1>3, <1>4, <1>5 DEF Mirror

LEMMA AppendFaithful ==
  ASSUME Typed, MoveInv, LoadForAppend \/ AppendServices \/ RecordAppend \/ RereadAndConfirm
  PROVE  Faithful
<1> DEFINE t == task[Bot]
<1>0. t \in TaskRow
  BY TaskType DEF Typed
<1>1. CASE LoadForAppend
  <2> DEFINE sent == IF altegio THEN visit[t.v].services
                     ELSE visit[t.v].services \ t.seen.services
             row == [t EXCEPT !.pc = "append", !.rec = visit[t.v].rec, !.sent = sent]
  <2>1. task' = [task EXCEPT ![Bot] = row]
    BY <1>1 DEF LoadForAppend
  <2>2. row.pc = "append" /\ row.old = t.old /\ row.rec = visit[t.v].rec
    BY <1>0 DEF TaskRow
  <2>3. task' = [task EXCEPT ![Bot] = row] /\ t.pc = "appendLoad" /\ UNCHANGED <<visit, crm>>
    BY <1>1, <2>1 DEF LoadForAppend
  <2>4. t.v \in Visits
    BY <2>3, RowOf
  <2>5. CreatedNext(row.rec)
    BY <2>2, <2>3, <2>4 DEF MoveInv, Created, CreatedNext
  <2> HIDE DEF row
  <2>6. Turns(Bot, t, row)
    BY <2>2, <2>3, <2>5 DEF Turns
  <2>7. TasksName
    BY <2>3, <2>6, TaskTurns
  <2> QED
    BY <2>3, <2>7, SameCalendar, SameRows DEF Faithful
<1>2. CASE AppendServices
  <2> DEFINE lines == IF altegio THEN t.sent ELSE crm[t.rec].services \cup t.sent
             grown == [crm EXCEPT ![t.rec].services = lines]
  <2>1. crm' \in {crm, grown}
    BY <1>2 DEF AppendServices
  <2> HIDE DEF lines
  <2>2. \A k \in Records : grown[k].visit = crm[k].visit /\ grown[k].live = crm[k].live
    BY DEF Typed, TypeOK, RecordRow
  <2> HIDE DEF grown
  <2>3. CalendarAges
    BY <2>1, <2>2 DEF CalendarAges, MoveInv, CalendarOK
  <2>4. /\ UNCHANGED visit /\ t.pc = "append"
        /\ task' = [task EXCEPT ![Bot].pc = "recordAppend"] \/ task' = Done(Bot)
    BY <1>2 DEF AppendServices
  <2> QED
    BY <2>3, <2>4, SameRows, PcTurns, DoneTurns DEF Faithful
<1>3. CASE RecordAppend
  <2>1. RowsName
    BY <1>3 DEF RecordAppend, RowsName, Typed, TypeOK, VisitRow
  <2>2. /\ UNCHANGED crm /\ t.pc = "recordAppend"
        /\ task' = [task EXCEPT ![Bot].pc = "reflect"]
    BY <1>3 DEF RecordAppend
  <2> QED
    BY <2>1, <2>2, SameCalendar, PcTurns DEF Faithful
<1>4. CASE RereadAndConfirm
  <2>1. UNCHANGED <<visit, crm>> /\ task' = Done(Bot)
    BY <1>4 DEF RereadAndConfirm
  <2> QED
    BY <2>1, SameCalendar, SameRows, DoneTurns DEF Faithful
<1> QED
  BY <1>1, <1>2, <1>3, <1>4

LEMMA BeginTurns ==
  ASSUME Typed, NEW op, NEW v, NEW row \in VisitRow, NEW slot, NEW lines,
         CreatedNext(row.rec), Begin(op, v, row, slot, lines)
  PROVE  TasksName
<1> DEFINE inCrm == row.rec # 0 /\ writes
           first == IF inCrm THEN IF op = "remove" THEN "crmRemove" ELSE "crmCancel"
                    ELSE IF op # "remove" \/ row.services \ lines = {} THEN "markVisit"
                    ELSE "storeServices"
           old == IF inCrm /\ op = "move" THEN row.rec ELSE 0
           new == [Idle EXCEPT !.pc = first, !.op = op, !.v = v, !.seen = row, !.slot = slot,
                               !.want = lines, !.old = old]
<1>1. old # 0 => first = "crmCancel" /\ old = row.rec
  OBVIOUS
<1>2. task' = [task EXCEPT ![Bot] = new]
  BY DEF Begin
<1> HIDE DEF first, old
<1>3. new.pc = first /\ new.old = old /\ new.rec = 0 /\ new.seen = row
  BY DEF Idle
<1> HIDE DEF new
<1>4. Turns(Bot, task[Bot], new)
  BY <1>1, <1>3 DEF Turns, CreatedNext
<1> QED
  BY <1>2, <1>4, TaskTurns

LEMMA ToolFaithful ==
  ASSUME Typed, MoveInv, NEW op, NEW slot, NEW lines, StartTool(op, slot, lines)
  PROVE  Faithful
<1>1. UNCHANGED crm
  BY DEF StartTool
<1>2. ASSUME UNCHANGED visit, NEW v \in Visits, Begin(op, v, visit[v], slot, lines)
      PROVE  Faithful
  <2>1. CreatedNext(visit[v].rec)
    BY <1>1 DEF MoveInv, Created, CreatedNext
  <2>2. visit[v] \in VisitRow
    BY DEF Typed, TypeOK
  <2> QED
    BY <1>1, <1>2, <2>1, <2>2, SameCalendar, SameRows, BeginTurns DEF Faithful
<1>3. ASSUME NEW k \in Records, NEW v \in FreshVisits, crm[k].live,
             visit' = [visit EXCEPT ![v] =
               [slot |-> crm[k].slot, services |-> crm[k].services, status |-> "synced",
                rec |-> k, sync |-> "synced"]],
             Begin(op, v, [slot |-> crm[k].slot, services |-> crm[k].services,
                           status |-> "synced", rec |-> k, sync |-> "synced"], slot, lines)
      PROVE  Faithful
  <2> DEFINE row == [slot |-> crm[k].slot, services |-> crm[k].services,
                     status |-> "synced", rec |-> k, sync |-> "synced"]
  <2>1. row \in VisitRow /\ row.rec = k
    BY DEF Typed, TypeOK, RecordRow, VisitRow
  <2>2. visit' = [visit EXCEPT ![v] = row] /\ Begin(op, v, row, slot, lines)
    BY <1>3
  <2> HIDE DEF row
  <2>3. CreatedNext(row.rec)
    BY <1>1, <1>3, <2>1 DEF MoveInv, CalendarOK, CreatedNext
  <2>4. RowsName
    BY <2>2, <2>3 DEF RowsName, Typed, TypeOK, FreshVisits
  <2> QED
    BY <1>1, <2>1, <2>2, <2>3, <2>4, SameCalendar, BeginTurns DEF Faithful
<1>4. CASE ResolveLocal(op, slot, lines)
  <2>1. UNCHANGED visit
    BY <1>4 DEF ResolveLocal
  <2>2. PICK v \in Visits : Begin(op, v, visit[v], slot, lines)
    BY <1>4 DEF ResolveLocal
  <2> QED
    BY <1>2, <2>1, <2>2
<1>5. CASE ResolveInCrm(op, slot, lines)
  <2>1. PICK k \in Upcoming :
          \/ \E v \in Visits : Begin(op, v, visit[v], slot, lines) /\ UNCHANGED visit
          \/ \E v \in FreshVisits :
               LET row == [slot |-> crm[k].slot, services |-> crm[k].services,
                           status |-> "synced", rec |-> k, sync |-> "synced"]
               IN visit' = [visit EXCEPT ![v] = row] /\ Begin(op, v, row, slot, lines)
    BY <1>5 DEF ResolveInCrm, IsFirst
  <2>2. k \in Records /\ crm[k].live
    BY DEF Upcoming
  <2>3. CASE \E v \in Visits : Begin(op, v, visit[v], slot, lines) /\ UNCHANGED visit
    <3>1. PICK v \in Visits : Begin(op, v, visit[v], slot, lines) /\ UNCHANGED visit
      BY <2>3
    <3> QED
      BY <1>2, <3>1
  <2>4. CASE \E v \in FreshVisits :
               LET row == [slot |-> crm[k].slot, services |-> crm[k].services,
                           status |-> "synced", rec |-> k, sync |-> "synced"]
               IN visit' = [visit EXCEPT ![v] = row] /\ Begin(op, v, row, slot, lines)
    BY <1>3, <2>2, <2>4
  <2> QED
    BY <2>1, <2>3, <2>4
<1>6. ResolveLocal(op, slot, lines) \/ ResolveInCrm(op, slot, lines)
  BY DEF StartTool
<1> QED
  BY <1>4, <1>5, <1>6

LEMMA CancelFaithful ==
  ASSUME Typed, MoveInv, NEW p \in Actors, CancelBooking(p) \/ MarkVisit(p) \/ MarkOrders(p)
  PROVE  Faithful
<1> DEFINE t == task[p]
<1>0. t \in TaskRow
  BY TaskType DEF Typed
<1>1. CASE CancelBooking(p)
  <2> DEFINE k == t.seen.rec
             row == [t EXCEPT !.pc = "markVisit"]
             gone == [crm EXCEPT ![k].live = FALSE]
  <2>1. UNCHANGED visit /\ t.pc = "crmCancel" /\ crm' \in {crm, gone}
    BY <1>1 DEF CancelBooking
  <2>2. \/ task' = Done(p)
        \/ crm' = gone /\ task' = [task EXCEPT ![p] = row]
        \/ p # Bot /\ task' = [task EXCEPT ![p] = row]
    BY <1>1 DEF CancelBooking
  <2>3. k \in Records \cup {0}
    BY <1>0 DEF TaskRow, VisitRow
  <2>4. \A j \in Records : /\ gone[j].visit = crm[j].visit
                           /\ gone[j].live => crm[j].live
                           /\ k = j => ~gone[j].live
    BY DEF Typed, TypeOK, RecordRow
  <2> HIDE DEF gone
  <2>5. CalendarAges
    BY <2>1, <2>4 DEF CalendarAges, MoveInv, CalendarOK
  <2>6. row.pc = "markVisit" /\ row.old = t.old /\ row.rec = t.rec
    BY <1>0 DEF TaskRow
  <2> HIDE DEF row
  <2>7. ASSUME crm' = gone PROVE Turns(p, t, row)
    <3>1. t.old # 0 => ~crm'[t.seen.rec].live
      BY <2>1, <2>3, <2>4, <2>7 DEF MoveInv, Freeing
    <3> QED
      BY <2>6, <3>1 DEF Turns
  <2>8. ASSUME p # Bot PROVE Turns(p, t, row)
    BY <2>6, <2>8 DEF MoveInv, Turns
  <2>9. TasksName
    BY <2>2, <2>7, <2>8, TaskTurns, DoneTurns
  <2> QED
    BY <2>1, <2>5, <2>9, SameRows DEF Faithful
<1>2. CASE MarkVisit(p)
  <2>1. /\ UNCHANGED crm /\ t.pc = "markVisit"
        /\ task' = [task EXCEPT ![p].pc = "markOrders"]
    BY <1>2 DEF MarkVisit
  <2>2. RowsName
    BY <1>2 DEF MarkVisit, RowsName, Typed, TypeOK, VisitRow
  <2> QED
    BY <2>1, <2>2, SameCalendar, PcTurns DEF Faithful
<1>3. CASE MarkOrders(p)
  <2> DEFINE row == [t EXCEPT !.pc = "find", !.v = 0, !.want = t.seen.services,
                              !.seen = NoVisit]
  <2>1. row.pc = "find" /\ row.old = t.old /\ row.rec = t.rec
    BY <1>0 DEF TaskRow
  <2>2. task' = [task EXCEPT ![p] = row] \/ task' = Done(p)
    BY <1>3 DEF MarkOrders
  <2>3. UNCHANGED <<visit, crm>> /\ t.pc = "markOrders"
    BY <1>3 DEF MarkOrders
  <2> HIDE DEF row
  <2>4. Turns(p, t, row)
    BY <2>1, <2>3 DEF Turns
  <2>5. TasksName
    BY <2>2, <2>4, TaskTurns, DoneTurns
  <2> QED
    BY <2>3, <2>5, SameCalendar, SameRows DEF Faithful
<1> QED
  BY <1>1, <1>2, <1>3

LEMMA RemoveFaithful ==
  ASSUME Typed, MoveInv, RemoveService \/ StoreServices
  PROVE  Faithful
<1> DEFINE t == task[Bot]
<1>1. CASE RemoveService
  <2> DEFINE k == t.seen.rec
             rest == crm[k].services \ t.want
             lines == IF rest = {} THEN crm[k].services ELSE rest
             live == IF rest = {} THEN FALSE ELSE crm[k].live
             thinned == [crm EXCEPT ![k].services = lines, ![k].live = live]
  <2>1. crm' \in {crm, thinned} /\ UNCHANGED visit /\ t.pc = "crmRemove"
    BY <1>1 DEF RemoveService
  <2>2. live => crm[k].live
    OBVIOUS
  <2> HIDE DEF lines, live
  <2>3. \A j \in Records : thinned[j].visit = crm[j].visit /\ (thinned[j].live => crm[j].live)
    BY <2>2 DEF Typed, TypeOK, RecordRow
  <2> HIDE DEF thinned
  <2>4. CalendarAges
    BY <2>1, <2>3 DEF CalendarAges, MoveInv, CalendarOK
  <2>5. \/ task' = [task EXCEPT ![Bot].pc = "markVisit"]
        \/ task' = [task EXCEPT ![Bot].pc = "storeServices"]
        \/ task' = Done(Bot)
    BY <1>1 DEF RemoveService
  <2>6. TasksName
    BY <2>1, <2>5, PcTurns, DoneTurns
  <2> QED
    BY <2>1, <2>4, <2>6, SameRows DEF Faithful
<1>2. CASE StoreServices
  <2>1. RowsName
    BY <1>2 DEF StoreServices, RowsName, Typed, TypeOK, VisitRow
  <2>2. UNCHANGED crm /\ task' = Done(Bot)
    BY <1>2 DEF StoreServices
  <2> QED
    BY <2>1, <2>2, SameCalendar, DoneTurns DEF Faithful
<1> QED
  BY <1>1, <1>2

LEMMA ManagerFaithful ==
  ASSUME Typed, MoveInv, NEW m \in Managers, ManagerStep(m)
  PROVE  Faithful
<1>1. ASSUME NEW o \in Orders, Retry(m, o) \/ AdminCancel(m, o) \/ AssignMasters(m, o)
      PROVE  Faithful
  <2>1. PICK row \in TaskRow : Asks(m, o, row)
    BY <1>1, RequestCases
  <2>2. /\ task' = [task EXCEPT ![m] = row] /\ UNCHANGED <<visit, crm>>
        /\ row.rec = visit[row.v].rec /\ row.old = 0 /\ row.v \in Visits
    BY <2>1 DEF Asks, Live, Typed, TypeOK, OrdersPlaced, OrderRow
  <2>3. CreatedNext(row.rec)
    BY <2>2 DEF MoveInv, Created, CreatedNext
  <2>4. Turns(m, task[m], row)
    BY <2>2, <2>3 DEF Turns
  <2>5. TasksName
    BY <2>2, <2>4, TaskTurns
  <2> QED
    BY <2>2, <2>5, SameCalendar, SameRows DEF Faithful
<1>2. CASE StoreMasters(m)
  <2>1. RowsName
    BY <1>2 DEF StoreMasters, RowsName, Typed, TypeOK, VisitRow
  <2>2. UNCHANGED crm /\ task' = Done(m)
    BY <1>2 DEF StoreMasters
  <2> QED
    BY <2>1, <2>2, SameCalendar, DoneTurns DEF Faithful
<1>3. CASE RereadAndReflect(m)
  <2>1. UNCHANGED <<visit, crm>> /\ task' = Done(m)
    BY <1>3 DEF RereadAndReflect
  <2> QED
    BY <2>1, SameCalendar, SameRows, DoneTurns DEF Faithful
<1>4. CASE LinkSameDay(m)
  <2>1. PICK k \in Records : Linked(m, k)
    BY <1>4, LinkCases
  <2> DEFINE row == [task[m] EXCEPT !.pc = "record", !.rec = k]
  <2>2. row.pc = "record" /\ row.old = task[m].old /\ row.rec = k
    BY TaskType DEF Typed, TaskRow
  <2>3. task' = [task EXCEPT ![m] = row] /\ UNCHANGED visit /\ task[m].pc = "create" /\ crm[k].live
    BY <2>1 DEF Linked
  <2>4. \A j \in Records : crm'[j].visit = crm[j].visit /\ crm'[j].live = crm[j].live
    BY <2>1 DEF Linked, Typed, TypeOK, RecordRow
  <2> HIDE DEF row
  <2>5. CalendarAges
    BY <2>4 DEF CalendarAges, MoveInv, CalendarOK
  <2>6. CreatedNext(k)
    BY <2>3, <2>4 DEF CreatedNext, MoveInv, CalendarOK
  <2>7. Turns(m, task[m], row)
    BY <2>2, <2>3, <2>6 DEF Turns
  <2>8. TasksName
    BY <2>3, <2>7, TaskTurns
  <2> QED
    BY <2>3, <2>5, <2>8, SameRows DEF Faithful
<1> QED
  BY <1>1, <1>2, <1>3, <1>4 DEF ManagerStep

LEMMA WorldFaithful ==
  ASSUME Typed, MoveInv, World
  PROVE  Faithful
<1>1. ASSUME NEW k \in Records, \/ SalonCancels(k)
                                \/ \E slot \in Slots : SalonMoves(k, slot)
      PROVE  Faithful
  <2>1. \A j \in Records : crm'[j].visit = crm[j].visit /\ (crm'[j].live => crm[j].live)
    <3>1. CASE SalonCancels(k)
      BY <3>1 DEF SalonCancels, Typed, TypeOK, RecordRow
    <3>2. ASSUME NEW slot \in Slots, SalonMoves(k, slot)
          PROVE  \A j \in Records : crm'[j].visit = crm[j].visit /\ crm'[j].live = crm[j].live
      BY <3>2 DEF SalonMoves, Typed, TypeOK, RecordRow
    <3> QED
      BY <1>1, <3>1, <3>2
  <2>2. UNCHANGED <<visit, task>>
    BY <1>1 DEF SalonCancels, SalonMoves
  <2>3. CalendarAges
    BY <2>1 DEF CalendarAges, MoveInv, CalendarOK
  <2> QED
    BY <2>2, <2>3, SameRows, SameTasks DEF Faithful
<1>2. CASE SetWrites
  <2>1. UNCHANGED <<visit, crm, task>>
    BY <1>2 DEF SetWrites
  <2> QED
    BY <2>1, SameCalendar, SameRows, SameTasks DEF Faithful
<1>3. ASSUME NEW h \in hooks, ApplyHook(h)
      PROVE  Faithful
  <2>1. UNCHANGED <<crm, task>>
    BY <1>3 DEF ApplyHook
  <2>2. \A v \in Visits : visit'[v].rec = visit[v].rec
    BY <1>3 DEF ApplyHook, Typed, TypeOK, VisitRow
  <2> QED
    BY <2>1, <2>2, SameCalendar, SameTasks DEF Faithful, RowsName
<1>4. CASE Crash
  <2>1. \A j \in Records : crm'[j].visit = crm[j].visit /\ crm'[j].live = crm[j].live
    BY <1>4 DEF Crash, Typed, TypeOK, RecordRow
  <2>2. CalendarAges
    BY <2>1 DEF CalendarAges, MoveInv, CalendarOK
  <2>3. UNCHANGED visit /\ \A p \in Actors : task'[p].rec = 0 /\ task'[p].old = 0
    BY <1>4 DEF Crash, Idle
  <2>4. TasksName
    BY <2>3 DEF TasksName, Turns, CreatedNext
  <2> QED
    BY <2>2, <2>3, <2>4, SameRows DEF Faithful
<1> QED
  BY <1>1, <1>2, <1>3, <1>4 DEF World

LEMMA NextFaithful ==
  ASSUME Typed, MoveInv, [Next]_vars
  PROVE  Faithful
<1>1. CASE BotStep
  BY <1>1, BookingFaithful, AppendFaithful, ToolFaithful, RemoveFaithful
     DEF BotStep, CancelTool, MoveTool, RemoveTool
<1>2. CASE \E p \in Actors : SharedStep(p)
  BY <1>2, MirrorFaithful, CancelFaithful DEF SharedStep
<1>3. CASE UNCHANGED vars
  BY <1>3, SameCalendar, SameRows, SameTasks DEF vars, Faithful
<1> QED
  BY <1>1, <1>2, <1>3, ManagerFaithful, WorldFaithful DEF Next

\* Once the bot has gone on to book the new time of a move, the old visit is out of the
\* salon's calendar and never comes back: whatever the CRM answers, and whatever
\* managers, retries, the salon and crashes do meanwhile.
THEOREM MoveTheorem == Spec => []MoveFreesOldSlot
<1>1. Init => MoveInv
  BY DEF Init, MoveInv, CalendarOK, Created, Freeing, NoRecord, NoVisit, Idle
<1>2. Typed /\ [Next]_vars => Typed'
  BY NextTyped DEF Typed, TypeOK, Placed, OrdersPlaced, vars
<1>3. Typed /\ MoveInv /\ [Next]_vars => MoveInv'
  BY <1>2, NextFaithful, FaithfulKeeps
<1>4. MoveInv => MoveFreesOldSlot
  BY DEF MoveInv, Freeing, MoveFreesOldSlot
<1> QED
  BY InitTyped, <1>1, <1>2, <1>3, <1>4, PTL DEF Spec

-----------------------------------------------------------------------------
(* No visit is known to the CRM twice.                                     *)

Exists(v) == v # 0 => visit[v].status # "none"

\* Nobody names a row that was never written, and it has no record.
RowsExist ==
  /\ \A v \in Visits : visit[v].status = "none" => visit[v].rec = 0
  /\ \A p \in Actors : Exists(task[p].v)
  /\ \A o \in Orders : Exists(order[o].visit)
  /\ \A k \in Records : Exists(crm[k].visit)

Sends == {"create", "record"}

Sending(p, v) == task[p].v = v /\ task[p].pc \in Sends

\* A row that was never sent by two at once: one actor at most is sending it, and then it
\* has no record; a record that was heard of is the row's, or is about to be.
Sole ==
  \A v \in Visits : "doubled" \notin mishap[v] =>
    /\ \A p, q \in Actors : Sending(p, v) /\ Sending(q, v) => p = q
    /\ \A p \in Actors : Sending(p, v) => visit[v].rec = 0
    /\ \A k \in Records : crm[k].visit = v /\ crm[k].heard =>
         \/ visit[v].rec = k
         \/ \E p \in Actors : Sending(p, v) /\ task[p].pc = "record" /\ task[p].rec = k

\* What the steps do that neither begin nor end a sending.
ExistsNext(v) == v # 0 => visit'[v].status # "none"

TaskSteady(t, u) ==
  (u.v = t.v \/ ExistsNext(u.v)) /\ t.pc \notin Sends /\ u.pc \notin Sends

TasksSteady == \A p \in Actors : task'[p] = task[p] \/ TaskSteady(task[p], task'[p])

RowsStay ==
  \A v \in Visits :
    /\ visit[v].status # "none" => visit'[v].status # "none"
    /\ visit'[v].status = "none" => visit'[v].rec = visit[v].rec

RowsSteady ==
  RowsStay /\ \A v \in Visits : visit[v].status # "none" => visit'[v].rec = visit[v].rec

OrdersSteady ==
  \A o \in Orders : order'[o].visit = order[o].visit \/ ExistsNext(order'[o].visit)

CrmSteady ==
  \A k \in Records : crm'[k].visit = crm[k].visit /\ crm'[k].heard = crm[k].heard

Steady == TasksSteady /\ RowsSteady /\ OrdersSteady /\ CrmSteady

MishapsStay == \A v \in Visits : mishap[v] \subseteq mishap'[v]

\* References to rows stay good as long as the rows do.
LEMMA ExistsStays ==
  ASSUME RowsStay, NEW v \in Visits \cup {0}, Exists(v)
  PROVE  ExistsNext(v)
BY DEF RowsStay, Exists, ExistsNext

LEMMA ReferencesKept ==
  ASSUME Typed, RowsExist, RowsStay, OrdersSteady,
         \A p \in Actors : task'[p].v = task[p].v \/ ExistsNext(task'[p].v),
         \A k \in Records : crm'[k].visit = crm[k].visit \/ ExistsNext(crm'[k].visit)
  PROVE  RowsExist'
<1>1. ASSUME NEW p \in Actors PROVE ExistsNext(task'[p].v)
  <2>1. task[p].v \in Visits \cup {0} /\ Exists(task[p].v)
    BY TaskType DEF Typed, TaskRow, RowsExist
  <2> QED
    BY <2>1, ExistsStays
<1>2. ASSUME NEW o \in Orders PROVE ExistsNext(order'[o].visit)
  <2>1. order[o].visit \in Visits \cup {0} /\ Exists(order[o].visit)
    BY DEF Typed, TypeOK, OrderRow, RowsExist
  <2> QED
    BY <2>1, ExistsStays DEF OrdersSteady
<1>3. ASSUME NEW k \in Records PROVE ExistsNext(crm'[k].visit)
  <2>1. crm[k].visit \in Visits \cup {0} /\ Exists(crm[k].visit)
    BY DEF Typed, TypeOK, RecordRow, RowsExist
  <2> QED
    BY <2>1, ExistsStays
<1>4. \A v \in Visits : visit'[v].status = "none" => visit'[v].rec = 0
  BY DEF RowsExist, RowsStay
<1> QED
  BY <1>1, <1>2, <1>3, <1>4 DEF RowsExist, Exists, ExistsNext

LEMMA SteadyKeeps ==
  ASSUME Typed, RowsExist, Sole, Steady, MishapsStay
  PROVE  RowsExist' /\ Sole'
<1>1. RowsExist'
  BY ReferencesKept DEF Steady, RowsSteady, TasksSteady, TaskSteady, CrmSteady
<1>2. \A p \in Actors, v \in Visits : Sending(p, v)' => Sending(p, v) /\ task'[p] = task[p]
  BY DEF Steady, TasksSteady, TaskSteady, Sending
<1>3. \A p \in Actors, v \in Visits : Sending(p, v) => Sending(p, v)' /\ task'[p] = task[p]
  BY DEF Steady, TasksSteady, TaskSteady, Sending
<1>4. ASSUME NEW v \in Visits, "doubled" \notin mishap'[v]
      PROVE  /\ \A p, q \in Actors : Sending(p, v)' /\ Sending(q, v)' => p = q
             /\ \A p \in Actors : Sending(p, v)' => visit'[v].rec = 0
             /\ \A k \in Records : crm'[k].visit = v /\ crm'[k].heard =>
                  \/ visit'[v].rec = k
                  \/ \E p \in Actors :
                       Sending(p, v)' /\ task'[p].pc = "record" /\ task'[p].rec = k
  <2>1. "doubled" \notin mishap[v] /\ v # 0
    BY <1>4, BoundsAssumption DEF MishapsStay
  <2>2. \A p, q \in Actors : Sending(p, v)' /\ Sending(q, v)' => p = q
    BY <1>2, <2>1 DEF Sole
  <2>3. ASSUME NEW p \in Actors, Sending(p, v)' PROVE visit'[v].rec = 0
    <3>1. Sending(p, v) /\ task[p].v = v
      BY <1>2, <2>3 DEF Sending
    <3>2. visit[v].status # "none"
      BY <2>1, <3>1 DEF RowsExist, Exists
    <3> QED
      BY <2>1, <3>1, <3>2 DEF Sole, Steady, RowsSteady
  <2>4. ASSUME NEW k \in Records, crm'[k].visit = v, crm'[k].heard
        PROVE  \/ visit'[v].rec = k
               \/ \E p \in Actors :
                    Sending(p, v)' /\ task'[p].pc = "record" /\ task'[p].rec = k
    <3>1. crm[k].visit = v /\ crm[k].heard
      BY <2>4 DEF Steady, CrmSteady
    <3>2. visit[v].status # "none"
      BY <2>1, <3>1 DEF RowsExist, Exists
    <3>3. CASE visit[v].rec = k
      BY <3>2, <3>3 DEF Steady, RowsSteady
    <3>4. ASSUME NEW p \in Actors, Sending(p, v), task[p].pc = "record", task[p].rec = k
          PROVE  Sending(p, v)' /\ task'[p].pc = "record" /\ task'[p].rec = k
      BY <1>3, <3>4
    <3> QED
      BY <2>1, <3>1, <3>3, <3>4 DEF Sole
  <2> QED
    BY <2>2, <2>3, <2>4
<1>5. Sole'
  BY <1>4 DEF Sole
<1> QED
  BY <1>1, <1>5

LEMMA TaskSteadies ==
  ASSUME Typed, NEW p \in Actors, NEW row, task' = [task EXCEPT ![p] = row],
         TaskSteady(task[p], row)
  PROVE  TasksSteady
BY DEF Typed, TypeOK, TasksSteady

LEMMA PcSteadies ==
  ASSUME Typed, NEW p \in Actors, NEW q, task' = [task EXCEPT ![p].pc = q],
         q \notin Sends, task[p].pc \notin Sends
  PROVE  TasksSteady
<1> DEFINE row == [task[p] EXCEPT !.pc = q]
<1>1. row.pc = q /\ row.v = task[p].v
  BY TaskType DEF Typed, TaskRow
<1>2. task' = [task EXCEPT ![p] = row]
  OBVIOUS
<1> HIDE DEF row
<1>3. TaskSteady(task[p], row)
  BY <1>1 DEF TaskSteady
<1> QED
  BY <1>2, <1>3, TaskSteadies

LEMMA DoneSteadies ==
  ASSUME Typed, NEW p \in Actors, task' = Done(p), task[p].pc \notin Sends
  PROVE  TasksSteady
<1>1. TaskSteady(task[p], Idle)
  BY DEF Idle, TaskSteady, ExistsNext, Sends
<1> QED
  BY <1>1, TaskSteadies DEF Done

LEMMA SameAll ==
  /\ UNCHANGED visit => RowsSteady
  /\ UNCHANGED order => OrdersSteady
  /\ UNCHANGED crm => CrmSteady
  /\ UNCHANGED task => TasksSteady
BY DEF RowsSteady, RowsStay, OrdersSteady, CrmSteady, TasksSteady

LEMMA BookingSteady ==
  ASSUME Typed, RowsExist,
         \/ \E slot \in Slots, s \in Services : Book(slot, s)
         \/ RefuseBook \/ FindVisit \/ MergeVisit \/ CreateVisit \/ FindOrder \/ MirrorOrder
         \/ GateClosed \/ GateOpen \/ MirrorOff
  PROVE  Steady
<1> DEFINE t == task[Bot]
<1>0. t \in TaskRow
  BY TaskType DEF Typed
<1>1. ASSUME NEW slot \in Slots, NEW s \in Services, Book(slot, s)
      PROVE  Steady
  <2> DEFINE row == [Idle EXCEPT !.pc = "find", !.op = "book", !.slot = slot, !.want = {s}]
  <2>1. row.v = 0 /\ row.pc = "find"
    BY DEF Idle
  <2>2. task' = [task EXCEPT ![Bot] = row]
    BY <1>1 DEF Book
  <2>3. UNCHANGED <<visit, order, crm>> /\ t.pc = "idle"
    BY <1>1 DEF Book
  <2> HIDE DEF row
  <2>4. TaskSteady(t, row)
    BY <2>1, <2>3 DEF TaskSteady, ExistsNext, Sends
  <2>5. TasksSteady
    BY <2>2, <2>4, TaskSteadies
  <2> QED
    BY <2>3, <2>5, SameAll DEF Steady
<1>2. CASE RefuseBook
  <2>1. task' = Done(Bot) /\ UNCHANGED <<visit, order, crm>> /\ t.pc = "find"
    BY <1>2 DEF RefuseBook, Done
  <2>2. TasksSteady
    BY <2>1, DoneSteadies DEF Sends
  <2> QED
    BY <2>1, <2>2, SameAll DEF Steady
<1>3. CASE FindVisit
  <2>1. PICK v \in Visits \cup {0}, found \in VisitRow :
          /\ task' = [task EXCEPT ![Bot] = [t EXCEPT !.pc = "store", !.v = v, !.seen = found]]
          /\ v # 0 => visit[v].status # "none"
    BY <1>3, RowTypes DEF FindVisit, IsLast, MergeTargets, Typed, TypeOK
  <2> DEFINE row == [t EXCEPT !.pc = "store", !.v = v, !.seen = found]
  <2>2. row.pc = "store" /\ row.v = v
    BY <1>0 DEF TaskRow
  <2>3. task' = [task EXCEPT ![Bot] = row]
    BY <2>1
  <2>4. UNCHANGED <<visit, order, crm>> /\ t.pc = "find"
    BY <1>3 DEF FindVisit
  <2> HIDE DEF row
  <2>5. TaskSteady(t, row)
    BY <2>1, <2>2, <2>4 DEF TaskSteady, ExistsNext, Sends
  <2>6. TasksSteady
    BY <2>3, <2>5, TaskSteadies
  <2> QED
    BY <2>4, <2>6, SameAll DEF Steady
<1>4. CASE MergeVisit
  <2> DEFINE adds == t.want \ t.seen.services # {}
             want == t.seen.services \cup t.want
             row == [t EXCEPT !.pc = "order", !.adds = adds, !.want = want]
  <2>1. task' = [task EXCEPT ![Bot] = row]
    BY <1>4 DEF MergeVisit
  <2>2. row.pc = "order" /\ row.v = t.v
    <3> HIDE DEF adds, want
    <3> QED
      BY <1>0 DEF TaskRow
  <2>3. t.pc = "store" /\ UNCHANGED <<order, crm>>
    BY <1>4 DEF MergeVisit
  <2> HIDE DEF row
  <2>4. RowsSteady
    BY <1>4 DEF MergeVisit, RowsSteady, RowsStay, Typed, TypeOK, VisitRow
  <2>5. TaskSteady(t, row)
    BY <2>2, <2>3 DEF TaskSteady, Sends
  <2>6. TasksSteady
    BY <2>1, <2>5, TaskSteadies
  <2> QED
    BY <2>3, <2>4, <2>6, SameAll DEF Steady
<1>5. CASE CreateVisit
  <2> DEFINE new == [slot |-> t.slot, services |-> t.want, status |-> "confirmed",
                     rec |-> 0, sync |-> "pending"]
  <2>1. PICK v \in FreshVisits :
          /\ visit' = [visit EXCEPT ![v] = new]
          /\ task' = [task EXCEPT ![Bot] = [t EXCEPT !.pc = "order", !.v = v, !.adds = TRUE]]
    BY <1>5 DEF CreateVisit, IsFirst
  <2> DEFINE row == [t EXCEPT !.pc = "order", !.v = v, !.adds = TRUE]
  <2>2. row.pc = "order" /\ row.v = v
    BY <1>0 DEF TaskRow
  <2>3. t.pc = "store" /\ UNCHANGED <<order, crm>>
    BY <1>5 DEF CreateVisit
  <2>4. RowsSteady /\ visit'[v].status = "confirmed"
    BY <2>1 DEF RowsSteady, RowsStay, FreshVisits, Typed, TypeOK
  <2>5. task' = [task EXCEPT ![Bot] = row]
    BY <2>1
  <2> HIDE DEF row
  <2>6. TaskSteady(t, row)
    BY <2>2, <2>3, <2>4 DEF TaskSteady, ExistsNext, Sends
  <2>7. TasksSteady
    BY <2>5, <2>6, TaskSteadies
  <2> QED
    BY <2>3, <2>4, <2>7, SameAll DEF Steady
<1>10. CASE FindOrder
  <2>1. PICK q \in {"writeOrder", "gate"}, i \in Orders \cup {0} :
          task' = [task EXCEPT ![Bot] = [t EXCEPT !.pc = q, !.ord = i]]
    BY <1>10, FindOrderCases
  <2> DEFINE row == [t EXCEPT !.pc = q, !.ord = i]
  <2>2. row.pc = q /\ row.v = t.v
    BY <1>0 DEF TaskRow
  <2>3. task' = [task EXCEPT ![Bot] = row]
    BY <2>1
  <2>4. UNCHANGED <<visit, order, crm>> /\ t.pc = "order"
    BY <1>10 DEF FindOrder
  <2> HIDE DEF row
  <2>5. TaskSteady(t, row)
    BY <2>2, <2>4 DEF TaskSteady, Sends
  <2>6. TasksSteady
    BY <2>3, <2>5, TaskSteadies
  <2> QED
    BY <2>4, <2>6, SameAll DEF Steady
<1>6. CASE MirrorOrder
  <2>1. /\ UNCHANGED <<visit, crm>> /\ t.pc = "writeOrder"
        /\ task' = [task EXCEPT ![Bot].pc = "gate"]
    BY <1>6 DEF MirrorOrder
  <2>2. ExistsNext(t.v)
    BY <2>1 DEF RowsExist, Exists, ExistsNext
  <2>3. ASSUME order' = [order EXCEPT ![t.ord].visit = t.v, ![t.ord].slot = t.slot]
        PROVE  OrdersSteady
    BY <2>2, <2>3 DEF OrdersSteady, Typed, TypeOK, OrderRow
  <2>5. ASSUME NewOrder(t.v, t.slot) PROVE OrdersSteady
    BY <2>2, <2>5 DEF NewOrder, OrdersSteady, Typed, TypeOK
  <2>6. OrdersSteady
    BY <1>6, <2>3, <2>5, SameAll DEF MirrorOrder
  <2>7. "gate" \notin Sends /\ t.pc \notin Sends
    BY <2>1 DEF Sends
  <2>8. TasksSteady
    BY <2>1, <2>7, PcSteadies
  <2> QED
    BY <2>1, <2>6, <2>8, SameAll DEF Steady
<1>7. CASE GateClosed
  <2>1. RowsSteady
    BY <1>7 DEF GateClosed, RowsSteady, RowsStay, Typed, TypeOK, VisitRow
  <2>2. task' = Done(Bot) /\ UNCHANGED <<order, crm>> /\ t.pc = "gate"
    BY <1>7 DEF GateClosed, Done
  <2>3. TasksSteady
    BY <2>2, DoneSteadies DEF Sends
  <2> QED
    BY <2>1, <2>2, <2>3, SameAll DEF Steady
<1>8. CASE GateOpen
  <2>1. /\ UNCHANGED <<visit, order, crm>> /\ t.pc = "gate"
        /\ \/ task' = [task EXCEPT ![Bot].pc = "load"]
           \/ task' = [task EXCEPT ![Bot].pc = "appendLoad"]
           \/ task' = Done(Bot)
    BY <1>8 DEF GateOpen, Done, Typed, TypeOK
  <2>2. "load" \notin Sends /\ "appendLoad" \notin Sends /\ t.pc \notin Sends
    BY <2>1 DEF Sends
  <2>3. TasksSteady
    BY <2>1, <2>2, PcSteadies, DoneSteadies
  <2> QED
    BY <2>1, <2>3, SameAll DEF Steady
<1>9. CASE MirrorOff
  <2>1. /\ UNCHANGED <<visit, order, crm>> /\ t.pc = "load"
        /\ task' = [task EXCEPT ![Bot].pc = "reread"]
    BY <1>9 DEF MirrorOff
  <2>2. "reread" \notin Sends /\ t.pc \notin Sends
    BY <2>1 DEF Sends
  <2>3. TasksSteady
    BY <2>1, <2>2, PcSteadies
  <2> QED
    BY <2>1, <2>3, SameAll DEF Steady
<1> QED
  BY <1>1, <1>2, <1>3, <1>4, <1>5, <1>6, <1>7, <1>8, <1>9, <1>10

LEMMA MirrorSteady ==
  ASSUME Typed, RowsExist, NEW p \in Actors, MirrorKnown(p) \/ Reflect(p)
  PROVE  Steady
<1> DEFINE t == task[p]
<1>0. t \in TaskRow
  BY TaskType DEF Typed
<1>1. CASE MirrorKnown(p)
  <2> DEFINE row == [t EXCEPT !.pc = "reflect", !.rec = visit[t.v].rec]
  <2>1. row.pc = "reflect" /\ row.v = t.v
    BY <1>0 DEF TaskRow
  <2>2. t.pc = "load" /\ UNCHANGED <<order, crm>>
    BY <1>1 DEF MirrorKnown
  <2>3. task' = [task EXCEPT ![p] = row]
    BY <1>1 DEF MirrorKnown
  <2> HIDE DEF row
  <2>4. RowsSteady
    BY <1>1 DEF MirrorKnown, RowsSteady, RowsStay, Typed, TypeOK, VisitRow
  <2>5. TaskSteady(t, row)
    BY <2>1, <2>2 DEF TaskSteady, Sends
  <2>6. TasksSteady
    BY <2>3, <2>5, TaskSteadies
  <2> QED
    BY <2>2, <2>4, <2>6, SameAll DEF Steady
<1>2. CASE Reflect(p)
  <2>1. /\ UNCHANGED <<visit, crm>> /\ t.pc = "reflect"
        /\ task' = [task EXCEPT ![p].pc = "reread"] \/ task' = Done(p)
    BY <1>2 DEF Reflect
  <2>2. \A o \in Orders : order'[o].visit = order[o].visit
    BY <1>2 DEF Reflect, SyncOrders, Typed, TypeOK, OrderRow
  <2>3. TasksSteady
    BY <2>1, PcSteadies, DoneSteadies DEF Sends
  <2> QED
    BY <2>1, <2>2, <2>3, SameAll DEF Steady, OrdersSteady
<1> QED
  BY <1>1, <1>2

LEMMA AppendSteady ==
  ASSUME Typed, LoadForAppend \/ AppendServices \/ RecordAppend \/ RereadAndConfirm
  PROVE  Steady
<1> DEFINE t == task[Bot]
<1>0. t \in TaskRow
  BY TaskType DEF Typed
<1>1. CASE LoadForAppend
  <2> DEFINE sent == IF altegio THEN visit[t.v].services
                     ELSE visit[t.v].services \ t.seen.services
             row == [t EXCEPT !.pc = "append", !.rec = visit[t.v].rec, !.sent = sent]
  <2>1. task' = [task EXCEPT ![Bot] = row]
    BY <1>1 DEF LoadForAppend
  <2>2. row.pc = "append" /\ row.v = t.v
    BY <1>0 DEF TaskRow
  <2>3. t.pc = "appendLoad" /\ UNCHANGED <<visit, order, crm>>
    BY <1>1 DEF LoadForAppend
  <2> HIDE DEF row
  <2>4. TaskSteady(t, row)
    BY <2>2, <2>3 DEF TaskSteady, Sends
  <2>5. TasksSteady
    BY <2>1, <2>4, TaskSteadies
  <2> QED
    BY <2>3, <2>5, SameAll DEF Steady
<1>2. CASE AppendServices
  <2> DEFINE lines == IF altegio THEN t.sent ELSE crm[t.rec].services \cup t.sent
             grown == [crm EXCEPT ![t.rec].services = lines]
  <2>1. crm' \in {crm, grown}
    BY <1>2 DEF AppendServices
  <2> HIDE DEF lines
  <2>2. \A k \in Records : grown[k].visit = crm[k].visit /\ grown[k].heard = crm[k].heard
    BY DEF Typed, TypeOK, RecordRow
  <2> HIDE DEF grown
  <2>3. CrmSteady
    BY <2>1, <2>2 DEF CrmSteady
  <2>4. /\ UNCHANGED <<visit, order>> /\ t.pc = "append"
        /\ task' = [task EXCEPT ![Bot].pc = "recordAppend"] \/ task' = Done(Bot)
    BY <1>2 DEF AppendServices
  <2>5. TasksSteady
    BY <2>4, PcSteadies, DoneSteadies DEF Sends
  <2> QED
    BY <2>3, <2>4, <2>5, SameAll DEF Steady
<1>3. CASE RecordAppend
  <2>1. RowsSteady
    BY <1>3 DEF RecordAppend, RowsSteady, RowsStay, Typed, TypeOK, VisitRow
  <2>2. /\ UNCHANGED <<order, crm>> /\ t.pc = "recordAppend"
        /\ task' = [task EXCEPT ![Bot].pc = "reflect"]
    BY <1>3 DEF RecordAppend
  <2>3. "reflect" \notin Sends /\ t.pc \notin Sends
    BY <2>2 DEF Sends
  <2>4. TasksSteady
    BY <2>2, <2>3, PcSteadies
  <2> QED
    BY <2>1, <2>2, <2>4, SameAll DEF Steady
<1>4. CASE RereadAndConfirm
  <2>1. UNCHANGED <<visit, order, crm>> /\ task' = Done(Bot) /\ t.pc = "reread"
    BY <1>4 DEF RereadAndConfirm
  <2>2. TasksSteady
    BY <2>1, DoneSteadies DEF Sends
  <2> QED
    BY <2>1, <2>2, SameAll DEF Steady
<1> QED
  BY <1>1, <1>2, <1>3, <1>4

LEMMA BeginSteady ==
  ASSUME Typed, NEW op, NEW v, NEW row, NEW slot, NEW lines,
         task[Bot].pc = "idle", ExistsNext(v), Begin(op, v, row, slot, lines)
  PROVE  TasksSteady
<1> DEFINE inCrm == row.rec # 0 /\ writes
           first == IF inCrm THEN IF op = "remove" THEN "crmRemove" ELSE "crmCancel"
                    ELSE IF op # "remove" \/ row.services \ lines = {} THEN "markVisit"
                    ELSE "storeServices"
           old == IF inCrm /\ op = "move" THEN row.rec ELSE 0
           new == [Idle EXCEPT !.pc = first, !.op = op, !.v = v, !.seen = row, !.slot = slot,
                               !.want = lines, !.old = old]
<1>1. first \notin Sends /\ task[Bot].pc \notin Sends
  BY DEF Sends
<1>2. task' = [task EXCEPT ![Bot] = new]
  BY DEF Begin
<1> HIDE DEF first, old
<1>3. new.pc = first /\ new.v = v
  BY DEF Idle
<1> HIDE DEF new
<1>4. TaskSteady(task[Bot], new)
  BY <1>1, <1>3 DEF TaskSteady
<1> QED
  BY <1>2, <1>4, TaskSteadies

LEMMA ToolSteady ==
  ASSUME Typed, RowsExist, NEW op, NEW slot, NEW lines, StartTool(op, slot, lines)
  PROVE  Steady
<1>1. UNCHANGED <<order, crm>> /\ task[Bot].pc = "idle"
  BY DEF StartTool
<1>2. ASSUME UNCHANGED visit, NEW v \in Visits, visit[v].status # "none",
             Begin(op, v, visit[v], slot, lines)
      PROVE  Steady
  <2>1. ExistsNext(v)
    BY <1>2 DEF ExistsNext
  <2>2. TasksSteady
    BY <1>1, <1>2, <2>1, BeginSteady
  <2> QED
    BY <1>1, <1>2, <2>2, SameAll DEF Steady
<1>3. ASSUME NEW k \in Records, NEW v \in FreshVisits,
             visit' = [visit EXCEPT ![v] =
               [slot |-> crm[k].slot, services |-> crm[k].services, status |-> "synced",
                rec |-> k, sync |-> "synced"]],
             Begin(op, v, [slot |-> crm[k].slot, services |-> crm[k].services,
                           status |-> "synced", rec |-> k, sync |-> "synced"], slot, lines)
      PROVE  Steady
  <2> DEFINE row == [slot |-> crm[k].slot, services |-> crm[k].services,
                     status |-> "synced", rec |-> k, sync |-> "synced"]
  <2>1. visit' = [visit EXCEPT ![v] = row] /\ Begin(op, v, row, slot, lines)
    BY <1>3
  <2>2. row.status = "synced"
    OBVIOUS
  <2> HIDE DEF row
  <2>3. RowsSteady /\ ExistsNext(v)
    BY <2>1, <2>2 DEF RowsSteady, RowsStay, ExistsNext, FreshVisits, Typed, TypeOK
  <2>4. TasksSteady
    BY <1>1, <2>1, <2>3, BeginSteady
  <2> QED
    BY <1>1, <2>3, <2>4, SameAll DEF Steady
<1>4. CASE ResolveLocal(op, slot, lines)
  <2>1. UNCHANGED visit
    BY <1>4 DEF ResolveLocal
  <2>2. PICK v \in Active : Begin(op, v, visit[v], slot, lines)
    BY <1>4 DEF ResolveLocal, IsLast
  <2>3. v \in Visits /\ visit[v].status # "none"
    BY DEF Active
  <2> QED
    BY <1>2, <2>1, <2>2, <2>3
<1>5. CASE ResolveInCrm(op, slot, lines)
  <2>1. PICK k \in Upcoming :
          \/ \E v \in Visits : /\ visit[v].rec = k
                               /\ Begin(op, v, visit[v], slot, lines) /\ UNCHANGED visit
          \/ \E v \in FreshVisits :
               LET row == [slot |-> crm[k].slot, services |-> crm[k].services,
                           status |-> "synced", rec |-> k, sync |-> "synced"]
               IN visit' = [visit EXCEPT ![v] = row] /\ Begin(op, v, row, slot, lines)
    BY <1>5 DEF ResolveInCrm, IsFirst
  <2>2. k \in Records
    BY DEF Upcoming
  <2>3. CASE \E v \in Visits : /\ visit[v].rec = k
                               /\ Begin(op, v, visit[v], slot, lines) /\ UNCHANGED visit
    <3>1. PICK v \in Visits : /\ visit[v].rec = k
                              /\ Begin(op, v, visit[v], slot, lines) /\ UNCHANGED visit
      BY <2>3
    <3>2. visit[v].status # "none"
      BY <2>2, <3>1, BoundsAssumption DEF RowsExist
    <3> QED
      BY <1>2, <3>1, <3>2
  <2>4. CASE \E v \in FreshVisits :
               LET row == [slot |-> crm[k].slot, services |-> crm[k].services,
                           status |-> "synced", rec |-> k, sync |-> "synced"]
               IN visit' = [visit EXCEPT ![v] = row] /\ Begin(op, v, row, slot, lines)
    BY <1>3, <2>2, <2>4
  <2> QED
    BY <2>1, <2>3, <2>4
<1> QED
  BY <1>4, <1>5 DEF StartTool

LEMMA CancelSteady ==
  ASSUME Typed, NEW p \in Actors, CancelBooking(p) \/ MarkVisit(p) \/ MarkOrders(p)
  PROVE  Steady
<1> DEFINE t == task[p]
<1>0. t \in TaskRow /\ "markVisit" \notin Sends /\ "markOrders" \notin Sends
  BY TaskType DEF Typed, Sends
<1>1. CASE CancelBooking(p)
  <2> DEFINE gone == [crm EXCEPT ![t.seen.rec].live = FALSE]
  <2>1. UNCHANGED <<visit, order>> /\ t.pc = "crmCancel" /\ crm' \in {crm, gone}
    BY <1>1 DEF CancelBooking
  <2>2. task' = Done(p) \/ task' = [task EXCEPT ![p].pc = "markVisit"]
    BY <1>1 DEF CancelBooking
  <2>3. \A k \in Records : gone[k].visit = crm[k].visit /\ gone[k].heard = crm[k].heard
    BY DEF Typed, TypeOK, RecordRow
  <2> HIDE DEF gone
  <2>4. CrmSteady
    BY <2>1, <2>3 DEF CrmSteady
  <2>5. t.pc \notin Sends
    BY <2>1 DEF Sends
  <2>6. TasksSteady
    BY <1>0, <2>2, <2>5, PcSteadies, DoneSteadies
  <2> QED
    BY <2>1, <2>4, <2>6, SameAll DEF Steady
<1>2. CASE MarkVisit(p)
  <2>1. /\ UNCHANGED <<order, crm>> /\ t.pc \notin Sends
        /\ task' = [task EXCEPT ![p].pc = "markOrders"]
    BY <1>2 DEF MarkVisit, Sends
  <2>2. RowsSteady
    BY <1>2 DEF MarkVisit, RowsSteady, RowsStay, Typed, TypeOK, VisitRow
  <2>3. TasksSteady
    BY <1>0, <2>1, PcSteadies
  <2> QED
    BY <2>1, <2>2, <2>3, SameAll DEF Steady
<1>3. CASE MarkOrders(p)
  <2> DEFINE row == [t EXCEPT !.pc = "find", !.v = 0, !.want = t.seen.services,
                              !.seen = NoVisit]
  <2>1. row.pc = "find" /\ row.v = 0
    BY <1>0 DEF TaskRow
  <2>2. task' = [task EXCEPT ![p] = row] \/ task' = Done(p)
    BY <1>3 DEF MarkOrders
  <2>3. UNCHANGED <<visit, crm>> /\ t.pc \notin Sends
    BY <1>3 DEF MarkOrders, Sends
  <2> HIDE DEF row
  <2>4. TaskSteady(t, row)
    BY <2>1, <2>3 DEF TaskSteady, ExistsNext, Sends
  <2>5. TasksSteady
    BY <2>2, <2>3, <2>4, TaskSteadies, DoneSteadies
  <2>6. \A o \in Orders : order'[o].visit = order[o].visit
    BY <1>3 DEF MarkOrders, Typed, TypeOK, OrderRow
  <2> QED
    BY <2>3, <2>5, <2>6, SameAll DEF Steady, OrdersSteady
<1> QED
  BY <1>1, <1>2, <1>3

LEMMA RemoveSteady ==
  ASSUME Typed, RemoveService \/ StoreServices
  PROVE  Steady
<1> DEFINE t == task[Bot]
<1>1. CASE RemoveService
  <2> DEFINE k == t.seen.rec
             rest == crm[k].services \ t.want
             lines == IF rest = {} THEN crm[k].services ELSE rest
             live == IF rest = {} THEN FALSE ELSE crm[k].live
             thinned == [crm EXCEPT ![k].services = lines, ![k].live = live]
  <2>1. crm' \in {crm, thinned} /\ UNCHANGED <<visit, order>> /\ t.pc = "crmRemove"
    BY <1>1 DEF RemoveService
  <2> HIDE DEF lines, live
  <2>2. \A j \in Records : thinned[j].visit = crm[j].visit /\ thinned[j].heard = crm[j].heard
    BY DEF Typed, TypeOK, RecordRow
  <2> HIDE DEF thinned
  <2>3. CrmSteady
    BY <2>1, <2>2 DEF CrmSteady
  <2>4. \/ task' = [task EXCEPT ![Bot].pc = "markVisit"]
        \/ task' = [task EXCEPT ![Bot].pc = "storeServices"]
        \/ task' = Done(Bot)
    BY <1>1 DEF RemoveService
  <2>5. "markVisit" \notin Sends /\ "storeServices" \notin Sends /\ t.pc \notin Sends
    BY <2>1 DEF Sends
  <2>6. TasksSteady
    BY <2>4, <2>5, PcSteadies, DoneSteadies
  <2> QED
    BY <2>1, <2>3, <2>6, SameAll DEF Steady
<1>2. CASE StoreServices
  <2>1. RowsSteady
    BY <1>2 DEF StoreServices, RowsSteady, RowsStay, Typed, TypeOK, VisitRow
  <2>2. UNCHANGED <<order, crm>> /\ task' = Done(Bot) /\ t.pc \notin Sends
    BY <1>2 DEF StoreServices, Sends
  <2>3. TasksSteady
    BY <2>2, DoneSteadies
  <2> QED
    BY <2>1, <2>2, <2>3, SameAll DEF Steady
<1> QED
  BY <1>1, <1>2

LEMMA ManagerSteady ==
  ASSUME Typed, RowsExist, NEW m \in Managers, ManagerStep(m), ~LinkSameDay(m)
  PROVE  Steady
<1>1. ASSUME NEW o \in Orders, Retry(m, o) \/ AdminCancel(m, o) \/ AssignMasters(m, o)
      PROVE  Steady
  <2>1. PICK row \in TaskRow : Asks(m, o, row)
    BY <1>1, RequestCases
  <2>2. /\ task' = [task EXCEPT ![m] = row] /\ UNCHANGED <<visit, order, crm>>
        /\ row.v = order[o].visit
    BY <2>1 DEF Asks
  <2>3. row.pc \notin Sends /\ task[m].pc \notin Sends
    BY <2>1 DEF Asks, Sends
  <2>4. ExistsNext(row.v)
    BY <2>2 DEF RowsExist, Exists, ExistsNext
  <2>5. TaskSteady(task[m], row)
    BY <2>3, <2>4 DEF TaskSteady
  <2>6. TasksSteady
    BY <2>2, <2>5, TaskSteadies
  <2> QED
    BY <2>2, <2>6, SameAll DEF Steady
<1>2. CASE StoreMasters(m)
  <2>1. RowsSteady
    BY <1>2 DEF StoreMasters, RowsSteady, RowsStay, Typed, TypeOK, VisitRow
  <2>2. UNCHANGED <<order, crm>> /\ task' = Done(m) /\ task[m].pc \notin Sends
    BY <1>2 DEF StoreMasters, Sends
  <2>3. TasksSteady
    BY <2>2, DoneSteadies
  <2> QED
    BY <2>1, <2>2, <2>3, SameAll DEF Steady
<1>3. CASE RereadAndReflect(m)
  <2>1. UNCHANGED <<visit, crm>> /\ task' = Done(m) /\ task[m].pc \notin Sends
    BY <1>3 DEF RereadAndReflect, Sends
  <2>2. \A o \in Orders : order'[o].visit = order[o].visit
    BY <1>3 DEF RereadAndReflect, SyncOrders, Typed, TypeOK, OrderRow
  <2>3. TasksSteady
    BY <2>1, DoneSteadies
  <2> QED
    BY <2>1, <2>2, <2>3, SameAll DEF Steady, OrdersSteady
<1> QED
  BY <1>1, <1>2, <1>3 DEF ManagerStep

LEMMA WorldSteady ==
  ASSUME Typed, World, ~Crash
  PROVE  Steady
<1>1. ASSUME NEW k \in Records, \/ SalonCancels(k)
                                \/ \E slot \in Slots : SalonMoves(k, slot)
      PROVE  Steady
  <2>1. \A j \in Records : crm'[j].visit = crm[j].visit /\ crm'[j].heard = crm[j].heard
    <3>1. CASE SalonCancels(k)
      BY <3>1 DEF SalonCancels, Typed, TypeOK, RecordRow
    <3>2. ASSUME NEW slot \in Slots, SalonMoves(k, slot)
          PROVE  \A j \in Records : crm'[j].visit = crm[j].visit /\ crm'[j].heard = crm[j].heard
      BY <3>2 DEF SalonMoves, Typed, TypeOK, RecordRow
    <3> QED
      BY <1>1, <3>1, <3>2
  <2>2. UNCHANGED <<visit, order, task>>
    BY <1>1 DEF SalonCancels, SalonMoves
  <2> QED
    BY <2>1, <2>2, SameAll DEF Steady, CrmSteady
<1>2. CASE SetWrites
  <2>1. UNCHANGED <<visit, order, crm, task>>
    BY <1>2 DEF SetWrites
  <2> QED
    BY <2>1, SameAll DEF Steady
<1>3. ASSUME NEW h \in hooks, ApplyHook(h)
      PROVE  Steady
  <2>1. UNCHANGED <<order, crm, task>>
    BY <1>3 DEF ApplyHook
  <2>2. ASSUME NEW v \in Visits
        PROVE  /\ visit'[v].rec = visit[v].rec
               /\ visit[v].status # "none" => visit'[v].status # "none"
    <3> DEFINE cancelled == [visit[v] EXCEPT !.status = "cancelled", !.sync = "synced"]
               moved == [visit[v] EXCEPT !.slot = h.slot, !.sync = "synced"]
    <3>1. visit[v] \in VisitRow
      BY DEF Typed, TypeOK
    <3>2. visit'[v] = visit[v] \/ visit'[v] = cancelled \/ visit'[v] = moved
      BY <1>3 DEF ApplyHook
    <3> QED
      BY <3>1, <3>2 DEF VisitRow
  <2> QED
    BY <2>1, <2>2, SameAll DEF Steady, RowsSteady, RowsStay
<1> QED
  BY <1>1, <1>2, <1>3 DEF World

\* A record that was heard of has a row or a sender.
Owned(v, k) ==
  \/ visit[v].rec = k
  \/ \E p \in Actors : Sending(p, v) /\ task[p].pc = "record" /\ task[p].rec = k

LEMMA MirrorNewKeeps ==
  ASSUME Typed, RowsExist, Sole, MishapsStay, NEW p \in Actors, MirrorNew(p)
  PROVE  RowsExist' /\ Sole'
<1> DEFINE t == task[p]
           row == [t EXCEPT !.pc = "create", !.sent = visit[t.v].services]
<1>0. t \in TaskRow
  BY TaskType DEF Typed
<1>1. row.pc = "create" /\ row.v = t.v
  BY <1>0 DEF TaskRow
<1>2. task' = [task EXCEPT ![p] = row] /\ UNCHANGED <<visit, order, crm>>
  BY DEF MirrorNew
<1>3. t.pc = "load" /\ visit[t.v].rec = 0 /\ t.v \in Visits
  BY RowOf DEF MirrorNew
<1>4. Syncing(t.v) # {} => "doubled" \in mishap'[t.v]
  BY <1>3 DEF MirrorNew, Blame, Typed, TypeOK
<1> HIDE DEF row
<1>5. task'[p] = row /\ \A q \in Actors \ {p} : task'[q] = task[q]
  BY <1>2 DEF Typed, TypeOK
<1>6. RowsExist'
  <2>1. \A q \in Actors : task'[q].v = task[q].v
    BY <1>1, <1>5
  <2>2. RowsStay /\ OrdersSteady
    BY <1>2 DEF RowsStay, OrdersSteady
  <2> QED
    BY <1>2, <2>1, <2>2, ReferencesKept
<1>7. \A q \in Actors \ {p}, v \in Visits : Sending(q, v)' <=> Sending(q, v)
  BY <1>5 DEF Sending
<1>8. \A v \in Visits : /\ Sending(p, v)' <=> v = t.v
                        /\ ~Sending(p, v)
  BY <1>1, <1>3, <1>5 DEF Sending, Sends
<1>9. ASSUME NEW v \in Visits, "doubled" \notin mishap'[v]
      PROVE  /\ \A q, r \in Actors : Sending(q, v)' /\ Sending(r, v)' => q = r
             /\ \A q \in Actors : Sending(q, v)' => visit'[v].rec = 0
             /\ \A k \in Records : crm'[k].visit = v /\ crm'[k].heard =>
                  \/ visit'[v].rec = k
                  \/ \E q \in Actors :
                       Sending(q, v)' /\ task'[q].pc = "record" /\ task'[q].rec = k
  <2>1. "doubled" \notin mishap[v]
    BY <1>9 DEF MishapsStay
  <2>2. CASE v = t.v
    <3>1. \A q \in Actors : ~Sending(q, v)
      BY <1>4, <1>9, <2>2 DEF Syncing, Sending, Sends
    <3>2. \A q \in Actors : Sending(q, v)' => q = p
      BY <1>7, <3>1
    <3>3. \A k \in Records : crm[k].visit = v /\ crm[k].heard => visit[v].rec = k
      BY <2>1, <3>1 DEF Sole
    <3> QED
      BY <1>2, <1>3, <2>2, <3>2, <3>3
  <2>3. CASE v # t.v
    <3>1. \A q \in Actors : Sending(q, v)' <=> Sending(q, v)
      BY <1>7, <1>8, <2>3
    <3>2. \A q \in Actors : Sending(q, v) => task'[q] = task[q]
      BY <1>5, <1>8
    <3> QED
      BY <1>2, <2>1, <3>1, <3>2 DEF Sole
  <2> QED
    BY <2>2, <2>3
<1>10. Sole'
  BY <1>9 DEF Sole
<1> QED
  BY <1>6, <1>10

LEMMA CreateBookingKeeps ==
  ASSUME Typed, RowsExist, Sole, MishapsStay, NEW p \in Actors, CreateBooking(p)
  PROVE  RowsExist' /\ Sole'
<1>1. PICK k \in Records \cup {0}, heard \in BOOLEAN : Made(p, k, heard)
  BY CreateBookingCases
<1> DEFINE t == task[p]
           rec == IF heard THEN k ELSE 0
           row == [t EXCEPT !.pc = "record", !.rec = rec]
           new == [visit |-> t.v, slot |-> visit[t.v].slot, services |-> t.sent,
                   live |-> TRUE, heard |-> heard]
<1>0. t \in TaskRow
  BY TaskType DEF Typed
<1>2. row.pc = "record" /\ row.v = t.v /\ row.rec = rec
  BY <1>0 DEF TaskRow
<1>3. task' = [task EXCEPT ![p] = row] /\ crm' = [crm EXCEPT ![k] = new]
  BY <1>1 DEF Made
<1>4. t.pc = "create" /\ UNCHANGED <<visit, order>> /\ t.v \in Visits
  BY RowOf DEF CreateBooking
<1>5. new.visit = t.v /\ new.heard = heard
  OBVIOUS
<1> HIDE DEF row, new
<1>6. task'[p] = row /\ \A q \in Actors \ {p} : task'[q] = task[q]
  BY <1>3 DEF Typed, TypeOK
<1>7. \A j \in Records : crm'[j] = IF j = k THEN new ELSE crm[j]
  BY <1>3 DEF Typed, TypeOK
<1>8. RowsExist'
  <2>1. \A q \in Actors : task'[q].v = task[q].v
    BY <1>2, <1>6
  <2>2. RowsStay /\ OrdersSteady
    BY <1>4 DEF RowsStay, OrdersSteady
  <2>3. ExistsNext(t.v)
    BY <1>4 DEF RowsExist, Exists, ExistsNext
  <2>4. \A j \in Records : crm'[j].visit = crm[j].visit \/ ExistsNext(crm'[j].visit)
    BY <1>5, <1>7, <2>3
  <2> QED
    BY <2>1, <2>2, <2>4, ReferencesKept
<1>9. \A q \in Actors, v \in Visits : Sending(q, v)' <=> Sending(q, v)
  BY <1>2, <1>4, <1>6 DEF Sending, Sends
<1>10. Sending(p, t.v)
  BY <1>4 DEF Sending, Sends
<1>11. ASSUME NEW v \in Visits, "doubled" \notin mishap'[v]
       PROVE  /\ \A q, r \in Actors : Sending(q, v)' /\ Sending(r, v)' => q = r
              /\ \A q \in Actors : Sending(q, v)' => visit'[v].rec = 0
              /\ \A j \in Records : crm'[j].visit = v /\ crm'[j].heard =>
                   \/ visit'[v].rec = j
                   \/ \E q \in Actors :
                        Sending(q, v)' /\ task'[q].pc = "record" /\ task'[q].rec = j
  <2>1. "doubled" \notin mishap[v]
    BY <1>11 DEF MishapsStay
  <2>2. /\ \A q, r \in Actors : Sending(q, v)' /\ Sending(r, v)' => q = r
        /\ \A q \in Actors : Sending(q, v)' => visit'[v].rec = 0
    BY <1>4, <1>9, <2>1 DEF Sole
  <2>3. ASSUME NEW j \in Records, crm'[j].visit = v, crm'[j].heard
        PROVE  \/ visit'[v].rec = j
               \/ \E q \in Actors :
                    Sending(q, v)' /\ task'[q].pc = "record" /\ task'[q].rec = j
    <3>1. CASE j = k
      <4>1. heard /\ v = t.v
        BY <1>5, <1>7, <2>3, <3>1
      <4>2. Sending(p, v)' /\ task'[p].pc = "record" /\ task'[p].rec = j
        BY <1>2, <1>6, <1>9, <1>10, <3>1, <4>1
      <4> QED
        BY <4>2
    <3>2. CASE j # k
      <4>1. crm[j].visit = v /\ crm[j].heard
        BY <1>7, <2>3, <3>2
      <4>2. CASE visit[v].rec = j
        BY <1>4, <4>2
      <4>3. ASSUME NEW q \in Actors, Sending(q, v), task[q].pc = "record", task[q].rec = j
            PROVE  Sending(q, v)' /\ task'[q].pc = "record" /\ task'[q].rec = j
        <5>1. q # p
          BY <1>4, <4>3
        <5> QED
          BY <1>6, <1>9, <4>3, <5>1
      <4> QED
        BY <2>1, <4>1, <4>2, <4>3 DEF Sole
    <3> QED
      BY <3>1, <3>2
  <2> QED
    BY <2>2, <2>3
<1>12. Sole'
  BY <1>11 DEF Sole
<1> QED
  BY <1>8, <1>12

\* The one that sent the row has a record for it, its own or another's.
LEMMA LinkKeeps ==
  ASSUME Typed, RowsExist, Sole, MishapsStay, NEW m \in Managers, LinkSameDay(m)
  PROVE  RowsExist' /\ Sole'
<1>1. PICK k \in Records : Linked(m, k)
  BY LinkCases
<1> DEFINE t == task[m]
           row == [t EXCEPT !.pc = "record", !.rec = k]
<1>0. t \in TaskRow
  BY TaskType DEF Typed
<1>2. row.pc = "record" /\ row.v = t.v /\ row.rec = k
  BY <1>0 DEF TaskRow
<1>3. task' = [task EXCEPT ![m] = row]
  BY <1>1 DEF Linked
<1>4. t.pc = "create" /\ UNCHANGED <<visit, order>> /\ t.v \in Visits
  BY <1>1, RowOf DEF Linked
<1> HIDE DEF row
<1>6. task'[m] = row /\ \A q \in Actors \ {m} : task'[q] = task[q]
  BY <1>3 DEF Typed, TypeOK
<1>7. \A j \in Records :
        /\ crm'[j].visit = crm[j].visit
        /\ crm'[j].heard => crm[j].heard \/ (j = k /\ crm[k].visit = t.v)
  <2>1. \A j \in Records : crm[j] \in RecordRow
    BY DEF Typed, TypeOK
  <2> DEFINE heard == crm[k].heard \/ crm[k].visit = t.v
  <2>2. crm' = [crm EXCEPT ![k].heard = heard]
    BY <1>1 DEF Linked
  <2>3. \A j \in Records : crm'[j] = IF j = k THEN [crm[k] EXCEPT !.heard = heard] ELSE crm[j]
    BY <2>2 DEF Typed, TypeOK
  <2> QED
    BY <2>1, <2>3 DEF RecordRow
<1>8. RowsExist'
  <2>1. \A q \in Actors : task'[q].v = task[q].v
    BY <1>2, <1>6
  <2>2. RowsStay /\ OrdersSteady
    BY <1>4 DEF RowsStay, OrdersSteady
  <2> QED
    BY <1>7, <2>1, <2>2, ReferencesKept
<1>9. \A q \in Actors, v \in Visits : Sending(q, v)' <=> Sending(q, v)
  BY <1>2, <1>4, <1>6 DEF Sending, Sends
<1>10. Sending(m, t.v)
  BY <1>4 DEF Sending, Sends
<1>11. ASSUME NEW v \in Visits, "doubled" \notin mishap'[v]
       PROVE  /\ \A q, r \in Actors : Sending(q, v)' /\ Sending(r, v)' => q = r
              /\ \A q \in Actors : Sending(q, v)' => visit'[v].rec = 0
              /\ \A j \in Records : crm'[j].visit = v /\ crm'[j].heard =>
                   \/ visit'[v].rec = j
                   \/ \E q \in Actors :
                        Sending(q, v)' /\ task'[q].pc = "record" /\ task'[q].rec = j
  <2>1. "doubled" \notin mishap[v]
    BY <1>11 DEF MishapsStay
  <2>2. /\ \A q, r \in Actors : Sending(q, v)' /\ Sending(r, v)' => q = r
        /\ \A q \in Actors : Sending(q, v)' => visit'[v].rec = 0
    BY <1>4, <1>9, <2>1 DEF Sole
  <2>3. ASSUME NEW j \in Records, crm'[j].visit = v, crm'[j].heard
        PROVE  \/ visit'[v].rec = j
               \/ \E q \in Actors :
                    Sending(q, v)' /\ task'[q].pc = "record" /\ task'[q].rec = j
    <3>1. CASE j = k /\ crm[k].visit = t.v
      <4>1. v = t.v
        BY <1>7, <2>3, <3>1
      <4>2. Sending(m, v)' /\ task'[m].pc = "record" /\ task'[m].rec = j
        BY <1>2, <1>6, <1>9, <1>10, <3>1, <4>1
      <4> QED
        BY <4>2
    <3>2. CASE ~(j = k /\ crm[k].visit = t.v)
      <4>1. crm[j].visit = v /\ crm[j].heard
        BY <1>7, <2>3, <3>2
      <4>2. CASE visit[v].rec = j
        BY <1>4, <4>2
      <4>3. ASSUME NEW q \in Actors, Sending(q, v), task[q].pc = "record", task[q].rec = j
            PROVE  Sending(q, v)' /\ task'[q].pc = "record" /\ task'[q].rec = j
        <5>1. q # m
          BY <1>4, <4>3
        <5> QED
          BY <1>6, <1>9, <4>3, <5>1
      <4> QED
        BY <2>1, <4>1, <4>2, <4>3 DEF Sole
    <3> QED
      BY <3>1, <3>2
  <2> QED
    BY <2>2, <2>3
<1>12. Sole'
  BY <1>11 DEF Sole
<1> QED
  BY <1>8, <1>12

LEMMA RecordBookingKeeps ==
  ASSUME Typed, RowsExist, Sole, MishapsStay, NEW p \in Actors, RecordBooking(p)
  PROVE  RowsExist' /\ Sole'
<1> DEFINE t == task[p]
           row == [t EXCEPT !.pc = "reflect"]
           result == IF t.rec # 0 THEN "synced" ELSE "failed"
           rec == IF t.rec # 0 THEN t.rec ELSE visit[t.v].rec
<1>0. t \in TaskRow
  BY TaskType DEF Typed
<1>1. row.pc = "reflect" /\ row.v = t.v
  BY <1>0 DEF TaskRow
<1>2. task' = [task EXCEPT ![p] = row] /\ UNCHANGED <<order, crm>>
  BY DEF RecordBooking
<1>3. t.pc = "record" /\ t.v \in Visits
  BY RowOf DEF RecordBooking
<1>4. visit'[t.v].status # "none" /\ visit'[t.v].rec = rec
  <2>1. visit' = [visit EXCEPT ![t.v].status = result, ![t.v].sync = result,
                               ![t.v].rec = IF t.rec # 0 THEN t.rec ELSE @]
    BY DEF RecordBooking
  <2>2. visit[t.v] \in VisitRow /\ visit \in [Visits -> VisitRow]
    BY <1>3 DEF Typed, TypeOK
  <2>3. visit'[t.v].status = result /\ visit'[t.v].rec = rec
    BY <1>3, <2>1, <2>2 DEF VisitRow
  <2> QED
    BY <2>3
<1>5. \A v \in Visits \ {t.v} : visit'[v] = visit[v]
  BY DEF RecordBooking, Typed, TypeOK
<1> HIDE DEF row
<1>6. task'[p] = row /\ \A q \in Actors \ {p} : task'[q] = task[q]
  BY <1>2 DEF Typed, TypeOK
<1>7. RowsExist'
  <2>1. \A q \in Actors : task'[q].v = task[q].v
    BY <1>1, <1>6
  <2>2. RowsStay /\ OrdersSteady
    BY <1>2, <1>4, <1>5 DEF RowsStay, OrdersSteady
  <2> QED
    BY <1>2, <2>1, <2>2, ReferencesKept
<1>8. \A q \in Actors, v \in Visits : Sending(q, v)' <=> q # p /\ Sending(q, v)
  BY <1>1, <1>6 DEF Sending, Sends
<1>9. \A v \in Visits : Sending(p, v) <=> v = t.v
  BY <1>3 DEF Sending, Sends
<1>10. ASSUME NEW v \in Visits, "doubled" \notin mishap'[v]
       PROVE  /\ \A q, r \in Actors : Sending(q, v)' /\ Sending(r, v)' => q = r
              /\ \A q \in Actors : Sending(q, v)' => visit'[v].rec = 0
              /\ \A k \in Records : crm'[k].visit = v /\ crm'[k].heard =>
                   \/ visit'[v].rec = k
                   \/ \E q \in Actors :
                        Sending(q, v)' /\ task'[q].pc = "record" /\ task'[q].rec = k
  <2>1. "doubled" \notin mishap[v]
    BY <1>10 DEF MishapsStay
  <2>2. CASE v = t.v
    <3>1. \A q \in Actors : ~Sending(q, v)'
      BY <1>8, <1>9, <2>1, <2>2 DEF Sole
    <3>2. ASSUME NEW k \in Records, crm[k].visit = v, crm[k].heard
          PROVE  visit'[v].rec = k
      <4>1. k # 0 /\ visit[v].rec = 0
        BY <1>9, <2>1, <2>2, BoundsAssumption DEF Sole
      <4>2. \A q \in Actors : Sending(q, v) => q = p
        BY <1>9, <2>1, <2>2 DEF Sole
      <4>3. t.rec = k
        BY <2>1, <3>2, <4>1, <4>2 DEF Sole
      <4> QED
        BY <1>4, <2>2, <4>1, <4>3
    <3> QED
      BY <1>2, <3>1, <3>2
  <2>3. CASE v # t.v
    <3>1. \A q \in Actors : Sending(q, v)' <=> Sending(q, v)
      BY <1>8, <1>9, <2>3
    <3>2. \A q \in Actors : Sending(q, v) => task'[q] = task[q]
      BY <1>6, <1>9, <2>3
    <3> QED
      BY <1>2, <1>5, <2>1, <2>3, <3>1, <3>2 DEF Sole
  <2> QED
    BY <2>2, <2>3
<1>11. Sole'
  BY <1>10 DEF Sole
<1> QED
  BY <1>7, <1>11

\* p is about to enter record k in the row it was created for.
Entering(p, k) ==
  task[p].pc = "record" /\ task[p].rec = k /\ task[p].v = crm[k].visit

LEMMA CrashKeeps ==
  ASSUME Typed, RowsExist, Sole, MishapsStay, Crash
  PROVE  RowsExist' /\ Sole'
<1>1. UNCHANGED <<visit, order>> /\ \A p \in Actors : task'[p] = Idle
  BY DEF Crash
<1>2. \A k \in Records :
        /\ crm'[k].visit = crm[k].visit
        /\ crm'[k].heard => crm[k].heard /\ ~\E p \in Actors : Entering(p, k)
  <2>1. ASSUME NEW k \in Records
        PROVE  /\ crm'[k].visit = crm[k].visit
               /\ crm'[k].heard => crm[k].heard /\ ~\E p \in Actors : Entering(p, k)
    <3>1. crm[k] \in RecordRow
      BY DEF Typed, TypeOK
    <3>2. CASE \E p \in Actors : Entering(p, k)
      <4>1. crm'[k] = [crm[k] EXCEPT !.heard = FALSE]
        BY <3>2 DEF Crash, Entering
      <4> QED
        BY <3>1, <4>1 DEF RecordRow
    <3>3. CASE ~\E p \in Actors : Entering(p, k)
      <4>1. crm'[k] = crm[k]
        BY <3>3 DEF Crash, Entering
      <4> QED
        BY <3>3, <4>1
    <3> QED
      BY <3>2, <3>3
  <2> QED
    BY <2>1
<1>3. RowsExist'
  <2>1. \A p \in Actors : ExistsNext(task'[p].v)
    BY <1>1 DEF Idle, ExistsNext
  <2>2. RowsStay /\ OrdersSteady
    BY <1>1 DEF RowsStay, OrdersSteady
  <2> QED
    BY <1>2, <2>1, <2>2, ReferencesKept
<1>4. \A p \in Actors, v \in Visits : ~Sending(p, v)'
  BY <1>1 DEF Sending, Sends, Idle
<1>5. ASSUME NEW v \in Visits, "doubled" \notin mishap'[v],
             NEW k \in Records, crm'[k].visit = v, crm'[k].heard
      PROVE  visit'[v].rec = k
  BY <1>1, <1>2, <1>5 DEF Sole, MishapsStay, Entering, Sending
<1>6. Sole'
  BY <1>4, <1>5 DEF Sole
<1> QED
  BY <1>3, <1>6

LEMMA NextSole ==
  ASSUME Typed, RowsExist, Sole, [Next]_vars
  PROVE  RowsExist' /\ Sole'
<1>1. MishapsStay
  BY NextCareful DEF Careful, MishapsStay
<1>2. CASE BotStep
  <2>1. Steady
    BY <1>2, BookingSteady, AppendSteady, ToolSteady, RemoveSteady
       DEF BotStep, CancelTool, MoveTool, RemoveTool
  <2> QED
    BY <1>1, <2>1, SteadyKeeps
<1>3. ASSUME NEW p \in Actors, SharedStep(p)
      PROVE  RowsExist' /\ Sole'
  <2>1. CASE MirrorKnown(p) \/ Reflect(p) \/ CancelBooking(p) \/ MarkVisit(p) \/ MarkOrders(p)
    <3>1. Steady
      BY <2>1, MirrorSteady, CancelSteady
    <3> QED
      BY <1>1, <3>1, SteadyKeeps
  <2>2. CASE MirrorNew(p)
    BY <1>1, <2>2, MirrorNewKeeps
  <2>3. CASE CreateBooking(p)
    BY <1>1, <2>3, CreateBookingKeeps
  <2>4. CASE RecordBooking(p)
    BY <1>1, <2>4, RecordBookingKeeps
  <2> QED
    BY <1>3, <2>1, <2>2, <2>3, <2>4 DEF SharedStep, Mirror
<1>4. ASSUME NEW m \in Managers, ManagerStep(m)
      PROVE  RowsExist' /\ Sole'
  <2>1. CASE LinkSameDay(m)
    BY <1>1, <2>1, LinkKeeps
  <2>2. CASE ~LinkSameDay(m)
    <3>1. Steady
      BY <1>4, <2>2, ManagerSteady
    <3> QED
      BY <1>1, <3>1, SteadyKeeps
  <2> QED
    BY <2>1, <2>2
<1>5. CASE World
  <2>1. CASE Crash
    BY <1>1, <2>1, CrashKeeps
  <2>2. CASE ~Crash
    <3>1. Steady
      BY <1>5, <2>2, WorldSteady
    <3> QED
      BY <1>1, <3>1, SteadyKeeps
  <2> QED
    BY <2>1, <2>2
<1>6. CASE UNCHANGED vars
  <2>1. UNCHANGED <<visit, order, crm, task>>
    BY <1>6 DEF vars
  <2>2. Steady
    BY <2>1, SameAll DEF Steady
  <2> QED
    BY <1>1, <2>2, SteadyKeeps
<1> QED
  BY <1>2, <1>3, <1>4, <1>5, <1>6 DEF Next

\* However bookings, retries, additions, lost answers and crashes mix, a visit has at most
\* one living record in the CRM whose id it was given, unless two actors sent it at the
\* same time.
THEOREM OneRecordTheorem == Spec => []OneKnownVisit
<1>1. Init => RowsExist /\ Sole
  BY DEF Init, RowsExist, Exists, Sole, Sending, Sends, NoVisit, NoOrder, NoRecord, Idle
<1>2. Typed /\ [Next]_vars => Typed'
  BY NextTyped DEF Typed, TypeOK, Placed, OrdersPlaced, vars
<1>3. RowsExist /\ Sole /\ Typed /\ [Next]_vars => (RowsExist /\ Sole)'
  BY NextSole
<1>4. ASSUME Typed, Sole PROVE OneKnownVisit
  <2>1. ASSUME NEW j \in Records, NEW k \in Records,
               crm[j].heard, crm[k].heard, crm[j].visit = crm[k].visit, crm[j].visit # 0,
               "doubled" \notin mishap[crm[j].visit]
        PROVE  j = k
    <3> DEFINE v == crm[j].visit
    <3>1. v \in Visits
      BY <1>4, <2>1 DEF Typed, TypeOK, RecordRow
    <3>2. \A p, q \in Actors : Sending(p, v) /\ Sending(q, v) => p = q
      BY <1>4, <2>1, <3>1 DEF Sole
    <3>3. \A p \in Actors : Sending(p, v) => visit[v].rec = 0
      BY <1>4, <2>1, <3>1 DEF Sole
    <3>4. Owned(v, j) /\ Owned(v, k)
      BY <1>4, <2>1, <3>1 DEF Sole, Owned
    <3>5. j # 0 /\ k # 0
      BY BoundsAssumption
    <3> QED
      BY <3>2, <3>3, <3>4, <3>5 DEF Owned
  <2> QED
    BY <2>1 DEF OneKnownVisit
<1> QED
  BY InitTyped, <1>1, <1>2, <1>3, <1>4, PTL DEF Spec

-----------------------------------------------------------------------------
(* What managers see follows the visit.                                    *)

\* Whoever closes the orders of a visit has cancelled it, and it stayed so.
Closing ==
  \A p \in Actors :
    task[p].pc = "markOrders" =>
      visit[task[p].v].status = "cancelled" \/ "crossed" \in mishap[task[p].v]

\* What the steps do that neither cancel a visit nor write its orders.
TasksAside ==
  \A p \in Actors :
    task'[p] = task[p] \/ (task[p].pc # "markOrders" /\ task'[p].pc # "markOrders")

NoneCancelled ==
  \A v \in Visits : visit'[v].status = "cancelled" => visit[v].status = "cancelled"

OrdersAside ==
  \A o \in Orders : order'[o].visit = order[o].visit /\ order'[o].status = order[o].status

Aside == TasksAside /\ NoneCancelled /\ OrdersAside

\* A cancelled visit is reopened only by who is on record for it.
LEMMA StaysCancelled ==
  ASSUME Crossings, Careful, NEW v \in Visits, "crossed" \notin mishap'[v],
         visit[v].status = "cancelled"
  PROVE  visit'[v].status = "cancelled"
BY DEF Crossings, Careful

LEMMA ClosingKept ==
  ASSUME Typed, Crossings, Careful, Closing,
         \A p \in Actors : task'[p].pc = "markOrders" => task'[p] = task[p]
  PROVE  Closing'
<1>1. ASSUME NEW p \in Actors, task'[p].pc = "markOrders"
      PROVE  visit'[task'[p].v].status = "cancelled" \/ "crossed" \in mishap'[task'[p].v]
  <2> DEFINE v == task[p].v
  <2>1. task'[p] = task[p] /\ v \in Visits
    BY <1>1, RowOf
  <2>2. CASE "crossed" \in mishap[v]
    BY <2>1, <2>2 DEF Careful
  <2>3. CASE visit[v].status = "cancelled"
    BY <2>1, <2>3, StaysCancelled
  <2> QED
    BY <1>1, <2>1, <2>2, <2>3 DEF Closing
<1> QED
  BY <1>1 DEF Closing

LEMMA AsideKeeps ==
  ASSUME Typed, Typed', Crossings, Careful, Closing, OrderFollowsVisit, Aside
  PROVE  Closing' /\ OrderFollowsVisit'
<1>1. Closing'
  BY ClosingKept DEF Aside, TasksAside
<1>2. ASSUME NEW o \in Orders, order'[o].status # "none",
             mishap'[order'[o].visit] \cap {"torn", "crossed"} = {}
      PROVE  /\ order'[o].status = "cancelled" => visit'[order'[o].visit].status = "cancelled"
             /\ order'[o].status = "confirmed" /\ visit'[order'[o].visit].status = "cancelled" =>
                  \E p \in Actors : task'[p].v = order'[o].visit /\ task'[p].pc = "markOrders"
  <2> DEFINE v == order[o].visit
  <2>1. order'[o].visit = v /\ order'[o].status = order[o].status
    BY DEF Aside, OrdersAside
  <2>2. v \in Visits
    BY <1>2, <2>1 DEF Typed, TypeOK, OrderRow, OrdersPlaced
  <2>3. mishap[v] \subseteq mishap'[v] /\ "crossed" \notin mishap'[v]
    BY <1>2, <2>1, <2>2 DEF Careful
  <2>4. mishap[v] \cap {"torn", "crossed"} = {}
    BY <1>2, <2>1, <2>3
  <2>5. visit[v].status = "cancelled" <=> visit'[v].status = "cancelled"
    BY <2>2, <2>3, StaysCancelled DEF Aside, NoneCancelled
  <2>6. \A p \in Actors : task[p].pc = "markOrders" => task'[p] = task[p]
    BY DEF Aside, TasksAside
  <2> QED
    BY <1>2, <2>1, <2>4, <2>5, <2>6 DEF OrderFollowsVisit, Live
<1> QED
  BY <1>1, <1>2 DEF OrderFollowsVisit, Live

LEMMA RowAside ==
  ASSUME Typed, NEW p \in Actors, NEW row, task' = [task EXCEPT ![p] = row],
         row.pc # "markOrders", task[p].pc # "markOrders"
  PROVE  TasksAside
BY DEF Typed, TypeOK, TasksAside

LEMMA PcAside ==
  ASSUME Typed, NEW p \in Actors, NEW q, task' = [task EXCEPT ![p].pc = q],
         q # "markOrders", task[p].pc # "markOrders"
  PROVE  TasksAside
<1> DEFINE row == [task[p] EXCEPT !.pc = q]
<1>1. row.pc = q
  BY TaskType DEF Typed, TaskRow
<1>2. task' = [task EXCEPT ![p] = row]
  OBVIOUS
<1> HIDE DEF row
<1> QED
  BY <1>1, <1>2, RowAside

LEMMA DoneAside ==
  ASSUME Typed, NEW p \in Actors, task' = Done(p), task[p].pc # "markOrders"
  PROVE  TasksAside
<1>1. Idle.pc # "markOrders"
  BY DEF Idle
<1>2. task' = [task EXCEPT ![p] = Idle]
  BY DEF Done
<1> QED
  BY <1>1, <1>2, RowAside

LEMMA BookingAside ==
  ASSUME Typed,
         \/ \E slot \in Slots, s \in Services : Book(slot, s)
         \/ RefuseBook \/ FindVisit \/ MergeVisit \/ CreateVisit \/ FindOrder
         \/ GateClosed \/ GateOpen \/ MirrorOff
  PROVE  Aside
<1> DEFINE t == task[Bot]
<1>0. t \in TaskRow
  BY TaskType DEF Typed
<1>1. OrdersAside
  <2>1. UNCHANGED order
    <3>1. ASSUME NEW slot \in Slots, NEW s \in Services, Book(slot, s)
          PROVE  UNCHANGED order
      BY <3>1 DEF Book
    <3> QED
      BY <3>1 DEF RefuseBook, FindVisit, MergeVisit, CreateVisit, FindOrder, GateClosed, GateOpen,
                  MirrorOff
  <2> QED
    BY <2>1 DEF OrdersAside
<1>2. NoneCancelled
  <2>1. ASSUME NEW slot \in Slots, NEW s \in Services, Book(slot, s)
        PROVE  NoneCancelled
    BY <2>1 DEF Book, NoneCancelled
  <2>2. CASE RefuseBook \/ FindVisit \/ FindOrder \/ GateOpen \/ MirrorOff
    BY <2>2 DEF RefuseBook, FindVisit, FindOrder, GateOpen, MirrorOff, NoneCancelled
  <2>3. CASE MergeVisit
    BY <2>3 DEF MergeVisit, NoneCancelled, Typed, TypeOK, VisitRow
  <2>4. CASE CreateVisit
    <3> DEFINE new == [slot |-> t.slot, services |-> t.want, status |-> "confirmed",
                       rec |-> 0, sync |-> "pending"]
    <3>1. PICK v \in Visits : visit' = [visit EXCEPT ![v] = new]
      BY <2>4 DEF CreateVisit
    <3>2. new.status = "confirmed"
      OBVIOUS
    <3> HIDE DEF new
    <3> QED
      BY <3>1, <3>2 DEF NoneCancelled, Typed, TypeOK
  <2>5. CASE GateClosed
    BY <2>5 DEF GateClosed, NoneCancelled, Typed, TypeOK, VisitRow
  <2> QED
    BY <2>1, <2>2, <2>3, <2>4, <2>5
<1>3. TasksAside
  <2>1. ASSUME NEW slot \in Slots, NEW s \in Services, Book(slot, s)
        PROVE  TasksAside
    <3> DEFINE row == [Idle EXCEPT !.pc = "find", !.op = "book", !.slot = slot, !.want = {s}]
    <3>1. row.pc = "find"
      BY DEF Idle
    <3>2. task' = [task EXCEPT ![Bot] = row]
      BY <2>1 DEF Book
    <3>3. t.pc = "idle"
      BY <2>1 DEF Book
    <3> HIDE DEF row
    <3> QED
      BY <3>1, <3>2, <3>3, RowAside
  <2>2. CASE FindVisit
    <3>1. PICK v \in Visits \cup {0}, found \in VisitRow :
            task' = [task EXCEPT ![Bot] = [t EXCEPT !.pc = "store", !.v = v, !.seen = found]]
      BY <2>2, RowTypes DEF FindVisit, Typed, TypeOK
    <3> DEFINE row == [t EXCEPT !.pc = "store", !.v = v, !.seen = found]
    <3>2. row.pc = "store" /\ t.pc = "find"
      BY <1>0, <2>2 DEF FindVisit, TaskRow
    <3>3. task' = [task EXCEPT ![Bot] = row]
      BY <3>1
    <3> HIDE DEF row
    <3> QED
      BY <3>2, <3>3, RowAside
  <2>3. CASE MergeVisit
    <3> DEFINE adds == t.want \ t.seen.services # {}
               want == t.seen.services \cup t.want
               row == [t EXCEPT !.pc = "order", !.adds = adds, !.want = want]
    <3>1. task' = [task EXCEPT ![Bot] = row] /\ t.pc = "store"
      BY <2>3 DEF MergeVisit
    <3> HIDE DEF adds, want
    <3>2. row.pc = "order"
      BY <1>0 DEF TaskRow
    <3> HIDE DEF row
    <3> QED
      BY <3>1, <3>2, RowAside
  <2>4. CASE CreateVisit
    <3>1. PICK v \in Visits :
            task' = [task EXCEPT ![Bot] = [t EXCEPT !.pc = "order", !.v = v, !.adds = TRUE]]
      BY <2>4 DEF CreateVisit
    <3> DEFINE row == [t EXCEPT !.pc = "order", !.v = v, !.adds = TRUE]
    <3>2. row.pc = "order" /\ t.pc = "store"
      BY <1>0, <2>4 DEF CreateVisit, TaskRow
    <3>3. task' = [task EXCEPT ![Bot] = row]
      BY <3>1
    <3> HIDE DEF row
    <3> QED
      BY <3>2, <3>3, RowAside
  <2>5. CASE RefuseBook
    <3>1. task' = Done(Bot) /\ t.pc = "find"
      BY <2>5 DEF RefuseBook, Done
    <3> QED
      BY <3>1, DoneAside
  <2>6. CASE GateClosed
    <3>1. task' = Done(Bot) /\ t.pc = "gate"
      BY <2>6 DEF GateClosed, Done
    <3> QED
      BY <3>1, DoneAside
  <2>7. CASE GateOpen
    <3>1. /\ t.pc = "gate"
          /\ \/ task' = [task EXCEPT ![Bot].pc = "load"]
             \/ task' = [task EXCEPT ![Bot].pc = "appendLoad"]
             \/ task' = Done(Bot)
      BY <2>7 DEF GateOpen, Done, Typed, TypeOK
    <3> QED
      BY <3>1, PcAside, DoneAside
  <2>8. CASE MirrorOff
    BY <2>8, PcAside DEF MirrorOff
  <2>9. CASE FindOrder
    <3>1. PICK q \in {"writeOrder", "gate"}, i \in Orders \cup {0} :
            task' = [task EXCEPT ![Bot] = [t EXCEPT !.pc = q, !.ord = i]]
      BY <2>9, FindOrderCases
    <3> DEFINE row == [t EXCEPT !.pc = q, !.ord = i]
    <3>2. row.pc = q /\ t.pc = "order"
      BY <1>0, <2>9 DEF FindOrder, TaskRow
    <3>3. task' = [task EXCEPT ![Bot] = row]
      BY <3>1
    <3> HIDE DEF row
    <3> QED
      BY <3>2, <3>3, RowAside
  <2> QED
    BY <2>1, <2>2, <2>3, <2>4, <2>5, <2>6, <2>7, <2>8, <2>9
<1> QED
  BY <1>1, <1>2, <1>3 DEF Aside

LEMMA SameAside ==
  /\ UNCHANGED order => OrdersAside
  /\ UNCHANGED visit => NoneCancelled
  /\ UNCHANGED task => TasksAside
BY DEF OrdersAside, NoneCancelled, TasksAside

LEMMA MirrorAside ==
  ASSUME Typed, NEW p \in Actors, Mirror(p)
  PROVE  Aside
<1> DEFINE t == task[p]
<1>0. t \in TaskRow
  BY TaskType DEF Typed
<1>1. CASE MirrorKnown(p)
  <2> DEFINE row == [t EXCEPT !.pc = "reflect", !.rec = visit[t.v].rec]
  <2>1. row.pc = "reflect"
    BY <1>0 DEF TaskRow
  <2>2. task' = [task EXCEPT ![p] = row] /\ t.pc = "load" /\ UNCHANGED order
    BY <1>1 DEF MirrorKnown
  <2>3. NoneCancelled
    BY <1>1 DEF MirrorKnown, NoneCancelled, Typed, TypeOK, VisitRow
  <2> HIDE DEF row
  <2>4. TasksAside
    BY <2>1, <2>2, RowAside
  <2> QED
    BY <2>2, <2>3, <2>4, SameAside DEF Aside
<1>2. CASE MirrorNew(p)
  <2> DEFINE row == [t EXCEPT !.pc = "create", !.sent = visit[t.v].services]
  <2>1. row.pc = "create"
    BY <1>0 DEF TaskRow
  <2>2. task' = [task EXCEPT ![p] = row] /\ t.pc = "load" /\ UNCHANGED <<visit, order>>
    BY <1>2 DEF MirrorNew
  <2> HIDE DEF row
  <2>3. TasksAside
    BY <2>1, <2>2, RowAside
  <2> QED
    BY <2>2, <2>3, SameAside DEF Aside
<1>3. CASE CreateBooking(p)
  <2>1. PICK k \in Records \cup {0}, heard \in BOOLEAN : Made(p, k, heard)
    BY <1>3, CreateBookingCases
  <2> DEFINE rec == IF heard THEN k ELSE 0
             row == [t EXCEPT !.pc = "record", !.rec = rec]
  <2>2. row.pc = "record"
    BY <1>0 DEF TaskRow
  <2>3. task' = [task EXCEPT ![p] = row]
    BY <2>1 DEF Made
  <2>4. t.pc = "create" /\ UNCHANGED <<visit, order>>
    BY <1>3 DEF CreateBooking
  <2> HIDE DEF row
  <2>5. TasksAside
    BY <2>2, <2>3, <2>4, RowAside
  <2> QED
    BY <2>4, <2>5, SameAside DEF Aside
<1>4. CASE RecordBooking(p)
  <2> DEFINE result == IF t.rec # 0 THEN "synced" ELSE "failed"
  <2>1. t.pc = "record" /\ UNCHANGED order /\ task' = [task EXCEPT ![p].pc = "reflect"]
    BY <1>4 DEF RecordBooking
  <2>2. visit' = [visit EXCEPT ![t.v].status = result, ![t.v].sync = result,
                               ![t.v].rec = IF t.rec # 0 THEN t.rec ELSE @]
    BY <1>4 DEF RecordBooking
  <2>3. result # "cancelled"
    OBVIOUS
  <2> HIDE DEF result
  <2>4. NoneCancelled
    BY <2>2, <2>3 DEF NoneCancelled, Typed, TypeOK, VisitRow
  <2>5. TasksAside
    BY <2>1, PcAside
  <2> QED
    BY <2>1, <2>4, <2>5, SameAside DEF Aside
<1>5. CASE Reflect(p)
  <2>1. /\ UNCHANGED visit /\ t.pc = "reflect"
        /\ task' = [task EXCEPT ![p].pc = "reread"] \/ task' = Done(p)
    BY <1>5 DEF Reflect
  <2>2. OrdersAside
    BY <1>5 DEF Reflect, SyncOrders, OrdersAside, Typed, TypeOK, OrderRow
  <2>3. TasksAside
    BY <2>1, PcAside, DoneAside
  <2> QED
    BY <2>1, <2>2, <2>3, SameAside DEF Aside
<1> QED
  BY <1>1, <1>2, <1>3, <1>4, <1>5 DEF Mirror

LEMMA AppendAside ==
  ASSUME Typed, LoadForAppend \/ AppendServices \/ RecordAppend \/ RereadAndConfirm
  PROVE  Aside
<1> DEFINE t == task[Bot]
<1>0. t \in TaskRow
  BY TaskType DEF Typed
<1>1. CASE LoadForAppend
  <2> DEFINE sent == IF altegio THEN visit[t.v].services
                     ELSE visit[t.v].services \ t.seen.services
             row == [t EXCEPT !.pc = "append", !.rec = visit[t.v].rec, !.sent = sent]
  <2>1. task' = [task EXCEPT ![Bot] = row]
    BY <1>1 DEF LoadForAppend
  <2>2. t.pc = "appendLoad" /\ UNCHANGED <<visit, order>>
    BY <1>1 DEF LoadForAppend
  <2> HIDE DEF sent
  <2>3. row.pc = "append"
    BY <1>0 DEF TaskRow
  <2> HIDE DEF row
  <2>4. TasksAside
    BY <2>1, <2>2, <2>3, RowAside
  <2> QED
    BY <2>2, <2>4, SameAside DEF Aside
<1>2. CASE AppendServices
  <2>1. /\ UNCHANGED <<visit, order>> /\ t.pc = "append"
        /\ task' = [task EXCEPT ![Bot].pc = "recordAppend"] \/ task' = Done(Bot)
    BY <1>2 DEF AppendServices
  <2>2. TasksAside
    BY <2>1, PcAside, DoneAside
  <2> QED
    BY <2>1, <2>2, SameAside DEF Aside
<1>3. CASE RecordAppend
  <2>1. /\ UNCHANGED order /\ t.pc = "recordAppend"
        /\ task' = [task EXCEPT ![Bot].pc = "reflect"]
    BY <1>3 DEF RecordAppend
  <2>2. NoneCancelled
    BY <1>3 DEF RecordAppend, NoneCancelled, Typed, TypeOK, VisitRow
  <2>3. TasksAside
    BY <2>1, PcAside
  <2> QED
    BY <2>1, <2>2, <2>3, SameAside DEF Aside
<1>4. CASE RereadAndConfirm
  <2>1. UNCHANGED <<visit, order>> /\ task' = Done(Bot) /\ t.pc = "reread"
    BY <1>4 DEF RereadAndConfirm
  <2>2. TasksAside
    BY <2>1, DoneAside
  <2> QED
    BY <2>1, <2>2, SameAside DEF Aside
<1> QED
  BY <1>1, <1>2, <1>3, <1>4

LEMMA ToolAside ==
  ASSUME Typed, NEW op, NEW slot, NEW lines, StartTool(op, slot, lines)
  PROVE  Aside
<1>1. UNCHANGED order /\ task[Bot].pc = "idle"
  BY DEF StartTool
<1>2. ASSUME NEW v, NEW row, Begin(op, v, row, slot, lines)
      PROVE  TasksAside
  BY <1>1, <1>2 DEF Begin, Idle, Typed, TypeOK, TasksAside
<1>3. NoneCancelled /\ TasksAside
  <2>1. CASE /\ UNCHANGED visit
             /\ \E v \in Visits : Begin(op, v, visit[v], slot, lines)
    BY <1>2, <2>1, SameAside
  <2>2. ASSUME NEW v \in FreshVisits, NEW row, row.status = "synced",
               visit' = [visit EXCEPT ![v] = row], Begin(op, v, row, slot, lines)
        PROVE  NoneCancelled /\ TasksAside
    BY <1>2, <2>2 DEF Typed, TypeOK, FreshVisits, NoneCancelled
  <2>3. ASSUME NEW k \in Records, NEW v \in FreshVisits,
               LET row == [slot |-> crm[k].slot, services |-> crm[k].services,
                           status |-> "synced", rec |-> k, sync |-> "synced"]
               IN visit' = [visit EXCEPT ![v] = row] /\ Begin(op, v, row, slot, lines)
        PROVE  NoneCancelled /\ TasksAside
    BY <2>2, <2>3
  <2>4. ResolveLocal(op, slot, lines) \/ ResolveInCrm(op, slot, lines)
    BY DEF StartTool
  <2> QED
    BY <2>1, <2>3, <2>4, ResolveCases DEF Typed
<1> QED
  BY <1>1, <1>3, SameAside DEF Aside

LEMMA RemoveAside ==
  ASSUME Typed, RemoveService \/ StoreServices
  PROVE  Aside
<1>1. UNCHANGED order /\ task[Bot].pc # "markOrders"
  BY DEF RemoveService, StoreServices
<1>2. \/ task' = [task EXCEPT ![Bot].pc = "markVisit"]
      \/ task' = [task EXCEPT ![Bot].pc = "storeServices"]
      \/ task' = Done(Bot)
  BY DEF RemoveService, StoreServices
<1>3. TasksAside
  BY <1>1, <1>2, PcAside, DoneAside
<1>4. NoneCancelled
  <2>1. CASE RemoveService
    BY <2>1, SameAside DEF RemoveService
  <2>2. CASE StoreServices
    BY <2>2 DEF StoreServices, NoneCancelled, Typed, TypeOK, VisitRow
  <2> QED
    BY <2>1, <2>2
<1> QED
  BY <1>1, <1>3, <1>4, SameAside DEF Aside

LEMMA ManagerAside ==
  ASSUME Typed, NEW m \in Managers, ManagerStep(m)
  PROVE  Aside
<1>1. ASSUME NEW o \in Orders, Retry(m, o) \/ AdminCancel(m, o) \/ AssignMasters(m, o)
      PROVE  Aside
  <2>1. PICK row \in TaskRow : Asks(m, o, row)
    BY <1>1, RequestCases
  <2>2. /\ task' = [task EXCEPT ![m] = row] /\ UNCHANGED <<visit, order>>
        /\ row.pc # "markOrders" /\ task[m].pc # "markOrders"
    BY <2>1 DEF Asks
  <2>3. TasksAside
    BY <2>2, RowAside
  <2> QED
    BY <2>2, <2>3, SameAside DEF Aside
<1>2. CASE StoreMasters(m)
  <2>1. NoneCancelled
    BY <1>2 DEF StoreMasters, NoneCancelled, Typed, TypeOK, VisitRow
  <2>2. UNCHANGED order /\ task' = Done(m) /\ task[m].pc # "markOrders"
    BY <1>2 DEF StoreMasters
  <2>3. TasksAside
    BY <2>2, DoneAside
  <2> QED
    BY <2>1, <2>2, <2>3, SameAside DEF Aside
<1>3. CASE RereadAndReflect(m)
  <2>1. UNCHANGED visit /\ task' = Done(m) /\ task[m].pc # "markOrders"
    BY <1>3 DEF RereadAndReflect
  <2>2. OrdersAside
    BY <1>3 DEF RereadAndReflect, SyncOrders, OrdersAside, Typed, TypeOK, OrderRow
  <2>3. TasksAside
    BY <2>1, DoneAside
  <2> QED
    BY <2>1, <2>2, <2>3, SameAside DEF Aside
<1>4. CASE LinkSameDay(m)
  <2>1. PICK k \in Records : Linked(m, k)
    BY <1>4, LinkCases
  <2> DEFINE row == [task[m] EXCEPT !.pc = "record", !.rec = k]
  <2>2. row.pc = "record"
    BY TaskType DEF Typed, TaskRow
  <2>3. task' = [task EXCEPT ![m] = row] /\ task[m].pc = "create" /\ UNCHANGED <<visit, order>>
    BY <2>1 DEF Linked
  <2> HIDE DEF row
  <2>4. TasksAside
    BY <2>2, <2>3, RowAside
  <2> QED
    BY <2>3, <2>4, SameAside DEF Aside
<1> QED
  BY <1>1, <1>2, <1>3, <1>4 DEF ManagerStep

LEMMA SalonAside ==
  ASSUME NEW k, SalonCancels(k) \/ SetWrites \/ \E slot \in Slots : SalonMoves(k, slot)
  PROVE  Aside
<1>1. UNCHANGED <<visit, order, task>>
  BY DEF SalonCancels, SalonMoves, SetWrites
<1> QED
  BY <1>1, SameAside DEF Aside

\* The order that is written names the bot's visit, which is not cancelled unless crossed;
\* if it was cancelled since it was read, that is on record.
LEMMA MirrorOrderFollows ==
  ASSUME Typed, Crossings, Careful, Closing, OrderFollowsVisit, MirrorOrder
  PROVE  Closing' /\ OrderFollowsVisit'
<1> DEFINE t == task[Bot]
<1>1. /\ t.pc = "writeOrder" /\ t.v \in Visits /\ UNCHANGED visit
      /\ task' = [task EXCEPT ![Bot].pc = "gate"]
  BY RowOf DEF MirrorOrder
<1>2. TasksAside
  BY <1>1, PcAside
<1>3. Closing'
  BY <1>2, ClosingKept DEF TasksAside
<1>4. ASSUME NEW o \in Orders
      PROVE  \/ order'[o] = order[o]
             \/ /\ order'[o].visit = t.v
                /\ order'[o].status = "confirmed" \/ "torn" \in mishap'[t.v]
  <2>1. CASE /\ order' = [order EXCEPT ![t.ord].visit = t.v, ![t.ord].slot = t.slot]
             /\ t.ord # 0
             /\ Blame(t.v, IF t.ord # 0 /\ ~Live(t.ord) THEN {"torn"} ELSE {})
    <3>1. o # t.ord => order'[o] = order[o]
      BY <2>1 DEF Typed, TypeOK
    <3>2. o = t.ord => order'[o].visit = t.v /\ order'[o].status = order[o].status
      BY <2>1 DEF Typed, TypeOK, OrderRow
    <3>3. ~Live(t.ord) => "torn" \in mishap'[t.v]
      BY <1>1, <2>1 DEF Blame, Typed, TypeOK
    <3> QED
      BY <3>1, <3>2, <3>3 DEF Live
  <2>3. CASE NewOrder(t.v, t.slot)
    BY <2>3 DEF NewOrder, Typed, TypeOK
  <2>4. CASE UNCHANGED order
    BY <2>4
  <2> QED
    BY <2>1, <2>3, <2>4 DEF MirrorOrder
<1>5. ASSUME NEW o \in Orders, order'[o].status # "none",
             mishap'[order'[o].visit] \cap {"torn", "crossed"} = {}
      PROVE  /\ order'[o].status = "cancelled" => visit'[order'[o].visit].status = "cancelled"
             /\ order'[o].status = "confirmed" /\ visit'[order'[o].visit].status = "cancelled" =>
                  \E p \in Actors : task'[p].v = order'[o].visit /\ task'[p].pc = "markOrders"
  <2>1. CASE /\ order'[o].visit = t.v
             /\ order'[o].status = "confirmed" \/ "torn" \in mishap'[t.v]
    <3>1. At(Bot, t.v) /\ mishap[t.v] \subseteq mishap'[t.v]
      BY <1>1 DEF At, Writing, Careful
    <3>2. visit[t.v].status # "cancelled"
      BY <1>1, <1>5, <2>1, <3>1 DEF Crossings
    <3> QED
      BY <1>1, <1>5, <2>1, <3>2
  <2>2. CASE order'[o] = order[o]
    <3>1. \A p \in Actors : task[p].pc = "markOrders" => task'[p] = task[p]
      BY <1>2 DEF TasksAside
    <3>2. order[o].visit \in Visits
      BY <1>5, <2>2 DEF Typed, TypeOK, OrderRow, OrdersPlaced
    <3>3. mishap[order[o].visit] \cap {"torn", "crossed"} = {}
      BY <1>5, <2>2, <3>2 DEF Careful
    <3> QED
      BY <1>1, <1>5, <2>2, <3>1, <3>3 DEF OrderFollowsVisit, Live
  <2> QED
    BY <1>4, <2>1, <2>2
<1> QED
  BY <1>3, <1>5 DEF OrderFollowsVisit, Live

LEMMA MarkVisitFollows ==
  ASSUME Typed, Crossings, Careful, Closing, OrderFollowsVisit, NEW p \in Actors, MarkVisit(p)
  PROVE  Closing' /\ OrderFollowsVisit'
<1> DEFINE t == task[p]
           row == [t EXCEPT !.pc = "markOrders"]
<1>0. t \in TaskRow
  BY TaskType DEF Typed
<1>1. t.pc = "markVisit" /\ t.v \in Visits /\ UNCHANGED order
  BY RowOf DEF MarkVisit
<1>2. row.pc = "markOrders" /\ row.v = t.v
  BY <1>0 DEF TaskRow
<1>3. task' = [task EXCEPT ![p] = row]
  BY DEF MarkVisit
<1> HIDE DEF row
<1>4. task'[p] = row /\ \A q \in Actors \ {p} : task'[q] = task[q]
  BY <1>3 DEF Typed, TypeOK
<1>5. /\ visit'[t.v].status = "cancelled"
      /\ \A v \in Visits \ {t.v} : visit'[v] = visit[v]
  BY <1>1 DEF MarkVisit, Typed, TypeOK, VisitRow
<1>6. Closing'
  <2>1. ASSUME NEW q \in Actors, task'[q].pc = "markOrders"
        PROVE  visit'[task'[q].v].status = "cancelled" \/ "crossed" \in mishap'[task'[q].v]
    <3>1. CASE q = p
      BY <1>2, <1>4, <1>5, <3>1
    <3>2. CASE q # p
      <4>1. task'[q] = task[q] /\ task[q].v \in Visits
        BY <1>4, <2>1, <3>2, RowOf
      <4>2. visit[task[q].v].status = "cancelled" => visit'[task[q].v].status = "cancelled"
        BY <1>5, <4>1
      <4>3. mishap[task[q].v] \subseteq mishap'[task[q].v]
        BY <4>1 DEF Careful
      <4> QED
        BY <2>1, <4>1, <4>2, <4>3 DEF Closing
    <3> QED
      BY <3>1, <3>2
  <2> QED
    BY <2>1 DEF Closing
<1>7. ASSUME NEW o \in Orders, order[o].status # "none",
             mishap'[order[o].visit] \cap {"torn", "crossed"} = {}
      PROVE  /\ order[o].status = "cancelled" => visit'[order[o].visit].status = "cancelled"
             /\ order[o].status = "confirmed" /\ visit'[order[o].visit].status = "cancelled" =>
                  \E q \in Actors : task'[q].v = order[o].visit /\ task'[q].pc = "markOrders"
  <2>1. CASE order[o].visit = t.v
    BY <1>2, <1>4, <1>5, <2>1
  <2>2. CASE order[o].visit # t.v
    <3>1. order[o].visit \in Visits
      BY <1>7 DEF Typed, TypeOK, OrderRow, OrdersPlaced
    <3>2. visit'[order[o].visit] = visit[order[o].visit]
      BY <1>5, <2>2, <3>1
    <3>3. mishap[order[o].visit] \cap {"torn", "crossed"} = {}
      BY <1>7, <3>1 DEF Careful
    <3>4. \A q \in Actors : task[q].pc = "markOrders" => task'[q] = task[q]
      BY <1>1, <1>4
    <3> QED
      BY <1>7, <3>2, <3>3, <3>4 DEF OrderFollowsVisit, Live
  <2> QED
    BY <2>1, <2>2
<1> QED
  BY <1>1, <1>6, <1>7 DEF OrderFollowsVisit, Live

LEMMA MarkOrdersFollows ==
  ASSUME Typed, Crossings, Careful, Closing, OrderFollowsVisit, NEW p \in Actors, MarkOrders(p)
  PROVE  Closing' /\ OrderFollowsVisit'
<1> DEFINE t == task[p]
<1>0. t \in TaskRow
  BY TaskType DEF Typed
<1>1. /\ t.pc = "markOrders" /\ t.v \in Visits
      /\ UNCHANGED <<visit, mishap>>
  BY RowOf DEF MarkOrders
<1>2. task'[p].pc # "markOrders" /\ \A q \in Actors \ {p} : task'[q] = task[q]
  <2> DEFINE row == [t EXCEPT !.pc = "find", !.v = 0, !.want = t.seen.services,
                              !.seen = NoVisit]
  <2>1. row.pc = "find" /\ Idle.pc = "idle"
    BY <1>0 DEF TaskRow, Idle
  <2>2. task' = [task EXCEPT ![p] = row] \/ task' = [task EXCEPT ![p] = Idle]
    BY DEF MarkOrders, Done
  <2> HIDE DEF row
  <2> QED
    BY <2>1, <2>2 DEF Typed, TypeOK
<1>3. Closing'
  BY <1>2, ClosingKept
<1>4. \A o \in Orders : /\ order'[o].visit = order[o].visit
                        /\ order[o].visit = t.v => order'[o].status = "cancelled"
                        /\ order[o].visit # t.v => order'[o].status = order[o].status
  BY DEF MarkOrders, Typed, TypeOK, OrderRow
<1>5. visit[t.v].status = "cancelled" \/ "crossed" \in mishap[t.v]
  BY <1>1 DEF Closing
<1>6. ASSUME NEW o \in Orders, order'[o].status # "none",
             mishap'[order'[o].visit] \cap {"torn", "crossed"} = {}
      PROVE  /\ order'[o].status = "cancelled" => visit'[order'[o].visit].status = "cancelled"
             /\ order'[o].status = "confirmed" /\ visit'[order'[o].visit].status = "cancelled" =>
                  \E q \in Actors : task'[q].v = order'[o].visit /\ task'[q].pc = "markOrders"
  <2>1. CASE order[o].visit = t.v
    BY <1>1, <1>4, <1>5, <1>6, <2>1
  <2>2. CASE order[o].visit # t.v
    <3>1. \A q \in Actors : task[q].v = order[o].visit => task'[q] = task[q]
      BY <1>2, <2>2
    <3> QED
      BY <1>1, <1>4, <1>6, <2>2, <3>1 DEF OrderFollowsVisit, Live
  <2> QED
    BY <2>1, <2>2
<1> QED
  BY <1>3, <1>6 DEF OrderFollowsVisit, Live

LEMMA HookFollows ==
  ASSUME Typed, Crossings, Careful, Closing, OrderFollowsVisit, NEW h \in hooks, ApplyHook(h)
  PROVE  Closing' /\ OrderFollowsVisit'
<1>1. UNCHANGED <<order, task>>
  BY DEF ApplyHook
<1>2. Closing'
  BY <1>1, ClosingKept
<1>3. ASSUME NEW v \in Visits, "torn" \notin mishap'[v]
      PROVE  visit'[v].status = visit[v].status
  <2>1. visit[v] \in VisitRow
    BY DEF Typed, TypeOK
  <2>2. CASE visit[v].rec = h.rec /\ visit[v].status # "cancelled"
    <3>1. h.kind # "cancel_record"
      BY <1>3, <2>2 DEF ApplyHook
    <3>2. visit'[v] = [visit[v] EXCEPT !.slot = h.slot, !.sync = "synced"]
      BY <2>2, <3>1 DEF ApplyHook
    <3> QED
      BY <2>1, <3>2 DEF VisitRow
  <2>3. CASE ~(visit[v].rec = h.rec /\ visit[v].status # "cancelled")
    BY <2>3 DEF ApplyHook
  <2> QED
    BY <2>2, <2>3
<1>4. ASSUME NEW o \in Orders, order[o].status # "none",
             mishap'[order[o].visit] \cap {"torn", "crossed"} = {}
      PROVE  /\ order[o].status = "cancelled" => visit'[order[o].visit].status = "cancelled"
             /\ order[o].status = "confirmed" /\ visit'[order[o].visit].status = "cancelled" =>
                  \E q \in Actors : task[q].v = order[o].visit /\ task[q].pc = "markOrders"
  <2>1. order[o].visit \in Visits
    BY <1>4 DEF Typed, TypeOK, OrderRow, OrdersPlaced
  <2>2. mishap[order[o].visit] \cap {"torn", "crossed"} = {}
    BY <1>4, <2>1 DEF Careful
  <2>3. visit'[order[o].visit].status = visit[order[o].visit].status
    BY <1>3, <1>4, <2>1
  <2> QED
    BY <1>4, <2>2, <2>3 DEF OrderFollowsVisit, Live
<1> QED
  BY <1>1, <1>2, <1>4 DEF OrderFollowsVisit, Live

LEMMA CrashFollows ==
  ASSUME Typed, Crossings, Careful, Closing, OrderFollowsVisit, Crash
  PROVE  Closing' /\ OrderFollowsVisit'
<1>1. UNCHANGED <<visit, order>> /\ \A p \in Actors : task'[p].pc = "idle"
  BY DEF Crash, Idle
<1>2. Closing'
  BY <1>1 DEF Closing
<1>3. \A v \in Visits, p \in Actors :
        task[p].v = v /\ task[p].pc = "markOrders" => "torn" \in mishap'[v]
  BY DEF Crash
<1>4. ASSUME NEW o \in Orders, order[o].status # "none",
             mishap'[order[o].visit] \cap {"torn", "crossed"} = {}
      PROVE  /\ order[o].status = "cancelled" => visit[order[o].visit].status = "cancelled"
             /\ order[o].status = "confirmed" => visit[order[o].visit].status # "cancelled"
  <2>1. order[o].visit \in Visits
    BY <1>4 DEF Typed, TypeOK, OrderRow, OrdersPlaced
  <2>2. mishap[order[o].visit] \cap {"torn", "crossed"} = {}
    BY <1>4, <2>1 DEF Careful
  <2> QED
    BY <1>3, <1>4, <2>1, <2>2 DEF OrderFollowsVisit, Live
<1> QED
  BY <1>1, <1>2, <1>4 DEF OrderFollowsVisit, Live

LEMMA NextFollows ==
  ASSUME Typed, Typed', Crossings, Closing, OrderFollowsVisit, [Next]_vars
  PROVE  Closing' /\ OrderFollowsVisit'
<1>1. Careful
  BY NextCareful
<1>2. CASE BotStep
  <2>1. CASE MirrorOrder
    BY <1>1, <2>1, MirrorOrderFollows
  <2>2. CASE ~MirrorOrder
    <3>1. Aside
      BY <1>2, <2>2, BookingAside, AppendAside, ToolAside, RemoveAside
         DEF BotStep, CancelTool, MoveTool, RemoveTool
    <3> QED
      BY <1>1, <3>1, AsideKeeps
  <2> QED
    BY <2>1, <2>2
<1>3. ASSUME NEW p \in Actors, SharedStep(p)
      PROVE  Closing' /\ OrderFollowsVisit'
  <2>1. CASE Mirror(p)
    <3>1. Aside
      BY <2>1, MirrorAside
    <3> QED
      BY <1>1, <3>1, AsideKeeps
  <2>2. CASE CancelBooking(p)
    <3>1. /\ UNCHANGED <<visit, order>> /\ task[p].pc = "crmCancel"
          /\ task' = Done(p) \/ task' = [task EXCEPT ![p].pc = "markVisit"]
      BY <2>2 DEF CancelBooking
    <3>2. TasksAside
      BY <3>1, PcAside, DoneAside
    <3>3. Aside
      BY <3>1, <3>2, SameAside DEF Aside
    <3> QED
      BY <1>1, <3>3, AsideKeeps
  <2>3. CASE MarkVisit(p)
    BY <1>1, <2>3, MarkVisitFollows
  <2>4. CASE MarkOrders(p)
    BY <1>1, <2>4, MarkOrdersFollows
  <2> QED
    BY <1>3, <2>1, <2>2, <2>3, <2>4 DEF SharedStep
<1>4. ASSUME NEW m \in Managers, ManagerStep(m)
      PROVE  Closing' /\ OrderFollowsVisit'
  <2>1. Aside
    BY <1>4, ManagerAside
  <2> QED
    BY <1>1, <2>1, AsideKeeps
<1>5. CASE World
  <2>1. ASSUME NEW k, SalonCancels(k) \/ SetWrites \/ \E slot \in Slots : SalonMoves(k, slot)
        PROVE  Closing' /\ OrderFollowsVisit'
    <3>1. Aside
      BY <2>1, SalonAside
    <3> QED
      BY <1>1, <3>1, AsideKeeps
  <2> QED
    BY <1>1, <1>5, <2>1, HookFollows, CrashFollows DEF World
<1>6. CASE UNCHANGED vars
  <2>1. UNCHANGED <<visit, order, task>>
    BY <1>6 DEF vars
  <2>2. Aside
    BY <2>1, SameAside DEF Aside
  <2> QED
    BY <1>1, <2>2, AsideKeeps
<1> QED
  BY <1>2, <1>3, <1>4, <1>5, <1>6 DEF Next

\* For any number of orders, visits and requests: what managers see of a visit is open
\* while the visit is and closed once it is cancelled, but for the moment between the two
\* writes, unless the process died there, the salon cancelled, a cancellation crossed
\* another actor's write, or it closed the order while the bot was about to link it.
THEOREM OrdersTheorem == Spec => []OrderFollowsVisit
<1>1. Init => Crossings /\ Closing /\ OrderFollowsVisit
  BY DEF Init, Crossings, At, Closing, OrderFollowsVisit, NoOrder, Idle, Writing
<1>2. Typed /\ [Next]_vars => Typed'
  BY NextTyped DEF Typed, TypeOK, Placed, OrdersPlaced, vars
<1>3. Typed /\ Crossings /\ [Next]_vars => Crossings'
  BY NextCareful, CarefulKeeps
<1>4. Typed /\ Crossings /\ Closing /\ OrderFollowsVisit /\ [Next]_vars =>
        (Closing /\ OrderFollowsVisit)'
  BY <1>2, NextFollows
<1> QED
  BY InitTyped, <1>1, <1>2, <1>3, <1>4, PTL DEF Spec

-----------------------------------------------------------------------------
(* No record of the CRM is two visits'.                                    *)

\* The record a task is about to enter in its row, or to edit.
Names(p, t, k) ==
  \/ t.pc = "record" /\ t.rec = k
  \/ p = Bot /\ t.pc = "append" /\ t.rec = k
  \/ p = Bot /\ t.pc = "crmRemove" /\ t.seen.rec = k

Has(v, k) ==
  \/ visit[v].rec = k
  \/ \E p \in Actors : task[p].v = v /\ Names(p, task[p], k)

Unshared ==
  \A k \in Records, v \in Visits : Has(v, k) =>
    /\ crm[k].visit # 0
    /\ \A w \in Visits \ {v} : Has(w, k) => "shared" \in mishap[v]

\* What most steps do: name no record their row had not.
RowsHold == \A v \in Visits : visit'[v].rec = 0 \/ Has(v, visit'[v].rec)

TasksHold ==
  \A p \in Actors : task'[p] = task[p]
                    \/ \A k \in Records, v \in Visits :
                         task'[p].v = v /\ Names(p, task'[p], k) => Has(v, k)

\* What all steps but createBooking do: no task is about to enter a record.
NoneRecords == \A p \in Actors : task'[p] = task[p] \/ task'[p].pc # "record"

\* Names that are not new give no record to a second visit.
LEMMA HeldKeeps ==
  ASSUME Unshared, RowsHold, TasksHold, MishapsStay,
         \A k \in Records : crm[k].visit # 0 => crm'[k].visit # 0
  PROVE  Unshared'
<1>1. ASSUME NEW k \in Records, NEW v \in Visits, Has(v, k)' PROVE Has(v, k)
  <2>1. CASE visit'[v].rec = k
    BY <2>1, BoundsAssumption DEF RowsHold
  <2>2. ASSUME NEW p \in Actors, task'[p].v = v, Names(p, task'[p], k) PROVE Has(v, k)
    BY <2>2 DEF TasksHold, Has
  <2>3. visit'[v].rec = k \/ \E p \in Actors : task'[p].v = v /\ Names(p, task'[p], k)
    BY <1>1 DEF Has, Names
  <2> QED
    BY <2>1, <2>2, <2>3
<1>2. ASSUME NEW k \in Records, NEW v \in Visits, Has(v, k)'
      PROVE  /\ crm'[k].visit # 0
             /\ \A w \in Visits \ {v} : Has(w, k)' => "shared" \in mishap'[v]
  BY <1>1, <1>2 DEF Unshared, MishapsStay
<1> QED
  BY <1>2 DEF Unshared

\* Where most tasks go: nowhere they name a record.
Nameless == Phases \ {"record", "append", "crmRemove"}

TasksNameless == \A p \in Actors : task'[p] = task[p] \/ task'[p].pc \in Nameless

LEMMA NamelessHold ==
  ASSUME TasksNameless
  PROVE  TasksHold /\ NoneRecords
BY DEF TasksNameless, Nameless, TasksHold, NoneRecords, Names

\* A task that is replaced, or goes on, to such a phase.
LEMMA RowNameless ==
  ASSUME Typed, NEW p \in Actors, NEW row, task' = [task EXCEPT ![p] = row], row.pc \in Nameless
  PROVE  TasksNameless
BY DEF Typed, TypeOK, TasksNameless

\* A task whose phase alone changes.
LEMMA PcNameless ==
  ASSUME Typed, NEW p \in Actors, NEW q \in Nameless, task' = [task EXCEPT ![p].pc = q]
  PROVE  TasksNameless
<1>1. task[p] \in TaskRow
  BY TaskType DEF Typed
<1>2. task'[p].pc = q /\ \A r \in Actors \ {p} : task'[r] = task[r]
  BY <1>1 DEF Typed, TypeOK, TaskRow
<1> QED
  BY <1>2 DEF TasksNameless

LEMMA DoneNameless ==
  ASSUME Typed, NEW p \in Actors, task' = Done(p)
  PROVE  TasksNameless
BY RowNameless DEF Done, Idle, Nameless, Phases

\* The steps of each kind name no record that their row did not have.
LEMMA RecordsKeptHold ==
  ASSUME \A v \in Visits : visit'[v].rec = visit[v].rec
  PROVE  RowsHold
BY DEF RowsHold, Has

\* The bot's booking, up to the CRM.
LEMMA BookingHold ==
  ASSUME Typed, RowsExist,
         \/ \E slot \in Slots, s \in Services : Book(slot, s)
         \/ RefuseBook \/ FindVisit \/ MergeVisit \/ CreateVisit \/ FindOrder \/ MirrorOrder
         \/ GateClosed \/ GateOpen \/ MirrorOff
  PROVE  RowsHold /\ TasksHold /\ NoneRecords
<1> DEFINE t == task[Bot]
<1>0. /\ t \in TaskRow
      /\ \A q \in {"find", "store", "order", "writeOrder", "gate", "load", "appendLoad",
                    "reread"} : q \in Nameless
  BY TaskType DEF Typed, Nameless, Phases, Writing
<1>1. ASSUME NEW slot \in Slots, NEW s \in Services, Book(slot, s)
      PROVE  RowsHold /\ TasksHold /\ NoneRecords
  <2> DEFINE row == [Idle EXCEPT !.pc = "find", !.op = "book", !.slot = slot, !.want = {s}]
  <2>1. row.pc = "find"
    BY DEF Idle
  <2>2. task' = [task EXCEPT ![Bot] = row] /\ UNCHANGED visit
    BY <1>1 DEF Book
  <2> HIDE DEF row
  <2> QED
    BY <1>0, <2>1, <2>2, RowNameless, NamelessHold, RecordsKeptHold
<1>2. CASE RefuseBook
  BY <1>2, DoneNameless, NamelessHold, RecordsKeptHold DEF RefuseBook, Done
<1>3. CASE FindVisit
  <2>1. PICK v, found :
          task' = [task EXCEPT ![Bot] = [t EXCEPT !.pc = "store", !.v = v, !.seen = found]]
    BY <1>3 DEF FindVisit
  <2> DEFINE row == [t EXCEPT !.pc = "store", !.v = v, !.seen = found]
  <2>2. row.pc = "store"
    BY <1>0 DEF TaskRow
  <2>3. task' = [task EXCEPT ![Bot] = row] /\ UNCHANGED visit
    BY <1>3, <2>1 DEF FindVisit
  <2> HIDE DEF row
  <2> QED
    BY <1>0, <2>2, <2>3, RowNameless, NamelessHold, RecordsKeptHold
<1>4. CASE MergeVisit
  <2> DEFINE adds == t.want \ t.seen.services # {}
             want == t.seen.services \cup t.want
             row == [t EXCEPT !.pc = "order", !.adds = adds, !.want = want]
  <2>1. task' = [task EXCEPT ![Bot] = row]
    BY <1>4 DEF MergeVisit
  <2>2. row.pc = "order"
    <3> HIDE DEF adds, want
    <3> QED
      BY <1>0 DEF TaskRow
  <2> HIDE DEF row
  <2>3. \A v \in Visits : visit'[v].rec = visit[v].rec
    BY <1>4 DEF MergeVisit, Typed, TypeOK, VisitRow
  <2> QED
    BY <1>0, <2>1, <2>2, <2>3, RowNameless, NamelessHold, RecordsKeptHold
<1>5. CASE CreateVisit
  <2> DEFINE new == [slot |-> t.slot, services |-> t.want, status |-> "confirmed",
                     rec |-> 0, sync |-> "pending"]
  <2>1. PICK v \in FreshVisits :
          /\ visit' = [visit EXCEPT ![v] = new]
          /\ task' = [task EXCEPT ![Bot] = [t EXCEPT !.pc = "order", !.v = v, !.adds = TRUE]]
    BY <1>5 DEF CreateVisit, IsFirst
  <2> DEFINE row == [t EXCEPT !.pc = "order", !.v = v, !.adds = TRUE]
  <2>2. row.pc = "order"
    BY <1>0 DEF TaskRow
  <2>3. \A w \in Visits : visit'[w].rec \in {0, visit[w].rec}
    BY <2>1 DEF Typed, TypeOK
  <2>4. task' = [task EXCEPT ![Bot] = row]
    BY <2>1
  <2> HIDE DEF row
  <2>5. RowsHold
    BY <2>3 DEF RowsHold, Has
  <2> QED
    BY <1>0, <2>2, <2>4, <2>5, RowNameless, NamelessHold
<1>6. CASE MirrorOrder
  <2>1. task' = [task EXCEPT ![Bot].pc = "gate"] /\ UNCHANGED visit
    BY <1>6 DEF MirrorOrder
  <2> QED
    BY <1>0, <2>1, PcNameless, NamelessHold, RecordsKeptHold
<1>7. CASE GateClosed
  <2>1. task' = Done(Bot) /\ \A v \in Visits : visit'[v].rec = visit[v].rec
    BY <1>7 DEF GateClosed, Done, Typed, TypeOK, VisitRow
  <2> QED
    BY <2>1, DoneNameless, NamelessHold, RecordsKeptHold
<1>8. CASE GateOpen
  <2>1. /\ UNCHANGED visit
        /\ \/ task' = [task EXCEPT ![Bot].pc = "load"]
           \/ task' = [task EXCEPT ![Bot].pc = "appendLoad"]
           \/ task' = Done(Bot)
    BY <1>8 DEF GateOpen, Done, Typed, TypeOK
  <2> QED
    BY <1>0, <2>1, PcNameless, DoneNameless, NamelessHold, RecordsKeptHold
<1>9. CASE MirrorOff
  <2>1. task' = [task EXCEPT ![Bot].pc = "reread"] /\ UNCHANGED visit
    BY <1>9 DEF MirrorOff
  <2> QED
    BY <1>0, <2>1, PcNameless, NamelessHold, RecordsKeptHold
<1>10. CASE FindOrder
  <2>1. PICK q \in {"writeOrder", "gate"}, i \in Orders \cup {0} :
          task' = [task EXCEPT ![Bot] = [t EXCEPT !.pc = q, !.ord = i]]
    BY <1>10, FindOrderCases
  <2> DEFINE row == [t EXCEPT !.pc = q, !.ord = i]
  <2>2. row.pc = q
    BY <1>0 DEF TaskRow
  <2>3. task' = [task EXCEPT ![Bot] = row] /\ UNCHANGED visit
    BY <1>10, <2>1 DEF FindOrder
  <2> HIDE DEF row
  <2> QED
    BY <1>0, <2>2, <2>3, RowNameless, NamelessHold, RecordsKeptHold
<1> QED
  BY <1>1, <1>2, <1>3, <1>4, <1>5, <1>6, <1>7, <1>8, <1>9, <1>10

\* The mirror but for the creation of the record.
LEMMA MirrorHold ==
  ASSUME Typed, NEW p \in Actors,
         MirrorKnown(p) \/ MirrorNew(p) \/ RecordBooking(p) \/ Reflect(p)
  PROVE  RowsHold /\ TasksHold /\ NoneRecords
<1> DEFINE t == task[p]
<1>0. t \in TaskRow /\ \A q \in {"reflect", "create", "reread"} : q \in Nameless
  BY TaskType DEF Typed, Nameless, Phases, Writing
<1>1. CASE MirrorKnown(p)
  <2> DEFINE row == [t EXCEPT !.pc = "reflect", !.rec = visit[t.v].rec]
  <2>1. row.pc = "reflect"
    BY <1>0 DEF TaskRow
  <2>2. task' = [task EXCEPT ![p] = row]
    BY <1>1 DEF MirrorKnown
  <2> HIDE DEF row
  <2>3. \A v \in Visits : visit'[v].rec = visit[v].rec
    BY <1>1 DEF MirrorKnown, Typed, TypeOK, VisitRow
  <2> QED
    BY <1>0, <2>1, <2>2, <2>3, RowNameless, NamelessHold, RecordsKeptHold
<1>2. CASE MirrorNew(p)
  <2> DEFINE row == [t EXCEPT !.pc = "create", !.sent = visit[t.v].services]
  <2>1. row.pc = "create"
    BY <1>0 DEF TaskRow
  <2>2. task' = [task EXCEPT ![p] = row] /\ UNCHANGED visit
    BY <1>2 DEF MirrorNew
  <2> HIDE DEF row
  <2> QED
    BY <1>0, <2>1, <2>2, RowNameless, NamelessHold, RecordsKeptHold
<1>3. CASE RecordBooking(p)
  <2> DEFINE row == [t EXCEPT !.pc = "reflect"]
  <2>1. row.pc = "reflect"
    BY <1>0 DEF TaskRow
  <2>2. task' = [task EXCEPT ![p] = row] /\ t.pc = "record"
    BY <1>3 DEF RecordBooking
  <2> HIDE DEF row
  <2>3. \A v \in Visits : visit'[v].rec = visit[v].rec \/ (v = t.v /\ visit'[v].rec = t.rec)
    BY <1>3 DEF RecordBooking, Typed, TypeOK, VisitRow
  <2>4. RowsHold
    BY <2>2, <2>3 DEF RowsHold, Has, Names
  <2> QED
    BY <1>0, <2>1, <2>2, <2>4, RowNameless, NamelessHold
<1>4. CASE Reflect(p)
  <2>1. task' = [task EXCEPT ![p].pc = "reread"] \/ task' = Done(p)
    BY <1>4 DEF Reflect
  <2>2. UNCHANGED visit
    BY <1>4 DEF Reflect
  <2> QED
    BY <1>0, <2>1, <2>2, PcNameless, DoneNameless, NamelessHold, RecordsKeptHold
<1> QED
  BY <1>1, <1>2, <1>3, <1>4

\* The append names the record its row has.
LEMMA AppendHold ==
  ASSUME Typed, LoadForAppend \/ AppendServices \/ RecordAppend \/ RereadAndConfirm
  PROVE  RowsHold /\ TasksHold /\ NoneRecords
<1> DEFINE t == task[Bot]
<1>0. t \in TaskRow /\ \A q \in {"recordAppend", "reflect"} : q \in Nameless
  BY TaskType DEF Typed, Nameless, Phases, Writing
<1>1. CASE LoadForAppend
  <2> DEFINE sent == IF altegio THEN visit[t.v].services
                     ELSE visit[t.v].services \ t.seen.services
             row == [t EXCEPT !.pc = "append", !.rec = visit[t.v].rec, !.sent = sent]
  <2>1. task' = [task EXCEPT ![Bot] = row] /\ UNCHANGED visit
    BY <1>1 DEF LoadForAppend
  <2>2. row.pc = "append" /\ row.v = t.v /\ row.rec = visit[t.v].rec
    <3> HIDE DEF sent
    <3> QED
      BY <1>0 DEF TaskRow
  <2> HIDE DEF row
  <2>3. task'[Bot] = row /\ \A q \in Actors \ {Bot} : task'[q] = task[q]
    BY <2>1 DEF Typed, TypeOK
  <2>4. TasksHold /\ NoneRecords
    BY <2>2, <2>3 DEF TasksHold, NoneRecords, Names, Has
  <2> QED
    BY <2>1, <2>4, RecordsKeptHold
<1>2. CASE AppendServices
  <2>1. /\ UNCHANGED visit
        /\ task' = [task EXCEPT ![Bot].pc = "recordAppend"] \/ task' = Done(Bot)
    BY <1>2 DEF AppendServices
  <2> QED
    BY <1>0, <2>1, PcNameless, DoneNameless, NamelessHold, RecordsKeptHold
<1>3. CASE RecordAppend
  <2>1. task' = [task EXCEPT ![Bot].pc = "reflect"]
    BY <1>3 DEF RecordAppend
  <2>2. \A v \in Visits : visit'[v].rec = visit[v].rec
    BY <1>3 DEF RecordAppend, Typed, TypeOK, VisitRow
  <2> QED
    BY <1>0, <2>1, <2>2, PcNameless, NamelessHold, RecordsKeptHold
<1>4. CASE RereadAndConfirm
  BY <1>4, DoneNameless, NamelessHold, RecordsKeptHold DEF RereadAndConfirm
<1> QED
  BY <1>1, <1>2, <1>3, <1>4

\* A cancellation.
LEMMA CancelHold ==
  ASSUME Typed, NEW p \in Actors, CancelBooking(p) \/ MarkVisit(p) \/ MarkOrders(p)
  PROVE  RowsHold /\ TasksHold /\ NoneRecords
<1> DEFINE t == task[p]
<1>0. t \in TaskRow /\ \A q \in {"markVisit", "markOrders", "find"} : q \in Nameless
  BY TaskType DEF Typed, Nameless, Phases, Writing
<1>1. CASE CancelBooking(p)
  <2>1. UNCHANGED visit /\ (task' = Done(p) \/ task' = [task EXCEPT ![p].pc = "markVisit"])
    BY <1>1 DEF CancelBooking
  <2> QED
    BY <1>0, <2>1, PcNameless, DoneNameless, NamelessHold, RecordsKeptHold
<1>2. CASE MarkVisit(p)
  <2>1. task' = [task EXCEPT ![p].pc = "markOrders"]
    BY <1>2 DEF MarkVisit
  <2>2. \A v \in Visits : visit'[v].rec = visit[v].rec
    BY <1>2 DEF MarkVisit, Typed, TypeOK, VisitRow
  <2> QED
    BY <1>0, <2>1, <2>2, PcNameless, NamelessHold, RecordsKeptHold
<1>3. CASE MarkOrders(p)
  <2> DEFINE row == [t EXCEPT !.pc = "find", !.v = 0, !.want = t.seen.services,
                              !.seen = NoVisit]
  <2>1. row.pc = "find"
    BY <1>0 DEF TaskRow
  <2>2. UNCHANGED visit /\ (task' = [task EXCEPT ![p] = row] \/ task' = Done(p))
    BY <1>3 DEF MarkOrders
  <2> HIDE DEF row
  <2> QED
    BY <1>0, <2>1, <2>2, RowNameless, DoneNameless, NamelessHold, RecordsKeptHold
<1> QED
  BY <1>1, <1>2, <1>3

\* A removal of lines.
LEMMA RemoveHold ==
  ASSUME Typed, RemoveService \/ StoreServices
  PROVE  RowsHold /\ TasksHold /\ NoneRecords
<1>0. \A q \in {"markVisit", "storeServices"} : q \in Nameless
  BY DEF Nameless, Phases, Writing
<1>1. CASE RemoveService
  <2>1. /\ UNCHANGED visit
        /\ \/ task' = [task EXCEPT ![Bot].pc = "markVisit"]
           \/ task' = [task EXCEPT ![Bot].pc = "storeServices"]
           \/ task' = Done(Bot)
    BY <1>1 DEF RemoveService
  <2> QED
    BY <1>0, <2>1, PcNameless, DoneNameless, NamelessHold, RecordsKeptHold
<1>2. CASE StoreServices
  <2>1. task' = Done(Bot) /\ \A v \in Visits : visit'[v].rec = visit[v].rec
    BY <1>2 DEF StoreServices, Typed, TypeOK, VisitRow
  <2> QED
    BY <2>1, DoneNameless, NamelessHold, RecordsKeptHold
<1> QED
  BY <1>1, <1>2

\* The managers' requests, but for a retry that is given a visit of the same day.
LEMMA ManagerHold ==
  ASSUME Typed, NEW m \in Managers, ManagerStep(m), ~LinkSameDay(m)
  PROVE  RowsHold /\ TasksHold /\ NoneRecords
<1>1. ASSUME NEW o \in Orders, Retry(m, o) \/ AdminCancel(m, o) \/ AssignMasters(m, o)
      PROVE  RowsHold /\ TasksHold /\ NoneRecords
  <2>1. PICK row \in TaskRow : Asks(m, o, row)
    BY <1>1, RequestCases
  <2>2. task' = [task EXCEPT ![m] = row] /\ UNCHANGED visit
    BY <2>1 DEF Asks
  <2>3. row.pc \in Nameless
    BY <2>1 DEF Asks, Nameless, Phases, Writing
  <2> QED
    BY <2>2, <2>3, RowNameless, NamelessHold, RecordsKeptHold
<1>2. CASE StoreMasters(m)
  <2>1. task' = Done(m) /\ \A v \in Visits : visit'[v].rec = visit[v].rec
    BY <1>2 DEF StoreMasters, Typed, TypeOK, VisitRow
  <2> QED
    BY <2>1, DoneNameless, NamelessHold, RecordsKeptHold
<1>3. CASE RereadAndReflect(m)
  BY <1>3, DoneNameless, NamelessHold, RecordsKeptHold DEF RereadAndReflect
<1> QED
  BY <1>1, <1>2, <1>3 DEF ManagerStep

\* The salon, the setting and the process.
LEMMA WorldHold ==
  ASSUME Typed, World
  PROVE  RowsHold /\ TasksHold /\ NoneRecords
<1>1. ASSUME UNCHANGED task, \A v \in Visits : visit'[v].rec = visit[v].rec
      PROVE  RowsHold /\ TasksHold /\ NoneRecords
  BY <1>1, RecordsKeptHold DEF TasksHold, NoneRecords
<1>2. ASSUME NEW k \in Records, \/ SalonCancels(k)
                                \/ \E slot \in Slots : SalonMoves(k, slot)
      PROVE  RowsHold /\ TasksHold /\ NoneRecords
  BY <1>1, <1>2 DEF SalonCancels, SalonMoves
<1>3. CASE SetWrites
  BY <1>1, <1>3 DEF SetWrites
<1>4. ASSUME NEW h \in hooks, ApplyHook(h)
      PROVE  RowsHold /\ TasksHold /\ NoneRecords
  <2>1. UNCHANGED task
    BY <1>4 DEF ApplyHook
  <2>2. \A v \in Visits : visit'[v].rec = visit[v].rec
    BY <1>4 DEF ApplyHook, Typed, TypeOK, VisitRow
  <2> QED
    BY <1>1, <2>1, <2>2
<1>5. CASE Crash
  <2>1. UNCHANGED visit /\ \A p \in Actors : task'[p].pc \in Nameless
    BY <1>5 DEF Crash, Idle, Nameless, Phases
  <2> QED
    BY <2>1, NamelessHold, RecordsKeptHold DEF TasksNameless
<1> QED
  BY <1>2, <1>3, <1>4, <1>5 DEF World

\* A record that is being made is nobody's yet.
LEMMA CreateBookingUnshared ==
  ASSUME Typed, Unshared, MishapsStay, NEW p \in Actors, CreateBooking(p)
  PROVE  Unshared'
<1> DEFINE t == task[p]
<1>0. t \in TaskRow /\ t.v \in Visits
  BY TaskType, RowOf DEF Typed, CreateBooking
<1>1. PICK k \in Records \cup {0}, heard \in BOOLEAN : Made(p, k, heard)
  BY CreateBookingCases
<1> DEFINE row == [t EXCEPT !.pc = "record", !.rec = IF heard THEN k ELSE 0]
<1>2. row.pc = "record" /\ row.v = t.v /\ row.rec = IF heard THEN k ELSE 0
  BY <1>0 DEF TaskRow
<1>3. task' = [task EXCEPT ![p] = row]
  BY <1>1 DEF Made
<1> HIDE DEF row
<1>4. task'[p] = row /\ \A q \in Actors \ {p} : task'[q] = task[q]
  BY <1>3 DEF Typed, TypeOK
<1>5. UNCHANGED visit
  BY DEF CreateBooking
<1>6. /\ \A j \in Records \ {k} : crm'[j] = crm[j]
      /\ k # 0 => crm'[k].visit = t.v /\ crm[k].visit = 0
  BY <1>1 DEF Made, Typed, TypeOK
<1>7. ASSUME NEW j \in Records, NEW v \in Visits, Has(v, j)'
      PROVE  IF j = k THEN v = t.v ELSE Has(v, j)
  <2>1. CASE j = k
    <3>1. ~Has(v, j)
      BY <1>6, <2>1, BoundsAssumption DEF Unshared
    <3>2. visit'[v].rec # j
      BY <1>5, <3>1 DEF Has
    <3>3. PICK q \in Actors : task'[q].v = v /\ Names(q, task'[q], j)
      BY <1>7, <3>2 DEF Has, Names
    <3>4. q = p
      BY <1>4, <3>1, <3>3 DEF Has
    <3> QED
      BY <1>2, <1>4, <2>1, <3>3, <3>4
  <2>2. CASE j # k
    <3>1. CASE visit'[v].rec = j
      BY <1>5, <2>2, <3>1 DEF Has
    <3>2. ASSUME NEW q \in Actors, task'[q].v = v, Names(q, task'[q], j)
          PROVE  Has(v, j)
      <4>1. q # p
        BY <1>2, <1>4, <2>2, <3>2, BoundsAssumption DEF Names
      <4> QED
        BY <1>4, <3>2, <4>1 DEF Has
    <3> QED
      BY <1>7, <2>2, <3>1, <3>2 DEF Has, Names
  <2> QED
    BY <2>1, <2>2
<1>8. ASSUME NEW j \in Records, NEW v \in Visits, Has(v, j)'
      PROVE  /\ crm'[j].visit # 0
             /\ \A w \in Visits \ {v} : Has(w, j)' => "shared" \in mishap'[v]
  <2>1. CASE j = k
    BY <1>0, <1>6, <1>7, <1>8, <2>1, BoundsAssumption
  <2>2. CASE j # k
    BY <1>6, <1>7, <1>8, <2>2 DEF Unshared, MishapsStay
  <2> QED
    BY <2>1, <2>2
<1> QED
  BY <1>8 DEF Unshared

\* What a tool starts with: the row of a visit as it is, or a new row for a record that
\* no row has.
Adopts(k, v, op, slot, lines) ==
  LET row == [slot |-> crm[k].slot, services |-> crm[k].services, status |-> "synced",
              rec |-> k, sync |-> "synced"]
  IN /\ crm[k].live
     /\ \A w \in Visits : visit[w].rec # k
     /\ visit' = [visit EXCEPT ![v] = row]
     /\ Adopted(v, k)
     /\ Begin(op, v, row, slot, lines)

\* The two ways in which a tool finds the row it works on.
LEMMA ToolCases ==
  ASSUME Typed, RowsExist, NEW op, NEW slot, NEW lines, StartTool(op, slot, lines)
  PROVE  \/ /\ UNCHANGED <<visit, mishap>>
            /\ \E v \in Visits : Begin(op, v, visit[v], slot, lines)
         \/ \E k \in Records, v \in FreshVisits : Adopts(k, v, op, slot, lines)
<1>1. CASE ResolveLocal(op, slot, lines)
  BY <1>1 DEF ResolveLocal
<1>2. CASE ResolveInCrm(op, slot, lines)
  <2>1. PICK k \in Upcoming :
          \/ /\ UNCHANGED <<visit, mishap>>
             /\ \E v \in Visits : Begin(op, v, visit[v], slot, lines)
          \/ /\ {v \in Visits : visit[v].rec = k} = {}
             /\ \E v \in FreshVisits :
                  LET row == [slot |-> crm[k].slot, services |-> crm[k].services,
                              status |-> "synced", rec |-> k, sync |-> "synced"]
                  IN /\ visit' = [visit EXCEPT ![v] = row]
                     /\ Adopted(v, k)
                     /\ Begin(op, v, row, slot, lines)
    BY <1>2 DEF ResolveInCrm, IsFirst
  <2>2. k \in Records /\ crm[k].live
    BY DEF Upcoming
  <2> QED
    BY <2>1, <2>2 DEF Adopts
<1> QED
  BY <1>1, <1>2 DEF StartTool

\* The bot's task once a tool began.
LEMMA Began ==
  ASSUME Typed, NEW op, NEW v, NEW row, NEW slot, NEW lines, Begin(op, v, row, slot, lines)
  PROVE  /\ \A q \in Actors \ {Bot} : task'[q] = task[q]
         /\ task'[Bot].v = v /\ task'[Bot].seen = row /\ task'[Bot].op = op
         /\ task'[Bot].want = lines
         /\ task'[Bot].pc \in {"crmRemove", "crmCancel", "markVisit", "storeServices"}
         /\ task'[Bot].pc = "crmRemove" => op = "remove" /\ row.rec # 0
<1> DEFINE inCrm == row.rec # 0 /\ writes
           first == IF inCrm THEN IF op = "remove" THEN "crmRemove" ELSE "crmCancel"
                    ELSE IF op # "remove" \/ row.services \ lines = {} THEN "markVisit"
                    ELSE "storeServices"
           old == IF inCrm /\ op = "move" THEN row.rec ELSE 0
           new == [Idle EXCEPT !.pc = first, !.op = op, !.v = v, !.seen = row, !.slot = slot,
                               !.want = lines, !.old = old]
<1>1. task' = [task EXCEPT ![Bot] = new]
  BY DEF Begin
<1>2. /\ first \in {"crmRemove", "crmCancel", "markVisit", "storeServices"}
      /\ first = "crmRemove" => op = "remove" /\ row.rec # 0
  OBVIOUS
<1> HIDE DEF first, old
<1>3. new.pc = first /\ new.op = op /\ new.v = v /\ new.seen = row /\ new.want = lines
  BY DEF Idle
<1> HIDE DEF new
<1>4. task'[Bot] = new /\ \A q \in Actors \ {Bot} : task'[q] = task[q]
  BY <1>1 DEF Typed, TypeOK
<1> QED
  BY <1>2, <1>3, <1>4

\* A tool that enters a record in a new row says so if it is about to be entered elsewhere.
LEMMA ToolUnshared ==
  ASSUME Typed, RowsExist, MoveInv, Unshared, MishapsStay, NEW op, NEW slot, NEW lines,
         StartTool(op, slot, lines)
  PROVE  Unshared'
<1>1. UNCHANGED crm /\ task[Bot].pc = "idle"
  BY DEF StartTool
<1>2. ASSUME UNCHANGED visit, NEW v \in Visits, Begin(op, v, visit[v], slot, lines)
      PROVE  Unshared'
  <2>1. TasksHold
    BY <1>2, Began DEF TasksHold, Names, Has
  <2> QED
    BY <1>1, <1>2, <2>1, HeldKeeps, RecordsKeptHold
<1>3. ASSUME NEW k \in Records, NEW v \in FreshVisits, Adopts(k, v, op, slot, lines)
      PROVE  Unshared'
  <2> DEFINE row == [slot |-> crm[k].slot, services |-> crm[k].services,
                     status |-> "synced", rec |-> k, sync |-> "synced"]
  <2>1. /\ crm[k].live /\ \A w \in Visits : visit[w].rec # k
        /\ visit' = [visit EXCEPT ![v] = row] /\ Adopted(v, k)
        /\ Begin(op, v, row, slot, lines) /\ row.rec = k /\ v \in Visits
    BY <1>3 DEF Adopts, FreshVisits
  <2> HIDE DEF row
  <2>2. /\ visit'[v].rec = k /\ \A w \in Visits \ {v} : visit'[w] = visit[w]
        /\ task'[Bot].v = v /\ task'[Bot].seen.rec = k
        /\ task'[Bot].pc \notin {"record", "append"}
        /\ \A q \in Actors \ {Bot} : task'[q] = task[q]
    BY <2>1, Began DEF Typed, TypeOK
  <2>3. ASSUME NEW j \in Records, NEW w \in Visits, Has(w, j)'
        PROVE  Has(w, j) \/ (j = k /\ w = v)
    <3>1. CASE visit'[w].rec = j
      BY <2>2, <3>1 DEF Has
    <3>2. ASSUME NEW q \in Actors, task'[q].v = w, Names(q, task'[q], j)
          PROVE  Has(w, j) \/ (j = k /\ w = v)
      BY <2>2, <3>2 DEF Has, Names
    <3> QED
      BY <2>3, <3>1, <3>2 DEF Has, Names
  <2>4. ASSUME NEW w \in Visits, Has(w, k) PROVE "shared" \in mishap'[w] /\ "shared" \in mishap'[v]
    <3>1. PICK q \in Actors : task[q].v = w /\ Names(q, task[q], k)
      BY <2>1, <2>4 DEF Has
    <3>2. task[q].pc = "record" /\ task[q].rec = k
      BY <1>1, <3>1 DEF Names
    <3> QED
      BY <2>1, <3>1, <3>2 DEF Adopted, Typed, TypeOK
  <2>5. crm[k].visit # 0
    BY <2>1 DEF MoveInv, CalendarOK
  <2>6. ASSUME NEW j \in Records, NEW w \in Visits, Has(w, j)'
        PROVE  /\ crm'[j].visit # 0
               /\ \A x \in Visits \ {w} : Has(x, j)' => "shared" \in mishap'[w]
    <3>1. crm[j].visit # 0
      BY <2>3, <2>5, <2>6 DEF Unshared
    <3>2. ASSUME NEW x \in Visits \ {w}, Has(x, j)' PROVE "shared" \in mishap'[w]
      <4>1. CASE Has(x, j) /\ Has(w, j)
        BY <3>2, <4>1 DEF Unshared, MishapsStay
      <4>2. CASE j = k /\ x = v
        BY <2>3, <2>4, <2>6, <3>2, <4>2
      <4>3. CASE j = k /\ w = v
        BY <2>3, <2>4, <3>2, <4>3
      <4> QED
        BY <2>3, <2>6, <3>2, <4>1, <4>2, <4>3
    <3> QED
      BY <1>1, <3>1, <3>2
  <2> QED
    BY <2>6 DEF Unshared
<1> QED
  BY <1>2, <1>3, ToolCases

\* A record that a retry takes from another row is blamed on every row that has it.
LEMMA LinkUnshared ==
  ASSUME Typed, MoveInv, Unshared, MishapsStay, NEW m \in Managers, LinkSameDay(m)
  PROVE  Unshared'
<1> DEFINE t == task[m]
<1>0. m \in Actors /\ m # Bot
  BY BotAssumption DEF Actors
<1>1. t \in TaskRow /\ t.v \in Visits
  BY <1>0, TaskType, RowOf DEF Typed, LinkSameDay
<1>2. PICK k \in Records : Linked(m, k)
  BY LinkCases
<1> DEFINE row == [t EXCEPT !.pc = "record", !.rec = k]
<1>3. row.pc = "record" /\ row.v = t.v /\ row.rec = k
  BY <1>1 DEF TaskRow
<1>4. task' = [task EXCEPT ![m] = row]
  BY <1>2 DEF Linked
<1> HIDE DEF row
<1>5. task'[m] = row /\ \A q \in Actors \ {m} : task'[q] = task[q]
  BY <1>0, <1>4 DEF Typed, TypeOK
<1>6. UNCHANGED visit
  BY DEF LinkSameDay
<1>7. /\ \A j \in Records : crm'[j].visit = crm[j].visit
      /\ crm[k].visit # 0
  <2>1. crm[k].live
    BY <1>2 DEF Linked
  <2>2. crm[k].visit # 0
    BY <2>1 DEF MoveInv, CalendarOK
  <2>3. \A j \in Records : crm'[j].visit = crm[j].visit
    BY <1>2 DEF Linked, Typed, TypeOK, RecordRow
  <2> QED
    BY <2>2, <2>3
<1>8. ASSUME NEW j \in Records, NEW v \in Visits, Has(v, j)'
      PROVE  Has(v, j) \/ (j = k /\ v = t.v)
  <2>1. CASE visit'[v].rec = j
    BY <1>6, <2>1 DEF Has
  <2>2. ASSUME NEW q \in Actors, task'[q].v = v, Names(q, task'[q], j)
        PROVE  Has(v, j) \/ (j = k /\ v = t.v)
    BY <1>0, <1>3, <1>5, <2>2 DEF Has, Names
  <2> QED
    BY <1>8, <2>1, <2>2 DEF Has, Names
<1>9. ASSUME NEW w \in Visits \ {t.v}, Has(w, k)
      PROVE  "shared" \in mishap'[w] /\ "shared" \in mishap'[t.v]
  <2>1. w \in Holders(k)
    BY <1>9 DEF Has, Names, Holders
  <2> QED
    BY <1>1, <1>2, <1>9, <2>1 DEF Linked
<1>10. ASSUME NEW j \in Records, NEW v \in Visits, Has(v, j)'
       PROVE  /\ crm'[j].visit # 0
              /\ \A w \in Visits \ {v} : Has(w, j)' => "shared" \in mishap'[v]
  <2>1. crm'[j].visit # 0
    BY <1>7, <1>8, <1>10 DEF Unshared
  <2>2. ASSUME NEW w \in Visits \ {v}, Has(w, j)' PROVE "shared" \in mishap'[v]
    <3>1. CASE Has(v, j) /\ Has(w, j)
      BY <2>2, <3>1 DEF Unshared, MishapsStay
    <3>2. CASE j = k /\ v = t.v
      BY <1>8, <1>9, <2>2, <3>2
    <3>3. CASE j = k /\ w = t.v
      BY <1>8, <1>9, <1>10, <2>2, <3>3
    <3> QED
      BY <1>8, <1>10, <2>2, <3>1, <3>2, <3>3
  <2> QED
    BY <2>1, <2>2
<1> QED
  BY <1>10 DEF Unshared

\* No step gives a record to a second visit unrecorded.
LEMMA NextUnshared ==
  ASSUME Typed, RowsExist, MoveInv, Unshared, [Next]_vars
  PROVE  Unshared'
<1>1. MishapsStay
  BY NextCareful DEF Careful, MishapsStay
<1>2. \A k \in Records : crm[k].visit # 0 => crm'[k].visit # 0
  BY NextFaithful DEF Faithful, CalendarAges
<1>3. ASSUME RowsHold, TasksHold PROVE Unshared'
  BY <1>1, <1>2, <1>3, HeldKeeps
<1>4. CASE BotStep
  <2>1. CASE \E op, slot, lines : StartTool(op, slot, lines)
    BY <1>1, <2>1, ToolUnshared
  <2> QED
    BY <1>3, <1>4, <2>1, BookingHold, AppendHold, RemoveHold
       DEF BotStep, CancelTool, MoveTool, RemoveTool
<1>5. ASSUME NEW p \in Actors, SharedStep(p) PROVE Unshared'
  BY <1>1, <1>3, <1>5, MirrorHold, CreateBookingUnshared, CancelHold DEF SharedStep, Mirror
<1>6. CASE UNCHANGED vars
  BY <1>3, <1>6, RecordsKeptHold DEF vars, TasksHold
<1>7. ASSUME NEW m \in Managers, ManagerStep(m) PROVE Unshared'
  BY <1>1, <1>3, <1>7, ManagerHold, LinkUnshared
<1> QED
  BY <1>3, <1>4, <1>5, <1>6, <1>7, WorldHold DEF Next

-----------------------------------------------------------------------------
(* A confirmation names lines the CRM has.                                 *)

Faults == {"short", "doubled", "shared"}

Clean(v) == mishap[v] \cap Faults = {}
CleanNext(v) == mishap'[v] \cap Faults = {}

\* The record of a row, if it has one, has the lines s.
Covers(row, cal, s) == row.rec # 0 => s \subseteq cal[row.rec].services

\* The row has lines that are yet to be sent, or lost some that are yet to be struck.
Unsent(t) ==
  /\ t.pc \in {"order", "writeOrder", "gate", "appendLoad", "append"}
  /\ t.adds
  /\ t.seen.rec # 0
Removing(t) == t.pc = "storeServices" \/ (t.pc = "markVisit" /\ t.op = "remove")
Unfinished(t) == Unsent(t) \/ Removing(t)

\* From the merge or the creation of the row to the confirmation.
Booking == {"order", "writeOrder", "gate", "load", "create", "record", "reflect", "reread",
            "appendLoad", "append", "recordAppend"}

\* What the bot's task is, whatever happened to its row.
Shape(t) ==
  /\ t.pc = "store" /\ t.v = 0 => t.seen.rec = 0
  /\ t.pc \in {"appendLoad", "append"} => Unsent(t)
  /\ t.pc = "crmRemove" => t.op = "remove" /\ t.seen.rec # 0

\* How the bot's task and its row agree, and what the record has of it.
Fits(t, row, cal) ==
  /\ t.pc \in {"store", "crmRemove", "storeServices"} => row.services = t.seen.services
  /\ t.pc \in Booking => row.services = t.want
  /\ t.pc \in Booking \cup {"store"} /\ ~Unsent(t) => Covers(row, cal, row.services)
  /\ Unsent(t) => row.rec = t.seen.rec /\ Covers(row, cal, t.seen.services)
  /\ t.pc = "append" => /\ t.rec = row.rec
                        /\ t.want \subseteq t.sent \cup t.seen.services
                        /\ altegio => t.want \subseteq t.sent
  /\ t.pc = "crmRemove" => row.rec = t.seen.rec
  /\ t.pc = "storeServices" /\ row.status # "cancelled"
       => Covers(row, cal, row.services \ t.want)

BotLines ==
  LET t == task[Bot]
  IN Shape(t) /\ (t.v # 0 /\ Clean(t.v) => Fits(t, visit[t.v], crm))

RowLines ==
  \A v \in Visits :
    Clean(v) /\ visit[v].status # "cancelled" /\ ~(task[Bot].v = v /\ Unfinished(task[Bot]))
    => Covers(visit[v], crm, visit[v].services)

\* A record that is about to be entered has the lines that were sent, or would have been.
SentLines ==
  \A p \in Actors :
    task[p].pc = "record" /\ task[p].rec # 0 /\ Clean(task[p].v)
    => task[p].sent \subseteq crm[task[p].rec].services

LinesInv == BotLines /\ RowLines /\ SentLines

\* Steps that change no line of a row or of a record that is known.
LinesSame ==
  /\ UNCHANGED altegio
  /\ \A v \in Visits : /\ visit'[v].services = visit[v].services
                       /\ visit'[v].rec = visit[v].rec
                       /\ visit[v].status = "cancelled" /\ visit'[v].status # "cancelled" =>
                            ~CleanNext(v) \/ Covers(visit[v], crm, visit[v].services)
  /\ \A k \in Records : crm[k].visit # 0 => crm'[k].services = crm[k].services

\* What a record has of its row, it keeps.
LEMMA CoversKept ==
  ASSUME Typed, Unshared, LinesSame, NEW v \in Visits, NEW s, Covers(visit[v], crm, s)
  PROVE  Covers(visit'[v], crm', s)
<1>1. visit[v].rec \in Records \cup {0} /\ visit'[v].rec = visit[v].rec
  BY DEF Typed, TypeOK, VisitRow, LinesSame
<1>2. CASE visit[v].rec = 0
  BY <1>1, <1>2 DEF Covers
<1>3. CASE visit[v].rec # 0
  <2>1. crm[visit[v].rec].visit # 0
    BY <1>1, <1>3 DEF Unshared, Has
  <2> QED
    BY <1>1, <1>3, <2>1 DEF LinesSame, Covers
<1> QED
  BY <1>2, <1>3

\* Nor does the bot's task cease to fit its row.
LEMMA FitsKept ==
  ASSUME Typed, Unshared, LinesSame, NEW t, t.v \in Visits, CleanNext(t.v),
         Fits(t, visit[t.v], crm)
  PROVE  Fits(t, visit'[t.v], crm')
<1> DEFINE row == visit[t.v]
           new == visit'[t.v]
<1>1. /\ new.services = row.services /\ new.rec = row.rec
      /\ row.status = "cancelled" /\ new.status # "cancelled" =>
           Covers(row, crm, row.services)
      /\ UNCHANGED altegio
  BY DEF LinesSame
<1>2. \A s : Covers(row, crm, s) => Covers(new, crm', s)
  BY CoversKept
<1>3. Covers(row, crm, row.services) => Covers(row, crm, row.services \ t.want)
  BY DEF Covers
<1> HIDE DEF row, new
<1>4. Fits(t, row, crm)
  BY DEF row
<1>5. Fits(t, new, crm')
  BY <1>1, <1>2, <1>3, <1>4 DEF Fits
<1> QED
  BY <1>5 DEF new

\* How the bot's task goes on at such a step.
BotGoes ==
  LET t == task[Bot]
      u == task'[Bot]
  IN u = t \/ ( /\ Shape(u)
                /\ u.v # 0 /\ CleanNext(u.v) => Fits(u, visit[u.v], crm)
                /\ Unfinished(t) /\ CleanNext(t.v) =>
                     \/ u.v = t.v /\ Unfinished(u)
                     \/ visit'[t.v].status = "cancelled"
                     \/ Covers(visit[t.v], crm, visit[t.v].services) )

\* Such a step keeps what is known of the rows and of the bot's task.
LEMMA SameKeeps ==
  ASSUME Typed, Typed', Unshared, BotLines, RowLines, MishapsStay, LinesSame, BotGoes
  PROVE  BotLines' /\ RowLines'
<1> DEFINE t == task[Bot]
           u == task'[Bot]
<1>1. \A v \in Visits : CleanNext(v) => Clean(v)
  BY DEF Clean, CleanNext, MishapsStay
<1>2. t.v \in Visits \cup {0} /\ u.v \in Visits \cup {0}
  BY TaskType DEF Typed, TypeOK, TaskRow
<1>3. Shape(u) /\ (u.v # 0 /\ CleanNext(u.v) => Fits(u, visit[u.v], crm))
  BY <1>1, <1>2 DEF BotGoes, BotLines
<1>4. u.v # 0 /\ CleanNext(u.v) => Fits(u, visit'[u.v], crm')
  BY <1>2, <1>3, FitsKept
<1>5. BotLines'
  BY <1>3, <1>4 DEF LinesSame, BotLines, Shape, Unsent, Clean, CleanNext, Fits, Covers
<1>6. ASSUME NEW v \in Visits, CleanNext(v), visit'[v].status # "cancelled",
             ~(u.v = v /\ Unfinished(u))
      PROVE  Covers(visit'[v], crm', visit'[v].services)
  <2>1. Covers(visit[v], crm, visit[v].services)
    <3>1. CASE visit[v].status = "cancelled"
      BY <1>6, <3>1 DEF LinesSame
    <3>2. CASE visit[v].status # "cancelled" /\ ~(t.v = v /\ Unfinished(t))
      BY <1>1, <1>6, <3>2 DEF RowLines
    <3>3. CASE t.v = v /\ Unfinished(t)
      BY <1>6, <3>3 DEF BotGoes
    <3> QED
      BY <3>1, <3>2, <3>3
  <2> QED
    BY <1>6, <2>1, CoversKept DEF LinesSame
<1>7. RowLines'
  BY <1>6 DEF RowLines, Clean, CleanNext, Unfinished, Unsent, Removing, Covers
<1> QED
  BY <1>5, <1>7

\* No new record is on its way: the others have the lines they had.
LEMMA SentKept ==
  ASSUME Typed, Unshared, SentLines, MishapsStay, NoneRecords,
         \A k \in Records : crm[k].visit # 0 => crm'[k].services = crm[k].services
  PROVE  SentLines'
<1>1. ASSUME NEW p \in Actors, task'[p].pc = "record", task'[p].rec # 0, CleanNext(task'[p].v)
      PROVE  task'[p].sent \subseteq crm'[task'[p].rec].services
  <2>1. task'[p] = task[p]
    BY <1>1 DEF NoneRecords
  <2>2. task[p].v \in Visits /\ task[p].rec \in Records
    BY <1>1, <2>1, RowOf, TaskType DEF Typed, TaskRow
  <2>3. crm[task[p].rec].visit # 0
    BY <1>1, <2>1, <2>2 DEF Unshared, Has, Names
  <2>4. Clean(task[p].v)
    BY <1>1, <2>1, <2>2 DEF Clean, CleanNext, MishapsStay
  <2> QED
    BY <1>1, <2>1, <2>2, <2>3, <2>4 DEF SentLines
<1> QED
  BY <1>1 DEF SentLines, Clean, CleanNext

\* Steps that write neither rows nor the calendar.
LEMMA UntouchedLines ==
  ASSUME UNCHANGED <<altegio, visit, crm>>
  PROVE  LinesSame
BY DEF LinesSame

\* Phases in which the bot's task says nothing of the lines of its row.
Free == {"idle", "find", "crmCancel", "markVisit", "markOrders", "assign"}

\* The bot goes to such a phase, and leaves nothing unfinished.
LEMMA GoesFree ==
  ASSUME task'[Bot].pc \in Free,
         Unfinished(task[Bot]) /\ CleanNext(task[Bot].v) =>
           \/ task'[Bot].v = task[Bot].v /\ Unfinished(task'[Bot])
           \/ visit'[task[Bot].v].status = "cancelled"
           \/ Covers(visit[task[Bot].v], crm, visit[task[Bot].v].services)
  PROVE  BotGoes
<1>1. \A u : u.pc \in Free => Shape(u) /\ \A row, cal : Fits(u, row, cal)
  BY DEF Free, Shape, Fits, Booking, Unsent
<1> QED
  BY <1>1 DEF BotGoes

\* The bot gives up, with nothing unfinished unless the row is blamed for it.
LEMMA GoesIdle ==
  ASSUME Typed, task' = Done(Bot), Unfinished(task[Bot]) => ~CleanNext(task[Bot].v)
  PROVE  BotGoes
<1>1. task'[Bot].pc = "idle"
  BY DEF Done, Idle, Typed, TypeOK
<1> QED
  BY <1>1, GoesFree DEF Free

\* From one phase of a booking to the next.
LEMMA GoesOn ==
  ASSUME Typed, BotLines, MishapsStay,
         task[Bot].pc \in Booking, task'[Bot].pc \in Booking \ {"appendLoad", "append"},
         task'[Bot].v = task[Bot].v, task'[Bot].want = task[Bot].want,
         task'[Bot].seen = task[Bot].seen, Unsent(task'[Bot]) = Unsent(task[Bot])
  PROVE  BotGoes
<1> DEFINE t == task[Bot]
           u == task'[Bot]
           row == visit[t.v]
<1>1. t.v \in Visits
  BY RowOf DEF Booking
<1>2. Shape(u)
  BY DEF Shape, Booking
<1>3. ASSUME CleanNext(t.v) PROVE Fits(u, row, crm)
  <2>1. Clean(t.v) /\ t.v # 0
    BY <1>1, <1>3, BoundsAssumption DEF Clean, CleanNext, MishapsStay
  <2>2. Fits(t, row, crm)
    BY <2>1 DEF BotLines
  <2> HIDE DEF row
  <2> QED
    BY <2>2 DEF Fits, Booking
<1>4. Unfinished(t) => Unfinished(u)
  BY DEF Unfinished, Removing, Booking
<1> QED
  BY <1>2, <1>3, <1>4 DEF BotGoes

LEMMA PcGoesOn ==
  ASSUME Typed, BotLines, MishapsStay, NEW q \in Booking \ {"appendLoad", "append"},
         task[Bot].pc \in Booking, task' = [task EXCEPT ![Bot].pc = q],
         Unsent(task[Bot]) => q \in {"order", "writeOrder", "gate"},
         q \in {"order", "writeOrder", "gate"} => task[Bot].pc \in {"order", "writeOrder", "gate"}
  PROVE  BotGoes
<1>1. task[Bot] \in TaskRow
  BY TaskType DEF Typed
<1>2. /\ task'[Bot].pc = q /\ task'[Bot].v = task[Bot].v /\ task'[Bot].want = task[Bot].want
      /\ task'[Bot].seen = task[Bot].seen /\ task'[Bot].adds = task[Bot].adds
  BY <1>1 DEF Typed, TypeOK, TaskRow
<1>3. Unsent(task'[Bot]) = Unsent(task[Bot])
  BY <1>2 DEF Unsent, Booking
<1> QED
  BY <1>2, <1>3, GoesOn

\* A manager goes on, the bot does not.
LEMMA OtherGoes ==
  ASSUME Typed, NEW p \in Actors, p # Bot, NEW row,
         task' = [task EXCEPT ![p] = row]
  PROVE  BotGoes
BY DEF Typed, TypeOK, BotGoes

\* So too when its phase alone changes.
LEMMA OtherPcGoes ==
  ASSUME Typed, NEW p \in Actors, p # Bot, NEW q,
         task' = [task EXCEPT ![p].pc = q]
  PROVE  BotGoes
BY DEF Typed, TypeOK, BotGoes

\* The steps of a booking that write no lines.
LEMMA BookingLines ==
  ASSUME Typed, BotLines, RowLines, MishapsStay,
         \/ \E slot \in Slots, s \in Services : Book(slot, s)
         \/ RefuseBook \/ FindVisit \/ FindOrder \/ MirrorOrder
         \/ GateClosed \/ GateOpen \/ MirrorOff
  PROVE  LinesSame /\ BotGoes
<1> DEFINE t == task[Bot]
<1>0. t \in TaskRow
  BY TaskType DEF Typed
<1>1. ASSUME NEW slot \in Slots, NEW s \in Services, Book(slot, s)
      PROVE  LinesSame /\ BotGoes
  <2> DEFINE row == [Idle EXCEPT !.pc = "find", !.op = "book", !.slot = slot, !.want = {s}]
  <2>1. row.pc = "find"
    BY DEF Idle
  <2>2. task' = [task EXCEPT ![Bot] = row] /\ UNCHANGED <<altegio, visit, crm>> /\ t.pc = "idle"
    BY <1>1 DEF Book
  <2> HIDE DEF row
  <2>3. task'[Bot].pc = "find"
    BY <2>1, <2>2 DEF Typed, TypeOK
  <2>4. ~Unfinished(t)
    BY <2>2 DEF Unfinished, Unsent, Removing
  <2> QED
    BY <2>2, <2>3, <2>4, GoesFree, UntouchedLines DEF Free
<1>2. CASE RefuseBook
  <2>1. task' = Done(Bot) /\ UNCHANGED <<altegio, visit, crm>> /\ ~Unfinished(t)
    BY <1>2 DEF RefuseBook, Done, Unfinished, Unsent, Removing
  <2> QED
    BY <2>1, GoesIdle, UntouchedLines
<1>3. CASE FindVisit
  <2>1. PICK v \in Visits \cup {0}, found \in VisitRow :
          /\ task' = [task EXCEPT ![Bot] = [t EXCEPT !.pc = "store", !.v = v, !.seen = found]]
          /\ v = 0 => found = NoVisit
          /\ v # 0 => found = visit[v] /\ visit[v].status # "cancelled"
    <3>0. NoVisit \in VisitRow /\ 0 \notin Visits
      BY RowTypes, BoundsAssumption
    <3>1. ASSUME NEW v \in Visits, v \in MergeTargets(t.slot),
                 task' = [task EXCEPT ![Bot] = [t EXCEPT !.pc = "store", !.v = v,
                                                         !.seen = visit[v]]]
          PROVE  \E w \in Visits \cup {0}, found \in VisitRow :
                   /\ task' = [task EXCEPT ![Bot] = [t EXCEPT !.pc = "store", !.v = w,
                                                              !.seen = found]]
                   /\ w = 0 => found = NoVisit
                   /\ w # 0 => found = visit[w] /\ visit[w].status # "cancelled"
      <4>1. visit[v] \in VisitRow /\ visit[v].status # "cancelled" /\ v # 0
        BY <3>0, <3>1 DEF MergeTargets, Typed, TypeOK
      <4> QED
        BY <3>1, <4>1
    <3>2. CASE task' = [task EXCEPT ![Bot] = [t EXCEPT !.pc = "store", !.v = 0,
                                                       !.seen = NoVisit]]
      BY <3>0, <3>2
    <3> QED
      BY <1>3, <3>1, <3>2 DEF FindVisit, IsLast
  <2> DEFINE u == [t EXCEPT !.pc = "store", !.v = v, !.seen = found]
  <2>2. u.pc = "store" /\ u.v = v /\ u.seen = found
    BY <1>0 DEF TaskRow
  <2>3. task' = [task EXCEPT ![Bot] = u] /\ UNCHANGED <<altegio, visit, crm>> /\ t.pc = "find"
    BY <1>3, <2>1 DEF FindVisit
  <2> HIDE DEF u
  <2>4. task'[Bot] = u
    BY <2>3 DEF Typed, TypeOK
  <2>5. ~Unfinished(t) /\ ~Unsent(u)
    BY <2>2, <2>3 DEF Unfinished, Unsent, Removing
  <2>6. Shape(u)
    BY <2>1, <2>2 DEF Shape, NoVisit
  <2>7. ASSUME v # 0, CleanNext(v) PROVE Fits(u, visit[v], crm)
    <3>1. Clean(v) /\ v \in Visits
      BY <2>1, <2>7 DEF Clean, CleanNext, MishapsStay
    <3>2. Covers(visit[v], crm, visit[v].services)
      BY <2>1, <2>5, <2>7, <3>1 DEF RowLines
    <3> QED
      BY <2>1, <2>2, <2>5, <2>7, <3>2 DEF Fits, Booking
  <2> QED
    BY <2>2, <2>3, <2>4, <2>5, <2>6, <2>7, UntouchedLines DEF BotGoes
<1>4. CASE MirrorOrder
  <2>1. /\ task' = [task EXCEPT ![Bot].pc = "gate"] /\ UNCHANGED <<altegio, visit, crm>>
        /\ t.pc = "writeOrder"
    BY <1>4 DEF MirrorOrder
  <2>2. BotGoes
    BY <2>1, PcGoesOn DEF Booking
  <2> QED
    BY <2>1, <2>2, UntouchedLines
<1>5. CASE GateClosed
  <2>1. task' = Done(Bot) /\ t.pc = "gate" /\ t.v \in Visits
    BY <1>5, RowOf DEF GateClosed, Done
  <2>2. /\ UNCHANGED <<altegio, crm>>
        /\ \A v \in Visits : /\ visit'[v].rec = visit[v].rec
                             /\ visit'[v].services = visit[v].services
                             /\ visit'[v].status = visit[v].status
    BY <1>5 DEF GateClosed, Typed, TypeOK, VisitRow
  <2>3. ASSUME Unfinished(t) PROVE ~CleanNext(t.v)
    <3>1. t.adds /\ t.seen.rec # 0
      BY <2>1, <2>3 DEF Unfinished, Unsent, Removing
    <3>2. "short" \in mishap'[t.v]
      BY <1>5, <2>1, <3>1 DEF GateClosed, Blame, Typed, TypeOK
    <3> QED
      BY <3>2 DEF CleanNext, Faults
  <2> QED
    BY <2>1, <2>2, <2>3, GoesIdle DEF LinesSame
<1>6. CASE GateOpen
  <2>1. UNCHANGED <<altegio, visit, crm>> /\ t.pc = "gate" /\ t.v \in Visits /\ t.v # 0
    BY <1>6, RowOf, BoundsAssumption DEF GateOpen
  <2>2. CASE t.seen.rec = 0
    <3>1. task' = [task EXCEPT ![Bot].pc = "load"]
      BY <1>6, <2>2 DEF GateOpen, Typed, TypeOK
    <3>2. ~Unsent(t)
      BY <2>2 DEF Unsent
    <3>3. BotGoes
      BY <2>1, <3>1, <3>2, PcGoesOn DEF Booking
    <3> QED
      BY <2>1, <3>3, UntouchedLines
  <2>3. CASE t.seen.rec # 0 /\ t.adds
    <3> DEFINE u == [t EXCEPT !.pc = "appendLoad"]
    <3>1. task'[Bot] = u
      BY <1>6, <2>3 DEF GateOpen, Typed, TypeOK
    <3>2. /\ u.pc = "appendLoad" /\ u.v = t.v /\ u.want = t.want /\ u.seen = t.seen
          /\ u.adds = t.adds
      BY <1>0 DEF TaskRow
    <3> HIDE DEF u
    <3>3. Unsent(t) /\ Unsent(u)
      BY <2>1, <2>3, <3>2 DEF Unsent
    <3>4. Shape(u)
      BY <3>2, <3>3 DEF Shape
    <3>5. ASSUME CleanNext(t.v) PROVE Fits(u, visit[t.v], crm)
      <4>1. Fits(t, visit[t.v], crm)
        BY <2>1, <3>5 DEF BotLines, Clean, CleanNext, MishapsStay
      <4> QED
        BY <2>1, <3>2, <3>3, <4>1 DEF Fits, Booking
    <3>6. BotGoes
      BY <3>1, <3>2, <3>3, <3>4, <3>5 DEF BotGoes, Unfinished
    <3> QED
      BY <2>1, <3>6, UntouchedLines
  <2>4. CASE t.seen.rec # 0 /\ ~t.adds
    <3>1. task' = Done(Bot)
      BY <1>6, <2>4 DEF GateOpen, Done
    <3>2. ~Unfinished(t)
      BY <2>1, <2>4 DEF Unfinished, Unsent, Removing
    <3> QED
      BY <2>1, <3>1, <3>2, GoesIdle, UntouchedLines
  <2> QED
    BY <1>0, <2>2, <2>3, <2>4 DEF TaskRow
<1>7. CASE MirrorOff
  <2>1. /\ task' = [task EXCEPT ![Bot].pc = "reread"] /\ UNCHANGED <<altegio, visit, crm>>
        /\ t.pc = "load"
    BY <1>7 DEF MirrorOff
  <2>2. BotGoes
    BY <2>1, PcGoesOn DEF Booking, Unsent
  <2> QED
    BY <2>1, <2>2, UntouchedLines
<1>8. CASE FindOrder
  <2>1. PICK q \in {"writeOrder", "gate"}, i \in Orders \cup {0} :
          task' = [task EXCEPT ![Bot] = [t EXCEPT !.pc = q, !.ord = i]]
    BY <1>8, FindOrderCases
  <2> DEFINE u == [t EXCEPT !.pc = q, !.ord = i]
  <2>2. u.pc = q /\ u.v = t.v /\ u.want = t.want /\ u.seen = t.seen /\ u.adds = t.adds
    BY <1>0 DEF TaskRow
  <2>3. task' = [task EXCEPT ![Bot] = u] /\ t.pc = "order" /\ UNCHANGED <<altegio, visit, crm>>
    BY <1>8, <2>1 DEF FindOrder
  <2> HIDE DEF u
  <2>4. task'[Bot] = u
    BY <2>3 DEF Typed, TypeOK
  <2>5. Unsent(task'[Bot]) = Unsent(task[Bot])
    BY <2>2, <2>3, <2>4 DEF Unsent
  <2>6. BotGoes
    BY <2>2, <2>3, <2>4, <2>5, GoesOn DEF Booking
  <2> QED
    BY <2>3, <2>6, UntouchedLines
<1> QED
  BY <1>1, <1>2, <1>3, <1>4, <1>5, <1>6, <1>7, <1>8

\* The mirror's steps, by the bot in a booking or by a manager's retry.
LEMMA RowGoesOn ==
  ASSUME Typed, BotLines, MishapsStay, NEW p \in Actors, NEW row,
         task' = [task EXCEPT ![p] = row],
         task[p].pc \in Booking \ {"order", "writeOrder", "gate", "appendLoad", "append"},
         row.pc \in Booking \ {"order", "writeOrder", "gate", "appendLoad", "append"},
         row.v = task[p].v, row.want = task[p].want, row.seen = task[p].seen
  PROVE  BotGoes
<1>1. CASE p = Bot
  <2>1. task'[Bot] = row
    BY <1>1 DEF Typed, TypeOK
  <2>2. Unsent(task'[Bot]) = FALSE /\ Unsent(task[Bot]) = FALSE
    BY <1>1, <2>1 DEF Unsent
  <2> QED
    BY <1>1, <2>1, <2>2, GoesOn
<1> QED
  BY <1>1, OtherGoes

\* The mirror, up to the creation of the record.
LEMMA MirrorLines ==
  ASSUME Typed, BotLines, MishapsStay, NEW p \in Actors,
         MirrorKnown(p) \/ MirrorNew(p) \/ Reflect(p)
  PROVE  LinesSame /\ BotGoes
<1> DEFINE t == task[p]
<1>0. t \in TaskRow
  BY TaskType DEF Typed
<1>1. CASE MirrorKnown(p)
  <2> DEFINE row == [t EXCEPT !.pc = "reflect", !.rec = visit[t.v].rec]
  <2>1. row.pc = "reflect" /\ row.v = t.v /\ row.want = t.want /\ row.seen = t.seen
    BY <1>0 DEF TaskRow
  <2>2. task' = [task EXCEPT ![p] = row] /\ t.pc = "load"
    BY <1>1 DEF MirrorKnown
  <2> HIDE DEF row
  <2>3. /\ UNCHANGED <<altegio, crm>>
        /\ \A v \in Visits : /\ visit'[v].rec = visit[v].rec
                             /\ visit'[v].services = visit[v].services
                             /\ visit'[v].status = visit[v].status
    BY <1>1 DEF MirrorKnown, Typed, TypeOK, VisitRow
  <2>4. BotGoes
    BY <2>1, <2>2, RowGoesOn DEF Booking
  <2> QED
    BY <2>3, <2>4 DEF LinesSame
<1>2. CASE MirrorNew(p)
  <2> DEFINE row == [t EXCEPT !.pc = "create", !.sent = visit[t.v].services]
  <2>1. row.pc = "create" /\ row.v = t.v /\ row.want = t.want /\ row.seen = t.seen
    BY <1>0 DEF TaskRow
  <2>2. /\ task' = [task EXCEPT ![p] = row] /\ t.pc = "load"
        /\ UNCHANGED <<altegio, visit, crm>>
    BY <1>2 DEF MirrorNew
  <2> HIDE DEF row
  <2> QED
    BY <2>1, <2>2, RowGoesOn, UntouchedLines DEF Booking
<1>3. CASE Reflect(p)
  <2> DEFINE row == [t EXCEPT !.pc = "reread"]
  <2>1. row.pc = "reread" /\ row.v = t.v /\ row.want = t.want /\ row.seen = t.seen
    BY <1>0 DEF TaskRow
  <2>2. /\ task' = [task EXCEPT ![p] = row] \/ task' = Done(p)
        /\ UNCHANGED <<altegio, visit, crm>> /\ t.pc = "reflect"
    BY <1>3 DEF Reflect
  <2> HIDE DEF row
  <2>3. CASE task' = [task EXCEPT ![p] = row]
    BY <2>1, <2>2, <2>3, RowGoesOn, UntouchedLines DEF Booking
  <2>4. CASE task' = Done(p) /\ p # Bot
    BY <2>2, <2>4, OtherGoes, UntouchedLines DEF Done
  <2>5. CASE task' = Done(p) /\ p = Bot
    <3>1. ~Unfinished(t)
      BY <2>2 DEF Unfinished, Unsent, Removing
    <3> QED
      BY <2>2, <2>5, <3>1, GoesIdle, UntouchedLines
  <2> QED
    BY <2>2, <2>3, <2>4, <2>5
<1> QED
  BY <1>1, <1>2, <1>3

\* The new record is no row's yet, and has the lines that were sent.
LEMMA CreateBookingLines ==
  ASSUME Typed, Unshared, BotLines, SentLines, MishapsStay, NEW p \in Actors, CreateBooking(p)
  PROVE  LinesSame /\ BotGoes /\ SentLines'
<1> DEFINE t == task[p]
<1>0. t \in TaskRow /\ t.v \in Visits /\ t.pc = "create"
  BY TaskType, RowOf DEF Typed, CreateBooking
<1>1. PICK k \in Records \cup {0}, heard \in BOOLEAN : Made(p, k, heard)
  BY CreateBookingCases
<1> DEFINE row == [t EXCEPT !.pc = "record", !.rec = IF heard THEN k ELSE 0]
<1>2. /\ row.pc = "record" /\ row.v = t.v /\ row.want = t.want /\ row.seen = t.seen
      /\ row.rec = IF heard THEN k ELSE 0
      /\ row.sent = t.sent
  BY <1>0 DEF TaskRow
<1>3. task' = [task EXCEPT ![p] = row]
  BY <1>1 DEF Made
<1> HIDE DEF row
<1>4. task'[p] = row /\ \A q \in Actors \ {p} : task'[q] = task[q]
  BY <1>3 DEF Typed, TypeOK
<1>5. UNCHANGED <<altegio, visit, mishap>>
  BY DEF CreateBooking
<1>6. /\ \A j \in Records \ {k} : crm'[j] = crm[j]
      /\ k # 0 => crm'[k].services = t.sent /\ crm[k].visit = 0
  BY <1>1 DEF Made, Typed, TypeOK
<1>7. LinesSame
  BY <1>5, <1>6, BoundsAssumption DEF LinesSame
<1>8. BotGoes
  BY <1>0, <1>2, <1>3, RowGoesOn DEF Booking
<1>9. ASSUME NEW q \in Actors, task'[q].pc = "record", task'[q].rec # 0, Clean(task'[q].v)
      PROVE  task'[q].sent \subseteq crm'[task'[q].rec].services
  <2>1. CASE q = p
    BY <1>2, <1>4, <1>6, <1>9, <2>1
  <2>2. CASE q # p
    <3>1. task[q].v \in Visits /\ task[q].rec \in Records
      BY <1>4, <1>9, <2>2, RowOf, TaskType DEF Typed, TaskRow
    <3>2. crm[task[q].rec].visit # 0
      BY <1>4, <1>9, <2>2, <3>1 DEF Unshared, Has, Names
    <3> QED
      BY <1>4, <1>6, <1>9, <2>2, <3>1, <3>2 DEF SentLines
  <2> QED
    BY <2>1, <2>2
<1>10. SentLines'
  BY <1>5, <1>9 DEF SentLines, Clean
<1> QED
  BY <1>7, <1>8, <1>10

\* A retry that is given a visit of the same day has its lines there, or its row is blamed.
LEMMA LinkLines ==
  ASSUME Typed, SentLines, MishapsStay, NEW m \in Managers, LinkSameDay(m)
  PROVE  LinesSame /\ BotGoes /\ SentLines'
<1> DEFINE t == task[m]
<1>0. m \in Actors /\ m # Bot
  BY BotAssumption DEF Actors
<1>1. t \in TaskRow /\ t.v \in Visits
  BY <1>0, TaskType, RowOf DEF Typed, LinkSameDay
<1>2. PICK k \in Records : Linked(m, k)
  BY LinkCases
<1> DEFINE row == [t EXCEPT !.pc = "record", !.rec = k]
<1>3. row.v = t.v /\ row.rec = k /\ row.sent = t.sent
  BY <1>1 DEF TaskRow
<1>4. task' = [task EXCEPT ![m] = row]
  BY <1>2 DEF Linked
<1> HIDE DEF row
<1>5. task'[m] = row /\ \A q \in Actors \ {m} : task'[q] = task[q]
  BY <1>0, <1>4 DEF Typed, TypeOK
<1>6. UNCHANGED <<altegio, visit>>
  BY DEF LinkSameDay
<1>7. \A j \in Records : crm'[j].services = crm[j].services
  BY <1>2 DEF Linked, Typed, TypeOK, RecordRow
<1>8. LinesSame
  BY <1>6, <1>7 DEF LinesSame
<1>9. BotGoes
  BY <1>0, <1>4, OtherGoes
<1>10. ~(t.sent \subseteq crm[k].services) => ~CleanNext(t.v)
  <2>1. ~(t.sent \subseteq crm[k].services) => "short" \in mishap'[t.v]
    BY <1>1, <1>2 DEF Linked
  <2> QED
    BY <2>1 DEF CleanNext, Faults
<1>11. ASSUME NEW q \in Actors, task'[q].pc = "record", task'[q].rec # 0,
              CleanNext(task'[q].v)
       PROVE  task'[q].sent \subseteq crm'[task'[q].rec].services
  <2>1. CASE q = m
    BY <1>3, <1>5, <1>7, <1>10, <1>11, <2>1
  <2>2. CASE q # m
    <3>1. task'[q] = task[q] /\ task[q].v \in Visits /\ task[q].rec \in Records
      BY <1>5, <1>11, <2>2, RowOf, TaskType DEF Typed, TaskRow
    <3>2. Clean(task[q].v)
      BY <1>11, <3>1 DEF Clean, CleanNext, MishapsStay
    <3> QED
      BY <1>7, <1>11, <3>1, <3>2 DEF SentLines
  <2> QED
    BY <2>1, <2>2
<1>12. SentLines'
  BY <1>11 DEF SentLines, Clean, CleanNext
<1> QED
  BY <1>8, <1>9, <1>12

\* The append but for the CRM's part, and the last look at the row.
LEMMA ConfirmLines ==
  ASSUME Typed, BotLines, MishapsStay, LoadForAppend \/ RecordAppend \/ RereadAndConfirm
  PROVE  LinesSame /\ BotGoes
<1> DEFINE t == task[Bot]
<1>0. t \in TaskRow /\ t.v \in Visits /\ t.v # 0
  BY TaskType, RowOf, BoundsAssumption
     DEF Typed, LoadForAppend, RecordAppend, RereadAndConfirm
<1>1. ASSUME CleanNext(t.v) PROVE Fits(t, visit[t.v], crm)
  BY <1>0, <1>1 DEF BotLines, Clean, CleanNext, MishapsStay
<1>2. CASE LoadForAppend
  <2> DEFINE sent == IF altegio THEN visit[t.v].services
                     ELSE visit[t.v].services \ t.seen.services
             u == [t EXCEPT !.pc = "append", !.rec = visit[t.v].rec, !.sent = sent]
  <2>1. task'[Bot] = u /\ UNCHANGED <<altegio, visit, crm>> /\ t.pc = "appendLoad"
    BY <1>2 DEF LoadForAppend, Typed, TypeOK
  <2>2. /\ u.pc = "append" /\ u.v = t.v /\ u.rec = visit[t.v].rec /\ u.sent = sent
        /\ u.want = t.want /\ u.seen = t.seen /\ u.adds = t.adds
    <3> HIDE DEF sent
    <3> QED
      BY <1>0 DEF TaskRow
  <2>3. /\ altegio => sent = visit[t.v].services
        /\ ~altegio => sent = visit[t.v].services \ t.seen.services
    OBVIOUS
  <2> HIDE DEF u, sent
  <2>4. Unsent(t) /\ Unsent(u)
    BY <2>1, <2>2 DEF BotLines, Shape, Unsent
  <2>5. Shape(u)
    BY <2>2, <2>4 DEF Shape
  <2>6. ASSUME CleanNext(t.v) PROVE Fits(u, visit[t.v], crm)
    <3>1. Fits(t, visit[t.v], crm)
      BY <1>1, <2>6
    <3>2. /\ visit[t.v].services = t.want /\ visit[t.v].rec = t.seen.rec
          /\ Covers(visit[t.v], crm, t.seen.services)
      BY <2>1, <2>4, <3>1 DEF Fits, Booking
    <3>3. t.want \subseteq sent \cup t.seen.services /\ (altegio => t.want \subseteq sent)
      BY <2>3, <3>2
    <3> QED
      BY <2>2, <2>4, <3>2, <3>3 DEF Fits, Booking
  <2>7. BotGoes
    BY <2>1, <2>2, <2>4, <2>5, <2>6 DEF BotGoes, Unfinished
  <2> QED
    BY <2>1, <2>7, UntouchedLines
<1>3. CASE RecordAppend
  <2>1. task' = [task EXCEPT ![Bot].pc = "reflect"] /\ t.pc = "recordAppend"
    BY <1>3 DEF RecordAppend
  <2>2. /\ UNCHANGED <<altegio, crm>>
        /\ \A v \in Visits : /\ visit'[v].rec = visit[v].rec
                             /\ visit'[v].services = visit[v].services
                             /\ visit'[v].status = visit[v].status \/ v = t.v
    BY <1>3 DEF RecordAppend, Typed, TypeOK, VisitRow
  <2>3. ~Unsent(t)
    BY <2>1 DEF Unsent
  <2>4. CleanNext(t.v) => Covers(visit[t.v], crm, visit[t.v].services)
    BY <1>1, <2>1, <2>3 DEF Fits, Booking
  <2>5. BotGoes
    BY <2>1, <2>3, PcGoesOn DEF Booking
  <2> QED
    BY <2>2, <2>4, <2>5 DEF LinesSame
<1>4. CASE RereadAndConfirm
  <2>1. task' = Done(Bot) /\ t.pc = "reread" /\ UNCHANGED <<altegio, visit, crm>>
    BY <1>4 DEF RereadAndConfirm
  <2>2. ~Unfinished(t)
    BY <2>1 DEF Unfinished, Unsent, Removing
  <2> QED
    BY <2>1, <2>2, GoesIdle, UntouchedLines
<1> QED
  BY <1>2, <1>3, <1>4

\* A cancelled row owes the calendar nothing.
LEMMA CancelLines ==
  ASSUME Typed, NEW p \in Actors, CancelBooking(p) \/ MarkVisit(p) \/ MarkOrders(p)
  PROVE  LinesSame /\ BotGoes
<1> DEFINE t == task[p]
<1>0. t \in TaskRow
  BY TaskType DEF Typed
<1>1. CASE CancelBooking(p)
  <2> DEFINE gone == [crm EXCEPT ![t.seen.rec].live = FALSE]
  <2>1. UNCHANGED <<altegio, visit>> /\ t.pc = "crmCancel" /\ crm' \in {crm, gone}
    BY <1>1 DEF CancelBooking
  <2>2. task' = Done(p) \/ task' = [task EXCEPT ![p].pc = "markVisit"]
    BY <1>1 DEF CancelBooking
  <2>3. \A k \in Records : gone[k].services = crm[k].services
    BY DEF Typed, TypeOK, RecordRow
  <2> HIDE DEF gone
  <2>4. LinesSame
    BY <2>1, <2>3 DEF LinesSame
  <2>5. CASE p = Bot
    <3>1. task'[Bot].pc \in Free
      BY <1>0, <2>2, <2>5 DEF Done, Idle, Free, Typed, TypeOK, TaskRow
    <3>2. ~Unfinished(t)
      BY <2>1 DEF Unfinished, Unsent, Removing
    <3> QED
      BY <2>4, <2>5, <3>1, <3>2, GoesFree
  <2> QED
    BY <2>2, <2>4, <2>5, OtherGoes, OtherPcGoes DEF Done
<1>2. CASE MarkVisit(p)
  <2>1. task' = [task EXCEPT ![p].pc = "markOrders"] /\ t.v \in Visits /\ t.pc = "markVisit"
    BY <1>2, RowOf DEF MarkVisit
  <2>2. /\ UNCHANGED <<altegio, crm>>
        /\ \A v \in Visits : /\ visit'[v].rec = visit[v].rec
                             /\ visit'[v].services = visit[v].services
                             /\ visit[v].status = "cancelled" => visit'[v].status = "cancelled"
        /\ visit'[t.v].status = "cancelled"
    BY <1>2, <2>1 DEF MarkVisit, Typed, TypeOK, VisitRow
  <2>3. LinesSame
    BY <2>2 DEF LinesSame
  <2>4. CASE p = Bot
    <3>1. task'[Bot].pc \in Free
      BY <1>0, <2>1, <2>4 DEF Free, Typed, TypeOK, TaskRow
    <3> QED
      BY <2>2, <2>3, <2>4, <3>1, GoesFree
  <2> QED
    BY <2>1, <2>3, <2>4, OtherPcGoes
<1>3. CASE MarkOrders(p)
  <2> DEFINE row == [t EXCEPT !.pc = "find", !.v = 0, !.want = t.seen.services,
                              !.seen = NoVisit]
  <2>1. row.pc = "find"
    BY <1>0 DEF TaskRow
  <2>2. /\ UNCHANGED <<altegio, visit, crm>> /\ t.pc = "markOrders"
        /\ task' = [task EXCEPT ![p] = row] \/ task' = Done(p)
    BY <1>3 DEF MarkOrders
  <2> HIDE DEF row
  <2>3. CASE p = Bot
    <3>1. task'[Bot].pc \in Free
      BY <2>1, <2>2, <2>3 DEF Done, Idle, Free, Typed, TypeOK
    <3>2. ~Unfinished(t)
      BY <2>2 DEF Unfinished, Unsent, Removing
    <3> QED
      BY <2>2, <2>3, <3>1, <3>2, GoesFree, UntouchedLines
  <2> QED
    BY <2>2, <2>3, OtherGoes, UntouchedLines DEF Done
<1> QED
  BY <1>1, <1>2, <1>3

\* What managers, the salon and the setting do.
LEMMA OthersLines ==
  ASSUME Typed,
         \/ \E m \in Managers, o \in Orders :
              Retry(m, o) \/ AdminCancel(m, o) \/ AssignMasters(m, o)
         \/ \E m \in Managers : RereadAndReflect(m)
         \/ World /\ ~Crash
  PROVE  LinesSame /\ BotGoes
<1>0. \A m \in Managers : m # Bot
  BY BotAssumption
<1>1. ASSUME NEW m \in Managers, NEW o \in Orders,
             Retry(m, o) \/ AdminCancel(m, o) \/ AssignMasters(m, o)
      PROVE  LinesSame /\ BotGoes
  <2>1. PICK row \in TaskRow : Asks(m, o, row)
    BY <1>1, RequestCases
  <2>2. task' = [task EXCEPT ![m] = row] /\ UNCHANGED <<altegio, visit, crm>>
    BY <2>1 DEF Asks
  <2> QED
    BY <1>0, <2>2, OtherGoes, UntouchedLines
<1>2. ASSUME NEW m \in Managers, RereadAndReflect(m)
      PROVE  LinesSame /\ BotGoes
  <2>1. task' = [task EXCEPT ![m] = Idle] /\ UNCHANGED <<altegio, visit, crm>>
    BY <1>2 DEF RereadAndReflect, Done
  <2> QED
    BY <1>0, <2>1, OtherGoes, UntouchedLines
<1>3. ASSUME UNCHANGED task PROVE BotGoes
  BY <1>3 DEF BotGoes
<1>4. ASSUME NEW k \in Records, \/ SalonCancels(k)
                                \/ \E slot \in Slots : SalonMoves(k, slot)
      PROVE  LinesSame /\ BotGoes
  <2>1. \A j \in Records : crm'[j].services = crm[j].services
    <3>1. CASE SalonCancels(k)
      BY <3>1 DEF SalonCancels, Typed, TypeOK, RecordRow
    <3>2. ASSUME NEW slot \in Slots, SalonMoves(k, slot)
          PROVE  \A j \in Records : crm'[j].services = crm[j].services
      BY <3>2 DEF SalonMoves, Typed, TypeOK, RecordRow
    <3> QED
      BY <1>4, <3>1, <3>2
  <2>2. UNCHANGED <<altegio, visit, task>>
    BY <1>4 DEF SalonCancels, SalonMoves
  <2> QED
    BY <1>3, <2>1, <2>2 DEF LinesSame
<1>5. CASE SetWrites
  BY <1>3, <1>5, UntouchedLines DEF SetWrites
<1>6. ASSUME NEW h \in hooks, ApplyHook(h)
      PROVE  LinesSame /\ BotGoes
  <2>1. UNCHANGED <<altegio, crm, task>>
    BY <1>6 DEF ApplyHook
  <2>2. ASSUME NEW v \in Visits
        PROVE  /\ visit'[v].rec = visit[v].rec /\ visit'[v].services = visit[v].services
               /\ visit[v].status = "cancelled" => visit'[v].status = "cancelled"
    <3> DEFINE cancelled == [visit[v] EXCEPT !.status = "cancelled", !.sync = "synced"]
               moved == [visit[v] EXCEPT !.slot = h.slot, !.sync = "synced"]
    <3>1. visit[v] \in VisitRow
      BY DEF Typed, TypeOK
    <3>2. visit'[v] = visit[v] \/ visit'[v] = cancelled \/ visit'[v] = moved
      BY <1>6 DEF ApplyHook
    <3> QED
      BY <3>1, <3>2 DEF VisitRow
  <2> QED
    BY <1>3, <2>1, <2>2 DEF LinesSame
<1> QED
  BY <1>1, <1>2, <1>4, <1>5, <1>6 DEF World

\* The steps that write the lines of one row v, and of no record.
LEMMA WriteKeeps ==
  ASSUME Typed, Typed', Unshared, BotLines, RowLines, MishapsStay,
         UNCHANGED <<altegio, crm>>, NEW v \in Visits,
         \A w \in Visits \ {v} : visit'[w] = visit[w],
         Shape(task'[Bot]),
         task'[Bot] = task[Bot] \/ task'[Bot].v \in {0, v},
         task[Bot].v # v /\ Unfinished(task[Bot]) => task'[Bot] = task[Bot],
         task'[Bot].v = v /\ CleanNext(v) => Fits(task'[Bot], visit'[v], crm),
         CleanNext(v) /\ visit'[v].status # "cancelled"
           /\ ~(task'[Bot].v = v /\ Unfinished(task'[Bot]))
         => Covers(visit'[v], crm, visit'[v].services)
  PROVE  BotLines' /\ RowLines'
<1> DEFINE t == task[Bot]
           u == task'[Bot]
<1>1. \A w \in Visits : CleanNext(w) => Clean(w)
  BY DEF Clean, CleanNext, MishapsStay
<1>2. t.v \in Visits \cup {0} /\ u.v \in Visits \cup {0}
  BY TaskType DEF Typed, TypeOK, TaskRow
<1>3. u.v # 0 /\ CleanNext(u.v) => Fits(u, visit'[u.v], crm)
  <2>1. CASE u = t /\ u.v # v
    BY <1>1, <1>2, <2>1 DEF BotLines
  <2> QED
    BY <2>1
<1>4. BotLines'
  BY <1>3 DEF BotLines, Shape, Unsent, Clean, CleanNext, Fits, Covers
<1>5. ASSUME NEW w \in Visits, CleanNext(w), visit'[w].status # "cancelled",
             ~(u.v = w /\ Unfinished(u))
      PROVE  Covers(visit'[w], crm', visit'[w].services)
  <2>1. CASE w = v
    BY <1>5, <2>1
  <2>2. CASE w # v
    <3>1. ~(t.v = w /\ Unfinished(t))
      BY <1>5, <2>2
    <3> QED
      BY <1>1, <1>5, <2>2, <3>1 DEF RowLines
  <2> QED
    BY <2>1, <2>2
<1>6. RowLines'
  BY <1>5 DEF RowLines, Clean, CleanNext, Unfinished, Unsent, Removing, Covers
<1> QED
  BY <1>4, <1>6

\* A merge adds lines that are yet to be sent, or the row has no record.
LEMMA MergeLines ==
  ASSUME Typed, Typed', Unshared, BotLines, RowLines, MishapsStay, MergeVisit
  PROVE  BotLines' /\ RowLines'
<1> DEFINE t == task[Bot]
           adds == t.want \ t.seen.services # {}
           want == t.seen.services \cup t.want
           u == [t EXCEPT !.pc = "order", !.adds = adds, !.want = want]
           row == visit[t.v]
           new == visit'[t.v]
<1>0. t \in TaskRow /\ t.v \in Visits /\ t.pc = "store" /\ row \in VisitRow
  <2>1. t \in TaskRow /\ t.v # 0 /\ t.pc = "store"
    BY TaskType DEF Typed, MergeVisit
  <2> QED
    BY <2>1 DEF TaskRow, Typed, TypeOK
<1>1. adds <=> ~(t.want \subseteq t.seen.services)
  OBVIOUS
<1>2. t.seen.services \subseteq want /\ (~adds => want = t.seen.services)
  OBVIOUS
<1>3. task'[Bot] = u
  BY DEF MergeVisit, Typed, TypeOK
<1>4. UNCHANGED <<altegio, crm>> /\ \A w \in Visits \ {t.v} : visit'[w] = visit[w]
  BY DEF MergeVisit, Typed, TypeOK
<1>5. new.services = want /\ new.rec = row.rec /\ new.status = row.status
  BY <1>0 DEF MergeVisit, Typed, TypeOK, VisitRow
<1>6. t.seen.rec # row.rec => ~CleanNext(t.v)
  BY <1>0 DEF MergeVisit, Blame, CleanNext, Faults, Typed, TypeOK
<1> HIDE DEF adds, want, new
<1>7. /\ u.pc = "order" /\ u.v = t.v /\ u.seen = t.seen /\ u.adds = adds /\ u.want = want
  BY <1>0 DEF TaskRow
<1> HIDE DEF u
<1>8. Shape(u)
  BY <1>7 DEF Shape
<1>9. ~Unfinished(t) /\ ~Unsent(t)
  BY <1>0 DEF Unfinished, Unsent, Removing
<1>10. ASSUME CleanNext(t.v)
       PROVE  /\ Fits(u, new, crm)
              /\ ~Unfinished(u) => Covers(new, crm, new.services)
  <2>1. Fits(t, row, crm) /\ t.seen.rec = row.rec
    BY <1>0, <1>6, <1>10, BoundsAssumption DEF BotLines, Clean, CleanNext, MishapsStay
  <2>2. row.services = t.seen.services /\ Covers(row, crm, row.services)
    BY <1>0, <1>9, <2>1 DEF Fits
  <2>3. Covers(new, crm, t.seen.services)
    BY <1>5, <2>2 DEF Covers
  <2>4. ~Unsent(u) => Covers(new, crm, new.services)
    <3>1. CASE t.seen.rec = 0
      BY <1>5, <2>1, <3>1 DEF Covers
    <3>2. CASE ~adds
      BY <1>2, <1>5, <2>3, <3>2
    <3> QED
      BY <1>7, <3>1, <3>2 DEF Unsent
  <2>5. Fits(u, new, crm)
    BY <1>5, <1>7, <2>1, <2>3, <2>4 DEF Fits, Booking, Unsent
  <2> QED
    BY <2>4, <2>5 DEF Unfinished
<1> HIDE DEF row
<1>11. /\ task'[Bot].v = t.v
       /\ CleanNext(t.v) => Fits(task'[Bot], visit'[t.v], crm)
       /\ CleanNext(t.v) /\ ~Unfinished(task'[Bot]) =>
            Covers(visit'[t.v], crm, visit'[t.v].services)
  BY <1>3, <1>7, <1>10 DEF new
<1> QED
  BY <1>0, <1>3, <1>4, <1>8, <1>9, <1>11, WriteKeeps

\* A new row has no record.
LEMMA CreateVisitLines ==
  ASSUME Typed, Typed', Unshared, BotLines, RowLines, MishapsStay, CreateVisit
  PROVE  BotLines' /\ RowLines'
<1> DEFINE t == task[Bot]
           new == [slot |-> t.slot, services |-> t.want, status |-> "confirmed",
                   rec |-> 0, sync |-> "pending"]
<1>0. t \in TaskRow /\ t.pc = "store" /\ t.v = 0
  BY TaskType DEF Typed, CreateVisit
<1>1. PICK v \in FreshVisits :
        /\ visit' = [visit EXCEPT ![v] = new]
        /\ task' = [task EXCEPT ![Bot] = [t EXCEPT !.pc = "order", !.v = v, !.adds = TRUE]]
  BY DEF CreateVisit, IsFirst
<1> DEFINE u == [t EXCEPT !.pc = "order", !.v = v, !.adds = TRUE]
<1>2. u.pc = "order" /\ u.v = v /\ u.seen = t.seen /\ u.want = t.want
  BY <1>0 DEF TaskRow
<1>3. v \in Visits
  BY DEF FreshVisits
<1>4. /\ task'[Bot] = u /\ visit'[v] = new
      /\ \A w \in Visits \ {v} : visit'[w] = visit[w]
  BY <1>1, <1>3 DEF Typed, TypeOK
<1>5. UNCHANGED <<altegio, crm>>
  BY DEF CreateVisit
<1>6. new.services = t.want /\ new.rec = 0
  OBVIOUS
<1> HIDE DEF u, new
<1>7. t.seen.rec = 0
  BY <1>0 DEF BotLines, Shape
<1>8. Shape(u) /\ ~Unsent(u) /\ ~Unfinished(t)
  BY <1>0, <1>2, <1>7 DEF Shape, Unfinished, Unsent, Removing
<1>9. Covers(new, crm, new.services)
  BY <1>6 DEF Covers
<1>10. Fits(u, new, crm)
  BY <1>2, <1>6, <1>8, <1>9 DEF Fits, Booking
<1> QED
  BY <1>2, <1>3, <1>4, <1>5, <1>8, <1>9, <1>10, WriteKeeps

\* The line struck from the record is struck from the row.
LEMMA StoreLines ==
  ASSUME Typed, Typed', Unshared, BotLines, RowLines, MishapsStay, StoreServices
  PROVE  BotLines' /\ RowLines'
<1> DEFINE t == task[Bot]
           row == visit[t.v]
           new == visit'[t.v]
<1>0. t \in TaskRow /\ t.v \in Visits /\ t.pc = "storeServices" /\ row \in VisitRow
  BY TaskType, RowOf DEF Typed, StoreServices
<1>1. /\ UNCHANGED <<altegio, crm, mishap>> /\ task'[Bot] = Idle
      /\ \A w \in Visits \ {t.v} : visit'[w] = visit[w]
  BY DEF StoreServices, Done, Typed, TypeOK
<1>2. new.services = t.seen.services \ t.want /\ new.rec = row.rec /\ new.status = row.status
  BY <1>0 DEF StoreServices, Typed, TypeOK, VisitRow
<1> HIDE DEF new
<1>3. ASSUME CleanNext(t.v), new.status # "cancelled"
      PROVE  Covers(new, crm, new.services)
  <2>1. Fits(t, row, crm)
    BY <1>0, <1>3, BoundsAssumption DEF BotLines, Clean, CleanNext, MishapsStay
  <2>2. row.services = t.seen.services /\ Covers(row, crm, row.services \ t.want)
    BY <1>0, <1>2, <1>3, <2>1 DEF Fits
  <2> QED
    BY <1>2, <2>2 DEF Covers
<1>4. Idle.pc = "idle" /\ Idle.v = 0
  BY DEF Idle
<1>5. Shape(Idle)
  BY <1>4 DEF Shape
<1>6. CleanNext(t.v) /\ visit'[t.v].status # "cancelled" =>
        Covers(visit'[t.v], crm, visit'[t.v].services)
  BY <1>3 DEF new
<1>7. \A w \in Visits : w # 0
  BY BoundsAssumption
<1> HIDE DEF row
<1>8. task[Bot].v = t.v
  OBVIOUS
<1> QED
  BY <1>0, <1>1, <1>4, <1>5, <1>6, <1>7, WriteKeeps

\* A record is entered in a row whose lines are those that were sent.
LEMMA RecordLines ==
  ASSUME Typed, Typed', Sole, Unshared, BotLines, RowLines, SentLines, MishapsStay,
         NEW p \in Actors, RecordBooking(p)
  PROVE  BotLines' /\ RowLines'
<1> DEFINE t == task[p]
           u == [t EXCEPT !.pc = "reflect"]
           b == task[Bot]
           v == t.v
           row == visit[v]
           new == visit'[v]
<1>0. t \in TaskRow /\ v \in Visits /\ v # 0 /\ t.pc = "record" /\ row \in VisitRow
  BY TaskType, RowOf, BoundsAssumption DEF Typed, RecordBooking
<1>1. u.pc = "reflect" /\ u.v = v /\ u.want = t.want
  BY <1>0 DEF TaskRow
<1>2. task' = [task EXCEPT ![p] = u] /\ UNCHANGED <<altegio, crm>>
  BY DEF RecordBooking
<1>3. \A w \in Visits \ {v} : visit'[w] = visit[w]
  BY <1>0 DEF RecordBooking, Typed, TypeOK
<1>4. new.services = row.services /\ new.rec = IF t.rec # 0 THEN t.rec ELSE row.rec
  BY <1>0 DEF RecordBooking, Typed, TypeOK, VisitRow
<1>5. row.services # t.sent => ~CleanNext(v)
  BY <1>0 DEF RecordBooking, Blame, CleanNext, Faults, Typed, TypeOK
<1> HIDE DEF u
<1>6. task'[p] = u /\ \A q \in Actors \ {p} : task'[q] = task[q]
  BY <1>2 DEF Typed, TypeOK
<1>7. ASSUME CleanNext(v)
      PROVE  Clean(v) /\ row.rec = 0 /\ row.services = t.sent
  <2>1. Clean(v)
    BY <1>0, <1>7 DEF Clean, CleanNext, MishapsStay
  <2>2. "doubled" \notin mishap[v]
    BY <2>1 DEF Clean, Faults
  <2>3. row.rec = 0
    BY <1>0, <2>2 DEF Sole, Sending, Sends
  <2> QED
    BY <1>5, <1>7, <2>1, <2>3
<1>8. ASSUME CleanNext(v) PROVE Covers(new, crm, new.services)
  <2>1. CASE t.rec = 0
    BY <1>4, <1>7, <1>8, <2>1 DEF Covers
  <2>2. CASE t.rec # 0
    <3>1. t.sent \subseteq crm[t.rec].services
      BY <1>0, <1>7, <1>8, <2>2 DEF SentLines
    <3> QED
      BY <1>4, <1>7, <1>8, <2>2, <3>1 DEF Covers
  <2> QED
    BY <2>1, <2>2
<1>9. Shape(task'[Bot])
  <2>1. CASE p = Bot
    BY <1>1, <1>6, <2>1 DEF Shape
  <2>2. CASE p # Bot
    BY <1>6, <2>2 DEF BotLines
  <2> QED
    BY <2>1, <2>2
<1>10. ASSUME CleanNext(v), task'[Bot].v = v
       PROVE  Fits(task'[Bot], new, crm)
  <2>1. b.v = v
    BY <1>1, <1>6, <1>10
  <2>2. Fits(b, row, crm) /\ Shape(b) /\ row.rec = 0
    BY <1>0, <1>7, <1>10, <2>1 DEF BotLines
  <2>3. CASE p = Bot
    <3>1. row.services = t.want
      BY <1>0, <2>2, <2>3 DEF Fits, Booking
    <3>2. new.services = u.want
      BY <1>1, <1>4, <3>1
    <3>3. Covers(new, crm, new.services)
      BY <1>8, <1>10
    <3> HIDE DEF new, row
    <3> QED
      BY <1>1, <1>6, <2>3, <3>2, <3>3 DEF Fits, Booking, Unsent
  <2>4. CASE p # Bot
    <3>1. ~Unsent(b) /\ b.pc # "append" /\ b.pc # "crmRemove"
      BY <2>2 DEF Fits, Shape, Unsent
    <3>2. Covers(new, crm, new.services) /\ new.services = row.services
      BY <1>4, <1>8, <1>10
    <3> HIDE DEF new, row
    <3>3. Covers(new, crm, new.services \ b.want)
      BY <3>2 DEF Covers
    <3>4. Fits(b, new, crm)
      BY <2>2, <3>1, <3>2, <3>3 DEF Fits
    <3> QED
      BY <1>6, <2>4, <3>4
  <2> QED
    BY <2>3, <2>4
<1>11. task'[Bot] = task[Bot] \/ task'[Bot].v \in {0, v}
  BY <1>1, <1>6
<1>12. task[Bot].v # v /\ Unfinished(task[Bot]) => task'[Bot] = task[Bot]
  BY <1>6
<1> HIDE DEF v, new, row
<1>13. /\ task'[Bot].v = v /\ CleanNext(v) => Fits(task'[Bot], visit'[v], crm)
       /\ CleanNext(v) => Covers(visit'[v], crm, visit'[v].services)
  BY <1>8, <1>10 DEF new
<1> QED
  BY <1>0, <1>2, <1>3, <1>9, <1>11, <1>12, <1>13, WriteKeeps

\* Masters are assigned: the lines are those the request read, or the row is blamed.
LEMMA AssignLines ==
  ASSUME Typed, Typed', Unshared, BotLines, RowLines, MishapsStay,
         NEW m \in Managers, StoreMasters(m)
  PROVE  BotLines' /\ RowLines'
<1> DEFINE t == task[m]
           v == t.v
           row == visit[v]
           new == visit'[v]
<1>0. t \in TaskRow /\ v \in Visits /\ v # 0 /\ row \in VisitRow /\ m # Bot
  BY TaskType, RowOf, BotAssumption, BoundsAssumption DEF Typed, StoreMasters
<1>1. UNCHANGED <<altegio, crm>> /\ \A w \in Visits \ {v} : visit'[w] = visit[w]
  BY <1>0 DEF StoreMasters, Typed, TypeOK
<1>2. task'[Bot] = task[Bot]
  BY <1>0 DEF StoreMasters, Done, Typed, TypeOK
<1>3. new.rec = row.rec /\ new.status = row.status /\ new.services = t.seen.services
  BY <1>0 DEF StoreMasters, Typed, TypeOK, VisitRow
<1>4. row.services # t.seen.services => ~CleanNext(v)
  BY <1>0 DEF StoreMasters, Blame, CleanNext, Faults, Typed, TypeOK
<1>5. Shape(task'[Bot])
  BY <1>2 DEF BotLines
<1> HIDE DEF row, new
<1>6. ASSUME CleanNext(v)
      PROVE  /\ task'[Bot].v = v => Fits(task'[Bot], new, crm)
             /\ new.status # "cancelled" /\ ~(task'[Bot].v = v /\ Unfinished(task'[Bot]))
                => Covers(new, crm, new.services)
  <2>1. Clean(v) /\ new.services = row.services
    BY <1>0, <1>3, <1>4, <1>6 DEF Clean, CleanNext, MishapsStay
  <2>2. task[Bot].v = v => Fits(task[Bot], row, crm)
    BY <1>0, <2>1 DEF BotLines, row
  <2>3. row.status # "cancelled" /\ ~(task[Bot].v = v /\ Unfinished(task[Bot]))
        => Covers(row, crm, row.services)
    BY <1>0, <2>1 DEF RowLines, row
  <2> HIDE DEF v
  <2>4. \A s : Covers(row, crm, s) <=> Covers(new, crm, s)
    BY <1>3 DEF Covers
  <2>5. \A c : Fits(c, row, crm) => Fits(c, new, crm)
    BY <1>3, <2>1, <2>4 DEF Fits
  <2> QED
    BY <1>2, <1>3, <2>1, <2>2, <2>3, <2>4, <2>5
<1> HIDE DEF v
<1> QED
  BY <1>0, <1>1, <1>2, <1>5, <1>6, WriteKeeps DEF new

\* The bot's steps that write the lines of the record k of its row, and no row.
LEMMA EditKeeps ==
  ASSUME Typed, Typed', Sole, Unshared, BotLines, RowLines, SentLines, MishapsStay,
         UNCHANGED <<altegio, visit>>, NEW v \in Visits, NEW k \in Records \cup {0},
         task[Bot].v = v, task[Bot].pc \in {"append", "crmRemove"}, Names(Bot, task[Bot], k),
         \A j \in Records \ {k} : crm'[j] = crm[j],
         \A q \in Actors \ {Bot} : task'[q] = task[q],
         task'[Bot].pc # "record", task'[Bot].v \in {0, v}, Shape(task'[Bot]),
         task'[Bot].v = v /\ CleanNext(v) => Fits(task'[Bot], visit[v], crm'),
         CleanNext(v) /\ visit[v].status # "cancelled"
           /\ ~(task'[Bot].v = v /\ Unfinished(task'[Bot]))
         => Covers(visit[v], crm', visit[v].services)
  PROVE  LinesInv'
<1> DEFINE t == task[Bot]
           u == task'[Bot]
<1>1. \A w \in Visits : CleanNext(w) => Clean(w)
  BY DEF Clean, CleanNext, MishapsStay
<1>2. v # 0 /\ k \in Records => k # 0
  BY BoundsAssumption
<1>3. ASSUME NEW w \in Visits \ {v}, k # 0, Has(w, k) PROVE ~Clean(w)
  <2>1. Has(v, k)
    BY DEF Has
  <2>2. "shared" \in mishap[w]
    BY <1>3, <2>1 DEF Unshared
  <2> QED
    BY <2>2 DEF Clean, Faults
<1>4. BotLines'
  <2>1. u.v # 0 /\ CleanNext(u.v) => Fits(u, visit'[u.v], crm')
    OBVIOUS
  <2> QED
    BY <2>1 DEF BotLines, Shape, Unsent, Clean, CleanNext, Fits, Covers
<1>5. ASSUME NEW w \in Visits, CleanNext(w), visit'[w].status # "cancelled",
             ~(u.v = w /\ Unfinished(u))
      PROVE  Covers(visit'[w], crm', visit'[w].services)
  <2>1. CASE w = v
    BY <1>5, <2>1
  <2>2. CASE w # v
    <3>1. Covers(visit[w], crm, visit[w].services) /\ Clean(w)
      BY <1>1, <1>5, <2>2 DEF RowLines
    <3>2. visit[w].rec = 0 \/ visit[w].rec \in Records \ {k}
      BY <1>3, <2>2, <3>1 DEF Has, Typed, TypeOK, VisitRow
    <3> QED
      BY <3>1, <3>2 DEF Covers
  <2> QED
    BY <2>1, <2>2
<1>6. RowLines'
  BY <1>5 DEF RowLines, Clean, CleanNext, Unfinished, Unsent, Removing, Covers
<1>7. ASSUME NEW q \in Actors, task'[q].pc = "record", task'[q].rec # 0, CleanNext(task'[q].v)
      PROVE  task'[q].sent \subseteq crm'[task'[q].rec].services
  <2> DEFINE w == task[q].v
  <2>1. q # Bot /\ task'[q] = task[q]
    BY <1>7
  <2>2. w \in Visits /\ task[q].rec \in Records
    BY <1>7, <2>1, RowOf, TaskType DEF Typed, TaskRow
  <2>3. Clean(w)
    BY <1>1, <1>7, <2>1, <2>2
  <2>4. task[q].rec # k
    <3>1. ASSUME w # v, task[q].rec = k PROVE FALSE
      BY <1>3, <1>7, <2>1, <2>2, <2>3, <3>1 DEF Has, Names
    <3>2. ASSUME w = v, task[q].rec = k PROVE FALSE
      <4>1. "doubled" \notin mishap[v]
        BY <2>3, <3>2 DEF Clean, Faults
      <4>2. visit[v].rec = 0
        BY <1>7, <2>1, <2>2, <3>2, <4>1 DEF Sole, Sending, Sends
      <4>3. Fits(t, visit[v], crm)
        BY <1>2, <2>3, <3>2 DEF BotLines
      <4>4. visit[v].rec = k
        BY <4>3 DEF Fits, Names
      <4> QED
        BY <1>2, <2>2, <3>2, <4>2, <4>4
    <3> QED
      BY <3>1, <3>2
  <2> QED
    BY <1>7, <2>1, <2>2, <2>3, <2>4 DEF SentLines
<1>8. SentLines'
  BY <1>7 DEF SentLines, Clean, CleanNext
<1> QED
  BY <1>4, <1>6, <1>8 DEF LinesInv

\* The append reaches the record of this row alone, and then it has every line.
LEMMA AppendLines ==
  ASSUME Typed, Typed', Sole, Unshared, BotLines, RowLines, SentLines, MishapsStay,
         AppendServices
  PROVE  LinesInv'
<1> DEFINE t == task[Bot]
           k == t.rec
           v == t.v
           row == visit[v]
           u == [t EXCEPT !.pc = "recordAppend"]
           more == IF altegio THEN t.sent ELSE crm[k].services \cup t.sent
           grown == [crm EXCEPT ![k].services = IF altegio THEN t.sent ELSE @ \cup t.sent]
<1>0. /\ t \in TaskRow /\ v \in Visits /\ v # 0 /\ t.pc = "append" /\ k \in Records \cup {0}
      /\ UNCHANGED <<altegio, visit>>
  BY TaskType, RowOf, BoundsAssumption DEF Typed, AppendServices, TaskRow
<1>1. /\ u.pc = "recordAppend" /\ u.v = v /\ u.want = t.want
  BY <1>0 DEF TaskRow
<1>2. Idle.pc = "idle" /\ Idle.v = 0
  BY DEF Idle
<1>3. /\ task' = [task EXCEPT ![Bot] = u] \/ task' = Done(Bot)
      /\ \/ crm' = grown
         \/ UNCHANGED crm /\ ~CleanNext(v) /\ task' = Done(Bot)
  <2>1. ASSUME Blame(v, {"short"}) PROVE ~CleanNext(v)
    <3> HIDE DEF grown, u, more
    <3>1. "short" \in mishap'[v]
      BY <1>0, <2>1 DEF Blame, Typed, TypeOK
    <3> QED
      BY <3>1 DEF CleanNext, Faults
  <2> QED
    BY <2>1 DEF AppendServices
<1>4. /\ \A j \in Records \ {k} : crm'[j] = crm[j]
      /\ k # 0 /\ crm' = grown => crm'[k].services = more
  BY <1>0, <1>3 DEF Typed, TypeOK, RecordRow
<1> HIDE DEF u, grown
<1>5. /\ task'[Bot] = u \/ task'[Bot] = Idle
      /\ \A q \in Actors \ {Bot} : task'[q] = task[q]
  BY <1>3 DEF Done, Typed, TypeOK
<1>6. Names(Bot, t, k)
  BY <1>0 DEF Names
<1>7. ASSUME CleanNext(v)
      PROVE  Covers(row, crm', row.services) /\ row.services = t.want
  <2>1. Clean(v) /\ crm' = grown
    BY <1>0, <1>3, <1>7 DEF Clean, CleanNext, MishapsStay
  <2>2. Fits(t, row, crm) /\ Unsent(t)
    BY <1>0, <2>1 DEF BotLines, Shape
  <2>3. /\ row.services = t.want /\ row.rec = t.seen.rec /\ t.seen.rec # 0 /\ k = row.rec
        /\ t.want \subseteq t.sent \cup t.seen.services
        /\ altegio => t.want \subseteq t.sent
        /\ t.seen.services \subseteq crm[k].services
    BY <1>0, <2>2 DEF Fits, Booking, Covers, Unsent
  <2>4. t.want \subseteq more
    BY <2>3
  <2> QED
    BY <1>4, <2>1, <2>3, <2>4 DEF Covers
<1>8. Shape(u) /\ Shape(Idle) /\ ~Unsent(u)
  BY <1>1, <1>2 DEF Shape, Unsent
<1>9. task'[Bot].v = v /\ CleanNext(v) => Fits(task'[Bot], row, crm')
  <2> HIDE DEF row, v
  <2> QED
    BY <1>0, <1>1, <1>2, <1>5, <1>7, <1>8 DEF Fits, Booking
<1>10. task'[Bot].pc # "record" /\ task'[Bot].v \in {0, v} /\ Shape(task'[Bot])
  BY <1>1, <1>2, <1>5, <1>8
<1> HIDE DEF v, k, more
<1>11. task[Bot].v = v /\ task[Bot].pc \in {"append", "crmRemove"} /\ Names(Bot, task[Bot], k)
  BY <1>0, <1>6 DEF v
<1> QED
  BY <1>0, <1>4, <1>5, <1>7, <1>9, <1>10, <1>11, EditKeeps

\* The CRM strikes the line first: the rest of the row stays in the record.
LEMMA RemoveLines ==
  ASSUME Typed, Typed', Sole, Unshared, BotLines, RowLines, SentLines, MishapsStay,
         RemoveService
  PROVE  LinesInv'
<1> DEFINE t == task[Bot]
           k == t.seen.rec
           v == t.v
           row == visit[v]
           rest == crm[k].services \ t.want
           thinned == [crm EXCEPT ![k].services = IF rest = {} THEN @ ELSE rest,
                                  ![k].live = IF rest = {} THEN FALSE ELSE @]
           u(q) == [t EXCEPT !.pc = q]
<1>0. /\ t \in TaskRow /\ v \in Visits /\ v # 0 /\ t.pc = "crmRemove"
      /\ k \in Records \cup {0} /\ UNCHANGED <<altegio, visit>>
  <2>1. t \in TaskRow /\ t.pc = "crmRemove"
    BY TaskType DEF Typed, RemoveService
  <2>2. k \in Records \cup {0}
    BY <2>1 DEF TaskRow, VisitRow
  <2>3. v \in Visits /\ v # 0
    BY <2>1, RowOf, BoundsAssumption
  <2> QED
    BY <2>1, <2>2, <2>3 DEF RemoveService
<1>1. \A q : /\ u(q).pc = q /\ u(q).v = v /\ u(q).want = t.want /\ u(q).seen = t.seen
             /\ u(q).op = t.op
  BY <1>0 DEF TaskRow
<1>2. Idle.pc = "idle" /\ Idle.v = 0
  BY DEF Idle
<1>3. \/ /\ crm' = thinned
         /\ \/ task' = [task EXCEPT ![Bot] = u("markVisit")]
            \/ task' = [task EXCEPT ![Bot] = u("storeServices")]
      \/ crm' = thinned /\ task' = Done(Bot) /\ ~CleanNext(v)
      \/ UNCHANGED crm /\ task' = Done(Bot)
  <2>1. ASSUME Blame(v, {"short"}) PROVE ~CleanNext(v)
    <3> HIDE DEF thinned, rest, u
    <3>1. "short" \in mishap'[v]
      BY <1>0, <2>1 DEF Blame, Typed, TypeOK
    <3> QED
      BY <3>1 DEF CleanNext, Faults
  <2> QED
    BY <2>1 DEF RemoveService
<1>4. \A j \in Records \ {k} : crm'[j] = crm[j]
  BY <1>0, <1>3 DEF Typed, TypeOK, RecordRow
<1>5. k # 0 /\ crm' = thinned => rest = {} \/ crm'[k].services = rest
  <2> HIDE DEF rest
  <2> QED
    BY <1>0 DEF Typed, TypeOK, RecordRow
<1> HIDE DEF u, thinned
<1>6. /\ task'[Bot] = u("markVisit") \/ task'[Bot] = u("storeServices") \/ task'[Bot] = Idle
      /\ task'[Bot] = Idle => UNCHANGED crm \/ ~CleanNext(v)
      /\ task'[Bot] # Idle => crm' = thinned
      /\ \A q \in Actors \ {Bot} : task'[q] = task[q]
  <2>1. u("markVisit") # Idle /\ u("storeServices") # Idle
    BY <1>1, <1>2
  <2> QED
    BY <1>3, <2>1 DEF Done, Typed, TypeOK
<1>7. Names(Bot, t, k) /\ t.op = "remove" /\ k # 0 /\ ~Unfinished(t)
  BY <1>0 DEF Names, BotLines, Shape, Unfinished, Unsent, Removing
<1>8. ASSUME CleanNext(v)
      PROVE  /\ Fits(t, row, crm)
             /\ row.status # "cancelled" => Covers(row, crm, row.services)
  <2>1. Clean(v)
    BY <1>0, <1>8 DEF Clean, CleanNext, MishapsStay
  <2> QED
    BY <1>0, <1>7, <2>1 DEF BotLines, RowLines
<1>9. ASSUME CleanNext(v), task'[Bot] = u("storeServices")
      PROVE  Fits(task'[Bot], row, crm')
  <2>1. row.services = t.seen.services /\ row.rec = k
    BY <1>0, <1>8, <1>9 DEF Fits
  <2>2. crm' = thinned
    BY <1>1, <1>2, <1>6, <1>9
  <2>3. row.status # "cancelled" => row.services \ t.want \subseteq rest
    BY <1>7, <1>8, <1>9, <2>1 DEF Covers
  <2>4. row.status # "cancelled" => Covers(row, crm', row.services \ t.want)
    BY <1>5, <1>7, <2>1, <2>2, <2>3 DEF Covers
  <2>5. /\ task'[Bot].pc = "storeServices" /\ task'[Bot].want = t.want
        /\ task'[Bot].seen = t.seen
    BY <1>1, <1>9
  <2> HIDE DEF row
  <2>6. ~Unsent(task'[Bot]) /\ "storeServices" \notin Booking
    BY <2>5 DEF Unsent, Booking
  <2> QED
    BY <2>1, <2>4, <2>5, <2>6 DEF Fits
<1>10. Shape(u("markVisit")) /\ Shape(u("storeServices")) /\ Shape(Idle)
  BY <1>1, <1>2 DEF Shape
<1>11. task'[Bot].v = v /\ CleanNext(v) => Fits(task'[Bot], row, crm')
  <2>1. \A s, cal : Fits(u("markVisit"), s, cal)
    BY <1>1 DEF Fits, Booking, Unsent
  <2> QED
    BY <1>0, <1>2, <1>6, <1>9, <2>1
<1>12. task'[Bot].pc # "record" /\ task'[Bot].v \in {0, v} /\ Shape(task'[Bot])
  BY <1>1, <1>2, <1>6, <1>10
<1>13. CleanNext(v) /\ row.status # "cancelled" /\ ~(task'[Bot].v = v /\ Unfinished(task'[Bot]))
       => Covers(row, crm', row.services)
  <2>1. Unfinished(u("markVisit")) /\ Unfinished(u("storeServices"))
    BY <1>1, <1>7 DEF Unfinished, Removing
  <2> HIDE DEF row
  <2> QED
    BY <1>1, <1>6, <1>8, <2>1 DEF Covers
<1> HIDE DEF v, k, row
<1>14. task[Bot].v = v /\ task[Bot].pc \in {"append", "crmRemove"} /\ Names(Bot, task[Bot], k)
  BY <1>0, <1>7 DEF v
<1> QED
  BY <1>0, <1>4, <1>6, <1>11, <1>12, <1>13, <1>14, EditKeeps DEF row

\* A tool starts from a row as it is, or from a new one with the record's own lines.
LEMMA ToolLines ==
  ASSUME Typed, Typed', RowsExist, Unshared, BotLines, RowLines, SentLines, MishapsStay,
         NEW op, NEW slot, NEW lines, StartTool(op, slot, lines)
  PROVE  LinesInv'
<1> DEFINE u == task'[Bot]
<1>1. UNCHANGED <<altegio, crm>> /\ ~Unfinished(task[Bot])
  BY DEF StartTool, Unfinished, Unsent, Removing
<1>2. \A v \in Visits : v # 0
  BY BoundsAssumption
<1>3. ASSUME NEW v, NEW row, Begin(op, v, row, slot, lines)
      PROVE  /\ NoneRecords /\ Shape(u) /\ u.v = v
             /\ \A cal : (row.status # "cancelled" => Covers(row, cal, row.services \ lines))
                         => Fits(u, row, cal)
  <2>1. /\ \A q \in Actors \ {Bot} : task'[q] = task[q]
        /\ u.v = v /\ u.seen = row /\ u.op = op /\ u.want = lines
        /\ u.pc \in {"crmRemove", "crmCancel", "markVisit", "storeServices"}
        /\ u.pc = "crmRemove" => op = "remove" /\ row.rec # 0
    BY <1>3, Began
  <2> HIDE DEF u
  <2>2. Shape(u) /\ ~Unsent(u) /\ u.pc \notin Booking \cup {"store", "append"}
    BY <2>1 DEF Shape, Unsent, Booking
  <2>3. \A cal : (row.status # "cancelled" => Covers(row, cal, row.services \ lines))
                 => Fits(u, row, cal)
    BY <2>1, <2>2 DEF Fits
  <2>4. NoneRecords
    BY <2>1 DEF NoneRecords, u
  <2> QED
    BY <2>1, <2>2, <2>3, <2>4
<1>4. ASSUME UNCHANGED <<visit, mishap>>, NEW v \in Visits,
             Begin(op, v, visit[v], slot, lines)
      PROVE  BotLines' /\ RowLines' /\ NoneRecords
  <2> DEFINE row == visit[v]
  <2>1. ASSUME CleanNext(v), row.status # "cancelled"
        PROVE  Covers(row, crm, row.services \ lines)
    <3>1. Covers(row, crm, row.services)
      BY <1>1, <1>4, <2>1 DEF RowLines, Clean, CleanNext
    <3> QED
      BY <3>1 DEF Covers
  <2>2. NoneRecords /\ Shape(u) /\ u.v = v /\ (CleanNext(v) => Fits(u, row, crm))
    BY <1>3, <1>4, <2>1
  <2>3. BotGoes
    BY <1>1, <2>2 DEF BotGoes
  <2> QED
    BY <1>1, <1>4, <2>2, <2>3, SameKeeps, UntouchedLines
<1>5. ASSUME NEW k \in Records, NEW v \in FreshVisits, Adopts(k, v, op, slot, lines)
      PROVE  BotLines' /\ RowLines' /\ NoneRecords
  <2> DEFINE row == [slot |-> crm[k].slot, services |-> crm[k].services,
                     status |-> "synced", rec |-> k, sync |-> "synced"]
  <2>1. /\ v \in Visits /\ visit' = [visit EXCEPT ![v] = row]
        /\ Begin(op, v, row, slot, lines)
    BY <1>5 DEF Adopts, FreshVisits
  <2>2. Covers(row, crm, row.services) /\ Covers(row, crm, row.services \ lines)
    BY DEF Covers
  <2> HIDE DEF row
  <2>3. visit'[v] = row /\ \A w \in Visits \ {v} : visit'[w] = visit[w]
    BY <2>1 DEF Typed, TypeOK
  <2>4. NoneRecords /\ Shape(u) /\ u.v = v /\ Fits(u, row, crm)
    BY <1>3, <2>1, <2>2
  <2>5. BotLines' /\ RowLines'
    BY <1>1, <2>1, <2>2, <2>3, <2>4, WriteKeeps
  <2> QED
    BY <2>4, <2>5
<1>6. BotLines' /\ RowLines' /\ NoneRecords
  BY <1>4, <1>5, ToolCases
<1>7. SentLines'
  BY <1>1, <1>6, SentKept
<1> QED
  BY <1>6, <1>7 DEF LinesInv

\* A crash in the middle of an append or a removal is on record.
LEMMA CrashLines ==
  ASSUME Typed, Crash
  PROVE  LinesSame /\ BotGoes
<1> DEFINE t == task[Bot]
<1>1. LinesSame
  <2>1. \A k \in Records : crm'[k].services = crm[k].services
    BY DEF Crash, Typed, TypeOK, RecordRow
  <2> QED
    BY <2>1 DEF Crash, LinesSame
<1>2. task'[Bot].pc = "idle"
  BY DEF Crash, Idle
<1>3. Unfinished(t) => ~CleanNext(t.v)
  <2>1. ASSUME Unfinished(t) PROVE ~CleanNext(t.v)
    <3>1. \/ t.pc \in {"order", "writeOrder", "gate", "appendLoad", "append", "storeServices"}
          \/ t.op = "remove" /\ t.pc = "markVisit"
      BY <2>1 DEF Unfinished, Unsent, Removing
    <3>2. t.v \in Visits
      BY <3>1, RowOf
    <3>3. "short" \in mishap'[t.v]
      BY <3>1, <3>2 DEF Crash
    <3> QED
      BY <3>3 DEF CleanNext, Faults
  <2> QED
    BY <2>1
<1> QED
  BY <1>1, <1>2, <1>3, GoesFree DEF Free

\* Every step keeps rows and records in agreement, or blames the row.
LEMMA NextLines ==
  ASSUME Typed, Typed', RowsExist, Sole, Unshared, LinesInv, [Next]_vars
  PROVE  LinesInv'
<1>1. MishapsStay
  BY NextCareful DEF Careful, MishapsStay
<1>2. BotLines /\ RowLines /\ SentLines
  BY DEF LinesInv
<1>3. ASSUME LinesSame, BotGoes, NoneRecords PROVE LinesInv'
  BY <1>1, <1>2, <1>3, SameKeeps, SentKept DEF LinesSame, LinesInv
<1>4. ASSUME BotLines', RowLines', UNCHANGED crm, NoneRecords PROVE LinesInv'
  BY <1>1, <1>2, <1>4, SentKept DEF LinesInv
<1>5. CASE BotStep
  <2>1. CASE MergeVisit \/ CreateVisit \/ StoreServices
    <3>1. BotLines' /\ RowLines'
      BY <1>1, <1>2, <2>1, MergeLines, CreateVisitLines, StoreLines
    <3>2. UNCHANGED crm
      BY <2>1 DEF MergeVisit, CreateVisit, StoreServices
    <3> QED
      BY <1>4, <2>1, <3>1, <3>2, BookingHold, RemoveHold
  <2>2. CASE \/ \E slot \in Slots, s \in Services : Book(slot, s)
             \/ RefuseBook \/ FindVisit \/ FindOrder \/ MirrorOrder
             \/ GateClosed \/ GateOpen \/ MirrorOff
    BY <1>1, <1>2, <1>3, <2>2, BookingLines, BookingHold
  <2>3. CASE LoadForAppend \/ RecordAppend \/ RereadAndConfirm
    BY <1>1, <1>2, <1>3, <2>3, ConfirmLines, AppendHold
  <2>4. CASE AppendServices
    BY <1>1, <1>2, <2>4, AppendLines
  <2>5. CASE RemoveService
    BY <1>1, <1>2, <2>5, RemoveLines
  <2>6. ASSUME NEW op, NEW slot, NEW lines, StartTool(op, slot, lines) PROVE LinesInv'
    BY <1>1, <1>2, <2>6, ToolLines
  <2> QED
    BY <1>5, <2>1, <2>2, <2>3, <2>4, <2>5, <2>6 DEF BotStep, CancelTool, MoveTool, RemoveTool
<1>6. ASSUME NEW m \in Managers, ManagerStep(m) PROVE LinesInv'
  <2>1. ~LinkSameDay(m) => NoneRecords
    BY <1>6, ManagerHold
  <2>2. CASE StoreMasters(m)
    <3>1. BotLines' /\ RowLines'
      BY <1>1, <1>2, <2>2, AssignLines
    <3>2. UNCHANGED crm /\ task'[m].pc # "record" /\ \A q \in Actors \ {m} : task'[q] = task[q]
      BY <2>2 DEF StoreMasters, Done, Idle, Actors, Typed, TypeOK
    <3>3. NoneRecords
      BY <3>2 DEF NoneRecords
    <3> QED
      BY <1>4, <3>1, <3>2, <3>3
  <2>3. CASE LinkSameDay(m)
    <3>1. LinesSame /\ BotGoes /\ SentLines'
      BY <1>1, <1>2, <2>3, LinkLines
    <3> QED
      BY <1>1, <1>2, <3>1, SameKeeps DEF LinesInv
  <2> QED
    BY <1>3, <1>6, <2>1, <2>2, <2>3, OthersLines DEF ManagerStep
<1>7. ASSUME NEW p \in Actors, SharedStep(p) PROVE LinesInv'
  <2>1. CASE MirrorKnown(p) \/ MirrorNew(p) \/ Reflect(p)
    BY <1>1, <1>2, <1>3, <2>1, MirrorLines, MirrorHold
  <2>2. CASE CreateBooking(p)
    <3>1. LinesSame /\ BotGoes /\ SentLines'
      BY <1>1, <1>2, <2>2, CreateBookingLines
    <3> QED
      BY <1>1, <1>2, <3>1, SameKeeps DEF LinesInv
  <2>3. CASE RecordBooking(p)
    <3>1. BotLines' /\ RowLines'
      BY <1>1, <1>2, <2>3, RecordLines
    <3> QED
      BY <1>4, <2>3, <3>1, MirrorHold DEF RecordBooking
  <2>4. CASE CancelBooking(p) \/ MarkVisit(p) \/ MarkOrders(p)
    BY <1>3, <2>4, CancelLines, CancelHold
  <2> QED
    BY <1>7, <2>1, <2>2, <2>3, <2>4 DEF SharedStep, Mirror
<1>8. CASE World
  BY <1>3, <1>8, WorldHold, CrashLines, OthersLines
<1>9. CASE UNCHANGED vars
  <2>1. LinesSame /\ BotGoes /\ NoneRecords
    BY <1>9, UntouchedLines DEF vars, BotGoes, NoneRecords
  <2> QED
    BY <1>3, <2>1
<1> QED
  BY <1>5, <1>6, <1>7, <1>8, <1>9 DEF Next

\* Nothing but the two steps that confirm tells the client anything.
LEMMA ToldKept ==
  ASSUME [Next]_vars, ~GateClosed, ~RereadAndConfirm
  PROVE  UNCHANGED told
<1>1. CASE BotStep
  <2>1. ASSUME \/ \E slot \in Slots, s \in Services : Book(slot, s)
               \/ RefuseBook \/ FindVisit \/ MergeVisit \/ CreateVisit
               \/ FindOrder \/ MirrorOrder
        PROVE  UNCHANGED told
    BY <2>1 DEF Book, RefuseBook, FindVisit, MergeVisit, CreateVisit, FindOrder, MirrorOrder
  <2>2. ASSUME GateOpen \/ MirrorOff \/ LoadForAppend \/ AppendServices \/ RecordAppend
        PROVE  UNCHANGED told
    BY <2>2 DEF GateOpen, MirrorOff, LoadForAppend, AppendServices, RecordAppend
  <2>3. ASSUME \/ \E op, slot, lines : StartTool(op, slot, lines)
               \/ RemoveService \/ StoreServices
        PROVE  UNCHANGED told
    BY <2>3 DEF StartTool, RemoveService, StoreServices
  <2> QED
    BY <1>1, <2>1, <2>2, <2>3 DEF BotStep, CancelTool, MoveTool, RemoveTool
<1>2. ASSUME NEW m \in Managers, ManagerStep(m) PROVE UNCHANGED told
  BY <1>2 DEF ManagerStep, Retry, AdminCancel, AssignMasters, StartRequest, StoreMasters,
              RereadAndReflect, LinkSameDay
<1>3. ASSUME NEW p \in Actors, SharedStep(p) PROVE UNCHANGED told
  BY <1>3 DEF SharedStep, Mirror, MirrorKnown, MirrorNew, CreateBooking, RecordBooking, Reflect,
              CancelBooking, MarkVisit, MarkOrders
<1>4. CASE World
  BY <1>4 DEF World, SalonCancels, SalonMoves, ApplyHook, SetWrites, Crash
<1>5. CASE UNCHANGED vars
  BY <1>5 DEF vars
<1> QED
  BY <1>1, <1>2, <1>3, <1>4, <1>5 DEF Next

\* The one step that confirms in the CRM does so after the agreement was reached.
LEMMA NextConfirmed ==
  ASSUME Typed, BotLines, ConfirmedLinesBooked, [Next]_vars
  PROVE  ConfirmedLinesBooked'
<1> DEFINE t == task[Bot]
           row == visit[t.v]
           new(how) == [visit |-> t.v, services |-> t.want, how |-> how,
                        booked |-> IF how = "crm" /\ row.rec # 0 THEN crm[row.rec].services
                                   ELSE {}]
<1>1. MishapsStay
  BY NextCareful DEF Careful, MishapsStay
<1>2. ASSUME NEW c \in told', c.how = "crm", mishap'[c.visit] \cap Faults = {}
      PROVE  c.services \subseteq c.booked
  <2>1. CASE c \in told
    <3>1. c.visit \in Visits
      BY <2>1 DEF Typed, TypeOK
    <3>2. mishap[c.visit] \cap Faults = {}
      BY <1>1, <1>2, <3>1 DEF MishapsStay
    <3> QED
      BY <1>2, <2>1, <3>2 DEF ConfirmedLinesBooked, Faults
  <2>2. CASE c \notin told
    <3>1. GateClosed \/ RereadAndConfirm
      BY <2>2, ToldKept
    <3>2. CASE GateClosed
      <4>1. c = new("local")
        BY <2>2, <3>2 DEF GateClosed, Confirmed
      <4> QED
        BY <1>2, <4>1
    <3>3. CASE RereadAndConfirm
      <4>1. /\ c = new("crm") /\ t.pc = "reread" /\ row.rec # 0
            /\ UNCHANGED mishap
        BY <2>2, <3>3 DEF RereadAndConfirm, Confirmed
      <4>2. t.v \in Visits /\ t.v # 0
        BY <4>1, RowOf, BoundsAssumption
      <4>3. Clean(t.v)
        BY <1>2, <4>1 DEF Clean
      <4>4. Fits(t, row, crm)
        BY <4>2, <4>3 DEF BotLines
      <4>5. t.want \subseteq crm[row.rec].services
        BY <4>1, <4>4 DEF Fits, Booking, Unsent, Covers
      <4> QED
        BY <4>1, <4>5
    <3> QED
      BY <3>1, <3>2, <3>3
  <2> QED
    BY <2>1, <2>2
<1> QED
  BY <1>2 DEF ConfirmedLinesBooked, Faults

\* A confirmation names lines the CRM has, in every reachable state.
THEOREM ConfirmTheorem == Spec => []ConfirmedLinesBooked
<1> DEFINE Lines == Unshared /\ LinesInv /\ ConfirmedLinesBooked
<1>1. Init => MoveInv /\ RowsExist /\ Sole
  BY DEF Init, MoveInv, CalendarOK, Created, Freeing, RowsExist, Exists, Sole, Sending, Sends,
         NoVisit, NoOrder, NoRecord, Idle
<1>2. ASSUME Init PROVE Lines
  <2>1. /\ \A v \in Visits : visit[v] = NoVisit /\ visit[v].rec = 0
        /\ \A p \in Actors : task[p] = Idle /\ task[p].pc = "idle" /\ task[p].v = 0
        /\ told = {}
    BY <1>2 DEF Init, NoVisit, Idle
  <2>2. Unshared
    BY <2>1, BoundsAssumption DEF Unshared, Has, Names
  <2>3. LinesInv
    BY <2>1 DEF LinesInv, BotLines, RowLines, SentLines, Shape, Covers
  <2>4. ConfirmedLinesBooked
    BY <2>1 DEF ConfirmedLinesBooked
  <2> QED
    BY <2>2, <2>3, <2>4
<1>3. Typed /\ [Next]_vars => Typed'
  BY NextTyped DEF Typed, TypeOK, Placed, OrdersPlaced, vars
<1>4. Typed /\ MoveInv /\ [Next]_vars => MoveInv'
  BY <1>3, NextFaithful, FaithfulKeeps
<1>5. Typed /\ RowsExist /\ Sole /\ [Next]_vars => (RowsExist /\ Sole)'
  BY NextSole
<1>6. Typed /\ MoveInv /\ RowsExist /\ Sole /\ Lines /\ [Next]_vars => Lines'
  <2> SUFFICES ASSUME Typed, MoveInv, RowsExist, Sole, Lines, [Next]_vars PROVE Lines'
    OBVIOUS
  <2>1. Unshared'
    BY NextUnshared
  <2>2. LinesInv'
    BY <1>3, NextLines
  <2>3. ConfirmedLinesBooked'
    BY NextConfirmed DEF LinesInv
  <2> QED
    BY <2>1, <2>2, <2>3
<1>7. Lines => ConfirmedLinesBooked
  OBVIOUS
<1> HIDE DEF Lines
<1> QED
  BY InitTyped, <1>1, <1>2, <1>3, <1>4, <1>5, <1>6, <1>7, PTL DEF Spec
=============================================================================
