--------------------------- MODULE BookingsProofs ---------------------------
(***************************************************************************)
(* Visits, their CRM records and cancellations, for any number of rows,    *)
(* records, managers, tools and faults.                                    *)
(***************************************************************************)
EXTENDS Bookings, TLAPS

-----------------------------------------------------------------------------
(* Types.                                                                  *)

\* Whoever is past the choice of a row has one.
Placed == \A p \in Actors : task[p].pc \notin {"idle", "find", "store"} => task[p].v # 0

\* An order names a row.
OrdersPlaced == \A o \in Orders : order[o].status # "none" => order[o].visit # 0

Typed == TypeOK /\ Placed /\ OrdersPlaced

USE DEF Actors, Records, Orders, Visits

\* What TypeOK says of a task.
LEMMA TaskType ==
  ASSUME TypeOK, NEW p \in Actors
  PROVE  task[p] \in TaskRow
BY DEF TypeOK

LEMMA RowTypes ==
  /\ NoVisit \in VisitRow
  /\ Idle \in TaskRow
  /\ NoOrder \in OrderRow
  /\ NoRecord \in RecordRow
<1>1. NoVisit \in VisitRow
  BY DEF NoVisit, VisitRow
<1>2. Idle \in TaskRow
  BY <1>1 DEF Idle, TaskRow, Phases, Ops
<1>3. NoOrder \in OrderRow /\ NoRecord \in RecordRow
  BY DEF NoOrder, OrderRow, NoRecord, RecordRow
<1> QED
  BY <1>1, <1>2, <1>3

LEMMA PhaseNames ==
  /\ "find" \in Phases /\ "store" \in Phases /\ "order" \in Phases
  /\ "writeOrder" \in Phases /\ "gate" \in Phases
  /\ "create" \in Phases /\ "record" \in Phases /\ "append" \in Phases
  /\ "reflect" \in Phases
BY DEF Phases, Writing

\* A task that is written keeps its type, and Placed is a matter of the new one.
LEMMA Written ==
  ASSUME Typed, NEW p \in Actors, NEW row \in TaskRow, task' = [task EXCEPT ![p] = row],
         row.pc \notin {"idle", "find", "store"} => row.v # 0
  PROVE  task' \in [Actors -> TaskRow] /\ Placed'
BY DEF Typed, TypeOK, Placed

LEMMA Stopped ==
  ASSUME Typed, NEW p \in Actors, task' = Done(p)
  PROVE  task' \in [Actors -> TaskRow] /\ Placed'
BY RowTypes, Written DEF Done, Idle

LEMMA MovedOn ==
  ASSUME Typed, NEW p \in Actors, NEW q \in Phases, task' = [task EXCEPT ![p].pc = q],
         task[p].pc \notin {"idle", "find", "store"}
  PROVE  task' \in [Actors -> TaskRow] /\ Placed'
<1> DEFINE row == [task[p] EXCEPT !.pc = q]
<1>1. row \in TaskRow /\ row.v = task[p].v
  BY TaskType DEF Typed, TaskRow
<1>2. task[p].v # 0
  BY DEF Typed, Placed
<1>3. task' = [task EXCEPT ![p] = row]
  OBVIOUS
<1> QED
  BY <1>1, <1>2, <1>3, Written

LEMMA Blamed ==
  ASSUME TypeOK, NEW v, NEW what \in SUBSET Mishaps, Blame(v, what)
  PROVE  mishap' \in [Visits -> SUBSET Mishaps]
BY DEF TypeOK, Blame

LEMMA Spent ==
  ASSUME TypeOK, NEW what \in {"tools", "requests", "faults"}, Spend(what)
  PROVE  left' \in [{"tools", "requests", "faults"} -> Nat]
BY DEF TypeOK, Spend

LEMMA VisitWritten ==
  ASSUME TypeOK, NEW v, NEW row \in VisitRow, visit' = [visit EXCEPT ![v] = row]
  PROVE  visit' \in [Visits -> VisitRow]
BY DEF TypeOK

\* A CRM record that is edited.
LEMMA RecordEdited ==
  ASSUME TypeOK, NEW k, NEW row, k \in Records => row \in RecordRow
  PROVE  [crm EXCEPT ![k] = row] \in [Records -> RecordRow]
BY DEF TypeOK

LEMMA LinesWritten ==
  ASSUME TypeOK, NEW v \in Visits, NEW lines \in SUBSET Services,
         visit' = [visit EXCEPT ![v].services = lines]
  PROVE  visit' \in [Visits -> VisitRow]
<1> DEFINE row == [visit[v] EXCEPT !.services = lines]
<1>1. visit[v] \in VisitRow
  BY DEF TypeOK
<1>2. row \in VisitRow
  BY <1>1 DEF VisitRow
<1>3. visit' = [visit EXCEPT ![v] = row]
  OBVIOUS
<1> QED
  BY <1>2, <1>3, VisitWritten

\* The row of a task that has one.
LEMMA RowOf ==
  ASSUME Typed, NEW p \in Actors, task[p].pc \notin {"idle", "find", "store"}
  PROVE  task[p].v \in Visits /\ visit[task[p].v] \in VisitRow
<1>1. task[p].v \in Visits
  BY TaskType DEF Typed, Placed, TaskRow
<1> QED
  BY <1>1 DEF Typed, TypeOK

\* A confirmation is about the row of the bot's task.
LEMMA ConfirmedType ==
  ASSUME Typed, task[Bot].pc \in {"gate", "reread"}, NEW how \in {"crm", "local"}
  PROVE  Confirmed(task[Bot], how) \in
           SUBSET [visit: Visits, services: SUBSET Services, how: {"crm", "local"},
                   booked: SUBSET Services]
<1> DEFINE t == task[Bot]
           rec == visit[t.v].rec
           booked == IF how = "crm" /\ rec # 0 THEN crm[rec].services ELSE {}
<1>1. t.v \in Visits /\ visit[t.v] \in VisitRow /\ t \in TaskRow
  BY RowOf, TaskType DEF Typed
<1>2. t.want \in SUBSET Services /\ rec \in Records \cup {0}
  BY <1>1 DEF TaskRow, VisitRow
<1>3. booked \in SUBSET Services
  BY <1>2 DEF Typed, TypeOK, RecordRow
<1>4. [visit |-> t.v, services |-> t.want, how |-> how, booked |-> booked] \in
        [visit: Visits, services: SUBSET Services, how: {"crm", "local"},
         booked: SUBSET Services]
  BY <1>1, <1>2, <1>3
<1> QED
  BY <1>4 DEF Confirmed, Typed, TypeOK

LEMMA InitTyped == Init => Typed
<1> SUFFICES ASSUME Init PROVE Typed
  OBVIOUS
<1>1. TypeOK
  BY RowTypes, BudgetAssumption DEF Init, TypeOK, Mishaps
<1>2. Placed /\ OrdersPlaced
  BY DEF Init, Placed, OrdersPlaced, Idle, NoOrder
<1> QED
  BY <1>1, <1>2 DEF Typed

-----------------------------------------------------------------------------
(* The booking tool keeps the types.                                       *)

LEMMA BookTyped ==
  ASSUME Typed, NEW slot \in Slots, NEW s \in Services, Book(slot, s)
  PROVE  Typed'
<1> DEFINE row == [Idle EXCEPT !.pc = "find", !.op = "book", !.slot = slot, !.want = {s}]
<1>1. row \in TaskRow /\ row.pc = "find"
  BY RowTypes DEF Idle, TaskRow, Phases, Ops
<1>2. task' \in [Actors -> TaskRow] /\ Placed'
  BY <1>1, Written DEF Book
<1>3. left' \in [{"tools", "requests", "faults"} -> Nat]
  BY Spent DEF Book, Typed
<1> QED
  BY <1>2, <1>3 DEF Typed, TypeOK, OrdersPlaced, Book

LEMMA RefuseTyped ==
  ASSUME Typed, RefuseBook
  PROVE  Typed'
<1>1. task' \in [Actors -> TaskRow] /\ Placed'
  BY Stopped DEF RefuseBook, Done
<1> QED
  BY <1>1 DEF Typed, TypeOK, OrdersPlaced, RefuseBook

LEMMA FindTyped ==
  ASSUME Typed, FindVisit
  PROVE  Typed'
<1> DEFINE t == task[Bot]
           found(v, row) == [t EXCEPT !.pc = "store", !.v = v, !.seen = row]
<1>1. PICK v \in Visits \cup {0}, row \in VisitRow : task' = [task EXCEPT ![Bot] = found(v, row)]
  BY RowTypes DEF FindVisit, Typed, TypeOK
<1>4. task[Bot] \in TaskRow
  BY TaskType DEF Typed
<1>2. found(v, row) \in TaskRow /\ found(v, row).pc = "store"
  BY <1>4, PhaseNames DEF TaskRow
<1>3. task' \in [Actors -> TaskRow] /\ Placed'
  BY <1>1, <1>2, Written
<1> QED
  BY <1>3 DEF Typed, TypeOK, OrdersPlaced, FindVisit

LEMMA MergeTyped ==
  ASSUME Typed, MergeVisit
  PROVE  Typed'
<1> DEFINE t == task[Bot]
           new == t.want \ t.seen.services
           row == [t EXCEPT !.pc = "order", !.adds = (new # {}),
                            !.want = t.seen.services \cup t.want]
           v == [visit[t.v] EXCEPT !.services = t.seen.services \cup t.want,
                                   !.sync = IF new # {} /\ t.seen.rec # 0 THEN "pending"
                                            ELSE visit[t.v].sync]
<1>1. t \in TaskRow /\ t.v # 0
  BY TaskType DEF Typed, MergeVisit
<1>2. t.v \in Visits /\ visit[t.v] \in VisitRow
  BY <1>1 DEF Typed, TypeOK, TaskRow
<1> DEFINE adds == new # {}
           want == t.seen.services \cup t.want
<1>0. adds \in BOOLEAN /\ want \in SUBSET Services
  BY <1>1 DEF TaskRow, VisitRow
<1>3. row \in TaskRow /\ row.v = t.v
  <2>1. row = [t EXCEPT !.pc = "order", !.adds = adds, !.want = want]
    OBVIOUS
  <2> HIDE DEF adds, want, row
  <2> QED
    BY <1>0, <1>1, <2>1, PhaseNames DEF TaskRow
<1>4. task' \in [Actors -> TaskRow] /\ Placed'
  BY <1>1, <1>3, Written DEF MergeVisit
<1>5. v \in VisitRow
  BY <1>1, <1>2 DEF TaskRow, VisitRow
<1>6. visit' = [visit EXCEPT ![t.v] = v]
  BY <1>2 DEF MergeVisit, Typed, TypeOK, VisitRow
<1>7. visit' \in [Visits -> VisitRow]
  BY <1>5, <1>6, VisitWritten DEF Typed
<1>8. mishap' \in [Visits -> SUBSET Mishaps]
  BY Blamed DEF MergeVisit, Typed, Mishaps
<1> QED
  BY <1>4, <1>7, <1>8 DEF Typed, TypeOK, OrdersPlaced, MergeVisit

LEMMA CreateVisitTyped ==
  ASSUME Typed, CreateVisit
  PROVE  Typed'
<1> DEFINE t == task[Bot]
           row(v) == [t EXCEPT !.pc = "order", !.v = v, !.adds = TRUE]
           new == [slot |-> t.slot, services |-> t.want, status |-> "confirmed",
                   rec |-> 0, sync |-> "pending"]
<1>1. PICK v \in Visits : /\ visit' = [visit EXCEPT ![v] = new]
                          /\ task' = [task EXCEPT ![Bot] = row(v)]
  BY DEF CreateVisit
<1>2. t \in TaskRow
  BY TaskType DEF Typed
<1>0. v # 0
  BY BoundsAssumption
<1>3. row(v) \in TaskRow /\ row(v).v = v
  BY <1>2 DEF TaskRow, Phases, Writing
<1>4. new \in VisitRow
  BY <1>2 DEF TaskRow, VisitRow
<1>5. task' \in [Actors -> TaskRow] /\ Placed'
  BY <1>0, <1>1, <1>3, Written
<1>6. visit' \in [Visits -> VisitRow]
  BY <1>1, <1>4, VisitWritten DEF Typed
<1> QED
  BY <1>5, <1>6 DEF Typed, TypeOK, OrdersPlaced, CreateVisit

\* The bot goes on with the order it found, if it is to write one (0: a new one).
LEMMA FindOrderCases ==
  ASSUME Typed, FindOrder
  PROVE  \E q \in {"writeOrder", "gate"}, i \in Orders \cup {0} :
           task' = [task EXCEPT ![Bot] = [task[Bot] EXCEPT !.pc = q, !.ord = i]]
<1> DEFINE t == task[Bot]
           to(q, i) == [task EXCEPT ![Bot] = [t EXCEPT !.pc = q, !.ord = i]]
<1>1. \/ \E o \in Orders \cup {0} : task' = to("writeOrder", o)
      \/ task' = [task EXCEPT ![Bot].pc = "gate"]
  BY DEF FindOrder
<1>2. CASE \E o \in Orders \cup {0} : task' = to("writeOrder", o)
  BY <1>2
<1>3. CASE task' = [task EXCEPT ![Bot].pc = "gate"]
  <2>1. t \in TaskRow
    BY TaskType DEF Typed
  <2>2. t.ord \in Orders \cup {0} /\ [t EXCEPT !.pc = "gate"] = [t EXCEPT !.pc = "gate", !.ord = t.ord]
    BY <2>1 DEF TaskRow
  <2>3. task' = to("gate", t.ord)
    BY <1>3, <2>2
  <2> QED
    BY <2>2, <2>3
<1> QED
  BY <1>1, <1>2, <1>3

LEMMA FindOrderTyped ==
  ASSUME Typed, FindOrder
  PROVE  Typed'
<1> DEFINE t == task[Bot]
           row(q, i) == [t EXCEPT !.pc = q, !.ord = i]
<1>1. PICK q \in {"writeOrder", "gate"}, i \in Orders \cup {0} :
        task' = [task EXCEPT ![Bot] = row(q, i)]
  BY FindOrderCases
<1>2. t \in TaskRow /\ t.v # 0
  BY TaskType DEF Typed, Placed, FindOrder
<1>3. row(q, i) \in TaskRow /\ row(q, i).v = t.v
  BY <1>2, PhaseNames DEF TaskRow
<1>4. task' \in [Actors -> TaskRow] /\ Placed'
  BY <1>1, <1>2, <1>3, Written
<1>5. left' \in [{"tools", "requests", "faults"} -> Nat]
  BY Spent DEF FindOrder, Typed, TypeOK
<1> QED
  BY <1>4, <1>5 DEF Typed, TypeOK, OrdersPlaced, FindOrder

LEMMA MirrorOrderTyped ==
  ASSUME Typed, MirrorOrder
  PROVE  Typed'
<1> DEFINE t == task[Bot]
<1>1. t \in TaskRow /\ t.v \in Visits
  BY RowOf, TaskType DEF Typed, MirrorOrder
<1>2. task' \in [Actors -> TaskRow] /\ Placed'
  BY MovedOn DEF MirrorOrder, Phases, Writing
<1>3. t.slot \in Slots \cup {NoSlot}
  BY <1>1 DEF TaskRow
<1>4. order' \in [Orders -> OrderRow] /\ OrdersPlaced'
  <2>1. CASE order' = [order EXCEPT ![t.ord].visit = t.v, ![t.ord].slot = t.slot]
    <3>1. \A o \in Orders :
            /\ order'[o] \in OrderRow
            /\ order'[o].visit \in {order[o].visit, t.v} /\ order'[o].status = order[o].status
      BY <1>1, <1>3, <2>1 DEF Typed, TypeOK, OrderRow
    <3>2. t.v # 0
      BY BoundsAssumption, <1>1
    <3> QED
      BY <2>1, <3>1, <3>2 DEF Typed, TypeOK, OrdersPlaced
  <2>3. CASE NewOrder(t.v, t.slot)
    <3> DEFINE new == [visit |-> t.v, slot |-> t.slot, status |-> "confirmed",
                       sync |-> "skipped"]
    <3>1. PICK o \in Orders : order' = [order EXCEPT ![o] = new]
      BY <2>3 DEF NewOrder
    <3>2. new \in OrderRow
      BY <1>1, <1>3 DEF OrderRow
    <3> QED
      BY <1>1, <3>1, <3>2 DEF Typed, TypeOK, OrdersPlaced
  <2>4. CASE UNCHANGED order
    BY <2>4 DEF Typed, TypeOK, OrdersPlaced
  <2> QED
    BY <2>1, <2>3, <2>4 DEF MirrorOrder
<1>5. left' \in [{"tools", "requests", "faults"} -> Nat]
  BY Spent DEF MirrorOrder, Typed, TypeOK
<1>6. mishap' \in [Visits -> SUBSET Mishaps]
  <2>1. UNCHANGED mishap \/ \E what \in SUBSET Mishaps : Blame(t.v, what)
    BY DEF MirrorOrder, Mishaps
  <2> QED
    BY <2>1, Blamed DEF Typed, TypeOK
<1> QED
  BY <1>2, <1>4, <1>5, <1>6 DEF Typed, TypeOK, MirrorOrder

LEMMA GateTyped ==
  ASSUME Typed, GateClosed \/ GateOpen
  PROVE  Typed'
<1> DEFINE t == task[Bot]
<1>1. t \in TaskRow /\ t.v \in Visits /\ visit[t.v] \in VisitRow
  BY RowOf, TaskType DEF Typed, GateClosed, GateOpen
<1>2. CASE GateClosed
  <2>1. task' \in [Actors -> TaskRow] /\ Placed'
    BY <1>2, Stopped DEF GateClosed, Done
  <2>2. visit' \in [Visits -> VisitRow]
    BY <1>1, <1>2 DEF GateClosed, Typed, TypeOK, VisitRow
  <2>3. mishap' \in [Visits -> SUBSET Mishaps]
    BY <1>2, Blamed DEF GateClosed, Typed, Mishaps
  <2>4. told' \in SUBSET [visit: Visits, services: SUBSET Services, how: {"crm", "local"},
                          booked: SUBSET Services]
    BY <1>2, ConfirmedType DEF GateClosed
  <2> QED
    BY <1>2, <2>1, <2>2, <2>3, <2>4 DEF Typed, TypeOK, OrdersPlaced, GateClosed
<1>3. CASE GateOpen
  <2>1. \/ task' = [task EXCEPT ![Bot].pc = "load"]
        \/ task' = [task EXCEPT ![Bot].pc = "appendLoad"]
        \/ task' = Done(Bot)
    BY <1>3 DEF GateOpen, Done, Typed, TypeOK
  <2>2. task' \in [Actors -> TaskRow] /\ Placed'
    BY <1>3, <2>1, MovedOn, Stopped DEF GateOpen, Phases, Writing
  <2> QED
    BY <1>3, <2>2 DEF Typed, TypeOK, OrdersPlaced, GateOpen
<1> QED
  BY <1>2, <1>3

-----------------------------------------------------------------------------
(* Sending to the CRM keeps the types.                                     *)

LEMMA MirrorOffTyped ==
  ASSUME Typed, MirrorOff
  PROVE  Typed'
<1>1. task' \in [Actors -> TaskRow] /\ Placed'
  BY MovedOn DEF MirrorOff, Phases
<1> QED
  BY <1>1 DEF Typed, TypeOK, OrdersPlaced, MirrorOff

LEMMA MirrorKnownTyped ==
  ASSUME Typed, NEW p \in Actors, MirrorKnown(p)
  PROVE  Typed'
<1> DEFINE t == task[p]
           row == [t EXCEPT !.pc = "reflect", !.rec = visit[t.v].rec]
<1>1. t \in TaskRow /\ t.v \in Visits /\ t.v # 0 /\ visit[t.v] \in VisitRow
  BY RowOf, TaskType DEF Typed, MirrorKnown
<1>2. row \in TaskRow /\ row.v = t.v
  BY <1>1 DEF TaskRow, VisitRow, Phases
<1>3. task' \in [Actors -> TaskRow] /\ Placed'
  BY <1>1, <1>2, Written DEF MirrorKnown
<1>4. visit' \in [Visits -> VisitRow]
  BY <1>1 DEF MirrorKnown, Typed, TypeOK, VisitRow
<1> QED
  BY <1>3, <1>4 DEF Typed, TypeOK, OrdersPlaced, MirrorKnown

LEMMA MirrorNewTyped ==
  ASSUME Typed, NEW p \in Actors, MirrorNew(p)
  PROVE  Typed'
<1> DEFINE t == task[p]
           row == [t EXCEPT !.pc = "create", !.sent = visit[t.v].services]
<1>1. t \in TaskRow /\ t.v \in Visits /\ t.v # 0 /\ visit[t.v] \in VisitRow
  BY RowOf, TaskType DEF Typed, MirrorNew
<1>2. row \in TaskRow /\ row.v = t.v
  BY <1>1 DEF TaskRow, VisitRow, Phases, Writing
<1>3. task' \in [Actors -> TaskRow] /\ Placed'
  BY <1>1, <1>2, Written DEF MirrorNew
<1>4. mishap' \in [Visits -> SUBSET Mishaps]
  BY Blamed DEF MirrorNew, Typed, Mishaps
<1> QED
  BY <1>3, <1>4 DEF Typed, TypeOK, OrdersPlaced, MirrorNew

\* createBooking made record k (none if 0), and its id was heard or not.
Made(p, k, heard) ==
  /\ heard => k # 0
  /\ k # 0 => crm[k].visit = 0
  /\ crm' = [crm EXCEPT ![k] = [visit |-> task[p].v, slot |-> visit[task[p].v].slot,
                                services |-> task[p].sent, live |-> TRUE, heard |-> heard]]
  /\ task' = [task EXCEPT ![p] = [task[p] EXCEPT !.pc = "record",
                                                 !.rec = IF heard THEN k ELSE 0]]

LEMMA CreateBookingCases ==
  ASSUME Typed, NEW p \in Actors, CreateBooking(p)
  PROVE  \E k \in Records \cup {0}, heard \in BOOLEAN : Made(p, k, heard)
<1> DEFINE t == task[p]
           made(k, heard) == [crm EXCEPT ![k] = [visit |-> t.v, slot |-> visit[t.v].slot,
                                            services |-> t.sent, live |-> TRUE,
                                            heard |-> heard]]
           to(k) == [task EXCEPT ![p] = [t EXCEPT !.pc = "record", !.rec = k]]
<1>1. \/ \E k \in Records : k \in FreshRecords /\ crm' = made(k, TRUE) /\ task' = to(k)
      \/ \E k \in Records : k \in FreshRecords /\ crm' = made(k, FALSE) /\ task' = to(0)
      \/ UNCHANGED crm /\ task' = to(0)
  BY DEF CreateBooking, IsFirst
<1>2. \A k \in Records : k # 0 /\ (k \in FreshRecords => crm[k].visit = 0)
  BY BoundsAssumption DEF FreshRecords
<1>3. crm = made(0, FALSE)
  BY BoundsAssumption DEF Typed, TypeOK
<1>4. CASE \E k \in Records : k \in FreshRecords /\ crm' = made(k, TRUE) /\ task' = to(k)
  BY <1>2, <1>4 DEF Made
<1>5. CASE \E k \in Records : k \in FreshRecords /\ crm' = made(k, FALSE) /\ task' = to(0)
  BY <1>2, <1>5 DEF Made
<1>6. CASE UNCHANGED crm /\ task' = to(0)
  BY <1>3, <1>6 DEF Made
<1> QED
  BY <1>1, <1>4, <1>5, <1>6

LEMMA CreateBookingTyped ==
  ASSUME Typed, NEW p \in Actors, CreateBooking(p)
  PROVE  Typed'
<1> DEFINE t == task[p]
           row(k) == [t EXCEPT !.pc = "record", !.rec = k]
           record(heard) == [visit |-> t.v, slot |-> visit[t.v].slot, services |-> t.sent,
                             live |-> TRUE, heard |-> heard]
<1>1. PICK k \in Records \cup {0}, heard \in BOOLEAN :
        /\ crm' = [crm EXCEPT ![k] = record(heard)]
        /\ task' = [task EXCEPT ![p] = row(IF heard THEN k ELSE 0)]
  <2>1. PICK k \in Records \cup {0}, heard \in BOOLEAN : Made(p, k, heard)
    BY CreateBookingCases
  <2> QED
    BY <2>1 DEF Made
<1>0. t.pc = "create"
  BY DEF CreateBooking
<1>2. t \in TaskRow /\ t.v \in Visits /\ t.v # 0 /\ visit[t.v] \in VisitRow
  BY <1>0, RowOf, TaskType DEF Typed
<1>3. \A i \in Records \cup {0} : row(i) \in TaskRow /\ row(i).v = t.v
  BY <1>2 DEF TaskRow, Phases, Writing
<1>4. (IF heard THEN k ELSE 0) \in Records \cup {0}
  OBVIOUS
<1>5. task' \in [Actors -> TaskRow] /\ Placed'
  <2> DEFINE i == IF heard THEN k ELSE 0
  <2>1. row(i) \in TaskRow /\ row(i).v # 0
    BY <1>2, <1>3, <1>4
  <2> QED
    BY <1>1, <2>1, Written
<1>6. record(heard) \in RecordRow
  BY <1>2 DEF TaskRow, VisitRow, RecordRow
<1>7. crm' \in [Records -> RecordRow]
  BY <1>1, <1>6 DEF Typed, TypeOK
<1>8. left' \in [{"tools", "requests", "faults"} -> Nat]
  BY Spent DEF CreateBooking, Typed, TypeOK
<1> QED
  BY <1>5, <1>7, <1>8 DEF Typed, TypeOK, OrdersPlaced, CreateBooking

\* m took record k for the one it asked for.
Linked(m, k) ==
  /\ task[m].pc = "create"
  /\ crm[k].live
  /\ crm' = [crm EXCEPT ![k].heard = @ \/ crm[k].visit = task[m].v]
  /\ task' = [task EXCEPT ![m] = [task[m] EXCEPT !.pc = "record", !.rec = k]]
  /\ \A v \in Visits :
       /\ mishap[v] \subseteq mishap'[v]
       /\ mishap'[v] \subseteq mishap[v] \cup {"shared", "short"}
       /\ v \in Holders(k) \cup {task[m].v} /\ Holders(k) \ {task[m].v} # {} =>
            "shared" \in mishap'[v]
       /\ v = task[m].v /\ ~(task[m].sent \subseteq crm[k].services) => "short" \in mishap'[v]
  /\ mishap' \in [Visits -> SUBSET Mishaps]
  /\ UNCHANGED <<altegio, writes, visit, order, hooks, told>>

LEMMA LinkCases ==
  ASSUME Typed, NEW m \in Managers, LinkSameDay(m)
  PROVE  \E k \in Records : Linked(m, k)
<1> DEFINE t == task[m]
           others(k) == Holders(k) \ {t.v}
           harm(v, k) ==
             (IF others(k) # {} /\ v \in Holders(k) \cup {t.v} THEN {"shared"} ELSE {})
             \cup (IF v = t.v /\ ~(t.sent \subseteq crm[k].services) THEN {"short"} ELSE {})
<1>1. PICK k \in Records :
        /\ crm[k].live
        /\ crm' = [crm EXCEPT ![k].heard = @ \/ crm[k].visit = t.v]
        /\ task' = [task EXCEPT ![m] = [t EXCEPT !.pc = "record", !.rec = k]]
        /\ mishap' = [v \in Visits |-> mishap[v] \cup harm(v, k)]
  BY DEF LinkSameDay
<1>2. /\ t.pc = "create"
      /\ UNCHANGED <<altegio, writes, visit, order, hooks, told>>
  BY DEF LinkSameDay
<1>3. \A v \in Visits : mishap'[v] = mishap[v] \cup harm(v, k)
  BY <1>1
<1>4. \A v \in Visits : harm(v, k) \subseteq {"shared", "short"}
  OBVIOUS
<1>5. mishap' \in [Visits -> SUBSET Mishaps]
  BY <1>1, <1>4 DEF Typed, TypeOK, Mishaps
<1>6. \A v \in Visits :
        /\ v \in Holders(k) \cup {t.v} /\ Holders(k) \ {t.v} # {} => "shared" \in harm(v, k)
        /\ v = t.v /\ ~(t.sent \subseteq crm[k].services) => "short" \in harm(v, k)
  OBVIOUS
<1> HIDE DEF harm
<1>7. Linked(m, k)
  BY <1>1, <1>2, <1>3, <1>4, <1>5, <1>6 DEF Linked
<1> QED
  BY <1>7

LEMMA LinkTyped ==
  ASSUME Typed, NEW m \in Managers, LinkSameDay(m)
  PROVE  Typed'
<1> DEFINE t == task[m]
           row(k) == [t EXCEPT !.pc = "record", !.rec = k]
<1>1. PICK k \in Records : Linked(m, k)
  BY LinkCases
<1>2. t \in TaskRow /\ t.v \in Visits /\ t.v # 0
  BY <1>1, RowOf, TaskType, BoundsAssumption DEF Linked, Typed
<1>3. row(k) \in TaskRow /\ row(k).v = t.v
  BY <1>2, PhaseNames DEF TaskRow
<1>4. task' \in [Actors -> TaskRow] /\ Placed'
  BY <1>1, <1>2, <1>3, Written DEF Linked
<1>5. crm' \in [Records -> RecordRow]
  <2> DEFINE heard == crm[k].heard \/ crm[k].visit = t.v
             new == [crm[k] EXCEPT !.heard = heard]
  <2>1. crm[k] \in RecordRow /\ heard \in BOOLEAN
    BY DEF Typed, TypeOK, RecordRow
  <2>2. new \in RecordRow
    <3> HIDE DEF heard
    <3> QED
      BY <2>1 DEF RecordRow
  <2>3. crm' = [crm EXCEPT ![k] = new]
    BY <1>1 DEF Linked
  <2> HIDE DEF new
  <2> QED
    BY <2>2, <2>3, RecordEdited DEF Typed
<1>6. left' \in [{"tools", "requests", "faults"} -> Nat]
  BY Spent DEF LinkSameDay, Typed, TypeOK
<1> QED
  BY <1>1, <1>4, <1>5, <1>6 DEF Linked, Typed, TypeOK, OrdersPlaced

LEMMA RecordBookingTyped ==
  ASSUME Typed, NEW p \in Actors, RecordBooking(p)
  PROVE  Typed'
<1> DEFINE t == task[p]
           row == [t EXCEPT !.pc = "reflect"]
<1>1. t \in TaskRow /\ t.v \in Visits /\ t.v # 0 /\ visit[t.v] \in VisitRow
  BY RowOf, TaskType DEF Typed, RecordBooking
<1>2. row \in TaskRow /\ row.v = t.v
  BY <1>1 DEF TaskRow, Phases
<1>3. task' \in [Actors -> TaskRow] /\ Placed'
  BY <1>1, <1>2, Written DEF RecordBooking
<1>4. t.rec \in Records \cup {0}
  BY <1>1 DEF TaskRow
<1>5. visit' \in [Visits -> VisitRow]
  BY <1>1, <1>4 DEF RecordBooking, Typed, TypeOK, VisitRow
<1>6. mishap' \in [Visits -> SUBSET Mishaps]
  BY Blamed DEF RecordBooking, Typed, Mishaps
<1> QED
  BY <1>3, <1>5, <1>6 DEF Typed, TypeOK, OrdersPlaced, RecordBooking

\* Reflecting a status on the orders.
LEMMA OrdersSynced ==
  ASSUME Typed, NEW v, NEW status \in {"pending", "synced", "failed", "skipped"},
         order' = SyncOrders(v, status)
  PROVE  order' \in [Orders -> OrderRow] /\ OrdersPlaced'
<1>1. \A o \in Orders : /\ order'[o] \in OrderRow
                        /\ order'[o].status = order[o].status
                        /\ order'[o].visit = order[o].visit
  BY DEF SyncOrders, Typed, TypeOK, OrderRow
<1>2. order' = [o \in Orders |-> order'[o]]
  BY DEF SyncOrders
<1> QED
  BY <1>1, <1>2 DEF Typed, OrdersPlaced

LEMMA ReflectTyped ==
  ASSUME Typed, NEW p \in Actors, Reflect(p)
  PROVE  Typed'
<1>1. task' = [task EXCEPT ![p].pc = "reread"] \/ task' = Done(p)
  BY DEF Reflect
<1>2. task' \in [Actors -> TaskRow] /\ Placed'
  BY <1>1, MovedOn, Stopped DEF Reflect, Phases
<1>3. order' \in [Orders -> OrderRow] /\ OrdersPlaced'
  BY OrdersSynced DEF Reflect
<1> QED
  BY <1>2, <1>3 DEF Typed, TypeOK, Reflect

LEMMA RereadTyped ==
  ASSUME Typed, RereadAndConfirm \/ \E m \in Managers : RereadAndReflect(m)
  PROVE  Typed'
<1>1. CASE RereadAndConfirm
  <2>1. task' \in [Actors -> TaskRow] /\ Placed'
    BY <1>1, Stopped DEF RereadAndConfirm
  <2>2. told' \in SUBSET [visit: Visits, services: SUBSET Services, how: {"crm", "local"},
                          booked: SUBSET Services]
    BY <1>1, ConfirmedType DEF RereadAndConfirm, Typed, TypeOK
  <2> QED
    BY <1>1, <2>1, <2>2 DEF Typed, TypeOK, OrdersPlaced, RereadAndConfirm
<1>2. ASSUME NEW m \in Managers, RereadAndReflect(m)
      PROVE  Typed'
  <2>1. task' \in [Actors -> TaskRow] /\ Placed'
    BY <1>2, Stopped DEF RereadAndReflect
  <2>2. visit[task[m].v] \in VisitRow
    BY <1>2, RowOf DEF RereadAndReflect
  <2>3. order' \in [Orders -> OrderRow] /\ OrdersPlaced'
    BY <1>2, <2>2, OrdersSynced DEF RereadAndReflect, VisitRow
  <2> QED
    BY <1>2, <2>1, <2>3 DEF Typed, TypeOK, RereadAndReflect
<1> QED
  BY <1>1, <1>2

LEMMA AppendTyped ==
  ASSUME Typed, LoadForAppend \/ AppendServices \/ RecordAppend
  PROVE  Typed'
<1> DEFINE t == task[Bot]
<1>1. t \in TaskRow /\ t.v \in Visits /\ t.v # 0 /\ visit[t.v] \in VisitRow
  BY RowOf, TaskType DEF Typed, LoadForAppend, AppendServices, RecordAppend
<1>2. CASE LoadForAppend
  <2> DEFINE v == visit[t.v]
             sent == IF altegio THEN v.services ELSE v.services \ t.seen.services
             row == [t EXCEPT !.pc = "append", !.rec = v.rec, !.sent = sent]
  <2>1. sent \in SUBSET Services /\ v.rec \in Records \cup {0}
    BY <1>1 DEF VisitRow
  <2>2. row \in TaskRow /\ row.v = t.v
    <3> HIDE DEF sent
    <3> QED
      BY <1>1, <2>1, PhaseNames DEF TaskRow
  <2>3. task' \in [Actors -> TaskRow] /\ Placed'
    BY <1>1, <1>2, <2>2, Written DEF LoadForAppend
  <2> QED
    BY <1>2, <2>3 DEF Typed, TypeOK, OrdersPlaced, LoadForAppend
<1>3. CASE AppendServices
  <2>1. task' = [task EXCEPT ![Bot].pc = "recordAppend"] \/ task' = Done(Bot)
    BY <1>3 DEF AppendServices
  <2>2. task' \in [Actors -> TaskRow] /\ Placed'
    BY <1>3, <2>1, MovedOn, Stopped DEF AppendServices, Phases, Writing
  <2>3. t.sent \in SUBSET Services
    BY <1>1 DEF TaskRow
  <2>4. [crm EXCEPT ![t.rec].services = IF altegio THEN t.sent ELSE @ \cup t.sent]
          \in [Records -> RecordRow]
    <3> DEFINE k == t.rec
               lines == IF altegio THEN t.sent ELSE crm[k].services \cup t.sent
               row == [crm[k] EXCEPT !.services = lines]
    <3>1. [crm EXCEPT ![k].services = IF altegio THEN t.sent ELSE @ \cup t.sent]
            = [crm EXCEPT ![k] = row]
      OBVIOUS
    <3>2. ASSUME k \in Records PROVE row \in RecordRow
      <4>1. crm[k] \in RecordRow
        BY <3>2 DEF Typed, TypeOK
      <4>2. lines \in SUBSET Services
        BY <2>3, <4>1 DEF RecordRow
      <4> HIDE DEF lines
      <4> QED
        BY <4>1, <4>2 DEF RecordRow
    <3> QED
      BY <3>1, <3>2, RecordEdited DEF Typed
  <2>5. crm' \in [Records -> RecordRow]
    BY <1>3, <2>4 DEF AppendServices, Typed, TypeOK
  <2>6. mishap' \in [Visits -> SUBSET Mishaps]
    BY <1>3, Blamed DEF AppendServices, Typed, TypeOK, Mishaps
  <2>7. left' \in [{"tools", "requests", "faults"} -> Nat]
    BY <1>3, Spent DEF AppendServices, Typed, TypeOK
  <2> QED
    BY <1>3, <2>2, <2>5, <2>6, <2>7 DEF Typed, TypeOK, OrdersPlaced, AppendServices
<1>4. CASE RecordAppend
  <2>1. task' \in [Actors -> TaskRow] /\ Placed'
    BY <1>4, MovedOn DEF RecordAppend, Phases
  <2>2. visit' \in [Visits -> VisitRow]
    BY <1>1, <1>4 DEF RecordAppend, Typed, TypeOK, VisitRow
  <2> QED
    BY <1>4, <2>1, <2>2 DEF Typed, TypeOK, OrdersPlaced, RecordAppend
<1> QED
  BY <1>2, <1>3, <1>4

-----------------------------------------------------------------------------
(* The other tools keep the types.                                         *)

\* The task a tool starts with.
LEMMA BeginTyped ==
  ASSUME Typed, NEW op \in Ops, NEW v \in Visits, NEW row \in VisitRow,
         NEW slot \in Slots \cup {NoSlot}, NEW lines \in SUBSET Services,
         Begin(op, v, row, slot, lines)
  PROVE  task' \in [Actors -> TaskRow] /\ Placed'
<1> DEFINE inCrm == row.rec # 0 /\ writes
           first == IF inCrm THEN IF op = "remove" THEN "crmRemove" ELSE "crmCancel"
                    ELSE IF op # "remove" \/ row.services \ lines = {} THEN "markVisit"
                    ELSE "storeServices"
           old == IF inCrm /\ op = "move" THEN row.rec ELSE 0
           new == [Idle EXCEPT !.pc = first, !.op = op, !.v = v, !.seen = row, !.slot = slot,
                               !.want = lines, !.old = old]
<1>1. first \in Phases
  BY DEF Phases
<1>2. old \in Records \cup {0}
  BY DEF VisitRow
<1>3. v # 0
  BY BoundsAssumption
<1> HIDE DEF first, old
<1>4. new \in TaskRow /\ new.v = v
  BY <1>1, <1>2, RowTypes DEF TaskRow, Idle
<1>5. task' = [task EXCEPT ![Bot] = new]
  BY DEF Begin, first, old
<1> QED
  BY <1>3, <1>4, <1>5, Written

\* The row a tool resolves, local or new from the CRM.
LEMMA ResolveCases ==
  ASSUME TypeOK, NEW op, NEW slot, NEW lines,
         ResolveLocal(op, slot, lines) \/ ResolveInCrm(op, slot, lines)
  PROVE  \/ /\ UNCHANGED visit
            /\ \E v \in Visits : Begin(op, v, visit[v], slot, lines)
         \/ \E k \in Records, v \in FreshVisits :
              LET row == [slot |-> crm[k].slot, services |-> crm[k].services,
                          status |-> "synced", rec |-> k, sync |-> "synced"]
              IN /\ visit' = [visit EXCEPT ![v] = row]
                 /\ Begin(op, v, row, slot, lines)
<1>1. CASE ResolveLocal(op, slot, lines)
  BY <1>1 DEF ResolveLocal
<1>2. CASE ResolveInCrm(op, slot, lines)
  BY <1>2 DEF ResolveInCrm, Upcoming, IsFirst
<1> QED
  BY <1>1, <1>2

\* Adopting a record only adds mishaps.
LEMMA ToolMishaps ==
  ASSUME TypeOK, NEW op, NEW slot, NEW lines, StartTool(op, slot, lines)
  PROVE  /\ mishap' \in [Visits -> SUBSET Mishaps]
         /\ \A v \in Visits : mishap[v] \subseteq mishap'[v]
<1>1. CASE UNCHANGED mishap
  BY <1>1 DEF TypeOK
<1>2. CASE \E v, k : Adopted(v, k)
  BY <1>2 DEF TypeOK, Adopted, Mishaps
<1> QED
  BY <1>1, <1>2 DEF StartTool, ResolveLocal, ResolveInCrm

LEMMA ToolTyped ==
  ASSUME Typed, NEW op \in Ops, NEW slot \in Slots \cup {NoSlot},
         NEW lines \in SUBSET Services, StartTool(op, slot, lines)
  PROVE  Typed'
<1>1. /\ task' \in [Actors -> TaskRow] /\ Placed'
      /\ visit' \in [Visits -> VisitRow]
  <2>1. ResolveLocal(op, slot, lines) \/ ResolveInCrm(op, slot, lines)
    BY DEF StartTool
  <2>2. CASE /\ UNCHANGED visit
             /\ \E v \in Visits : Begin(op, v, visit[v], slot, lines)
    BY <2>2, BeginTyped DEF Typed, TypeOK
  <2>3. ASSUME NEW k \in Records, NEW v \in FreshVisits,
               visit' = [visit EXCEPT ![v] =
                 [slot |-> crm[k].slot, services |-> crm[k].services, status |-> "synced",
                  rec |-> k, sync |-> "synced"]],
               Begin(op, v, [slot |-> crm[k].slot, services |-> crm[k].services,
                             status |-> "synced", rec |-> k, sync |-> "synced"], slot, lines)
        PROVE  /\ task' \in [Actors -> TaskRow] /\ Placed'
               /\ visit' \in [Visits -> VisitRow]
    <3> DEFINE row == [slot |-> crm[k].slot, services |-> crm[k].services,
                       status |-> "synced", rec |-> k, sync |-> "synced"]
    <3>1. row \in VisitRow /\ v \in Visits
      BY DEF Typed, TypeOK, RecordRow, VisitRow, FreshVisits
    <3>2. visit' = [visit EXCEPT ![v] = row] /\ Begin(op, v, row, slot, lines)
      BY <2>3
    <3> HIDE DEF row
    <3>3. visit' \in [Visits -> VisitRow]
      BY <3>1, <3>2, VisitWritten DEF Typed
    <3> QED
      BY <3>1, <3>2, <3>3, BeginTyped
  <2> QED
    BY <2>1, <2>2, <2>3, ResolveCases DEF Typed
<1>2. left' \in [{"tools", "requests", "faults"} -> Nat]
  BY Spent DEF StartTool, Typed
<1>3. mishap' \in [Visits -> SUBSET Mishaps]
  BY ToolMishaps DEF Typed
<1> QED
  BY <1>1, <1>2, <1>3 DEF Typed, TypeOK, OrdersPlaced, StartTool

LEMMA CancelBookingTyped ==
  ASSUME Typed, NEW p \in Actors, CancelBooking(p)
  PROVE  Typed'
<1> DEFINE k == task[p].seen.rec
           gone == [crm EXCEPT ![k].live = FALSE]
<1>1. task' = [task EXCEPT ![p].pc = "markVisit"] \/ task' = Done(p)
  BY DEF CancelBooking
<1>2. task' \in [Actors -> TaskRow] /\ Placed'
  BY <1>1, MovedOn, Stopped DEF CancelBooking, Phases
<1>3. gone \in [Records -> RecordRow]
  <2> DEFINE row == [crm[k] EXCEPT !.live = FALSE]
  <2>1. gone = [crm EXCEPT ![k] = row]
    OBVIOUS
  <2>2. ASSUME k \in Records PROVE row \in RecordRow
    <3>1. crm[k] \in RecordRow
      BY <2>2 DEF Typed, TypeOK
    <3> QED
      BY <3>1 DEF RecordRow
  <2> QED
    BY <2>1, <2>2, RecordEdited DEF Typed
<1>4. crm' \in [Records -> RecordRow]
  BY <1>3 DEF CancelBooking, Typed, TypeOK
<1>5. left' \in [{"tools", "requests", "faults"} -> Nat]
  BY Spent DEF CancelBooking, Typed, TypeOK
<1> QED
  BY <1>2, <1>4, <1>5 DEF Typed, TypeOK, OrdersPlaced, CancelBooking

LEMMA MarkVisitTyped ==
  ASSUME Typed, NEW p \in Actors, MarkVisit(p)
  PROVE  Typed'
<1>1. task' \in [Actors -> TaskRow] /\ Placed'
  BY MovedOn DEF MarkVisit, Phases
<1>0. task[p].v \in Visits /\ visit[task[p].v] \in VisitRow
  BY RowOf DEF MarkVisit
<1>2. visit' \in [Visits -> VisitRow]
  BY <1>0 DEF MarkVisit, Typed, TypeOK, VisitRow
<1>3. mishap' \in [Visits -> SUBSET Mishaps]
  BY Blamed DEF MarkVisit, Typed, Mishaps
<1> QED
  BY <1>1, <1>2, <1>3 DEF Typed, TypeOK, OrdersPlaced, MarkVisit

LEMMA MarkOrdersTyped ==
  ASSUME Typed, NEW p \in Actors, MarkOrders(p)
  PROVE  Typed'
<1> DEFINE t == task[p]
           row == [t EXCEPT !.pc = "find", !.v = 0, !.want = t.seen.services,
                            !.seen = NoVisit]
<1>0. t \in TaskRow
  BY TaskType DEF Typed
<1>5. t.seen.services \in SUBSET Services
  BY <1>0 DEF TaskRow, VisitRow
<1>1. row \in TaskRow /\ row.pc = "find"
  BY <1>0, <1>5, PhaseNames, RowTypes DEF TaskRow
<1>2. task' = [task EXCEPT ![p] = row] \/ task' = Done(p)
  BY DEF MarkOrders
<1>3. task' \in [Actors -> TaskRow] /\ Placed'
  BY <1>1, <1>2, Written, Stopped
<1>4. order' \in [Orders -> OrderRow] /\ OrdersPlaced'
  <2>1. \A o \in Orders : /\ order'[o] \in OrderRow
                          /\ order[o].status # "none" => order'[o].visit # 0
                          /\ order[o].status = "none" /\ order'[o].status # "none" =>
                               order[o].visit = t.v /\ order'[o].visit = t.v
    BY DEF MarkOrders, Typed, TypeOK, OrderRow, OrdersPlaced
  <2>2. t.v # 0
    BY RowOf, BoundsAssumption DEF MarkOrders
  <2>3. order' = [o \in Orders |-> order'[o]]
    BY DEF MarkOrders
  <2> QED
    BY <2>1, <2>2, <2>3 DEF OrdersPlaced
<1> QED
  BY <1>3, <1>4 DEF Typed, TypeOK, MarkOrders

LEMMA RemoveTyped ==
  ASSUME Typed, RemoveService \/ StoreServices
  PROVE  Typed'
<1> DEFINE t == task[Bot]
           k == t.seen.rec
           rest == crm[k].services \ t.want
           thinned == [crm EXCEPT ![k].services = IF rest = {} THEN @ ELSE rest,
                                  ![k].live = IF rest = {} THEN FALSE ELSE @]
<1>1. t \in TaskRow
  BY TaskType DEF Typed
<1>2. CASE RemoveService
  <2>1. \/ task' = [task EXCEPT ![Bot].pc = "markVisit"]
        \/ task' = [task EXCEPT ![Bot].pc = "storeServices"]
        \/ task' = Done(Bot)
    BY <1>2 DEF RemoveService
  <2>2. task' \in [Actors -> TaskRow] /\ Placed'
    BY <1>2, <2>1, MovedOn, Stopped DEF RemoveService, Phases
  <2>3. thinned \in [Records -> RecordRow]
    <3> DEFINE lines == IF rest = {} THEN crm[k].services ELSE rest
               live == IF rest = {} THEN FALSE ELSE crm[k].live
    <3>1. CASE k \in Records
      <4>1. lines \in SUBSET Services /\ live \in BOOLEAN /\ crm[k] \in RecordRow
        BY <3>1 DEF Typed, TypeOK, RecordRow
      <4>2. thinned = [crm EXCEPT ![k] = [crm[k] EXCEPT !.services = lines, !.live = live]]
        BY <3>1, <4>1 DEF Typed, TypeOK, RecordRow
      <4> HIDE DEF lines, live
      <4>3. [crm[k] EXCEPT !.services = lines, !.live = live] \in RecordRow
        BY <4>1 DEF RecordRow
      <4> QED
        BY <4>2, <4>3 DEF Typed, TypeOK
    <3>2. CASE k \notin Records
      BY <3>2 DEF Typed, TypeOK
    <3> QED
      BY <3>1, <3>2
  <2>4. crm' = thinned \/ UNCHANGED crm
    BY <1>2 DEF RemoveService
  <2>5. crm' \in [Records -> RecordRow]
    BY <2>3, <2>4 DEF Typed, TypeOK
  <2>6. mishap' \in [Visits -> SUBSET Mishaps]
    BY <1>2, Blamed DEF RemoveService, Typed, TypeOK, Mishaps
  <2>7. left' \in [{"tools", "requests", "faults"} -> Nat]
    BY <1>2, Spent DEF RemoveService, Typed, TypeOK
  <2> QED
    BY <1>2, <2>2, <2>5, <2>6, <2>7 DEF Typed, TypeOK, OrdersPlaced, RemoveService
<1>3. CASE StoreServices
  <2>1. task' \in [Actors -> TaskRow] /\ Placed'
    BY <1>3, Stopped DEF StoreServices
  <2>2. t.seen.services \ t.want \in SUBSET Services
    BY <1>1 DEF TaskRow, VisitRow
  <2>3. visit' \in [Visits -> VisitRow]
    <3> DEFINE lines == t.seen.services \ t.want
    <3>1. visit' = [visit EXCEPT ![t.v].services = lines] /\ t.v \in Visits
      BY <1>3, RowOf DEF StoreServices
    <3>2. lines \in SUBSET Services
      BY <2>2
    <3> HIDE DEF lines
    <3> QED
      BY <3>1, <3>2, LinesWritten DEF Typed
  <2> QED
    BY <1>3, <2>1, <2>3 DEF Typed, TypeOK, OrdersPlaced, StoreServices
<1> QED
  BY <1>2, <1>3

-----------------------------------------------------------------------------
(* The admin API and the world keep the types.                             *)

\* The task a request starts with.
Asks(m, o, row) ==
  /\ task[m].pc = "idle"
  /\ Live(o)
  /\ visit[order[o].visit].status # "cancelled"
  /\ task' = [task EXCEPT ![m] = row]
  /\ row.pc \in {"reread", "load", "crmCancel", "markVisit", "assign"}
  /\ row.op \in {"retry", "adminCancel", "assign"}
  /\ row.pc = "crmCancel" => visit[order[o].visit].rec # 0
  /\ row.v = order[o].visit
  /\ row.seen = visit[row.v]
  /\ row.rec = visit[row.v].rec
  /\ row.old = 0
  /\ left' = [left EXCEPT !["requests"] = @ - 1]
  /\ left["requests"] > 0
  /\ UNCHANGED <<altegio, writes, visit, order, crm, hooks, told, mishap>>

LEMMA RequestCases ==
  ASSUME Typed, NEW m \in Managers, NEW o \in Orders,
         Retry(m, o) \/ AdminCancel(m, o) \/ AssignMasters(m, o)
  PROVE  \E row \in TaskRow : Asks(m, o, row)
<1> DEFINE v == order[o].visit
           row(op, first) == [Idle EXCEPT !.pc = first, !.op = op, !.v = v,
                                          !.seen = visit[v], !.rec = visit[v].rec]
<1>1. Live(o) /\ v \in Visits /\ visit[v] \in VisitRow
  BY DEF Retry, AdminCancel, AssignMasters, Request, Live, Typed, TypeOK, OrdersPlaced, OrderRow
<1>3. \E op \in {"retry", "adminCancel", "assign"},
         first \in {"reread", "load", "crmCancel", "markVisit", "assign"} :
        /\ StartRequest(m, op, o, first)
        /\ first = "crmCancel" => visit[v].rec # 0
  <2>1. CASE Retry(m, o)
    BY <2>1 DEF Retry
  <2>2. CASE AdminCancel(m, o)
    BY <2>2 DEF AdminCancel
  <2>3. CASE AssignMasters(m, o)
    BY <2>3 DEF AssignMasters
  <2> QED
    BY <2>1, <2>2, <2>3
<1>4. PICK op \in {"retry", "adminCancel", "assign"},
           first \in {"reread", "load", "crmCancel", "markVisit", "assign"} :
        /\ StartRequest(m, op, o, first)
        /\ first = "crmCancel" => visit[v].rec # 0
  BY <1>3
<1>5. op \in Ops /\ first \in Phases
  BY DEF Ops, Phases, Writing
<1>6. Request(m, o)
  BY DEF Retry, AdminCancel, AssignMasters
<1>7. /\ task' = [task EXCEPT ![m] = row(op, first)]
      /\ visit[v].status # "cancelled"
      /\ UNCHANGED <<altegio, writes, visit, order, crm, hooks, told, mishap>>
  BY <1>4 DEF StartRequest
<1> DEFINE new == row(op, first)
<1>8. /\ new \in TaskRow
      /\ new.pc = first /\ new.op = op /\ new.v = v
      /\ new.seen = visit[v] /\ new.rec = visit[v].rec /\ new.old = 0
  BY <1>1, <1>5, RowTypes DEF Idle, TaskRow, VisitRow
<1>9. task' = [task EXCEPT ![m] = new]
  BY <1>7
<1> HIDE DEF new
<1> QED
  BY <1>1, <1>4, <1>6, <1>7, <1>8, <1>9 DEF Asks, Request, Spend

LEMMA RequestTyped ==
  ASSUME Typed, NEW m \in Managers, NEW o \in Orders,
         Retry(m, o) \/ AdminCancel(m, o) \/ AssignMasters(m, o)
  PROVE  Typed'
<1>1. PICK row \in TaskRow : Asks(m, o, row)
  BY RequestCases
<1>2. row.v # 0
  BY <1>1 DEF Asks, Live, Typed, OrdersPlaced
<1>3. task' \in [Actors -> TaskRow] /\ Placed'
  BY <1>1, <1>2, Written DEF Asks
<1>4. left' \in [{"tools", "requests", "faults"} -> Nat]
  BY <1>1, Spent DEF Asks, Spend, Typed
<1> QED
  BY <1>1, <1>3, <1>4 DEF Typed, TypeOK, OrdersPlaced, Asks

LEMMA StoreMastersTyped ==
  ASSUME Typed, NEW m \in Managers, StoreMasters(m)
  PROVE  Typed'
<1>1. task' \in [Actors -> TaskRow] /\ Placed'
  BY Stopped DEF StoreMasters
<1>2. task[m].seen.services \in SUBSET Services
  BY TaskType DEF Typed, TaskRow, VisitRow
<1>3. visit' \in [Visits -> VisitRow]
  <2>1. PICK lines \in SUBSET Services : visit' = [visit EXCEPT ![task[m].v].services = lines]
    BY <1>2 DEF StoreMasters
  <2>2. task[m].v \in Visits
    BY RowOf DEF StoreMasters
  <2> QED
    BY <2>1, <2>2, LinesWritten DEF Typed
<1>4. mishap' \in [Visits -> SUBSET Mishaps]
  BY Blamed DEF StoreMasters, Typed, Mishaps
<1> QED
  BY <1>1, <1>3, <1>4 DEF Typed, TypeOK, OrdersPlaced, StoreMasters

LEMMA WorldTyped ==
  ASSUME Typed, World
  PROVE  Typed'
<1>1. left' \in [{"tools", "requests", "faults"} -> Nat]
  BY Spent DEF World, SalonCancels, SalonMoves, ApplyHook, SetWrites, Crash, Typed, TypeOK
<1>2. ASSUME NEW k \in Records, NEW slot \in Slots, SalonMoves(k, slot)
      PROVE  Typed'
  <2>1. crm' \in [Records -> RecordRow]
    BY <1>2 DEF SalonMoves, Typed, TypeOK, RecordRow
  <2>2. hooks' \in SUBSET Hook
    BY <1>2 DEF SalonMoves, Notify, Hook, Typed, TypeOK
  <2> QED
    BY <1>1, <1>2, <2>1, <2>2 DEF SalonMoves, Typed, TypeOK, Placed, OrdersPlaced
<1>3. ASSUME NEW k \in Records, SalonCancels(k)
      PROVE  Typed'
  <2>1. crm' \in [Records -> RecordRow]
    <3> DEFINE row == [crm[k] EXCEPT !.live = FALSE]
    <3>0. crm[k] \in RecordRow
      BY DEF Typed, TypeOK
    <3>1. row \in RecordRow
      BY <3>0 DEF RecordRow
    <3>2. crm' = [crm EXCEPT ![k] = row]
      BY <1>3 DEF SalonCancels
    <3> QED
      BY <3>1, <3>2, RecordEdited DEF Typed
  <2>2. hooks' \in SUBSET Hook
    BY <1>3 DEF SalonCancels, Notify, Hook, Typed, TypeOK
  <2> QED
    BY <1>1, <1>3, <2>1, <2>2 DEF SalonCancels, Typed, TypeOK, Placed, OrdersPlaced
<1>4. ASSUME NEW h \in hooks, ApplyHook(h)
      PROVE  Typed'
  <2>1. h \in Hook
    BY DEF Typed, TypeOK
  <2>2. ASSUME NEW v \in Visits
        PROVE  visit'[v] \in VisitRow /\ mishap'[v] \in SUBSET Mishaps
    <3>1. \/ visit'[v] = visit[v]
          \/ visit'[v] = [visit[v] EXCEPT !.status = "cancelled", !.sync = "synced"]
          \/ visit'[v] = [visit[v] EXCEPT !.slot = h.slot, !.sync = "synced"]
      BY <1>4 DEF ApplyHook
    <3>2. visit[v] \in VisitRow /\ h.slot \in Slots \cup {NoSlot}
      BY <2>1 DEF Typed, TypeOK, Hook
    <3>3. visit'[v] \in VisitRow
      BY <3>1, <3>2 DEF VisitRow
    <3>4. mishap'[v] \subseteq mishap[v] \cup {"torn", "crossed"}
      BY <1>4 DEF ApplyHook
    <3> QED
      BY <3>3, <3>4 DEF Typed, TypeOK, Mishaps
  <2>3. visit' = [v \in Visits |-> visit'[v]] /\ mishap' = [v \in Visits |-> mishap'[v]]
    BY <1>4 DEF ApplyHook
  <2>4. visit' \in [Visits -> VisitRow] /\ mishap' \in [Visits -> SUBSET Mishaps]
    BY <2>2, <2>3
  <2> QED
    BY <1>1, <1>4, <2>4 DEF ApplyHook, Typed, TypeOK, Placed, OrdersPlaced
<1>5. CASE SetWrites
  BY <1>1, <1>5 DEF SetWrites, Typed, TypeOK, Placed, OrdersPlaced
<1>6. CASE Crash
  <2>1. task' \in [Actors -> TaskRow] /\ Placed'
    BY <1>6, RowTypes DEF Crash, Placed, Idle
  <2>2. crm' \in [Records -> RecordRow]
    <3>1. \A k \in Records : crm'[k] = crm[k] \/ crm'[k] = [crm[k] EXCEPT !.heard = FALSE]
      BY <1>6 DEF Crash
    <3>2. ASSUME NEW k \in Records
          PROVE  crm'[k] \in RecordRow
      <4>1. crm[k] \in RecordRow
        BY DEF Typed, TypeOK
      <4>2. [crm[k] EXCEPT !.heard = FALSE] \in RecordRow
        BY <4>1 DEF RecordRow
      <4> QED
        BY <3>1, <4>1, <4>2
    <3>3. crm' = [k \in Records |-> crm'[k]]
      BY <1>6 DEF Crash
    <3> QED
      BY <3>2, <3>3
  <2>3. mishap' \in [Visits -> SUBSET Mishaps]
    BY <1>6 DEF Crash, Typed, TypeOK, Mishaps
  <2> QED
    BY <1>1, <1>6, <2>1, <2>2, <2>3 DEF Crash, Typed, TypeOK, OrdersPlaced
<1> QED
  BY <1>2, <1>3, <1>4, <1>5, <1>6 DEF World

LEMMA NextTyped ==
  ASSUME Typed, Next
  PROVE  Typed'
<1>1. CASE BotStep
  <2>1. CASE \E slot \in Slots, s \in Services : Book(slot, s)
    BY <2>1, BookTyped
  <2>2. CASE CancelTool
    BY <2>2, ToolTyped DEF CancelTool, Ops
  <2>3. ASSUME NEW slot \in Slots, MoveTool(slot)
        PROVE  Typed'
    BY <2>3, ToolTyped DEF MoveTool, Ops
  <2>4. ASSUME NEW s \in Services, RemoveTool(s)
        PROVE  Typed'
    BY <2>4, ToolTyped DEF RemoveTool, Ops
  <2> QED
    BY <1>1, <2>1, <2>2, <2>3, <2>4, RefuseTyped, FindTyped, MergeTyped, CreateVisitTyped,
       FindOrderTyped, MirrorOrderTyped, GateTyped, MirrorOffTyped, AppendTyped, RereadTyped, RemoveTyped
       DEF BotStep
<1>2. ASSUME NEW m \in Managers, ManagerStep(m)
      PROVE  Typed'
  BY <1>2, RequestTyped, LinkTyped, StoreMastersTyped, RereadTyped DEF ManagerStep
<1>3. ASSUME NEW p \in Actors, SharedStep(p)
      PROVE  Typed'
  BY <1>3, MirrorKnownTyped, MirrorNewTyped, CreateBookingTyped, RecordBookingTyped,
     ReflectTyped, CancelBookingTyped, MarkVisitTyped, MarkOrdersTyped DEF SharedStep, Mirror
<1> QED
  BY <1>1, <1>2, <1>3, WorldTyped DEF Next

\* Rows, orders, records, tasks and confirmations keep their types, for any number of each:
\* in particular a tool or a request that writes a row has one.
THEOREM TypeCorrect == Spec => []TypeOK
<1>1. Typed /\ UNCHANGED vars => Typed'
  BY DEF Typed, TypeOK, Placed, OrdersPlaced, vars
<1>2. Typed /\ [Next]_vars => Typed'
  BY <1>1, NextTyped
<1>3. Typed => TypeOK
  BY DEF Typed
<1> QED
  BY InitTyped, <1>2, <1>3, PTL DEF Spec

-----------------------------------------------------------------------------
(* A cancelled visit stays cancelled.                                      *)

\* p is between its read of visit v and the write that follows.
At(p, v) == task[p].v = v /\ task[p].pc \in Writing

\* Whoever is about to write a visit that was cancelled is on record for it.
Crossings ==
  \A p \in Actors, v \in Visits :
    At(p, v) /\ visit[v].status = "cancelled" => "crossed" \in mishap[v]

\* What no step does: forget a mishap, reopen a visit nobody was writing, or leave someone
\* before its write of a visit that was just cancelled, unrecorded.
Careful ==
  \A v \in Visits :
    /\ mishap[v] \subseteq mishap'[v]
    /\ visit[v].status = "cancelled" /\ visit'[v].status # "cancelled" =>
         \E p \in Actors : At(p, v)
    /\ \A p \in Actors :
         At(p, v)' /\ visit'[v].status = "cancelled" =>
           "crossed" \in mishap'[v] \/ (At(p, v) /\ visit[v].status = "cancelled")

LEMMA CarefulKeeps ==
  ASSUME Crossings, Careful
  PROVE  Crossings'
BY DEF Crossings, Careful

\* A step that changes no visit and no mishap.
LEMMA TaskOnly ==
  ASSUME Typed, NEW p \in Actors, NEW row, task' = [task EXCEPT ![p] = row],
         UNCHANGED <<visit, mishap>>,
         row.pc \in Writing /\ row.v \in Visits =>
           At(p, row.v) \/ visit[row.v].status # "cancelled"
  PROVE  Careful
BY DEF Typed, TypeOK, Careful, At

\* A step of p on its visit that leaves the status alone.
LEMMA SameStatus ==
  ASSUME Typed, NEW p \in Actors, NEW row, task' = [task EXCEPT ![p] = row],
         row.pc \in Writing => At(p, row.v),
         \A v \in Visits : visit'[v].status = visit[v].status /\ mishap[v] \subseteq mishap'[v]
  PROVE  Careful
BY DEF Typed, TypeOK, Careful, At

LEMMA PcOnly ==
  ASSUME Typed, NEW p \in Actors, NEW q, task' = [task EXCEPT ![p].pc = q],
         UNCHANGED <<visit, mishap>>, q \in Writing => task[p].pc \in Writing
  PROVE  Careful
<1> DEFINE row == [task[p] EXCEPT !.pc = q]
<1>1. row.pc = q /\ row.v = task[p].v
  BY TaskType DEF Typed, TaskRow
<1>2. task' = [task EXCEPT ![p] = row]
  OBVIOUS
<1> HIDE DEF row
<1> QED
  BY <1>1, <1>2, TaskOnly DEF At

LEMMA BookingCareful ==
  ASSUME Typed,
         \/ \E slot \in Slots, s \in Services : Book(slot, s)
         \/ RefuseBook \/ FindVisit \/ MergeVisit \/ CreateVisit \/ FindOrder \/ MirrorOrder
         \/ GateClosed \/ GateOpen \/ MirrorOff
  PROVE  Careful
<1> DEFINE t == task[Bot]
<1>1. ASSUME NEW slot \in Slots, NEW s \in Services, Book(slot, s)
      PROVE  Careful
  <2> DEFINE row == [Idle EXCEPT !.pc = "find", !.op = "book", !.slot = slot, !.want = {s}]
  <2>1. row.pc = "find"
    BY DEF Idle
  <2>2. task' = [task EXCEPT ![Bot] = row]
    BY <1>1 DEF Book
  <2>3. UNCHANGED <<visit, mishap>>
    BY <1>1 DEF Book
  <2> HIDE DEF row
  <2> QED
    BY <2>1, <2>2, <2>3, TaskOnly DEF Writing
<1>2. CASE RefuseBook
  BY <1>2, TaskOnly DEF RefuseBook, Writing, Idle
<1>3. CASE FindVisit
  <2>1. CASE \E v \in Visits :
               /\ IsLast(v, MergeTargets(t.slot))
               /\ task' = [task EXCEPT ![Bot] = [t EXCEPT !.pc = "store", !.v = v,
                                                          !.seen = visit[v]]]
    <3>1. PICK v \in Visits :
            /\ IsLast(v, MergeTargets(t.slot))
            /\ task' = [task EXCEPT ![Bot] = [t EXCEPT !.pc = "store", !.v = v,
                                                       !.seen = visit[v]]]
      BY <2>1
    <3>2. visit[v].status # "cancelled"
      BY <3>1 DEF IsLast, MergeTargets
    <3> DEFINE row == [t EXCEPT !.pc = "store", !.v = v, !.seen = visit[v]]
    <3>3. row.v = v /\ UNCHANGED <<visit, mishap>> /\ task' = [task EXCEPT ![Bot] = row]
      BY <1>3, <3>1, TaskType DEF FindVisit, Typed, TaskRow
    <3> HIDE DEF row
    <3> QED
      BY <3>2, <3>3, TaskOnly
  <2>2. CASE task' = [task EXCEPT ![Bot] = [t EXCEPT !.pc = "store", !.v = 0,
                                                     !.seen = NoVisit]]
    <3> DEFINE row == [t EXCEPT !.pc = "store", !.v = 0, !.seen = NoVisit]
    <3>0. t \in TaskRow
      BY TaskType DEF Typed
    <3>3. row.v = 0 /\ UNCHANGED <<visit, mishap>>
      BY <1>3, <3>0 DEF FindVisit, TaskRow
    <3>1. row.v \notin Visits /\ UNCHANGED <<visit, mishap>>
      BY <3>3, BoundsAssumption
    <3>2. task' = [task EXCEPT ![Bot] = row]
      BY <2>2
    <3> HIDE DEF row
    <3> QED
      BY <3>1, <3>2, TaskOnly
  <2> QED
    BY <1>3, <2>1, <2>2 DEF FindVisit
<1>4. CASE MergeVisit
  <2>1. PICK row : /\ task' = [task EXCEPT ![Bot] = row]
                   /\ row.v = t.v
                   /\ row.pc \in Writing
    <3> DEFINE new == [t EXCEPT !.pc = "order", !.adds = (t.want \ t.seen.services # {}),
                                !.want = t.seen.services \cup t.want]
    <3>1. t \in TaskRow
      BY TaskType DEF Typed
    <3>2. new.v = t.v /\ new.pc = "order"
      BY <3>1 DEF TaskRow
    <3>3. task' = [task EXCEPT ![Bot] = new]
      BY <1>4 DEF MergeVisit
    <3> HIDE DEF new
    <3> QED
      BY <3>2, <3>3 DEF Writing
  <2>2. \A v \in Visits : visit'[v].status = visit[v].status /\ mishap[v] \subseteq mishap'[v]
    BY <1>4 DEF MergeVisit, Blame, Typed, TypeOK, VisitRow
  <2>3. At(Bot, t.v)
    BY <1>4 DEF MergeVisit, At, Writing
  <2> QED
    BY <2>1, <2>2, <2>3, SameStatus
<1>5. CASE CreateVisit
  <2>1. PICK v \in Visits :
          /\ IsFirst(v, FreshVisits)
          /\ visit' = [visit EXCEPT ![v] = [slot |-> t.slot, services |-> t.want,
                                            status |-> "confirmed", rec |-> 0,
                                            sync |-> "pending"]]
          /\ task' = [task EXCEPT ![Bot] = [t EXCEPT !.pc = "order", !.v = v, !.adds = TRUE]]
    BY <1>5 DEF CreateVisit
  <2>2. visit[v].status = "none" /\ visit'[v].status = "confirmed" /\ task'[Bot].v = v
    BY <2>1, TaskType DEF IsFirst, FreshVisits, Typed, TypeOK, TaskRow
  <2>3. \A w \in Visits \ {v} : visit'[w] = visit[w]
    BY <2>1 DEF Typed, TypeOK
  <2>4. \A p \in Actors \ {Bot} : task'[p] = task[p]
    BY <2>1 DEF Typed, TypeOK
  <2>5. UNCHANGED mishap
    BY <1>5 DEF CreateVisit
  <2> QED
    BY <2>2, <2>3, <2>4, <2>5 DEF Careful, At
<1>6. CASE FindOrder \/ MirrorOrder
  <2>1. At(Bot, t.v)
    BY <1>6 DEF FindOrder, MirrorOrder, At, Writing
  <2>2. t \in TaskRow
    BY TaskType DEF Typed
  <2>3. PICK row : task' = [task EXCEPT ![Bot] = row] /\ row.v = t.v
    <3>1. CASE FindOrder
      <4>1. PICK q \in {"writeOrder", "gate"}, i \in Orders \cup {0} :
              task' = [task EXCEPT ![Bot] = [t EXCEPT !.pc = q, !.ord = i]]
        BY <3>1, FindOrderCases
      <4>2. [t EXCEPT !.pc = q, !.ord = i].v = t.v
        BY <2>2 DEF TaskRow
      <4> QED
        BY <4>1, <4>2
    <3>2. CASE MirrorOrder
      <4>1. task' = [task EXCEPT ![Bot] = [t EXCEPT !.pc = "gate"]]
        BY <3>2 DEF MirrorOrder
      <4>2. [t EXCEPT !.pc = "gate"].v = t.v
        BY <2>2 DEF TaskRow
      <4> QED
        BY <4>1, <4>2
    <3> QED
      BY <1>6, <3>1, <3>2
  <2>4. UNCHANGED visit /\ \A v \in Visits : mishap[v] \subseteq mishap'[v]
    <3>1. UNCHANGED visit /\ (UNCHANGED mishap \/ \E what : Blame(t.v, what))
      BY <1>6 DEF FindOrder, MirrorOrder
    <3> QED
      BY <3>1 DEF Blame, Typed, TypeOK
  <2> QED
    BY <2>1, <2>3, <2>4, SameStatus
<1>7. CASE GateClosed
  <2>1. \A v \in Visits : visit'[v].status = visit[v].status /\ mishap[v] \subseteq mishap'[v]
    BY <1>7 DEF GateClosed, Blame, Typed, TypeOK, VisitRow
  <2> QED
    BY <1>7, <2>1, SameStatus DEF GateClosed, Idle, Writing
<1>8. CASE GateOpen
  BY <1>8, TaskOnly, TaskType DEF GateOpen, At, Writing, Idle, Typed, TaskRow
<1>9. CASE MirrorOff
  BY <1>9, PcOnly DEF MirrorOff, Writing
<1> QED
  BY <1>1, <1>2, <1>3, <1>4, <1>5, <1>6, <1>7, <1>8, <1>9

LEMMA MirrorCareful ==
  ASSUME Typed, NEW p \in Actors, Mirror(p)
  PROVE  Careful
<1> DEFINE t == task[p]
<1>0. t \in TaskRow
  BY TaskType DEF Typed
<1>1. CASE MirrorKnown(p)
  <2>1. \A v \in Visits : visit'[v].status = visit[v].status /\ mishap'[v] = mishap[v]
    BY <1>1 DEF MirrorKnown, Typed, TypeOK, VisitRow
  <2> DEFINE row == [t EXCEPT !.pc = "reflect", !.rec = visit[t.v].rec]
  <2>2. row.pc = "reflect" /\ task' = [task EXCEPT ![p] = row]
    BY <1>0, <1>1 DEF MirrorKnown, TaskRow
  <2> HIDE DEF row
  <2> QED
    BY <2>1, <2>2, SameStatus DEF Writing
<1>2. CASE MirrorNew(p)
  <2>1. \A v \in Visits : visit'[v].status = visit[v].status /\ mishap[v] \subseteq mishap'[v]
    BY <1>2 DEF MirrorNew, Blame, Typed, TypeOK
  <2> DEFINE row == [t EXCEPT !.pc = "create", !.sent = visit[t.v].services]
  <2>2. row.v = t.v /\ task' = [task EXCEPT ![p] = row]
    BY <1>0, <1>2 DEF MirrorNew, TaskRow
  <2>3. At(p, t.v)
    BY <1>2 DEF MirrorNew, At, Writing
  <2> HIDE DEF row
  <2> QED
    BY <2>1, <2>2, <2>3, SameStatus
<1>3. CASE CreateBooking(p)
  <2>1. PICK k \in Records \cup {0}, heard \in BOOLEAN : Made(p, k, heard)
    BY <1>3, CreateBookingCases
  <2> DEFINE rec == IF heard THEN k ELSE 0
             row == [t EXCEPT !.pc = "record", !.rec = rec]
  <2>2. row.v = t.v
    BY <1>0 DEF TaskRow
  <2>3. task' = [task EXCEPT ![p] = row]
    BY <2>1 DEF Made
  <2>4. At(p, t.v) /\ UNCHANGED <<visit, mishap>>
    BY <1>3 DEF CreateBooking, At, Writing
  <2> HIDE DEF row
  <2>5. \A v \in Visits : visit'[v].status = visit[v].status /\ mishap[v] \subseteq mishap'[v]
    BY <2>4
  <2> QED
    BY <2>2, <2>3, <2>4, <2>5, SameStatus
<1>4. CASE RecordBooking(p)
  <2>1. At(p, t.v)
    BY <1>4 DEF RecordBooking, At, Writing
  <2>2. \A v \in Visits : /\ v # t.v => visit'[v] = visit[v]
                          /\ mishap[v] \subseteq mishap'[v]
    BY <1>4 DEF RecordBooking, Blame, Typed, TypeOK
  <2>3. ASSUME t.v \in Visits
        PROVE  visit'[t.v].status # "cancelled"
    <3> DEFINE result == IF t.rec # 0 THEN "synced" ELSE "failed"
    <3>1. visit \in [Visits -> VisitRow]
      BY DEF Typed, TypeOK
    <3>2. visit' = [visit EXCEPT ![t.v].status = result, ![t.v].sync = result,
                                 ![t.v].rec = IF t.rec # 0 THEN t.rec ELSE @]
      BY <1>4 DEF RecordBooking
    <3>3. visit'[t.v].status = result
      BY <2>3, <3>1, <3>2 DEF VisitRow
    <3> QED
      BY <3>3
  <2> DEFINE row == [t EXCEPT !.pc = "reflect"]
  <2>4. row.pc = "reflect"
    BY <1>0 DEF TaskRow
  <2>5. task' = [task EXCEPT ![p] = row]
    BY <1>4 DEF RecordBooking
  <2> HIDE DEF row
  <2>6. task'[p].pc = "reflect" /\ \A q \in Actors \ {p} : task'[q] = task[q]
    BY <2>4, <2>5 DEF Typed, TypeOK
  <2> QED
    BY <2>1, <2>2, <2>3, <2>6 DEF Careful, At, Writing
<1>5. CASE Reflect(p)
  <2>1. task' = [task EXCEPT ![p].pc = "reread"] \/ task' = Done(p)
    BY <1>5 DEF Reflect
  <2>2. UNCHANGED <<visit, mishap>>
    BY <1>5 DEF Reflect
  <2> QED
    BY <2>1, <2>2, PcOnly, TaskOnly DEF Done, Idle, Writing
<1> QED
  BY <1>1, <1>2, <1>3, <1>4, <1>5 DEF Mirror

LEMMA AppendCareful ==
  ASSUME Typed, LoadForAppend \/ AppendServices \/ RecordAppend \/ RereadAndConfirm
  PROVE  Careful
<1> DEFINE t == task[Bot]
<1>0. t \in TaskRow
  BY TaskType DEF Typed
<1>1. CASE LoadForAppend
  <2> DEFINE sent == IF altegio THEN visit[t.v].services
                     ELSE visit[t.v].services \ t.seen.services
             row == [t EXCEPT !.pc = "append", !.rec = visit[t.v].rec, !.sent = sent]
  <2>1. row.v = t.v
    BY <1>0 DEF TaskRow
  <2>2. task' = [task EXCEPT ![Bot] = row] /\ UNCHANGED <<visit, mishap>>
    BY <1>1 DEF LoadForAppend
  <2>3. At(Bot, t.v)
    BY <1>1 DEF LoadForAppend, At, Writing
  <2> HIDE DEF row
  <2> QED
    BY <2>1, <2>2, <2>3, SameStatus
<1>2. CASE AppendServices
  <2>1. \A v \in Visits : mishap[v] \subseteq mishap'[v]
    BY <1>2 DEF AppendServices, Blame, Typed, TypeOK
  <2>2. UNCHANGED visit
    BY <1>2 DEF AppendServices
  <2>3. task' = [task EXCEPT ![Bot].pc = "recordAppend"] \/ task' = Done(Bot)
    BY <1>2 DEF AppendServices
  <2>4. At(Bot, t.v)
    BY <1>2 DEF AppendServices, At, Writing
  <2>5. PICK row : /\ task' = [task EXCEPT ![Bot] = row]
                   /\ row.pc \in Writing => row.v = t.v
    <3> DEFINE next == [t EXCEPT !.pc = "recordAppend"]
    <3>1. next.v = t.v
      BY <1>0 DEF TaskRow
    <3>0. Idle.pc \notin Writing
      BY DEF Idle, Writing
    <3>2. CASE task' = Done(Bot)
      BY <3>0, <3>2 DEF Done
    <3>3. CASE task' = [task EXCEPT ![Bot] = next]
      BY <3>1, <3>3
    <3> QED
      BY <2>3, <3>2, <3>3
  <2> QED
    BY <2>1, <2>2, <2>4, <2>5, SameStatus
<1>3. CASE RecordAppend
  <2>1. At(Bot, t.v)
    BY <1>3 DEF RecordAppend, At, Writing
  <2>2. \A v \in Visits : v # t.v => visit'[v] = visit[v]
    BY <1>3 DEF RecordAppend, Typed, TypeOK
  <2>3. UNCHANGED mishap
    BY <1>3 DEF RecordAppend
  <2>4. t.v \in Visits => visit'[t.v].status # "cancelled"
    BY <1>3 DEF RecordAppend, Typed, TypeOK, VisitRow
  <2>5. task'[Bot].pc = "reflect" /\ \A q \in Actors \ {Bot} : task'[q] = task[q]
    BY <1>0, <1>3 DEF RecordAppend, Typed, TypeOK, TaskRow
  <2> QED
    BY <2>1, <2>2, <2>3, <2>4, <2>5 DEF Careful, At, Writing
<1>4. CASE RereadAndConfirm
  BY <1>4, TaskOnly DEF RereadAndConfirm, Done, Idle, Writing
<1> QED
  BY <1>1, <1>2, <1>3, <1>4

LEMMA ToolCareful ==
  ASSUME Typed, NEW op, NEW slot, NEW lines, StartTool(op, slot, lines)
  PROVE  Careful
<1>1. ASSUME NEW v, NEW row, Begin(op, v, row, slot, lines)
      PROVE  task'[Bot].pc \notin Writing /\ \A q \in Actors \ {Bot} : task'[q] = task[q]
  BY <1>1 DEF Begin, Typed, TypeOK, Writing, Idle
<1>2. ResolveLocal(op, slot, lines) \/ ResolveInCrm(op, slot, lines)
  BY DEF StartTool
<1>3. \A v \in Visits : mishap[v] \subseteq mishap'[v]
  BY ToolMishaps DEF Typed
<1>4. /\ task'[Bot].pc \notin Writing /\ \A q \in Actors \ {Bot} : task'[q] = task[q]
      /\ \A v \in Visits : visit'[v] # visit[v] =>
           visit[v].status = "none" /\ visit'[v].status = "synced"
  <2>1. CASE /\ UNCHANGED visit
             /\ \E v \in Visits : Begin(op, v, visit[v], slot, lines)
    BY <1>1, <2>1
  <2>2. ASSUME NEW k \in Records, NEW v \in FreshVisits, NEW row,
               row.status = "synced",
               visit' = [visit EXCEPT ![v] = row], Begin(op, v, row, slot, lines)
        PROVE  /\ task'[Bot].pc \notin Writing /\ \A q \in Actors \ {Bot} : task'[q] = task[q]
               /\ \A w \in Visits : visit'[w] # visit[w] =>
                    visit[w].status = "none" /\ visit'[w].status = "synced"
    BY <1>1, <2>2 DEF Typed, TypeOK, FreshVisits
  <2>3. ASSUME NEW k \in Records, NEW v \in FreshVisits,
               LET row == [slot |-> crm[k].slot, services |-> crm[k].services,
                           status |-> "synced", rec |-> k, sync |-> "synced"]
               IN visit' = [visit EXCEPT ![v] = row] /\ Begin(op, v, row, slot, lines)
        PROVE  /\ task'[Bot].pc \notin Writing /\ \A q \in Actors \ {Bot} : task'[q] = task[q]
               /\ \A w \in Visits : visit'[w] # visit[w] =>
                    visit[w].status = "none" /\ visit'[w].status = "synced"
    BY <2>2, <2>3
  <2> QED
    BY <1>2, <2>1, <2>3, ResolveCases DEF Typed
<1> QED
  BY <1>3, <1>4 DEF Careful, At

LEMMA CancelCareful ==
  ASSUME Typed, NEW p \in Actors, CancelBooking(p) \/ MarkVisit(p) \/ MarkOrders(p)
  PROVE  Careful
<1> DEFINE t == task[p]
<1>0. t \in TaskRow
  BY TaskType DEF Typed
<1>1. CASE CancelBooking(p)
  <2>1. task' = [task EXCEPT ![p].pc = "markVisit"] \/ task' = Done(p)
    BY <1>1 DEF CancelBooking
  <2>2. UNCHANGED <<visit, mishap>>
    BY <1>1 DEF CancelBooking
  <2> QED
    BY <2>1, <2>2, PcOnly, TaskOnly DEF Done, Idle, Writing
<1>2. CASE MarkVisit(p)
  <2>1. task'[p].pc = "markOrders" /\ \A q \in Actors \ {p} : task'[q] = task[q]
    BY <1>0, <1>2 DEF MarkVisit, Typed, TypeOK, TaskRow
  <2>2. \A v \in Visits : /\ v # t.v => visit'[v] = visit[v]
                          /\ mishap[v] \subseteq mishap'[v]
    BY <1>2 DEF MarkVisit, Blame, Typed, TypeOK
  <2>3. t.v \in Visits => visit'[t.v].status = "cancelled"
    BY <1>2 DEF MarkVisit, Typed, TypeOK, VisitRow
  <2>5. \A q \in Actors, v \in Visits : At(q, v)' => q # p /\ At(q, v)
    BY <2>1 DEF At, Writing
  <2>4. ASSUME NEW q \in Actors, NEW v \in Visits, v = t.v, At(q, v)'
        PROVE  "crossed" \in mishap'[v]
    <3>2. Contended(p, v)
      BY <2>4, <2>5 DEF Contended, At
    <3> QED
      BY <1>2, <2>4, <3>2 DEF MarkVisit, Blame, Typed, TypeOK
  <2>6. ASSUME NEW v \in Visits
        PROVE  /\ mishap[v] \subseteq mishap'[v]
               /\ visit[v].status = "cancelled" => visit'[v].status = "cancelled"
               /\ \A q \in Actors :
                    At(q, v)' /\ visit'[v].status = "cancelled" =>
                      "crossed" \in mishap'[v] \/ (At(q, v) /\ visit[v].status = "cancelled")
    <3>1. CASE v = t.v
      <4>1. mishap[v] \subseteq mishap'[v] /\ visit'[v].status = "cancelled"
        BY <2>2, <2>3, <3>1
      <4>2. ASSUME NEW q \in Actors, At(q, v)'
            PROVE  "crossed" \in mishap'[v]
        BY <2>4, <3>1, <4>2
      <4> QED
        BY <4>1, <4>2 DEF At
    <3>2. CASE v # t.v
      BY <2>2, <2>5, <3>2
    <3> QED
      BY <3>1, <3>2
  <2> QED
    BY <2>6 DEF Careful
<1>3. CASE MarkOrders(p)
  <2> DEFINE row == [t EXCEPT !.pc = "find", !.v = 0, !.want = t.seen.services,
                              !.seen = NoVisit]
  <2>1. row.pc = "find"
    BY <1>0 DEF TaskRow
  <2>2. task' = [task EXCEPT ![p] = row] \/ task' = Done(p)
    BY <1>3 DEF MarkOrders
  <2>3. UNCHANGED <<visit, mishap>>
    BY <1>3 DEF MarkOrders
  <2> HIDE DEF row
  <2> QED
    BY <2>1, <2>2, <2>3, TaskOnly DEF Done, Idle, Writing
<1> QED
  BY <1>1, <1>2, <1>3

LEMMA RemoveCareful ==
  ASSUME Typed, RemoveService \/ StoreServices
  PROVE  Careful
<1>1. \A v \in Visits : visit'[v].status = visit[v].status /\ mishap[v] \subseteq mishap'[v]
  <2>1. CASE RemoveService
    <3>1. UNCHANGED visit
      BY <2>1 DEF RemoveService
    <3>2. UNCHANGED mishap \/ Blame(task[Bot].v, {"short"})
      BY <2>1 DEF RemoveService
    <3>3. \A v \in Visits : mishap[v] \subseteq mishap'[v]
      BY <3>2 DEF Blame, Typed, TypeOK
    <3> QED
      BY <3>1, <3>3
  <2>2. CASE StoreServices
    <3>1. UNCHANGED mishap
      BY <2>2 DEF StoreServices
    <3>2. PICK lines : visit' = [visit EXCEPT ![task[Bot].v].services = lines]
      BY <2>2 DEF StoreServices
    <3> QED
      BY <3>1, <3>2 DEF Typed, TypeOK, VisitRow
  <2> QED
    BY <2>1, <2>2
<1>2. \/ task' = [task EXCEPT ![Bot].pc = "markVisit"]
      \/ task' = [task EXCEPT ![Bot].pc = "storeServices"]
      \/ task' = Done(Bot)
  BY DEF RemoveService, StoreServices
<1>3. task'[Bot].pc \notin Writing /\ \A q \in Actors \ {Bot} : task'[q] = task[q]
  BY <1>2, TaskType DEF Typed, TypeOK, TaskRow, Done, Idle, Writing
<1> QED
  BY <1>1, <1>3 DEF Careful, At

LEMMA ManagerCareful ==
  ASSUME Typed, NEW m \in Managers, ManagerStep(m)
  PROVE  Careful
<1>1. ASSUME NEW o \in Orders, Retry(m, o) \/ AdminCancel(m, o) \/ AssignMasters(m, o)
      PROVE  Careful
  <2>1. PICK row \in TaskRow : Asks(m, o, row)
    BY <1>1, RequestCases
  <2> QED
    BY <2>1, TaskOnly DEF Asks
<1>2. CASE StoreMasters(m)
  <2>1. \A v \in Visits : visit'[v].status = visit[v].status /\ mishap[v] \subseteq mishap'[v]
    BY <1>2 DEF StoreMasters, Blame, Typed, TypeOK, VisitRow
  <2> QED
    BY <1>2, <2>1, SameStatus DEF StoreMasters, Done, Idle, Writing
<1>3. CASE RereadAndReflect(m)
  BY <1>3, TaskOnly DEF RereadAndReflect, Done, Idle, Writing
<1>4. CASE LinkSameDay(m)
  <2>1. PICK k \in Records : Linked(m, k)
    BY <1>4, LinkCases
  <2> DEFINE row == [task[m] EXCEPT !.pc = "record", !.rec = k]
  <2>2. row.v = task[m].v /\ task' = [task EXCEPT ![m] = row]
    BY <2>1, TaskType DEF Linked, Typed, TaskRow
  <2>3. At(m, task[m].v)
    BY <2>1 DEF Linked, At, Writing
  <2>4. \A v \in Visits : visit'[v].status = visit[v].status /\ mishap[v] \subseteq mishap'[v]
    BY <2>1 DEF Linked
  <2> HIDE DEF row
  <2> QED
    BY <2>2, <2>3, <2>4, SameStatus
<1> QED
  BY <1>1, <1>2, <1>3, <1>4 DEF ManagerStep

LEMMA WorldCareful ==
  ASSUME Typed, World
  PROVE  Careful
<1>1. CASE \/ \E k \in Records : SalonCancels(k) \/ \E slot \in Slots : SalonMoves(k, slot)
           \/ SetWrites
  BY <1>1 DEF SalonCancels, SalonMoves, SetWrites, Careful, At
<1>2. ASSUME NEW h \in hooks, ApplyHook(h)
      PROVE  Careful
  <2>1. ASSUME NEW v \in Visits
        PROVE  /\ mishap[v] \subseteq mishap'[v]
               /\ visit[v].status = "cancelled" => visit'[v] = visit[v]
               /\ visit'[v].status = "cancelled" /\ visit[v].status # "cancelled" =>
                    \A p \in Actors : At(p, v) => "crossed" \in mishap'[v]
    <3>1. CASE visit'[v] = visit[v] /\ mishap[v] \subseteq mishap'[v]
      BY <3>1
    <3>2. CASE /\ visit[v].status # "cancelled" /\ mishap[v] \subseteq mishap'[v]
               /\ visit'[v].status # visit[v].status =>
                    \A p \in Actors : At(p, v) => "crossed" \in mishap'[v]
      BY <3>2
    <3>3. mishap[v] \subseteq mishap'[v]
      BY <1>2 DEF ApplyHook
    <3>4. visit[v] \in VisitRow
      BY DEF Typed, TypeOK
    <3>5. CASE visit[v].rec = h.rec /\ visit[v].status # "cancelled"
      <4>1. CASE h.kind = "cancel_record"
        <5>1. \A p \in Actors : At(p, v) => "crossed" \in mishap'[v]
          BY <1>2, <3>5, <4>1 DEF ApplyHook, At
        <5> QED
          BY <3>2, <3>3, <3>5, <5>1
      <4>2. CASE h.kind # "cancel_record"
        <5>1. visit'[v] = [visit[v] EXCEPT !.slot = h.slot, !.sync = "synced"]
          BY <1>2, <3>5, <4>2 DEF ApplyHook
        <5>2. visit'[v].status = visit[v].status
          BY <3>4, <5>1 DEF VisitRow
        <5> QED
          BY <3>2, <3>3, <3>5, <5>2
      <4> QED
        BY <4>1, <4>2
    <3>6. CASE ~(visit[v].rec = h.rec /\ visit[v].status # "cancelled")
      <4>1. visit'[v] = visit[v]
        BY <1>2, <3>6 DEF ApplyHook
      <4> QED
        BY <3>1, <3>3, <4>1
    <3> QED
      BY <3>5, <3>6
  <2>2. task' = task
    BY <1>2 DEF ApplyHook
  <2>3. ASSUME NEW v \in Visits, NEW p \in Actors, At(p, v)', visit'[v].status = "cancelled"
        PROVE  "crossed" \in mishap'[v] \/ (At(p, v) /\ visit[v].status = "cancelled")
    <3>1. At(p, v)
      BY <2>2, <2>3 DEF At
    <3> QED
      BY <2>1, <2>3, <3>1
  <2> QED
    BY <2>1, <2>3 DEF Careful
<1>3. CASE Crash
  <2>1. \A p \in Actors : task'[p].pc = "idle"
    BY <1>3 DEF Crash, Idle
  <2>2. UNCHANGED visit /\ \A v \in Visits : mishap[v] \subseteq mishap'[v]
    BY <1>3 DEF Crash
  <2> QED
    BY <2>1, <2>2 DEF Careful, At, Writing
<1> QED
  BY <1>1, <1>2, <1>3 DEF World

LEMMA NextCareful ==
  ASSUME Typed, [Next]_vars
  PROVE  Careful
<1>1. CASE BotStep
  BY <1>1, BookingCareful, AppendCareful, ToolCareful, RemoveCareful
     DEF BotStep, CancelTool, MoveTool, RemoveTool
<1>2. CASE \E p \in Actors : SharedStep(p)
  BY <1>2, MirrorCareful, CancelCareful DEF SharedStep
<1>3. CASE UNCHANGED vars
  BY <1>3 DEF vars, Careful, At
<1> QED
  BY <1>1, <1>2, <1>3, ManagerCareful, WorldCareful DEF Next

\* A cancelled visit stays cancelled unless the cancellation came between another actor's
\* read and write of its row: no booking, retry, callback of the CRM or merge revives it,
\* for any number of managers, visits and records.
THEOREM CancelTheorem == Spec => CancelIsFinal
<1>1. Init => Crossings
  BY DEF Init, Crossings, At, Idle, Writing
<1>2. Typed /\ Crossings /\ [Next]_vars => Crossings'
  BY NextCareful, CarefulKeeps
<1>3. Typed /\ [Next]_vars => Typed'
  BY NextTyped DEF Typed, TypeOK, Placed, OrdersPlaced, vars
<1>4. ASSUME Typed, Crossings, [Next]_vars, NEW v \in Visits,
             visit[v].status = "cancelled", "crossed" \notin mishap[v]
      PROVE  visit'[v].status = "cancelled"
  BY <1>4, NextCareful DEF Careful, Crossings
<1>5. Typed /\ Crossings /\ [Next]_vars =>
        [\A v \in Visits :
           visit[v].status = "cancelled" /\ "crossed" \notin mishap[v]
           => visit'[v].status = "cancelled"]_vars
  BY <1>4
<1> QED
  BY InitTyped, <1>1, <1>2, <1>3, <1>5, PTL DEF Spec, CancelIsFinal
=============================================================================
