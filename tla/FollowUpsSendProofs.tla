------------------------ MODULE FollowUpsSendProofs -------------------------
(***************************************************************************)
(* Proofs about FollowUps, continued: what becomes of the platform's own   *)
(* sends when Instagram echoes them, for any number of sends, parts,       *)
(* echoes, manager actions and faults.                                     *)
(*                                                                         *)
(* A send has one owner, the task it was begun by, until its row is        *)
(* stored; an echo of it that comes in between is early.  Once the owner   *)
(* lets go, the row knows the id of every part an echo can name, or its    *)
(* first id was given to a row of another send by an echo of like text, or *)
(* the send is loose; so a later echo is known, but for the later parts of *)
(* a row that is misfiled or no longer among the recent ones.              *)
(***************************************************************************)
EXTENDS FollowUpsProofs, FiniteSetTheorems, FunctionTheorems

Echoed(mid) == \E e \in echoes : e.mid = mid

\* The row of send n is stored and knows every part of it that may be echoed, or the first id
\* of n is with a row of another send.
Finished(n) ==
  \E r \in thread :
    /\ r.id = <<n, 1>> /\ ~Native(r)
    /\ \/ r.send # n
       \/ /\ r.by # "client" /\ r.by # "system" /\ <<n, 1>> \in r.extra
          /\ \A i \in {1, 2} : Echoed(<<n, i>>) => <<n, i>> \in r.extra

\* An echo that may be taken for a manager's message.
Excused(mid) ==
  \/ mid[1] = 0 \/ mid \in early \/ mid[1] \in loose \/ mid = Copy(mid[1])
  \/ mid # <<mid[1], 1>> /\ (Misfiled(mid[1]) \/ Forgotten(mid))

OneRowPerId == \A q, r \in thread : q.id = r.id /\ q.id # NoMid => q = r

ManagerRows == \A r \in thread : r.by = "manager" => r.id # NoMid

LooseRows == \A r \in thread : r.by = "bot" /\ r.id = NoMid => r.send \in loose

ExtraRows == \A r \in thread : r.extra # {} => r.id # NoMid

\* An id is with a row of another send only if an echo of like text gave it to a loose one.
MisfiledRows ==
  \A r \in thread : r.id # NoMid /\ r.send # r.id[1] =>
    r.send \in loose /\ <<r.id, r.send>> \in Like

NativeRows == \A r \in thread : Native(r) => r.send = r.id[1] /\ Excused(r.id)

\* What can be said of the rows.
RowsInv ==
  /\ IsFiniteSet(thread)
  /\ OneRowPerId /\ ManagerRows /\ LooseRows /\ ExtraRows /\ MisfiledRows /\ NativeRows

\* What Instagram may echo: no send that has not begun.
EchoesOfSends ==
  \A e \in echoes : e.mid = Typed \/ \E n \in 1..sent, i \in {1, 2, 3} : e.mid = <<n, i>>

RowsOfSends == \A r \in thread : r.send \in 0..sent

OnItsWay == {"handoff", "send", "persist"}

\* No more than the first k parts of send n may be echoed, and it has no row but an echo's.
Within(n, k) ==
  \/ n \in loose
  \/ /\ \A i \in {1, 2} : Echoed(<<n, i>>) => i <= k
     /\ \A r \in thread : r.send = n => Native(r)

Settled(n) == n \in loose \/ Finished(n)

\* What a task holds of its send.
Owns(t) ==
  /\ t.send <= sent
  /\ t.pc \in OnItsWay \cup {"settle"} <=> t.send # 0
  /\ t.got \/ t.send \in loose
  /\ t.pc = "persist" => t.parts # 0 \/ ~t.got
  /\ t.pc \in OnItsWay => Within(t.send, t.parts)
  /\ t.pc = "settle" => Settled(t.send)

\* No send has two owners.
Apiece == \A p, q \in Tasks : p # q /\ task[p].send = task[q].send => task[p].send = 0

Busy == {task[p].send : p \in Tasks}

AllStored == \A n \in 1..sent : n \in Busy \/ Settled(n)

\* What can be said of the sends.
SendsInv ==
  /\ EchoesOfSends /\ RowsOfSends
  /\ \A p \in Tasks : \A t \in {task[p]} : Owns(t)
  /\ task["reply"].got
  /\ Apiece /\ AllStored

EchoInv == echo.pc = "create" => /\ echo.mid # NoMid /\ echo.mid[1] \in 0..sent
                                 /\ Excused(echo.mid)

OwnInv == TypeInv /\ RowsInv /\ SendsInv /\ EchoInv

-----------------------------------------------------------------------------
(* What most steps do                                                      *)

LEMMA SentType ==
  ASSUME TypeInv
  PROVE  sent \in Nat
  BY Constants DEF TypeInv, TypeOK

LEMMA TaskFacts ==
  ASSUME TypeInv, NEW p \in Tasks
  PROVE  /\ task[p] \in TaskRow /\ Fits(task[p]) /\ sent \in Nat
         /\ task[p].send \in Nat /\ task[p].parts \in 0..2 /\ task[p].got \in BOOLEAN
  BY Constants DEF TypeInv, TypeOK, Locals, TaskRow

\* What was lost stays lost.
Grows == loose \subseteq loose' /\ early \subseteq early' /\ sent \in Nat /\ sent' \in Nat
         /\ sent <= sent'

\* A row with an id that no echo wrote stays, and an outbound row keeps its date.
RowsStay ==
  /\ IsFiniteSet(thread')
  /\ \A r \in thread : r.id # NoMid /\ ~Native(r) => r \in thread'
  /\ \A r \in Outbound : \E q \in Outbound' : q.at = r.at

\* New rows are a client's or the system's.
PlainRows ==
  /\ IsFiniteSet(thread) => IsFiniteSet(thread')
  /\ thread \subseteq thread'
  /\ \A r \in thread' :
       r \in thread \/ (r.id = NoMid /\ r.by \in {"client", "system"} /\ r.extra = {} /\ r.send = 0)

\* No row changes.
LEMMA SameRows ==
  ASSUME thread' = thread
  PROVE  PlainRows /\ (IsFiniteSet(thread) => RowsStay)
  BY DEF PlainRows, RowsStay, Outbound

LEMMA PlainRowsStay ==
  ASSUME RowsInv, PlainRows
  PROVE  RowsStay
  BY DEF RowsInv, PlainRows, RowsStay, Outbound

\* The dates of the rows after a given one are a finite set.
LEMMA NewerFinite ==
  ASSUME NEW S, IsFiniteSet(S), NEW a
  PROVE  LET Q == {q \in S : q.by \in {"bot", "manager"} /\ q.at > a}
         IN  IsFiniteSet({q.at : q \in Q})
<1> DEFINE Q == {q \in S : q.by \in {"bot", "manager"} /\ q.at > a}
           T == {q.at : q \in Q}
           f == [q \in Q |-> q.at]
<1>1. IsFiniteSet(Q)
  <2>1. Q \in SUBSET S
    OBVIOUS
  <2> HIDE DEF Q
  <2> QED
    BY <2>1, FS_Subset
<1>2. f \in [Q -> T] /\ \A t \in T : \E q \in Q : f[q] = t
  OBVIOUS
<1>3. f \in Surjection(Q, T)
  <2> HIDE DEF f, Q, T
  <2> QED
    BY <1>2, Fun_IsSurj
<1>4. IsFiniteSet(T)
  <2> HIDE DEF f, Q, T
  <2> QED
    BY <1>1, <1>3, FS_Surjection
<1> QED
  BY <1>4

\* A row that is misfiled, or no longer recent, stays so.
LEMMA LostStays ==
  ASSUME RowsInv, RowsStay
  PROVE  /\ \A n : Misfiled(n) => Misfiled(n)'
         /\ \A mid : Forgotten(mid) => Forgotten(mid)'
<1>1. ASSUME NEW n, Misfiled(n)
      PROVE  Misfiled(n)'
  <2>1. PICK r \in thread : r.id = <<n, 1>> /\ r.send # n
    BY <1>1 DEF Misfiled
  <2>2. r.id # NoMid /\ ~Native(r)
    BY <2>1 DEF NoMid, RowsInv, NativeRows
  <2>3. r \in thread'
    BY <2>2 DEF RowsStay
  <2> QED
    BY <2>1, <2>3 DEF Misfiled
<1>2. ASSUME NEW mid, Forgotten(mid)
      PROVE  Forgotten(mid)'
  <2>1. PICK r \in Outbound \ Recent : mid \in r.extra /\ r.id # mid
    BY <1>2 DEF Forgotten
  <2>2. r \in thread /\ r.id # NoMid /\ ~Native(r) /\ r.by \in {"bot", "manager"}
    BY <2>1 DEF Outbound, RowsInv, ExtraRows, Native
  <2>3. r \in Outbound'
    BY <2>2 DEF RowsStay, Outbound
  <2> DEFINE S == {q.at : q \in {q \in Outbound : q.at > r.at}}
             T == {q.at : q \in {q \in Outbound' : q.at > r.at}}
  <2>4. S \subseteq T
    BY DEF RowsStay
  <2>5. IsFiniteSet(T)
    <3>1. T = {q.at : q \in {q \in thread' : q.by \in {"bot", "manager"} /\ q.at > r.at}}
      BY DEF Outbound
    <3>2. IsFiniteSet(thread')
      BY DEF RowsStay
    <3> HIDE DEF T
    <3> QED
      BY <3>1, <3>2, NewerFinite
  <2>6. IsFiniteSet(S) /\ Cardinality(S) <= Cardinality(T)
        /\ Cardinality(S) \in Nat /\ Cardinality(T) \in Nat
    <3> HIDE DEF S, T
    <3> QED
      BY <2>4, <2>5, FS_Subset, FS_CardinalityType
  <2>7. Cardinality(S) >= MaxRecent
    <3>1. Newer(r) = S
      BY DEF Newer
    <3>2. ~(Cardinality(S) < MaxRecent)
      BY <2>1, <3>1 DEF Recent
    <3> HIDE DEF S
    <3> QED
      BY <2>6, <3>2, BoundsAssumption
  <2>8. r \notin Recent'
    <3>1. Newer(r)' = T
      BY DEF Newer
    <3> HIDE DEF S, T
    <3>2. ~(Cardinality(T) < MaxRecent)
      BY <2>6, <2>7, BoundsAssumption
    <3> QED
      BY <3>1, <3>2 DEF Recent
  <2> QED
    BY <2>1, <2>3, <2>8 DEF Forgotten
<1> QED
  BY <1>1, <1>2

LEMMA ExcusedStays ==
  ASSUME RowsInv, RowsStay, Grows, NEW mid, Excused(mid)
  PROVE  Excused(mid)'
  BY LostStays DEF Excused, Grows, Copy

\* The claims about rows hold of the rows that stay, and of those that are new.
LEMMA RowsKept ==
  ASSUME RowsInv, RowsStay, Grows, OneRowPerId',
         \A r \in thread' :
           r \in thread \/ /\ r.by = "manager" => r.id # NoMid
                           /\ r.by = "bot" /\ r.id = NoMid => r.send \in loose'
                           /\ r.extra # {} => r.id # NoMid
                           /\ r.id # NoMid /\ r.send # r.id[1] =>
                                r.send \in loose' /\ <<r.id, r.send>> \in Like
                           /\ Native(r) => r.send = r.id[1] /\ Excused(r.id)'
  PROVE  RowsInv'
<1>1. ManagerRows'
  <2>1. \A r \in thread' : r.by = "manager" => r.id # NoMid
    BY DEF RowsInv, ManagerRows
  <2> QED
    BY <2>1 DEF ManagerRows, NoMid
<1>2. LooseRows'
  <2>1. \A r \in thread' : r.by = "bot" /\ r.id = NoMid => r.send \in loose'
    BY DEF RowsInv, LooseRows, Grows
  <2> QED
    BY <2>1 DEF LooseRows, NoMid
<1>3. ExtraRows'
  <2>1. \A r \in thread' : r.extra # {} => r.id # NoMid
    BY DEF RowsInv, ExtraRows
  <2> QED
    BY <2>1 DEF ExtraRows, NoMid
<1>4. MisfiledRows'
  <2>1. \A r \in thread' : r.id # NoMid /\ r.send # r.id[1] =>
          r.send \in loose' /\ <<r.id, r.send>> \in Like
    BY DEF RowsInv, MisfiledRows, Grows
  <2> QED
    BY <2>1 DEF MisfiledRows, NoMid
<1>5. NativeRows'
  <2>1. ASSUME NEW r \in thread', Native(r)
        PROVE  r.send = r.id[1] /\ Excused(r.id)'
    <3>1. CASE r \in thread
      <4>1. r.send = r.id[1] /\ Excused(r.id)
        BY <2>1, <3>1 DEF RowsInv, NativeRows
      <4>2. PICK mid : mid = r.id
        OBVIOUS
      <4>3. Excused(mid)'
        BY <4>1, <4>2, ExcusedStays
      <4> QED
        BY <4>1, <4>2, <4>3
    <3> QED
      BY <2>1, <3>1
  <2> QED
    BY <2>1 DEF NativeRows, Native
<1> QED
  BY <1>1, <1>2, <1>3, <1>4, <1>5 DEF RowsInv, RowsStay

LEMMA PlainRowsKeep ==
  ASSUME RowsInv, Grows, PlainRows
  PROVE  RowsInv'
<1>1. RowsStay
  BY PlainRowsStay
<1>2. OneRowPerId'
  <2>1. \A q, r \in thread' : q.id = r.id /\ q.id # NoMid => q = r
    BY DEF RowsInv, OneRowPerId, PlainRows
  <2> QED
    BY <2>1 DEF OneRowPerId, NoMid
<1>3. \A r \in thread' :
        r \in thread \/ (/\ r.id = NoMid /\ r.by # "manager" /\ r.by # "bot"
                         /\ r.extra = {} /\ ~Native(r))
  BY DEF PlainRows, Native
<1> QED
  BY <1>1, <1>2, <1>3, RowsKept

LEMMA EchoKept ==
  ASSUME EchoInv, RowsInv, RowsStay, Grows, TypeInv, echo' = echo \/ echo'.pc # "create"
  PROVE  EchoInv'
<1>1. CASE echo'.pc # "create"
  BY <1>1 DEF EchoInv
<1>2. CASE echo' = echo /\ echo.pc = "create"
  <2>1. PICK mid : mid = echo.mid
    OBVIOUS
  <2>2. mid # NoMid /\ mid[1] \in 0..sent /\ Excused(mid)
    BY <1>2, <2>1 DEF EchoInv
  <2>3. Excused(mid)' /\ mid[1] \in 0..(sent')
    BY <2>2, ExcusedStays DEF Grows
  <2>4. echo'.mid = mid
    BY <1>2, <2>1
  <2> QED
    BY <2>2, <2>3, <2>4 DEF EchoInv, Excused, NoMid, Copy
<1> QED
  BY <1>1, <1>2

\* A stored row stays as it is when no further part of its send can be echoed.
LEMMA FinishedKept ==
  ASSUME NEW n, Finished(n), \A r \in thread : r.id = <<n, 1>> /\ ~Native(r) => r \in thread',
         \A i \in {1, 2} : Echoed(<<n, i>>)' => Echoed(<<n, i>>)
  PROVE  Finished(n)'
  BY DEF Finished, Native

\* A task without a send.
Clean(t) == t.send = 0 /\ t.got /\ t.pc \notin OnItsWay \cup {"settle"}

\* A task lets go of its send only when it is stored or lost.
Lets(p) ==
  /\ Clean(task'[p])
  /\ task[p].send = 0 \/ task[p].send \in loose' \/ task[p].pc = "settle"

\* The turn goes on with the parts it has.
GoesOn(p) ==
  /\ p = "turn"
  /\ task'[p].send = task[p].send /\ task'[p].parts = task[p].parts
  /\ task[p].pc \in OnItsWay /\ task'[p].pc \in {"send", "persist"}
  /\ task'[p].got \/ task'[p].send \in loose'
  /\ task'[p].pc = "persist" => ~task'[p].got

\* What new rows there may be of sends other than x.
NewRows(x) ==
  \A r \in thread' :
    r \in thread \/ /\ r.send \in 0..(sent')
                    /\ r.send \in {0, x} \/ r.send \in loose' \/ Native(r)

\* A step that begins no send, sends no part and stores none.
Quiet ==
  /\ sent' = sent /\ loose \subseteq loose'
  /\ RowsStay /\ NewRows(0)
  /\ \A e \in echoes' : \/ e \in echoes
                        \/ e.mid = Typed
                        \/ \E n \in 1..sent : e.mid = Copy(n)
                        \/ \E n \in 1..sent, i \in {1, 2} : n \in loose' /\ e.mid = <<n, i>>
  /\ \A p \in Tasks : task'[p] = task[p] \/ Lets(p) \/ GoesOn(p)

\* The sends but x that were settled, or within their parts, still are.
Steady(x) ==
  /\ \A n \in (1..sent) \ {x} : Settled(n) => Settled(n)'
  /\ \A n \in (1..sent) \ {x}, k \in 0..2 : Within(n, k) => Within(n, k)'

LEMMA SteadyBy ==
  ASSUME NEW x, loose \subseteq loose', RowsStay, NewRows(x),
         \A n \in (1..sent) \ {x}, i \in {1, 2} :
           n \in loose' \/ (Echoed(<<n, i>>)' => Echoed(<<n, i>>))
  PROVE  Steady(x)
<1>1. ASSUME NEW n \in (1..sent) \ {x}, Settled(n)
      PROVE  Settled(n)'
  <2>1. \A r \in thread : r.id = <<n, 1>> /\ ~Native(r) => r \in thread'
    BY <1>1 DEF NoMid, RowsStay
  <2> QED
    BY <1>1, <2>1, FinishedKept DEF Settled
<1>2. ASSUME NEW n \in (1..sent) \ {x}, NEW k \in 0..2, Within(n, k)
      PROVE  Within(n, k)'
  <2>1. CASE n \in loose'
    BY <2>1 DEF Within
  <2>2. CASE n \notin loose'
    <3>1. /\ \A i \in {1, 2} : Echoed(<<n, i>>)' => i <= k
          /\ \A r \in thread : r.send = n => Native(r)
      BY <1>2, <2>2 DEF Within
    <3>2. \A r \in thread' : r.send = n => Native(r)
      BY <1>2, <2>2, <3>1 DEF NewRows
    <3> QED
      BY <3>1, <3>2 DEF Within, Native, Echoed
  <2> QED
    BY <2>1, <2>2
<1> QED
  BY <1>1, <1>2 DEF Steady

LEMMA QuietSteady ==
  ASSUME Quiet
  PROVE  Steady(0)
<1>1. ASSUME NEW n \in (1..sent) \ {0}, n \notin loose', NEW i \in {1, 2}, Echoed(<<n, i>>)'
      PROVE  Echoed(<<n, i>>)
  BY <1>1 DEF Quiet, Echoed, Typed, Copy
<1> QED
  BY <1>1, SteadyBy DEF Quiet

LEMMA OwnsKept ==
  ASSUME NEW x, NEW t \in TaskRow, Owns(t), t.send # x \/ t.send = 0, Steady(x),
         sent \in Nat, sent' \in Nat, sent <= sent', loose \subseteq loose'
  PROVE  Owns(t)'
<1>1. t.send \in Nat /\ t.parts \in 0..2
  BY Constants DEF TaskRow
<1>2. t.send # 0 => t.send \in (1..sent) \ {x}
  BY <1>1 DEF Owns
<1>3. t.pc \in OnItsWay => Within(t.send, t.parts)'
  BY <1>1, <1>2 DEF Owns, Steady
<1>4. t.pc = "settle" => Settled(t.send)'
  BY <1>1, <1>2 DEF Owns, Steady, OnItsWay
<1>5. t.send <= sent'
  BY <1>1 DEF Owns
<1> QED
  BY <1>1, <1>2, <1>3, <1>4, <1>5 DEF Owns

LEMMA RowsOfSendsKept ==
  ASSUME RowsOfSends, NEW x, NewRows(x), sent \in Nat, sent' \in Nat, sent <= sent'
  PROVE  RowsOfSends'
<1>1. \A r \in thread' : r.send \in 0..(sent')
  BY DEF RowsOfSends, NewRows
<1> QED
  BY <1>1 DEF RowsOfSends

LEMMA QuietKeeps ==
  ASSUME OwnInv, TypeInv', Quiet
  PROVE  SendsInv'
<1>0. /\ TypeInv /\ SendsInv /\ sent \in Nat /\ sent' = sent /\ loose \subseteq loose'
      /\ Steady(0)
  BY QuietSteady, SentType DEF OwnInv, Quiet
<1>1. EchoesOfSends'
  BY <1>0 DEF SendsInv, EchoesOfSends, Quiet, Typed, Copy
<1>2. ASSUME NEW p \in Tasks, NEW t \in {task'[p]}
      PROVE  Owns(t)'
  <2>0. PICK u \in TaskRow : u = task[p] /\ Owns(u)
    BY <1>0, TaskFacts DEF SendsInv
  <2>1. Owns(u)'
    BY <1>0, <2>0, OwnsKept
  <2>2. CASE t = u
    BY <2>1, <2>2
  <2>3. CASE Lets(p)
    BY <1>0, <1>2, <2>3 DEF Lets, Clean, Owns, OnItsWay
  <2>4. CASE GoesOn(p)
    <3>1. t.send = u.send /\ t.parts = u.parts /\ t.send # 0
      BY <1>2, <2>0, <2>4 DEF GoesOn, Owns
    <3>2. Within(u.send, u.parts)'
      BY <2>0, <2>1, <2>4 DEF GoesOn, Owns
    <3>3. Within(t.send, t.parts)'
      BY <3>1, <3>2
    <3> QED
      BY <1>2, <2>0, <2>1, <2>4, <3>1, <3>3 DEF GoesOn, Owns, OnItsWay
  <2> QED
    BY <1>2, <2>0, <2>2, <2>3, <2>4 DEF Quiet
<1>3. \A p \in Tasks : task'[p].send \in {task[p].send, 0}
  BY DEF Quiet, Lets, Clean, GoesOn
<1>4. RowsOfSends' /\ task'["reply"].got
  <2>1. "reply" \in Tasks /\ task["reply"].got
    BY <1>0 DEF SendsInv, Tasks
  <2>2. task'["reply"].got
    BY <2>1 DEF Quiet, Lets, Clean, GoesOn
  <2> QED
    BY <1>0, <2>2, RowsOfSendsKept DEF SendsInv, Quiet
<1>5. Apiece'
  BY <1>0, <1>3 DEF SendsInv, Apiece
<1>6. AllStored'
  <2>1. ASSUME NEW n \in 1..sent
        PROVE  n \in Busy' \/ Settled(n)'
    <3>1. CASE Settled(n)
      BY <1>0, <3>1 DEF Steady
    <3>2. ASSUME NEW p \in Tasks, n = task[p].send
          PROVE  n \in Busy' \/ Settled(n)'
      <4>1. CASE task'[p].send = n
        BY <4>1 DEF Busy
      <4>2. CASE task'[p].send # n
        <5>1. n \in loose' \/ task[p].pc = "settle"
          BY <3>2, <4>2 DEF Quiet, Lets, GoesOn
        <5>2. PICK u \in TaskRow : u = task[p] /\ Owns(u)
          BY <1>0, TaskFacts DEF SendsInv
        <5>3. task[p].pc = "settle" => Settled(n)
          BY <3>2, <5>2 DEF Owns
        <5> QED
          BY <1>0, <5>1, <5>3 DEF Steady, Settled
      <4> QED
        BY <4>1, <4>2
    <3> QED
      BY <1>0, <2>1, <3>1, <3>2 DEF SendsInv, AllStored, Busy
  <2> QED
    BY <1>0, <2>1 DEF AllStored
<1> QED
  BY <1>1, <1>2, <1>4, <1>5, <1>6 DEF SendsInv

\* One task moves on with its send x: it keeps it, begins one, or lets go of a settled one.
LEMMA OneMoves ==
  ASSUME OwnInv, TypeInv', NEW p \in Tasks, NEW x, x = task[p].send, Steady(x), NewRows(x),
         \A q \in Tasks \ {p} : task'[q] = task[q],
         sent <= sent', loose \subseteq loose', EchoesOfSends',
         \A t \in {task'[p]} : Owns(t)',
         p = "reply" => task'[p].got,
         \/ task'[p].send = x /\ sent' = sent
         \/ task'[p].send = 0 /\ Settled(x)' /\ sent' = sent
         \/ task'[p].send = sent' /\ sent' = sent + 1 /\ x = 0
  PROVE  SendsInv'
<1>0. TypeInv /\ SendsInv /\ sent \in Nat /\ sent' \in Nat /\ x \in Nat
  BY SentType, TaskFacts DEF OwnInv
<1>1. ASSUME NEW q \in Tasks, NEW t \in {task'[q]}
      PROVE  Owns(t)'
  <2>1. CASE q # p
    <3>1. PICK u \in TaskRow : u = task[q] /\ Owns(u)
      BY <1>0, TaskFacts DEF SendsInv
    <3>2. u.send # x \/ u.send = 0
      BY <1>0, <2>1, <3>1 DEF SendsInv, Apiece
    <3>3. Owns(u)'
      BY <1>0, <3>1, <3>2, OwnsKept
    <3>4. t = u
      BY <1>1, <2>1, <3>1
    <3> QED
      BY <3>3, <3>4
  <2>2. CASE q = p
    BY <1>1, <2>2
  <2> QED
    BY <2>1, <2>2
<1>2. RowsOfSends' /\ task'["reply"].got
  <2>1. "reply" \in Tasks /\ task["reply"].got
    BY <1>0 DEF SendsInv, Tasks
  <2>2. task'["reply"].got
    BY <2>1
  <2> QED
    BY <1>0, <2>2, RowsOfSendsKept DEF SendsInv
<1>3. Apiece'
  <2>1. \A q \in Tasks : task[q].send <= sent
    BY <1>0 DEF SendsInv, Owns
  <2>2. \A q \in Tasks : task[q].send \in Nat
    BY <1>0, TaskFacts
  <2>3. ASSUME NEW q \in Tasks, NEW r \in Tasks, q # r, task'[q].send = task'[r].send
        PROVE  task'[q].send = 0
    <3>1. task[q].send = task[r].send => task[q].send = 0
      BY <1>0, <2>3 DEF SendsInv, Apiece
    <3>2. CASE q # p /\ r # p
      BY <2>3, <3>1, <3>2
    <3>3. CASE q = p
      BY <1>0, <2>1, <2>2, <2>3, <3>1, <3>3
    <3>4. CASE r = p
      BY <1>0, <2>1, <2>2, <2>3, <3>1, <3>4
    <3> QED
      BY <3>2, <3>3, <3>4
  <2> QED
    BY <2>3 DEF Apiece
<1>4. AllStored'
  <2>1. ASSUME NEW n \in 1..(sent')
        PROVE  n \in Busy' \/ Settled(n)'
    <3>1. CASE n = task'[p].send
      BY <3>1 DEF Busy
    <3>2. CASE n = x /\ n # task'[p].send
      BY <1>0, <2>1, <3>2
    <3>3. CASE n # x /\ n # task'[p].send
      <4>1. n \in (1..sent) \ {x}
        BY <1>0, <2>1, <3>3
      <4>2. CASE Settled(n)
        BY <4>1, <4>2 DEF Steady
      <4>3. ASSUME NEW q \in Tasks, n = task[q].send
            PROVE  n \in Busy'
        <5>1. task'[q].send = n
          BY <3>3, <4>3
        <5> QED
          BY <5>1 DEF Busy
      <4> QED
        BY <1>0, <4>1, <4>2, <4>3 DEF SendsInv, AllStored, Busy
    <3> QED
      BY <3>1, <3>2, <3>3
  <2> QED
    BY <2>1 DEF AllStored
<1> QED
  BY <1>1, <1>2, <1>3, <1>4 DEF SendsInv

-----------------------------------------------------------------------------
(* Rows stored by their owner                                              *)

\* The row of send n is new, or the echo's adopted, or another's that has its first id; there
\* is no second row with that id.
StoredAs(who, n, ids) ==
  /\ \A r \in thread' :
       r \in thread \/ (/\ r.by = who /\ r.send = n /\ r.extra = ids
                       /\ r.id = IF ids = {} THEN NoMid ELSE <<n, 1>>)
  /\ ids # {} => /\ \E r \in thread' :
                      /\ r.id = <<n, 1>>
                      /\ \/ r.by = who /\ r.extra = ids
                         \/ r \in thread /\ ~Native(r)
                 /\ \A q, r \in thread' : q.id = <<n, 1>> /\ r.id = <<n, 1>> => q = r

LEMMA StoreFacts ==
  ASSUME RowsInv, NEW who \in {"bot", "manager"}, NEW n, NEW ids, NEW at,
         thread' = Store(who, n, ids, at)
  PROVE  StoredAs(who, n, ids) /\ RowsStay
<1> DEFINE row(a) == Message(a, who, IF ids = {} THEN NoMid ELSE <<n, 1>>, ids, n)
           there == {r \in thread : r.id = <<n, 1>>}
<1>0. <<n, 1>> # NoMid /\ OneRowPerId /\ IsFiniteSet(thread)
  BY DEF NoMid, RowsInv
<1>1. ASSUME NEW a
      PROVE  /\ row(a).at = a /\ row(a).by = who /\ row(a).send = n /\ row(a).extra = ids
             /\ row(a).id = IF ids = {} THEN NoMid ELSE <<n, 1>>
  BY DEF Message
<1>2. CASE ids = {} \/ there = {}
  <2>1. thread' = thread \cup {row(at)}
    BY <1>2 DEF Store
  <2> HIDE DEF row
  <2>2. IsFiniteSet(thread')
    BY <1>0, <2>1, FS_AddElement
  <2>3. RowsStay
    BY <2>1, <2>2 DEF RowsStay, Outbound
  <2> QED
    BY <1>0, <1>1, <1>2, <2>1, <2>3 DEF StoredAs
<1>3. CASE ids # {} /\ there # {}
  <2>1. PICK r \in thread : there = {r}
    BY <1>0, <1>3 DEF OneRowPerId
  <2>2. r.id = <<n, 1>> /\ \A q \in thread : q.id = <<n, 1>> => q = r
    BY <2>1
  <2>3. thread' = {IF q \in there /\ Native(q) THEN row(q.at) ELSE q : q \in thread}
    BY <1>3 DEF Store
  <2>4. CASE Native(r)
    <3>1. thread' = (thread \ {r}) \cup {row(r.at)}
      BY <2>1, <2>3, <2>4
    <3> HIDE DEF row, there
    <3>2. IsFiniteSet(thread')
      <4>1. IsFiniteSet(thread \ {r})
        BY <1>0, FS_RemoveElement
      <4> QED
        BY <3>1, <4>1, FS_AddElement
    <3>3. row(r.at) \in Outbound' /\ row(r.at).at = r.at
      BY <1>1, <3>1 DEF Outbound
    <3>4. RowsStay
      <4>1. \A q \in thread : q.id # NoMid /\ ~Native(q) => q \in thread'
        BY <2>4, <3>1
      <4>2. \A q \in Outbound : q = r \/ q \in Outbound'
        BY <3>1 DEF Outbound
      <4>3. \A q \in Outbound : \E x \in Outbound' : x.at = q.at
        BY <3>3, <4>2
      <4> QED
        BY <3>2, <4>1, <4>3 DEF RowsStay
    <3> QED
      BY <1>1, <1>3, <2>2, <3>1, <3>4 DEF StoredAs
  <2>5. CASE ~Native(r)
    <3>1. thread' = thread
      BY <2>1, <2>3, <2>5
    <3>2. StoredAs(who, n, ids)
      BY <2>2, <2>5, <3>1 DEF StoredAs
    <3> QED
      BY <1>0, <3>1, <3>2, SameRows
  <2> QED
    BY <2>4, <2>5
<1> QED
  BY <1>2, <1>3

LEMMA StoreRows ==
  ASSUME RowsInv, Grows, RowsStay, NEW who \in {"bot", "manager"}, NEW n, NEW ids,
         StoredAs(who, n, ids), ids = {} => who = "bot" /\ n \in loose
  PROVE  RowsInv'
<1>0. OneRowPerId /\ <<n, 1>> # NoMid
  BY DEF RowsInv, NoMid
<1>1. OneRowPerId'
  <2>1. ASSUME NEW q \in thread', NEW r \in thread', q.id = r.id, q.id # NoMid
        PROVE  q = r
    <3>1. CASE q \in thread /\ r \in thread
      BY <1>0, <2>1, <3>1 DEF OneRowPerId
    <3>2. CASE q \notin thread \/ r \notin thread
      <4>1. ids # {} /\ q.id = <<n, 1>>
        BY <1>0, <2>1, <3>2 DEF StoredAs
      <4> QED
        BY <1>0, <2>1, <4>1 DEF StoredAs
    <3> QED
      BY <3>1, <3>2
  <2> QED
    BY <2>1 DEF OneRowPerId, NoMid
<1>2. ASSUME NEW r \in thread', r \notin thread
      PROVE  /\ r.by = "manager" => r.id # NoMid
             /\ r.by = "bot" /\ r.id = NoMid => r.send \in loose'
             /\ r.extra # {} => r.id # NoMid
             /\ r.id # NoMid => r.send = r.id[1]
             /\ ~Native(r)
  <2>1. /\ r.by = who /\ r.send = n /\ r.extra = ids
        /\ r.id = IF ids = {} THEN NoMid ELSE <<n, 1>>
    BY <1>2 DEF StoredAs
  <2> QED
    BY <1>0, <2>1 DEF Grows, Native
<1> QED
  BY <1>1, <1>2, RowsKept

LEMMA StoreSettles ==
  ASSUME RowsInv, RowsStay, NEW who \in {"bot", "manager"}, NEW n \in 1..sent, NEW ids,
         StoredAs(who, n, ids), echoes' = echoes, loose' = loose, sent' = sent, sent \in Nat,
         \/ n \in loose
         \/ /\ <<n, 1>> \in ids /\ \A i \in {1, 2} : Echoed(<<n, i>>) => <<n, i>> \in ids
            /\ \A r \in thread : r.send = n => Native(r)
  PROVE  Steady(n) /\ NewRows(n) /\ Settled(n)'
<1>1. \A m, i : Echoed(<<m, i>>)' <=> Echoed(<<m, i>>)
  BY DEF Echoed
<1>2. NewRows(n)
  BY DEF StoredAs, NewRows
<1>3. Steady(n)
  BY <1>1, <1>2, SteadyBy
<1>4. CASE n \in loose
  BY <1>2, <1>3, <1>4 DEF Settled
<1>5. CASE n \notin loose
  <2>1. ids # {} /\ <<n, 1>> \in ids
    BY <1>5
  <2>2. PICK r \in thread' : /\ r.id = <<n, 1>>
                             /\ \/ r.by = who /\ r.extra = ids
                                \/ r \in thread /\ ~Native(r)
    BY <2>1 DEF StoredAs
  <2>3. CASE r.by = who /\ r.extra = ids
    <3>1. \A i \in {1, 2} : Echoed(<<n, i>>)' => <<n, i>> \in r.extra
      BY <1>1, <1>5, <2>3
    <3> QED
      BY <1>2, <1>3, <2>1, <2>2, <2>3, <3>1 DEF Settled, Finished, Native
  <2>4. CASE r \in thread /\ ~Native(r)
    <3>1. r.send # n
      BY <1>5, <2>4
    <3> QED
      BY <1>2, <1>3, <2>2, <2>4, <3>1 DEF Settled, Finished, Native
  <2> QED
    BY <2>2, <2>3, <2>4
<1> QED
  BY <1>4, <1>5

-----------------------------------------------------------------------------
(* Steps that leave the sends to their owners                              *)

Harmless ==
  /\ Quiet /\ loose \subseteq loose' /\ early' = early /\ PlainRows
  /\ echo' = echo \/ echo'.pc # "create"

LEMMA HarmlessKeeps ==
  ASSUME OwnInv, TypeInv', Harmless
  PROVE  OwnInv'
<1>1. Grows /\ RowsStay
  BY SentType, PlainRowsStay DEF Harmless, Grows, Quiet, OwnInv
<1> QED
  BY <1>1, QuietKeeps, PlainRowsKeep, EchoKept DEF OwnInv, Harmless

\* New plain rows are nobody's.
LEMMA PlainNew ==
  ASSUME PlainRows, TypeInv, sent' = sent
  PROVE  NewRows(0)
  BY SentType DEF PlainRows, NewRows

LEMMA TasksStay ==
  ASSUME OwnInv, sent' = sent, loose' = loose, early' = early, task' = task, echoes' = echoes,
         PlainRows, echo' = echo \/ echo'.pc # "create"
  PROVE  Harmless
<1>1. RowsStay /\ NewRows(0)
  BY PlainRowsStay, PlainNew DEF OwnInv
<1>2. Quiet
  BY <1>1 DEF Quiet
<1> QED
  BY <1>2, Zenon DEF Harmless

LEMMA OneTaskGoes ==
  ASSUME OwnInv, NEW p \in Tasks, \A q \in Tasks \ {p} : task'[q] = task[q],
         task'[p] = task[p] \/ Lets(p) \/ GoesOn(p),
         sent' = sent, loose \subseteq loose', early' = early, echo' = echo,
         PlainRows,
         \A e \in echoes' : \/ e \in echoes
                            \/ \E n \in 1..sent : e.mid = Copy(n)
                            \/ \E n \in 1..sent, i \in {1, 2} : n \in loose' /\ e.mid = <<n, i>>
  PROVE  Harmless
<1>1. Quiet
  <2>1. RowsStay /\ NewRows(0)
    BY PlainRowsStay, PlainNew DEF OwnInv
  <2>2. \A q \in Tasks : task'[q] = task[q] \/ Lets(q) \/ GoesOn(q)
    <3>1. ASSUME NEW q \in Tasks
          PROVE  task'[q] = task[q] \/ Lets(q) \/ GoesOn(q)
      <4>1. CASE q = p
        BY <4>1, Zenon
      <4>2. CASE q # p
        BY <4>2
      <4> QED
        BY <4>1, <4>2
    <3> QED
      BY <3>1
  <2> QED
    BY <2>1, <2>2 DEF Quiet
<1> QED
  BY <1>1, Zenon DEF Harmless

LEMMA CallsHarmless ==
  ASSUME OwnInv,
         \/ RunCancel \/ PlanLoad \/ PlanWrite \/ SetEnabled \/ ClientWrites \/ ClearSlot
         \/ MonitorClaim \/ EchoState \/ ReplyState \/ ResponsesNote
         \/ HoursPass \/ \E on \in BOOLEAN : SetResponses(on)
  PROVE  Harmless
<1>1. CASE RunCancel \/ PlanLoad \/ PlanWrite \/ SetEnabled \/ ClearSlot \/ MonitorClaim
           \/ HoursPass \/ ReplyState
  <2>1. UNCHANGED <<thread, task, echo, echoes, sent, early, loose>>
    BY <1>1 DEF RunCancel, PlanLoad, PlanWrite, SetEnabled, ClearSlot, MonitorClaim,
       HoursPass, ReplyState, db, history
  <2> QED
    BY <2>1, TasksStay, SameRows
<1>2. CASE ClientWrites \/ ResponsesNote
  <2>1. PICK by \in {"client", "system"} :
          thread' = thread \cup {Message(now + 1, by, NoMid, {}, 0)}
    BY <1>2 DEF ClientWrites, ResponsesNote
  <2>2. PlainRows
    <3>1. IsFiniteSet(thread) => IsFiniteSet(thread')
      BY <2>1, FS_AddElement
    <3> QED
      BY <2>1, <3>1 DEF PlainRows, Message
  <2>3. UNCHANGED <<task, echo, echoes, sent, early, loose>>
    BY <1>2 DEF ClientWrites, ResponsesNote, history
  <2> QED
    BY <2>2, <2>3, TasksStay
<1>3. CASE EchoState
  <2>1. /\ UNCHANGED <<thread, task, echoes, sent, early, loose>>
        /\ echo'.pc # "create"
    BY <1>3 DEF EchoState, NoEcho, history
  <2> QED
    BY <2>1, TasksStay, SameRows
<1>4. ASSUME NEW on \in BOOLEAN, SetResponses(on)
      PROVE  Harmless
  <2>1. UNCHANGED <<thread, task, echo, echoes, sent, early, loose>>
    BY <1>4 DEF SetResponses, history
  <2> QED
    BY <2>1, TasksStay, SameRows
<1> QED
  BY <1>1, <1>2, <1>3, <1>4

\* A task that is written leaves the other one as it was.
LEMMA OneWritten ==
  ASSUME TypeInv, NEW p \in Tasks, NEW row, SetTask(p, row)
  PROVE  task'[p] = row /\ \A q \in Tasks \ {p} : task'[q] = task[q]
  BY DEF TypeInv, TypeOK, SetTask

\* A task that has no send has nothing to lose.
LEMMA NoSend ==
  ASSUME OwnInv, NEW p \in Tasks, task[p].pc \notin OnItsWay \cup {"settle"}
  PROVE  task[p].send = 0 /\ task[p].got
<1>1. \A t \in {task[p]} : Owns(t)
  BY DEF OwnInv, SendsInv
<1>2. task[p].send = 0 /\ (task[p].got \/ task[p].send \in loose)
  BY <1>1 DEF Owns
<1>3. 0 \notin loose
  BY DEF OwnInv, TypeInv, TypeOK, Sends
<1> QED
  BY <1>2, <1>3

LEMMA IdleLets ==
  ASSUME TypeInv, NEW p \in Tasks, SetTask(p, Idle),
         task[p].send = 0 \/ task[p].send \in loose' \/ task[p].pc = "settle"
  PROVE  Lets(p)
<1>1. task'[p] = Idle
  BY OneWritten
<1> QED
  BY <1>1 DEF Lets, Clean, Idle, OnItsWay

LEMMA TurnsHarmless ==
  ASSUME OwnInv, TurnStart \/ TurnQuiet \/ TurnHandoff
  PROVE  Harmless
<1> DEFINE t == task["turn"]
<1>0. TypeInv /\ "turn" \in Tasks /\ t \in TaskRow
  BY TaskFacts DEF OwnInv, Tasks
<1>1. CASE TurnStart
  <2>1. SetTask("turn", [Idle EXCEPT !.pc = "claude", !.started = now + 1])
        /\ UNCHANGED <<thread, echo, echoes, sent, early, loose>>
    BY <1>1 DEF TurnStart, history
  <2>2. t.send = 0
    BY <1>0, <1>1, NoSend DEF TurnStart, InQueue, OnItsWay
  <2>3. Lets("turn") /\ \A q \in Tasks \ {"turn"} : task'[q] = task[q]
    <3>1. /\ task'["turn"] = [Idle EXCEPT !.pc = "claude", !.started = now + 1]
          /\ \A q \in Tasks \ {"turn"} : task'[q] = task[q]
      BY <1>0, <2>1, OneWritten
    <3>2. Clean(task'["turn"])
      BY <3>1 DEF Clean, Idle, OnItsWay
    <3> QED
      BY <2>2, <3>1, <3>2 DEF Lets
  <2> QED
    BY <1>0, <2>1, <2>3, OneTaskGoes, SameRows
<1>2. CASE TurnQuiet
  <2>1. SetTask("turn", Idle) /\ UNCHANGED <<echo, echoes, sent, early, loose>>
    BY <1>2 DEF TurnQuiet, history
  <2>2. PlainRows
    <3>1. CASE thread' = thread
      BY <3>1, SameRows
    <3>2. CASE thread' = thread \cup {Message(now + 1, "system", NoMid, {}, 0)}
      <4>1. IsFiniteSet(thread) => IsFiniteSet(thread')
        BY <3>2, FS_AddElement
      <4> QED
        BY <3>2, <4>1 DEF PlainRows, Message
    <3> QED
      BY <1>2, <3>1, <3>2 DEF TurnQuiet
  <2>3. t.send = 0
    BY <1>0, <1>2, NoSend DEF TurnQuiet, OnItsWay
  <2>4. Lets("turn") /\ \A q \in Tasks \ {"turn"} : task'[q] = task[q]
    BY <1>0, <2>1, <2>3, IdleLets, OneWritten
  <2> QED
    BY <1>0, <2>1, <2>2, <2>4, OneTaskGoes
<1>3. CASE TurnHandoff
  <2>1. SetTask("turn", [t EXCEPT !.pc = "send"]) /\ t.pc = "handoff"
        /\ UNCHANGED <<thread, echo, echoes, sent, early, loose>>
    BY <1>3 DEF TurnHandoff, history
  <2>2. task'["turn"] = [t EXCEPT !.pc = "send"]
        /\ \A q \in Tasks \ {"turn"} : task'[q] = task[q]
    BY <1>0, <2>1, OneWritten
  <2>3. t.got \/ t.send \in loose
    BY <1>0 DEF OwnInv, SendsInv, Owns
  <2>4. GoesOn("turn")
    BY <1>0, <2>1, <2>2, <2>3 DEF GoesOn, OnItsWay, TaskRow
  <2> QED
    BY <1>0, <2>1, <2>2, <2>4, OneTaskGoes, SameRows
<1> QED
  BY <1>1, <1>2, <1>3

\* A step of the nudge that sends nothing.
Silent ==
  /\ UNCHANGED <<thread, echo, echoes, sent, early, loose>>
  /\ \/ SetTask("nudge", Idle)
     \/ \E pc \in {"gate", "claim", "claude", "check", "recheck", "reopen"} : NudgeTo(pc)
     \/ \E pc \in {"claim", "consume"} :
          SetTask("nudge", [task["nudge"] EXCEPT !.pc = pc, !.silence = Silence])
     \/ \E j \in Jobs :
          SetTask("nudge", [Idle EXCEPT !.pc = "load", !.started = now + 1, !.job = j])

LEMMA SilentHarmless ==
  ASSUME OwnInv, Silent, task["nudge"].pc \notin OnItsWay \cup {"settle"}
  PROVE  Harmless
<1> DEFINE t == task["nudge"]
<1>0. TypeInv /\ "nudge" \in Tasks /\ t \in TaskRow /\ t.send = 0 /\ t.got
  BY TaskFacts, NoSend DEF OwnInv, Tasks
<1>1. ASSUME NEW row, SetTask("nudge", row), Clean(row)
      PROVE  Harmless
  <2>1. task'["nudge"] = row /\ \A q \in Tasks \ {"nudge"} : task'[q] = task[q]
    BY <1>0, <1>1, OneWritten
  <2>2. Lets("nudge")
    <3>1. Clean(task'["nudge"])
      BY <1>1, <2>1
    <3> QED
      BY <1>0, <3>1 DEF Lets
  <2> QED
    BY <1>0, <2>1, <2>2, OneTaskGoes, SameRows DEF Silent
<1>2. CASE SetTask("nudge", Idle)
  BY <1>1, <1>2 DEF Clean, Idle, OnItsWay
<1>3. ASSUME NEW pc \in {"gate", "claim", "claude", "check", "recheck", "reopen"}, NudgeTo(pc)
      PROVE  Harmless
  <2>1. Clean([t EXCEPT !.pc = pc])
    BY <1>0 DEF Clean, TaskRow, OnItsWay
  <2> QED
    BY <1>1, <1>3, <2>1 DEF NudgeTo
<1>4. ASSUME NEW pc \in {"claim", "consume"},
             SetTask("nudge", [t EXCEPT !.pc = pc, !.silence = Silence])
      PROVE  Harmless
  <2>1. Clean([t EXCEPT !.pc = pc, !.silence = Silence])
    BY <1>0 DEF Clean, TaskRow, OnItsWay
  <2> QED
    BY <1>1, <1>4, <2>1
<1>5. ASSUME NEW j \in Jobs,
             SetTask("nudge", [Idle EXCEPT !.pc = "load", !.started = now + 1, !.job = j])
      PROVE  Harmless
  <2>1. Clean([Idle EXCEPT !.pc = "load", !.started = now + 1, !.job = j])
    BY DEF Clean, Idle, OnItsWay
  <2> QED
    BY <1>1, <1>5, <2>1
<1> QED
  BY <1>2, <1>3, <1>4, <1>5 DEF Silent

\* The nudge begins to send.
NudgeBegins ==
  /\ task["nudge"].pc = "recheck"
  /\ \E n \in Sends :
       Fresh(n) /\ SetTask("nudge", [task["nudge"] EXCEPT !.pc = "send", !.send = n])
  /\ UNCHANGED <<thread, echo, echoes, early, loose>>

LEMMA NudgeSilent ==
  ASSUME OwnInv, NudgeStep
  PROVE  Harmless \/ NudgeBegins
<1> DEFINE t == task["nudge"]
<1>0. TypeInv /\ "nudge" \in Tasks
  BY DEF OwnInv, Tasks
<1>1. CASE NudgeStart
  <2>1. UNCHANGED <<db, echo, echoes, sent, history, left>>
    BY <1>1, Zenon DEF NudgeStart
  <2>2. Silent
    BY <1>1, <2>1 DEF NudgeStart, Silent, db, history
  <2> QED
    BY <1>1, <2>2, SilentHarmless DEF NudgeStart, InQueue, OnItsWay
<1>2. CASE NudgeLoad
  <2>1. Silent
    BY <1>2 DEF NudgeLoad, GiveUp, Silent, history
  <2> QED
    BY <1>2, <2>1, SilentHarmless DEF NudgeLoad, OnItsWay
<1>3. CASE NudgeGate
  <2>1. UNCHANGED <<thread, echo, echoes, sent, history>>
    BY <1>3, Zenon DEF NudgeGate
  <2>2. SetTask("nudge", Idle)
        \/ \E pc \in {"claim", "consume"} : SetTask("nudge", [t EXCEPT !.pc = pc, !.silence = Silence])
    BY <1>3 DEF NudgeGate, GiveUp
  <2>3. Silent
    BY <2>1, <2>2 DEF Silent, history
  <2> QED
    BY <1>3, <2>3, SilentHarmless DEF NudgeGate, OnItsWay
<1>4. CASE Consume \/ Reopen
  <2>1. Silent /\ t.pc \in {"consume", "reopen"}
    BY <1>4 DEF Consume, Reopen, Silent
  <2> QED
    BY <2>1, SilentHarmless DEF OnItsWay
<1>5. CASE NudgeClaim
  <2>1. UNCHANGED <<thread, echo, echoes, sent, early, loose>>
    BY <1>5, Zenon DEF NudgeClaim
  <2>2. SetTask("nudge", Idle) \/ NudgeTo("claude")
    BY <1>5 DEF NudgeClaim, GiveUp
  <2>3. Silent
    BY <2>1, <2>2 DEF Silent
  <2> QED
    BY <1>5, <2>3, SilentHarmless DEF NudgeClaim, OnItsWay
<1>6. CASE NudgeClaude \/ NudgeCheck
  <2>1. UNCHANGED <<thread, echo, echoes, sent, history>>
    BY <1>6, Zenon DEF NudgeClaude, NudgeCheck
  <2>2. SetTask("nudge", Idle) \/ NudgeTo("check") \/ NudgeTo("recheck") \/ NudgeTo("reopen")
    BY <1>6 DEF NudgeClaude, NudgeCheck, GiveUp
  <2>3. Silent
    BY <2>1, <2>2 DEF Silent, history
  <2> QED
    BY <1>6, <2>3, SilentHarmless DEF NudgeClaude, NudgeCheck, OnItsWay
<1>7. CASE NudgeRecheck
  <2>1. UNCHANGED <<thread, echo, echoes, history>> /\ t.pc = "recheck"
    BY <1>7, Zenon DEF NudgeRecheck
  <2>2. \/ UNCHANGED sent /\ (SetTask("nudge", Idle) \/ NudgeTo("reopen"))
        \/ \E n \in Sends : Fresh(n) /\ SetTask("nudge", [t EXCEPT !.pc = "send", !.send = n])
    BY <1>7 DEF NudgeRecheck, GiveUp
  <2>3. Silent \/ NudgeBegins
    BY <2>1, <2>2 DEF Silent, NudgeBegins, history
  <2> QED
    BY <2>1, <2>3, SilentHarmless DEF OnItsWay
<1>8. CASE Settle
  <2>1. /\ SetTask("nudge", Idle) /\ t.pc = "settle"
        /\ UNCHANGED <<thread, echo, echoes, sent, early, loose>>
    BY <1>8 DEF Settle, GiveUp
  <2>2. Lets("nudge") /\ \A q \in Tasks \ {"nudge"} : task'[q] = task[q]
    BY <1>0, <2>1, IdleLets, OneWritten
  <2> QED
    BY <1>0, <2>1, <2>2, OneTaskGoes, SameRows
<1> QED
  BY <1>1, <1>2, <1>3, <1>4, <1>5, <1>6, <1>7, <1>8 DEF NudgeStep

\* A task on its way has a send that has begun.
LEMMA HasSend ==
  ASSUME OwnInv, NEW p \in Tasks, task[p].pc \in OnItsWay
  PROVE  /\ task[p].send \in 1..sent /\ task[p].send \in Sends
         /\ Within(task[p].send, task[p].parts)
         /\ task[p].got \/ task[p].send \in loose
         /\ task[p].pc = "persist" => task[p].parts # 0 \/ ~task[p].got
<1>0. TypeInv /\ sent \in Nat /\ task[p].send \in Nat
  BY SentType, TaskFacts DEF OwnInv
<1>1. \A t \in {task[p]} : Owns(t)
  BY DEF OwnInv, SendsInv
<1>2. Owns(task[p])
  BY <1>1
<1>3. task[p].send \in Sends
  BY <1>0 DEF TypeInv, Locals, Fits, OnItsWay
<1> QED
  BY <1>0, <1>2, <1>3 DEF Owns

LEMMA FaultsHarmless ==
  ASSUME OwnInv, NEW p \in Tasks, SendAgain(p) \/ SendFails(p) \/ PersistFails(p)
  PROVE  Harmless
<1> DEFINE t == task[p]
<1>0. TypeInv /\ t \in TaskRow
  BY TaskFacts DEF OwnInv
<1>1. t.pc \in OnItsWay /\ t.send \in 1..sent
  BY HasSend DEF SendAgain, SendFails, PersistFails, OnItsWay
<1>2. CASE SendAgain(p)
  <2>1. /\ UNCHANGED <<thread, task, echo, sent, early, loose>>
        /\ echoes' = echoes \cup {[mid |-> Copy(t.send), at |-> now + 1]}
    BY <1>2 DEF SendAgain, db, history
  <2>2. \A e \in echoes' : e \in echoes \/ \E n \in 1..sent : e.mid = Copy(n)
    BY <1>1, <2>1
  <2> QED
    BY <2>1, <2>2, OneTaskGoes, SameRows
<1>3. CASE SendFails(p)
  <2>1. /\ UNCHANGED <<thread, echo, sent, early>> /\ t.pc = "send"
        /\ loose' = loose \cup {t.send}
        /\ \/ echoes' = echoes \cup {[mid |-> <<t.send, t.parts + 1>>, at |-> now + 1]}
           \/ echoes' = echoes
        /\ IF p = "turn" THEN SetTask(p, [t EXCEPT !.pc = "persist", !.got = FALSE])
           ELSE SetTask(p, Idle)
    BY <1>3 DEF SendFails
  <2>2. t.parts + 1 \in {1, 2}
    BY <1>0, <2>1, TaskFacts DEF Fits
  <2>3. \A e \in echoes' :
          e \in echoes \/ \E n \in 1..sent, i \in {1, 2} : n \in loose' /\ e.mid = <<n, i>>
    BY <1>1, <2>1, <2>2
  <2>4. Lets(p) \/ GoesOn(p)
    <3>1. CASE p = "turn"
      <4>1. task'[p] = [t EXCEPT !.pc = "persist", !.got = FALSE]
        BY <1>0, <2>1, <3>1, OneWritten
      <4>2. /\ task'[p].send = t.send /\ task'[p].parts = t.parts /\ task'[p].pc = "persist"
            /\ ~task'[p].got
        BY <1>0, <4>1 DEF TaskRow
      <4> QED
        BY <1>1, <2>1, <3>1, <4>2 DEF GoesOn
    <3>2. CASE p # "turn"
      BY <1>0, <2>1, <3>2, IdleLets
    <3> QED
      BY <3>1, <3>2
  <2>5. \A q \in Tasks \ {p} : task'[q] = task[q]
    BY <1>0, <2>1, OneWritten
  <2> QED
    BY <2>1, <2>3, <2>4, <2>5, OneTaskGoes, SameRows
<1>4. CASE PersistFails(p)
  <2>1. /\ UNCHANGED <<thread, echo, echoes, sent, early>> /\ SetTask(p, Idle)
        /\ loose' = loose \cup {t.send}
    BY <1>4 DEF PersistFails
  <2>2. Lets(p) /\ \A q \in Tasks \ {p} : task'[q] = task[q]
    BY <1>0, <2>1, IdleLets, OneWritten
  <2> QED
    BY <2>1, <2>2, OneTaskGoes, SameRows
<1> QED
  BY <1>2, <1>3, <1>4

\* A message of a manager in the app, and a crash.
LEMMA WorldHarmless ==
  ASSUME OwnInv, ManagerTypes \/ Crash
  PROVE  Harmless
<1>0. TypeInv /\ IsFiniteSet(thread)
  BY DEF OwnInv, RowsInv
<1>1. CASE ManagerTypes
  <2>1. /\ UNCHANGED <<thread, task, echo, sent, early, loose>>
        /\ echoes' = echoes \cup {[mid |-> Typed, at |-> now + 1]}
    BY <1>1 DEF ManagerTypes, db, history
  <2>2. PlainRows /\ RowsStay /\ NewRows(0)
    BY <1>0, <2>1, SameRows, PlainNew
  <2>3. Quiet
    BY <2>1, <2>2 DEF Quiet
  <2> QED
    BY <2>1, <2>2, <2>3, Zenon DEF Harmless
<1>2. CASE Crash
  <2>1. /\ UNCHANGED <<thread, echoes, sent, early>>
        /\ echo'.pc # "create"
        /\ loose' = loose \cup (UnderWay \ {0})
        /\ \A p \in Tasks : task'[p] = Idle
    BY <1>2 DEF Crash, db, NoEcho
  <2>2. \A p \in Tasks : Lets(p)
    <3>1. ASSUME NEW p \in Tasks
          PROVE  Lets(p)
      <4>1. Clean(task'[p])
        BY <2>1 DEF Clean, Idle, OnItsWay
      <4>2. CASE task[p].pc \in OnItsWay
        <5>1. task[p].send \in UnderWay
          BY <4>2 DEF UnderWay, OnItsWay
        <5> QED
          BY <2>1, <4>1, <5>1 DEF Lets
      <4>3. CASE task[p].pc = "settle"
        BY <4>1, <4>3 DEF Lets
      <4>4. CASE task[p].pc \notin OnItsWay \cup {"settle"}
        BY <4>1, <4>4, NoSend DEF Lets
      <4> QED
        BY <4>2, <4>3, <4>4
    <3> QED
      BY <3>1
  <2>3. PlainRows /\ RowsStay /\ NewRows(0)
    BY <1>0, <2>1, SameRows, PlainNew
  <2>4. Quiet
    BY <2>1, <2>2, <2>3 DEF Quiet
  <2> QED
    BY <2>1, <2>3, <2>4 DEF Harmless
<1> QED
  BY <1>1, <1>2

-----------------------------------------------------------------------------
(* Sends that begin, go out part by part, and are stored                   *)

\* The next send: nothing of it can have been echoed.
LEMMA FreshFacts ==
  ASSUME OwnInv, NEW n \in Sends, Fresh(n)
  PROVE  /\ sent' = n /\ n = sent + 1 /\ sent \in Nat /\ n # 0
         /\ \A i \in {1, 2, 3} : ~Echoed(<<n, i>>)
         /\ \A r \in thread : r.send # n
<1>0. TypeInv /\ sent \in Nat
  BY SentType DEF OwnInv
<1>1. sent' = n /\ n = sent + 1
  BY <1>0 DEF Fresh
<1>2. \A i \in {1, 2, 3} : ~Echoed(<<n, i>>)
  BY <1>0, <1>1 DEF Echoed, Typed, OwnInv, SendsInv, EchoesOfSends
<1>3. \A r \in thread : r.send \in 0..sent
  BY DEF OwnInv, SendsInv, RowsOfSends
<1> QED
  BY <1>0, <1>1, <1>2, <1>3

LEMMA TaskBegins ==
  ASSUME OwnInv, TypeInv', NEW p \in Tasks, NEW n \in Sends, Fresh(n),
         task[p].pc \notin OnItsWay \cup {"settle"},
         NEW row, SetTask(p, row), row.send = n, row.pc \in {"send", "handoff"}, row.got,
         UNCHANGED <<thread, echo, echoes, early, loose>>
  PROVE  OwnInv'
<1>0. TypeInv /\ task[p].send = 0
  BY NoSend DEF OwnInv
<1>f. /\ sent' = n /\ n = sent + 1 /\ sent \in Nat /\ n # 0
      /\ \A i \in {1, 2, 3} : ~Echoed(<<n, i>>)
      /\ \A r \in thread : r.send # n
  BY FreshFacts
<1>1. task'[p] = row /\ \A q \in Tasks \ {p} : task'[q] = task[q]
  BY <1>0, OneWritten
<1>2. \A m, i : Echoed(<<m, i>>)' <=> Echoed(<<m, i>>)
  BY DEF Echoed
<1>3. PlainRows /\ RowsStay /\ NewRows(0) /\ Steady(0)
  <2>1. PlainRows /\ RowsStay
    BY SameRows DEF OwnInv, RowsInv
  <2>2. NewRows(0)
    BY DEF NewRows
  <2> QED
    BY <1>2, <2>1, <2>2, SteadyBy
<1>4. EchoesOfSends'
  BY <1>f DEF OwnInv, SendsInv, EchoesOfSends, Typed
<1>5. Within(n, row.parts)'
  BY <1>2, <1>f DEF Within
<1>6. Owns(row)'
  <2>1. row.pc \in OnItsWay /\ row.pc # "persist" /\ row.pc # "settle"
    BY DEF OnItsWay
  <2>2. row.send <= sent'
    BY <1>f
  <2> QED
    BY <1>5, <1>f, <2>1, <2>2 DEF Owns
<1>7. \A t \in {task'[p]} : Owns(t)'
  BY <1>1, <1>6
<1>8. SendsInv'
  BY <1>0, <1>1, <1>3, <1>4, <1>7, <1>f, OneMoves
<1>9. Grows
  BY <1>f DEF Grows
<1> QED
  BY <1>3, <1>8, <1>9, PlainRowsKeep, EchoKept DEF OwnInv

LEMMA DecideStep ==
  ASSUME OwnInv, TypeInv', TurnDecide
  PROVE  OwnInv'
<1> DEFINE t == task["turn"]
<1>0. TypeInv /\ "turn" \in Tasks /\ t \in TaskRow
  BY TaskFacts DEF OwnInv, Tasks
<1>1. PICK n \in Sends, pc \in {"send", "handoff"} :
        Fresh(n) /\ SetTask("turn", [t EXCEPT !.pc = pc, !.send = n, !.plans = (pc = "send")])
  BY DEF TurnDecide
<1>2. t.pc \notin OnItsWay \cup {"settle"}
  BY DEF TurnDecide, OnItsWay
<1>3. UNCHANGED <<db, plan, cancels, inbound, admin, echo, echoes, history, left>>
  BY Zenon DEF TurnDecide
<1>4. UNCHANGED <<thread, echo, echoes, early, loose>>
  BY <1>3 DEF db, history
<1> DEFINE row == [t EXCEPT !.pc = pc, !.send = n, !.plans = (pc = "send")]
<1>5. row.send = n /\ row.pc = pc /\ row.got = t.got
  BY <1>0 DEF TaskRow
<1>6. t.got
  BY <1>0, <1>2, NoSend
<1>7. SetTask("turn", row)
  BY <1>1
<1> HIDE DEF row
<1> QED
  BY <1>0, <1>1, <1>2, <1>4, <1>5, <1>6, <1>7, TaskBegins

LEMMA NudgeBeginsStep ==
  ASSUME OwnInv, TypeInv', NudgeBegins
  PROVE  OwnInv'
<1> DEFINE t == task["nudge"]
<1>0. TypeInv /\ "nudge" \in Tasks /\ t \in TaskRow
  BY TaskFacts DEF OwnInv, Tasks
<1>1. PICK n \in Sends : Fresh(n) /\ SetTask("nudge", [t EXCEPT !.pc = "send", !.send = n])
  BY DEF NudgeBegins
<1>2. t.pc \notin OnItsWay \cup {"settle"} /\ UNCHANGED <<thread, echo, echoes, early, loose>>
  BY DEF NudgeBegins, OnItsWay
<1> DEFINE row == [t EXCEPT !.pc = "send", !.send = n]
<1>3. row.send = n /\ row.pc = "send" /\ row.got = t.got
  BY <1>0 DEF TaskRow
<1>4. t.got
  BY <1>0, <1>2, NoSend
<1>5. SetTask("nudge", row)
  BY <1>1
<1> HIDE DEF row
<1> QED
  BY <1>0, <1>1, <1>2, <1>3, <1>4, <1>5, TaskBegins

LEMMA ReplyBegins ==
  ASSUME OwnInv, TypeInv', ReplySend
  PROVE  OwnInv'
<1> DEFINE row(n) == [Idle EXCEPT !.pc = "send", !.send = n]
<1>1. PICK n \in Sends : Fresh(n) /\ SetTask("reply", row(n))
  BY DEF ReplySend
<1>2. UNCHANGED <<thread, echo, echoes, early, loose>>
  BY DEF ReplySend, db, history
<1>3. "reply" \in Tasks /\ task["reply"].pc \notin OnItsWay \cup {"settle"}
  BY DEF ReplySend, InQueue, OnItsWay, Tasks
<1>4. row(n).send = n /\ row(n).pc = "send" /\ row(n).got
  BY DEF Idle
<1> HIDE DEF row
<1> QED
  BY <1>1, <1>2, <1>3, <1>4, TaskBegins

LEMMA PartStep ==
  ASSUME OwnInv, TypeInv', NEW p \in Tasks, SendPart(p)
  PROVE  OwnInv'
<1>0. PICK t \in TaskRow : t = task[p] /\ t.parts \in 0..2
  BY TaskFacts DEF OwnInv
<1> DEFINE last == t.parts + 1 = 2 \/ t.send \notin Split
           row == [t EXCEPT !.parts = t.parts + 1,
                            !.pc = IF last THEN "persist" ELSE "send", !.at = now + 2]
<1>1. /\ t.pc = "send" /\ SetTask(p, row)
      /\ echoes' = echoes \cup {[mid |-> <<t.send, t.parts + 1>>, at |-> now + 1]}
      /\ UNCHANGED <<thread, echo, sent, early, loose>>
  BY <1>0 DEF SendPart, db
<1>2. /\ t.send \in 1..sent /\ Within(t.send, t.parts) /\ (t.got \/ t.send \in loose)
      /\ sent \in Nat
  BY <1>0, <1>1, HasSend, SentType DEF OnItsWay, OwnInv
<1>3. /\ row.send = t.send /\ row.parts = t.parts + 1 /\ row.got = t.got
      /\ row.pc \in {"persist", "send"}
  BY <1>0 DEF TaskRow
<1>4. t.parts + 1 \in {1, 2}
  BY <1>0, <1>1, TaskFacts DEF Fits, OwnInv
<1>5. \A m, i : Echoed(<<m, i>>)' => Echoed(<<m, i>>) \/ (m = t.send /\ i = t.parts + 1)
  BY <1>1 DEF Echoed
<1>6. Steady(t.send) /\ PlainRows /\ RowsStay /\ NewRows(t.send)
  <2>1. PlainRows /\ RowsStay
    BY <1>1, SameRows DEF OwnInv, RowsInv
  <2>2. NewRows(t.send)
    BY <1>1 DEF NewRows
  <2> QED
    BY <1>1, <1>5, <2>1, <2>2, SteadyBy
<1>7. EchoesOfSends'
  <2>1. \A e \in echoes' : e \in echoes \/ e.mid = <<t.send, t.parts + 1>>
    BY <1>1
  <2> QED
    BY <1>1, <1>2, <1>4, <2>1 DEF OwnInv, SendsInv, EchoesOfSends, Typed
<1>8. PICK n, k : n = t.send /\ k = t.parts + 1
  OBVIOUS
<1>9. Within(n, k)'
  <2>1. CASE n \in loose
    BY <1>1, <2>1 DEF Within
  <2>2. CASE n \notin loose
    <3>1. \A r \in thread : r.send = n => Native(r)
      BY <1>2, <1>8, <2>2 DEF Within
    <3>2. \A i \in {1, 2} : Echoed(<<n, i>>)' => i <= k
      BY <1>0, <1>2, <1>4, <1>5, <1>8, <2>2 DEF Within
    <3> QED
      BY <1>1, <3>1, <3>2 DEF Within, Native, Echoed
  <2> QED
    BY <2>1, <2>2
<1>10. task'[p] = row /\ \A q \in Tasks \ {p} : task'[q] = task[q]
  <2>1. TypeInv
    BY DEF OwnInv
  <2> HIDE DEF row
  <2> QED
    BY <1>1, <2>1, OneWritten
<1>11. ASSUME NEW u \in {task'[p]}
       PROVE  Owns(u)'
  <2>1. u.send = n /\ u.parts = k /\ u.got = t.got /\ u.pc \in {"persist", "send"}
    BY <1>3, <1>8, <1>10
  <2>2. k # 0 /\ n # 0 /\ n <= sent'
    BY <1>1, <1>2, <1>4, <1>8
  <2>3. u.got \/ u.send \in loose'
    BY <1>1, <1>2, <1>8, <2>1
  <2>4. Within(u.send, u.parts)'
    BY <1>9, <2>1
  <2> QED
    BY <2>1, <2>2, <2>3, <2>4 DEF Owns, OnItsWay
<1>12. SendsInv'
  <2>1. task'[p].send = t.send /\ task'[p].got = t.got
    BY <1>3, <1>10
  <2>2. p = "reply" => t.got
    BY <1>0 DEF OwnInv, SendsInv
  <2> HIDE DEF row
  <2> QED
    BY <1>0, <1>1, <1>2, <1>6, <1>7, <1>10, <1>11, <2>1, <2>2, OneMoves
<1>13. Grows
  BY <1>1, <1>2 DEF Grows
<1> QED
  BY <1>1, <1>6, <1>12, <1>13, PlainRowsKeep, EchoKept DEF OwnInv

LEMMA PersistStep ==
  ASSUME OwnInv, TypeInv', NEW p \in Tasks, Persist(p)
  PROVE  OwnInv'
<1>0. PICK t \in TaskRow : t = task[p] /\ t.parts \in 0..2 /\ t.got \in BOOLEAN
  BY TaskFacts DEF OwnInv
<1> DEFINE ids == IF t.got THEN {<<t.send, i>> : i \in 1..t.parts} ELSE {}
           who == IF p = "reply" THEN "manager" ELSE "bot"
<1>1. /\ t.pc = "persist" /\ UNCHANGED <<echo, echoes, sent, early, loose>>
      /\ IF p = "nudge" THEN SetTask(p, [t EXCEPT !.pc = "settle"]) ELSE SetTask(p, Idle)
  BY <1>0 DEF Persist, history
<1>2. /\ t.send \in 1..sent /\ Within(t.send, t.parts) /\ (t.got \/ t.send \in loose)
      /\ t.parts # 0 \/ ~t.got
      /\ p = "reply" => t.got
      /\ sent \in Nat /\ RowsInv
  BY <1>0, <1>1, HasSend, SentType DEF OnItsWay, OwnInv, SendsInv
<1>3. who \in {"bot", "manager"} /\ StoredAs(who, t.send, ids) /\ RowsStay
  <2>1. PICK at : thread' = Store(who, t.send, ids, at)
    BY <1>0 DEF Persist
  <2>2. who \in {"bot", "manager"}
    OBVIOUS
  <2> HIDE DEF ids, who
  <2> QED
    BY <1>2, <2>1, <2>2, StoreFacts
<1>4. \/ t.send \in loose
      \/ /\ <<t.send, 1>> \in ids
         /\ \A i \in {1, 2} : Echoed(<<t.send, i>>) => <<t.send, i>> \in ids
         /\ \A r \in thread : r.send = t.send => Native(r)
  <2>1. CASE t.send \notin loose
    <3>1. ids = {<<t.send, i>> : i \in 1..t.parts} /\ 1 \in 1..t.parts
      BY <1>0, <1>2, <2>1
    <3>2. \A i \in {1, 2} : Echoed(<<t.send, i>>) => i \in 1..t.parts
      BY <1>0, <1>2, <2>1 DEF Within
    <3>3. \A r \in thread : r.send = t.send => Native(r)
      BY <1>2, <2>1 DEF Within
    <3> QED
      BY <3>1, <3>2, <3>3
  <2> QED
    BY <2>1
<1>5. PICK n : n = t.send
  OBVIOUS
<1>6. Steady(n) /\ NewRows(n) /\ Settled(n)'
  <2> HIDE DEF ids, who
  <2> QED
    BY <1>1, <1>2, <1>3, <1>4, <1>5, StoreSettles
<1>7. RowsInv' /\ Grows
  <2>1. Grows
    BY <1>1, <1>2 DEF Grows
  <2>2. ids = {} => who = "bot" /\ t.send \in loose
    <3>1. ids = {} => ~t.got
      <4>1. CASE t.got
        <5>1. ids = {<<t.send, i>> : i \in 1..t.parts} /\ 1 \in 1..t.parts
          BY <1>0, <1>2, <4>1
        <5> QED
          BY <5>1
      <4> QED
        BY <4>1
    <3> QED
      BY <1>2, <3>1
  <2> HIDE DEF ids, who
  <2> QED
    BY <1>2, <1>3, <2>1, <2>2, StoreRows
<1>8. EchoesOfSends'
  BY <1>1 DEF OwnInv, SendsInv, EchoesOfSends, Typed
<1>9. /\ \A q \in Tasks \ {p} : task'[q] = task[q]
      /\ task'[p] = IF p = "nudge" THEN [t EXCEPT !.pc = "settle"] ELSE Idle
  <2>1. TypeInv
    BY DEF OwnInv
  <2> QED
    BY <1>1, <2>1, OneWritten
<1>10. /\ p # "nudge" => task'[p].send = 0 /\ task'[p].pc = "idle" /\ task'[p].got
       /\ p = "nudge" => task'[p].send = n /\ task'[p].pc = "settle" /\ task'[p].got = t.got
  <2>1. CASE p # "nudge"
    <3>1. task'[p] = Idle
      BY <1>9, <2>1
    <3> QED
      BY <2>1, <3>1 DEF Idle
  <2>2. CASE p = "nudge"
    <3>1. task'[p] = [t EXCEPT !.pc = "settle"]
      BY <1>9, <2>2
    <3> QED
      BY <1>0, <1>5, <2>2, <3>1 DEF TaskRow
  <2> QED
    BY <2>1, <2>2
<1>11. ASSUME NEW u \in {task'[p]}
       PROVE  Owns(u)'
  <2>1. CASE p # "nudge"
    BY <1>1, <1>2, <1>10, <1>11, <2>1 DEF Owns, OnItsWay
  <2>2. CASE p = "nudge"
    <3>1. u.send = n /\ u.pc = "settle" /\ (u.got \/ u.send \in loose')
      BY <1>1, <1>2, <1>5, <1>10, <1>11, <2>2
    <3>2. Settled(u.send)'
      BY <1>6, <3>1
    <3>3. u.send # 0 /\ u.send <= sent'
      BY <1>1, <1>2, <1>5, <3>1
    <3> QED
      BY <3>1, <3>2, <3>3 DEF Owns, OnItsWay
  <2> QED
    BY <2>1, <2>2
<1>12. SendsInv'
  <2>1. task'[p].send = n \/ (task'[p].send = 0 /\ Settled(n)')
    BY <1>6, <1>10
  <2>2. \A q \in Tasks \ {p} : task'[q] = task[q]
    BY <1>9
  <2>3. n = task[p].send /\ (p = "reply" => task'[p].got)
    BY <1>0, <1>5, <1>10
  <2> HIDE DEF ids, who
  <2> QED
    BY <1>1, <1>2, <1>6, <1>8, <1>11, <2>1, <2>2, <2>3, OneMoves
<1> QED
  BY <1>1, <1>2, <1>3, <1>7, <1>12, EchoKept DEF OwnInv

-----------------------------------------------------------------------------
(* Echoes                                                                  *)

\* Whoever is busy with a send has it under way, or it is settled.
LEMMA OwnedOrSettled ==
  ASSUME OwnInv, NEW n \in 1..sent
  PROVE  n \in UnderWay \/ Settled(n)
<1>1. CASE Settled(n)
  BY <1>1
<1>2. ASSUME NEW p \in Tasks, n = task[p].send
      PROVE  n \in UnderWay \/ Settled(n)
  <2>1. PICK t \in {task[p]} : Owns(t)
    BY DEF OwnInv, SendsInv
  <2>2. t.send = n /\ n # 0
    BY <1>2, <2>1
  <2>3. CASE t.pc = "settle"
    BY <2>1, <2>2, <2>3 DEF Owns
  <2>4. CASE t.pc \in OnItsWay
    BY <1>2, <2>1, <2>4 DEF UnderWay, OnItsWay
  <2> QED
    BY <2>1, <2>2, <2>3, <2>4 DEF Owns
<1> QED
  BY <1>1, <1>2 DEF OwnInv, SendsInv, AllStored, Busy

\* An echo no row knows is the app's, a copy's, of a send under way or lost, or of a later part
\* whose row is misfiled or no longer recent.
LEMMA UnknownEcho ==
  ASSUME OwnInv, NEW e \in echoes, ~Known(e.mid)
  PROVE  /\ e.mid # NoMid /\ e.mid[1] \in 0..sent
         /\ e.mid[1] \in UnderWay \/ Excused(e.mid)
<1>0. sent \in Nat
  BY SentType DEF OwnInv
<1>1. CASE e.mid = Typed
  BY <1>0, <1>1 DEF Typed, NoMid, Excused
<1>2. ASSUME NEW n \in 1..sent, NEW i \in {1, 2, 3}, e.mid = <<n, i>>
      PROVE  e.mid[1] = n /\ e.mid # NoMid
  BY <1>2 DEF NoMid
<1>3. ASSUME NEW n \in 1..sent, NEW i \in {1, 2, 3}, e.mid = <<n, i>>
      PROVE  n \in UnderWay \/ Excused(e.mid)
  <2>1. CASE i = 3
    BY <1>3, <2>1 DEF Copy, Excused
  <2>2. CASE n \in loose \/ n \in UnderWay
    BY <1>3, <2>2 DEF Excused
  <2>3. CASE i \in {1, 2} /\ Finished(n)
    <3>1. PICK r \in thread :
            /\ r.id = <<n, 1>> /\ ~Native(r)
            /\ \/ r.send # n
               \/ /\ r.by # "client" /\ r.by # "system" /\ <<n, 1>> \in r.extra
                  /\ \A k \in {1, 2} : Echoed(<<n, k>>) => <<n, k>> \in r.extra
      BY <2>3 DEF Finished
    <3>2. r.id # e.mid
      BY DEF Known
    <3>3. i = 2 /\ e.mid # <<n, 1>> /\ r.id # <<n, 2>>
      BY <1>3, <2>3, <3>1, <3>2
    <3>4. CASE r.send # n
      BY <1>2, <1>3, <3>1, <3>3, <3>4 DEF Excused, Misfiled
    <3>5. CASE r.send = n
      <4>1. e.mid \in r.extra
        BY <1>3, <3>1, <3>3, <3>5 DEF Echoed
      <4>2. r \in Outbound
        BY <3>1, <3>5 DEF Outbound, OwnInv, TypeInv, TypeOK, Row
      <4>3. r \notin Recent
        BY <4>1 DEF Known
      <4>4. Forgotten(e.mid)
        BY <3>2, <4>1, <4>2, <4>3 DEF Forgotten
      <4> QED
        BY <1>2, <1>3, <3>3, <4>4 DEF Excused
    <3> QED
      BY <3>4, <3>5
  <2> QED
    BY <2>1, <2>2, <2>3, OwnedOrSettled DEF Settled
<1> QED
  BY <1>0, <1>1, <1>2, <1>3 DEF OwnInv, SendsInv, EchoesOfSends

LEMMA LookupStep ==
  ASSUME OwnInv, TypeInv', EchoLookup
  PROVE  OwnInv'
<1>0. UNCHANGED <<task, echoes, sent, loose>> /\ sent \in Nat /\ IsFiniteSet(thread)
  <2>1. UNCHANGED <<task, echoes, sent, loose>>
    BY Zenon DEF EchoLookup
  <2> QED
    BY <2>1, SentType DEF OwnInv, RowsInv
<1>1. PICK e \in echoes :
        /\ ~Known(e.mid)
        /\ \/ /\ echo' = [pc |-> "create", mid |-> e.mid, at |-> e.at, takes |-> state = "bot"]
              /\ early' = IF e.mid[1] \in UnderWay THEN early \cup {e.mid} ELSE early
              /\ UNCHANGED thread
           \/ /\ \E r \in Newest(Alike(e.mid)) :
                   /\ r.at > old /\ r.id = NoMid
                   /\ thread' = (thread \ {r}) \cup {[r EXCEPT !.id = e.mid]}
              /\ UNCHANGED <<echo, early>>
  BY DEF EchoLookup
<1>2. /\ e.mid # NoMid /\ e.mid[1] \in 0..sent
      /\ e.mid[1] \in UnderWay \/ Excused(e.mid)
  BY <1>1, UnknownEcho
<1>3. CASE /\ echo' = [pc |-> "create", mid |-> e.mid, at |-> e.at, takes |-> state = "bot"]
           /\ early' = IF e.mid[1] \in UnderWay THEN early \cup {e.mid} ELSE early
           /\ UNCHANGED thread
  <2>1. PlainRows /\ RowsStay /\ NewRows(0)
    BY <1>0, <1>3, SameRows, PlainNew DEF OwnInv
  <2>2. Quiet
    BY <1>0, <1>3, <2>1 DEF Quiet
  <2>3. Grows
    BY <1>0, <1>3 DEF Grows
  <2>4. PICK mid : mid = e.mid
    OBVIOUS
  <2>5. Excused(mid)'
    <3>1. CASE Excused(mid)
      BY <2>1, <2>3, <3>1, ExcusedStays DEF OwnInv
    <3>2. CASE mid[1] \in UnderWay
      BY <1>3, <2>4, <3>2 DEF Excused
    <3> QED
      BY <1>2, <2>4, <3>1, <3>2
  <2>6. echo'.mid = mid
    BY <1>3, <2>4
  <2>7. EchoInv'
    BY <1>0, <1>2, <2>4, <2>5, <2>6 DEF EchoInv, Excused, NoMid, Copy
  <2> QED
    BY <2>1, <2>2, <2>3, <2>7, QuietKeeps, PlainRowsKeep DEF OwnInv
<1>4. ASSUME NEW r \in Newest(Alike(e.mid)), r.id = NoMid,
             thread' = (thread \ {r}) \cup {[r EXCEPT !.id = e.mid]},
             UNCHANGED <<echo, early>>
      PROVE  OwnInv'
  <2>1. /\ r \in thread /\ r \in Outbound /\ r \in Row
        /\ r.send = e.mid[1] \/ <<e.mid, r.send>> \in Like
    BY <1>4 DEF Newest, Alike, Recent, Outbound, OwnInv, TypeInv, TypeOK
  <2>2. r.by = "bot" /\ r.send \in loose /\ r.extra = {} /\ r.send \in 0..sent
    BY <1>4, <2>1
    DEF Outbound, OwnInv, RowsInv, ManagerRows, LooseRows, ExtraRows, SendsInv, RowsOfSends
  <2> DEFINE q == [r EXCEPT !.id = e.mid]
  <2>3. q.id = e.mid /\ q.by = "bot" /\ q.send = r.send /\ q.at = r.at
    BY <2>1, <2>2 DEF Row
  <2>4. \A x \in thread : x.id # e.mid
    BY <1>1 DEF Known
  <2>5. thread' = (thread \ {r}) \cup {q}
    BY <1>4
  <2> HIDE DEF q
  <2>6. RowsStay
    <3>1. IsFiniteSet(thread')
      <4>1. IsFiniteSet(thread \ {r})
        BY <1>0, FS_RemoveElement
      <4> QED
        BY <2>5, <4>1, FS_AddElement
    <3>2. q \in Outbound'
      BY <2>3, <2>5 DEF Outbound
    <3>3. \A x \in Outbound : x = r \/ x \in Outbound'
      BY <2>5 DEF Outbound
    <3>4. \A x \in Outbound : \E y \in Outbound' : y.at = x.at
      BY <2>3, <3>2, <3>3
    <3>5. \A x \in thread : x.id # NoMid => x \in thread'
      BY <1>4, <2>5
    <3> QED
      BY <3>1, <3>4, <3>5 DEF RowsStay
  <2>7. Quiet
    <3>1. NewRows(0)
      BY <1>0, <2>2, <2>3, <2>5 DEF NewRows
    <3> QED
      BY <1>0, <2>6, <3>1 DEF Quiet
  <2>8. OneRowPerId'
    <3>1. \A x, y \in thread' : x.id = y.id /\ x.id # NoMid => x = y
      BY <2>3, <2>4, <2>5 DEF OwnInv, RowsInv, OneRowPerId
    <3> QED
      BY <3>1 DEF OneRowPerId, NoMid
  <2>9. Grows
    BY <1>0, <1>4 DEF Grows
  <2>10. RowsInv'
    <3>1. q.id # NoMid /\ ~Native(q) /\ q.send \in loose'
      BY <1>0, <1>2, <2>2, <2>3 DEF Native
    <3>2. q.send # q.id[1] => <<q.id, q.send>> \in Like
      BY <2>1, <2>3
    <3>3. \A x \in thread' : x \in thread \/ x = q
      BY <2>5
    <3> QED
      BY <2>3, <2>6, <2>8, <2>9, <3>1, <3>2, <3>3, RowsKept DEF OwnInv
  <2>11. SendsInv'
    BY <2>7, QuietKeeps
  <2>12. EchoInv'
    BY <1>4, <2>6, <2>9, EchoKept DEF OwnInv
  <2> QED
    BY <2>10, <2>11, <2>12 DEF OwnInv
<1> QED
  BY <1>1, <1>3, <1>4

LEMMA CreateStep ==
  ASSUME OwnInv, TypeInv', EchoCreate
  PROVE  OwnInv'
<1>0. /\ UNCHANGED <<task, echoes, sent, early, loose>> /\ sent \in Nat
      /\ echo.pc = "create" /\ echo'.pc # "create"
  <2>1. UNCHANGED <<task, echoes, sent, early, loose>> /\ echo.pc = "create"
    BY DEF EchoCreate, history
  <2>2. echo'.pc # "create"
    BY DEF EchoCreate, NoEcho, OwnInv, TypeInv, TypeOK
  <2> QED
    BY <2>1, <2>2, SentType DEF OwnInv
<1>1. PICK mid : mid = echo.mid /\ mid # NoMid /\ mid[1] \in 0..sent /\ Excused(mid)
  BY <1>0 DEF OwnInv, EchoInv
<1>2. CASE UNCHANGED thread
  <2>1. Harmless
    BY <1>0, <1>2, TasksStay, SameRows
  <2> QED
    BY <2>1, HarmlessKeeps
<1>3. CASE /\ \A r \in thread : r.id # mid
           /\ thread' = thread \cup {Message(echo.at, "manager", mid, {}, mid[1])}
  <2>1. PICK q :
          /\ thread' = thread \cup {q}
          /\ q.id = mid /\ q.by = "manager" /\ q.send = mid[1] /\ q.extra = {}
    <3> DEFINE row == Message(echo.at, "manager", mid, {}, mid[1])
    <3>1. row.id = mid /\ row.by = "manager" /\ row.send = mid[1] /\ row.extra = {}
      BY DEF Message
    <3>2. thread' = thread \cup {row}
      BY <1>3
    <3> HIDE DEF row
    <3> QED
      BY <3>1, <3>2
  <2>2. RowsStay
    <3>1. IsFiniteSet(thread')
      BY <2>1, FS_AddElement DEF OwnInv, RowsInv
    <3> QED
      BY <2>1, <3>1 DEF RowsStay, Outbound
  <2>3. Quiet
    <3>1. NewRows(0)
      BY <1>0, <1>1, <2>1 DEF NewRows, Native
    <3> QED
      BY <1>0, <2>2, <3>1 DEF Quiet
  <2>4. OneRowPerId'
    <3>1. \A x, y \in thread' : x.id = y.id /\ x.id # NoMid => x = y
      BY <1>3, <2>1 DEF OwnInv, RowsInv, OneRowPerId
    <3> QED
      BY <3>1 DEF OneRowPerId, NoMid
  <2>5. Grows
    BY <1>0 DEF Grows
  <2>6. RowsInv'
    <3>1. Excused(mid)'
      BY <1>1, <2>2, <2>5, ExcusedStays DEF OwnInv
    <3>2. Excused(q.id)'
      <4>1. PICK x : x = q.id
        OBVIOUS
      <4>2. x = mid
        BY <2>1, <4>1
      <4>3. Excused(x)'
        BY <3>1, <4>2
      <4> QED
        BY <4>1, <4>3
    <3>3. \A x \in thread' : x \in thread \/ x = q
      BY <2>1
    <3> QED
      BY <1>1, <2>1, <2>2, <2>4, <2>5, <3>2, <3>3, RowsKept DEF OwnInv
  <2>7. SendsInv'
    BY <2>3, QuietKeeps
  <2>8. EchoInv'
    BY <1>0, <2>2, <2>5, EchoKept DEF OwnInv
  <2> QED
    BY <2>6, <2>7, <2>8 DEF OwnInv
<1> QED
  BY <1>1, <1>2, <1>3 DEF EchoCreate

-----------------------------------------------------------------------------

LEMMA InitOwn == Init => OwnInv
<1> SUFFICES ASSUME Init PROVE OwnInv
  OBVIOUS
<1>1. /\ echoes = {[mid |-> <<1, 1>>, at |-> 2]} /\ sent = 1 /\ early = {}
      /\ echo.pc # "create"
      /\ \A p \in Tasks : task[p] = Idle
  BY DEF Init, NoEcho
<1>2. PICK got \in BOOLEAN :
        /\ loose = IF got THEN {} ELSE {1}
        /\ thread = {Message(1, "client", NoMid, {}, 0),
                     IF got THEN Message(3, "bot", <<1, 1>>, {<<1, 1>>}, 1)
                     ELSE Message(3, "bot", NoMid, {}, 1)}
  BY DEF Init
<1>3. PICK c, b : /\ thread = {c, b}
                  /\ c.by = "client" /\ c.id = NoMid /\ c.extra = {} /\ c.send = 0
                  /\ b.by = "bot" /\ b.send = 1
                  /\ got => b.id = <<1, 1>> /\ b.extra = {<<1, 1>>}
                  /\ ~got => b.id = NoMid /\ b.extra = {}
  <2> DEFINE client == Message(1, "client", NoMid, {}, 0)
             bot == IF got THEN Message(3, "bot", <<1, 1>>, {<<1, 1>>}, 1)
                    ELSE Message(3, "bot", NoMid, {}, 1)
  <2>1. thread = {client, bot}
    BY <1>2
  <2>2. /\ client.by = "client" /\ client.id = NoMid /\ client.extra = {} /\ client.send = 0
        /\ bot.by = "bot" /\ bot.send = 1
        /\ got => bot.id = <<1, 1>> /\ bot.extra = {<<1, 1>>}
        /\ ~got => bot.id = NoMid /\ bot.extra = {}
    BY DEF Message
  <2> HIDE DEF client, bot
  <2> QED
    BY <2>1, <2>2
<1>4. RowsInv
  <2>1. IsFiniteSet(thread)
    <3>1. IsFiniteSet({c}) /\ thread = {c} \cup {b}
      BY <1>3, FS_Singleton
    <3> QED
      BY <3>1, FS_AddElement
  <2>2. b.id # NoMid => got /\ b.send = b.id[1]
    BY <1>3
  <2>3. ~Native(c) /\ ~Native(b)
    BY <1>3 DEF Native
  <2>4. <<1, 1>> # NoMid
    BY DEF NoMid
  <2>5. OneRowPerId /\ ManagerRows /\ ExtraRows /\ MisfiledRows /\ NativeRows
    BY <1>3, <2>2, <2>3, <2>4
    DEF OneRowPerId, ManagerRows, ExtraRows, MisfiledRows, NativeRows
  <2>6. LooseRows
    BY <1>2, <1>3, <2>4 DEF LooseRows
  <2> QED
    BY <2>1, <2>5, <2>6 DEF RowsInv
<1>5. EchoesOfSends /\ RowsOfSends
  BY <1>1, <1>3 DEF EchoesOfSends, RowsOfSends
<1>6. \A p \in Tasks : \A t \in {task[p]} : Owns(t)
  BY <1>1 DEF Owns, Idle, OnItsWay
<1>7. Settled(1)
  <2>1. CASE got
    <3>1. \A i \in {1, 2} : Echoed(<<1, i>>) => i = 1
      BY <1>1 DEF Echoed
    <3> QED
      BY <1>3, <2>1, <3>1 DEF Settled, Finished, Native
  <2>2. CASE ~got
    BY <1>2, <2>2 DEF Settled
  <2> QED
    BY <2>1, <2>2
<1>8. task["reply"].got /\ Apiece /\ AllStored
  BY <1>1, <1>7 DEF Apiece, AllStored, Idle, Tasks
<1>9. EchoInv
  BY <1>1 DEF EchoInv
<1> QED
  BY <1>4, <1>5, <1>6, <1>8, <1>9, InitType DEF OwnInv, SendsInv

LEMMA StutterOwn ==
  ASSUME OwnInv, TypeInv', UNCHANGED vars
  PROVE  OwnInv'
<1>1. Harmless
  BY TasksStay, SameRows DEF vars
<1> QED
  BY <1>1, HarmlessKeeps

LEMMA StepOwn == OwnInv /\ [Next]_vars => OwnInv'
<1> SUFFICES ASSUME OwnInv, [Next]_vars PROVE OwnInv'
  OBVIOUS
<1>1. TypeInv'
  BY TypeStep DEF OwnInv
<1>2. CASE Harmless
  BY <1>1, <1>2, HarmlessKeeps
<1>3. ASSUME NEW p \in Tasks, Sending(p)
      PROVE  OwnInv'
  BY <1>1, <1>2, <1>3, FaultsHarmless, PartStep, PersistStep DEF Sending
<1>4. CASE NudgeStep
  BY <1>1, <1>2, <1>4, NudgeSilent, NudgeBeginsStep
<1>5. CASE TurnStart \/ TurnQuiet \/ TurnDecide \/ TurnHandoff
  BY <1>1, <1>2, <1>5, TurnsHarmless, DecideStep
<1>6. CASE EchoLookup \/ EchoCreate \/ ReplySend
  BY <1>1, <1>6, LookupStep, CreateStep, ReplyBegins
<1> QED
  BY <1>1, <1>2, <1>3, <1>4, <1>5, <1>6, StutterOwn, CallsHarmless, WorldHarmless DEF Next

\* persistNativeIgEcho takes an echo of the platform's own send for a manager's message only if
\* it handled it while the send was under way, if the send lost its ids or row, if it is of a
\* copy nobody heard of, or of a later part whose message is no longer among the recent ones
\* or whose first id an echo of like text gave to another row.
THEOREM EchoTheorem == Spec => []EchoKnowsOwn
<1>1. OwnInv => EchoKnowsOwn
  <2> SUFFICES ASSUME OwnInv, NEW r \in thread, Native(r), r.send # 0
               PROVE  \/ r.id \in early \/ r.send \in loose \/ r.id = Copy(r.send)
                      \/ r.id # <<r.send, 1>> /\ (Misfiled(r.send) \/ Forgotten(r.id))
    BY DEF EchoKnowsOwn
  <2>1. r.send = r.id[1] /\ Excused(r.id)
    BY DEF OwnInv, RowsInv, NativeRows
  <2> QED
    BY <2>1 DEF Excused
<1> QED
  BY <1>1, InitOwn, StepOwn, PTL DEF Spec

\* A send whose ids and row were not lost is exactly one row once its owner lets go of it,
\* whether persistIgOutboundMessage or the echo came first: its own, which knows its first id,
\* or the row without ids of another send whose text the echo's was like.
THEOREM OwnSendTheorem == Spec => []OwnSendOnce
<1>1. OwnInv => OwnSendOnce
  <2> SUFFICES ASSUME OwnInv, NEW n \in 1..sent,
                      n \notin loose \cup UnderWay \cup {task[p].send : p \in Tasks}
               PROVE  \E r \in thread :
                        /\ r.id = <<n, 1>>
                        /\ \A q \in thread : q.id = <<n, 1>> => q = r
                        /\ \/ r.send = n /\ <<n, 1>> \in r.extra
                           \/ r.send \in loose /\ <<<<n, 1>>, r.send>> \in Like
    BY DEF OwnSendOnce
  <2>1. Finished(n)
    BY OwnedOrSettled DEF Settled
  <2>2. PICK r \in thread : r.id = <<n, 1>> /\ (r.send # n \/ <<n, 1>> \in r.extra)
    BY <2>1 DEF Finished
  <2>3. r.id # NoMid /\ r.id[1] = n
    BY <2>2 DEF NoMid
  <2>4. \A q \in thread : q.id = <<n, 1>> => q = r
    BY <2>2, <2>3 DEF OwnInv, RowsInv, OneRowPerId
  <2>5. r.send # n => r.send \in loose /\ <<<<n, 1>>, r.send>> \in Like
    BY <2>2, <2>3 DEF OwnInv, RowsInv, MisfiledRows
  <2> QED
    BY <2>2, <2>4, <2>5
<1> QED
  BY <1>1, InitOwn, StepOwn, PTL DEF Spec
=============================================================================
