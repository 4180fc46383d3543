-------------------------- MODULE TenantJobsProofs --------------------------
(***************************************************************************)
(* The locks and the rows of TenantJobs, for any calls in either process.  *)
(***************************************************************************)
EXTENDS TenantJobs, SequenceTheorems, WellFoundedInduction, TLAPS

Row == [call : Calls, kind : Kinds, status : Statuses]

-----------------------------------------------------------------------------
(* Helpers.                                                                *)

\* Rewriting rows gives rows again.
LEMMA MapRows ==
  ASSUME NEW s \in Seq(Row), NEW f \in [DOMAIN s -> Row]
  PROVE  f \in Seq(Row) /\ DOMAIN f = DOMAIN s
<1>1. Len(s) \in Nat /\ DOMAIN s = 1..Len(s)
  BY LenProperties
<1> QED
  BY <1>1, SeqDef

\* What TypeOK says of the job table.
LEMMA JobRows ==
  ASSUME TypeOK
  PROVE  /\ jobs \in Seq(Row)
         /\ Len(jobs) \in Nat /\ DOMAIN jobs = 1..Len(jobs)
         /\ \A i \in DOMAIN jobs : jobs[i] \in Row
<1>1. jobs \in Seq(Row)
  BY DEF TypeOK, Row
<1>2. Len(jobs) \in Nat /\ DOMAIN jobs = 1..Len(jobs)
  BY <1>1, LenProperties
<1>3. \A i \in 1..Len(jobs) : jobs[i] \in Row
  BY <1>1, ElementOfSeq
<1> QED
  BY <1>1, <1>2, <1>3

\* The active row, where there is one, has a kind.
LEMMA ActiveKindType ==
  ASSUME TypeOK
  PROVE  ActiveKind \in Kinds \cup {"none"}
<1> DEFINE R == Running(Kinds)
           n == Len(jobs)
           T == {n - i : i \in R}
<1>1. n \in Nat /\ R \subseteq 1..n /\ \A i \in 1..n : jobs[i] \in Row
  BY JobRows DEF Running
<1>2. ASSUME R # {}
      PROVE  \E i \in R : \A j \in R : j <= i
  <2>1. T \subseteq Nat /\ T # {}
    BY <1>1, <1>2
  <2>2. PICK x \in T : \A y \in T : <<y, x>> \notin OpToRel(<, Nat)
    BY <2>1, WFMin, NatLessThanWellFounded
  <2>3. \A y \in T : ~(y < x)
    BY <2>1, <2>2 DEF OpToRel
  <2>4. PICK i \in R : x = n - i
    OBVIOUS
  <2>5. \A j \in R : n - j \in T /\ ~(n - j < n - i)
    BY <2>3, <2>4
  <2> QED
    BY <1>1, <2>4, <2>5
<1>3. ASSUME R # {}
      PROVE  (CHOOSE i \in R : \A j \in R : j <= i) \in R
  BY <1>2, <1>3
<1> QED
  BY <1>1, <1>3 DEF ActiveKind, Row

\* The row of c with another status.
LEMMA SetStatusRows ==
  ASSUME TypeOK, NEW c \in Calls, NEW s \in Statuses
  PROVE  /\ SetStatus(c, s) \in Seq(Row)
         /\ DOMAIN SetStatus(c, s) = DOMAIN jobs
         /\ \A i \in DOMAIN jobs :
              SetStatus(c, s)[i] = IF jobs[i].call = c
                                   THEN [jobs[i] EXCEPT !.status = s] ELSE jobs[i]
<1>1. jobs \in Seq(Row) /\ \A i \in DOMAIN jobs : jobs[i] \in Row
  BY JobRows
<1>2. \A i \in DOMAIN jobs : [jobs[i] EXCEPT !.status = s] \in Row
  BY <1>1 DEF Row
<1>3. SetStatus(c, s) \in [DOMAIN jobs -> Row]
  BY <1>1, <1>2 DEF SetStatus
<1> QED
  BY <1>1, <1>3, MapRows DEF SetStatus

\* A sweep leaves rows, none of them running anew.
LEMMA SweepRows ==
  ASSUME TypeOK, NEW n, Sweep(n)
  PROVE  /\ jobs' \in Seq(Row)
         /\ DOMAIN jobs' = DOMAIN jobs
         /\ \A i \in DOMAIN jobs : /\ jobs'[i].call = jobs[i].call
                                   /\ jobs'[i].status = "running" => jobs[i].status = "running"
<1>1. jobs \in Seq(Row) /\ \A i \in DOMAIN jobs : jobs[i] \in Row
  BY JobRows
<1>2. \A i \in DOMAIN jobs : [jobs[i] EXCEPT !.status = "failed"] \in Row
  BY <1>1 DEF Row, Statuses
<1>3. jobs' \in [DOMAIN jobs -> Row]
  BY <1>1, <1>2 DEF Sweep
<1> QED
  BY <1>1, <1>3, MapRows DEF Sweep, Row

-----------------------------------------------------------------------------
(* Types.  A call knows its kind once it is asked, so the row it creates   *)
(* has one.                                                                *)

KindKnown == \A c \in Calls : pc[c] = "idle" <=> kind[c] = "none"

Typed == TypeOK /\ KindKnown

\* A row that is created has its type.
LEMMA AppendRow ==
  ASSUME Typed, NEW c \in Calls, pc[c] # "idle"
  PROVE  LET q == Append(jobs, [call |-> c, kind |-> kind[c], status |-> "running"])
         IN  /\ q \in Seq(Row)
             /\ \A i \in DOMAIN q : (i \in DOMAIN jobs /\ q[i] = jobs[i]) \/ q[i].call = c
<1> DEFINE e == [call |-> c, kind |-> kind[c], status |-> "running"]
<1>1. e \in Row /\ e.call = c
  BY DEF Typed, TypeOK, KindKnown, Row, Statuses
<1>2. /\ Append(jobs, e) \in Seq(Row)
      /\ Len(Append(jobs, e)) = Len(jobs) + 1
      /\ \A i \in 1..Len(jobs) : Append(jobs, e)[i] = jobs[i]
      /\ Append(jobs, e)[Len(jobs) + 1] = e
  BY <1>1, JobRows, AppendProperties DEF Typed
<1>3. DOMAIN Append(jobs, e) = 1..(Len(jobs) + 1)
  BY <1>2, LenProperties
<1> HIDE DEF e
<1>4. \A i \in 1..(Len(jobs) + 1) : i \in 1..Len(jobs) \/ i = Len(jobs) + 1
  BY JobRows DEF Typed
<1>5. \A i \in 1..(Len(jobs) + 1) :
        (i \in DOMAIN jobs /\ Append(jobs, e)[i] = jobs[i]) \/ Append(jobs, e)[i].call = c
  BY <1>1, <1>2, <1>4, JobRows DEF Typed
<1> QED
  BY <1>2, <1>3, <1>5 DEF e

LEMMA DieTyped ==
  ASSUME Typed, NEW p \in Processes, Die(p)
  PROVE  Typed'
BY DEF Typed, TypeOK, KindKnown, Die, Phases

LEMMA JobTyped ==
  ASSUME Typed, NEW c \in Calls, JobStep(c)
  PROVE  Typed'
<1> USE DEF Typed, TypeOK, KindKnown, GoTo
<1>1. CASE Ask(c)
  <2>1. kind'[c] \in Kinds
    BY <1>1, AskedAssumption DEF Ask, Kinds
  <2> QED
    BY <1>1, <2>1, ActiveKindType DEF Ask, Phases, Kinds
<1>2. CASE Decide(c)
  BY <1>2 DEF Decide, Phases
<1>3. CASE Recheck(c)
  BY <1>3 DEF Recheck, Phases
<1>4. CASE ReadTenant(c)
  BY <1>4 DEF ReadTenant, Phases
<1>5. CASE TryAcquire(c)
  <2>1. locked' \in [Processes -> BOOLEAN]
    BY <1>5 DEF TryAcquire
  <2>2. pc' \in [Calls -> Phases] /\ KindKnown'
    BY <1>5 DEF TryAcquire, Phases, Critical
  <2> QED
    BY <1>5, <2>1, <2>2 DEF TryAcquire
<1>6. CASE Busy(c)
  BY <1>6 DEF Busy, Phases, Critical
<1>7. CASE CreateRow(c)
  <2>1. pc[c] = "creating"
    BY <1>7 DEF CreateRow
  <2>2. jobs' \in Seq(Row)
    BY <1>7, <2>1, AppendRow, JobRows DEF CreateRow
  <2>3. locked' \in [Processes -> BOOLEAN]
    BY <1>7 DEF CreateRow
  <2>4. pc' \in [Calls -> Phases] /\ KindKnown'
    BY <1>7, <2>1 DEF CreateRow, Phases, Critical
  <2> QED
    BY <1>7, <2>2, <2>3, <2>4 DEF CreateRow, Row
<1>8. CASE StartPipeline(c)
  BY <1>8 DEF StartPipeline, Phases, Critical
<1>9. CASE PipelineEnds(c)
  BY <1>9 DEF PipelineEnds, Phases, Critical
<1>10. CASE Finish(c)
  <2>1. CASE ~HasRow(c) /\ kind[c] # "destroy" /\ Die(Process(c))
    <3>1. Process(c) \in Processes
      BY DEF Process, Processes
    <3> QED
      BY <2>1, <3>1, DieTyped
  <2>2. CASE HasRow(c) \/ kind[c] = "destroy"
    <3>1. jobs' \in Seq(Row)
      BY <1>10, <2>2, SetStatusRows, JobRows DEF Finish, Statuses
    <3>2. pc' \in [Calls -> Phases] /\ KindKnown'
      BY <1>10, <2>2 DEF Finish, Phases, Critical
    <3> QED
      BY <1>10, <2>2, <3>1, <3>2 DEF Finish, Row
  <2> QED
    BY <1>10, <2>1, <2>2 DEF Finish
<1>11. CASE DeleteTenant(c)
  <2>1. <<>> \in Seq(Row) /\ SetStatus(c, "failed") \in Seq(Row)
    BY SetStatusRows, EmptySeq DEF Statuses
  <2> QED
    BY <1>11, <2>1 DEF DeleteTenant, Phases, Critical, Row
<1>12. CASE Release(c)
  BY <1>12 DEF Release, Phases, Processes, Process
<1> QED
  BY <1>1, <1>2, <1>3, <1>4, <1>5, <1>6, <1>7, <1>8, <1>9, <1>10, <1>11, <1>12 DEF JobStep

LEMMA InitTyped == Init => Typed
BY EmptySeq DEF Init, Typed, TypeOK, KindKnown, Phases, Kinds

LEMMA StepTyped ==
  ASSUME Typed, [Next]_vars
  PROVE  Typed'
<1>1. CASE \E c \in Calls : JobStep(c)
  BY <1>1, JobTyped
<1>2. CASE SoftDelete
  BY <1>2, EmptySeq DEF SoftDelete, Typed, TypeOK, KindKnown
<1>3. CASE \E p \in Processes : Crash(p)
  BY <1>3, DieTyped DEF Crash
<1>4. CASE \E n \in 1..Cardinality(Calls) : Sweep(n)
  <2>1. PICK n \in 1..Cardinality(Calls) : Sweep(n)
    BY <1>4
  <2>2. jobs' \in Seq(Row)
    BY <2>1, SweepRows DEF Typed
  <2> QED
    BY <2>1, <2>2 DEF Sweep, Typed, TypeOK, KindKnown, Row
<1>5. CASE UNCHANGED vars
  BY <1>5 DEF vars, Typed, TypeOK, KindKnown
<1> QED
  BY <1>1, <1>2, <1>3, <1>4, <1>5 DEF Next

\* Every variable of TenantJobs keeps its type.
THEOREM TypeCorrect == Spec => []TypeOK
<1>1. Init => Typed
  BY InitTyped
<1>2. Typed /\ [Next]_vars => Typed'
  BY StepTyped
<1> QED
  BY <1>1, <1>2, PTL DEF Spec, Typed

-----------------------------------------------------------------------------
(* Locks.  Whoever took it, the call that leaves its critical part gives   *)
(* the lock of its process back, so a set lock has a call to give it back. *)

LEMMA JobKeepsLock ==
  ASSUME Typed, NoLockLeak, NEW c \in Calls, JobStep(c)
  PROVE  NoLockLeak'
<1> USE DEF Typed, TypeOK, GoTo
<1>1. ASSUME UNCHANGED locked, pc[c] \notin Critical \cup {"thrown"} \/
                               pc'[c] \in Critical \cup {"thrown"},
             \A d \in Calls : d # c => pc'[d] = pc[d]
      PROVE  NoLockLeak'
  BY <1>1 DEF NoLockLeak
<1>2. ASSUME locked' = [locked EXCEPT ![Process(c)] = FALSE],
             \A d \in Calls : Process(d) # Process(c) => pc'[d] = pc[d]
      PROVE  NoLockLeak'
  BY <1>2 DEF NoLockLeak, Process, Processes
<1>3. CASE Ask(c)
  BY <1>1, <1>3 DEF Ask, Critical
<1>4. CASE Decide(c)
  BY <1>1, <1>4 DEF Decide, Critical
<1>5. CASE Recheck(c)
  BY <1>1, <1>5 DEF Recheck, Critical
<1>6. CASE ReadTenant(c)
  BY <1>1, <1>6 DEF ReadTenant, Critical
<1>7. CASE TryAcquire(c)
  <2>1. CASE locked[Process(c)]
    BY <1>1, <1>7, <2>1 DEF TryAcquire, Critical
  <2>2. CASE ~locked[Process(c)]
    BY <1>7, <2>2 DEF TryAcquire, Critical, NoLockLeak, Process, Processes
  <2> QED
    BY <2>1, <2>2
<1>8. CASE Busy(c)
  BY <1>1, <1>8 DEF Busy, Critical
<1>9. CASE CreateRow(c)
  BY <1>1, <1>2, <1>9 DEF CreateRow, Critical
<1>10. CASE StartPipeline(c)
  BY <1>1, <1>10 DEF StartPipeline, Critical
<1>11. CASE PipelineEnds(c)
  BY <1>1, <1>11 DEF PipelineEnds, Critical
<1>12. CASE Finish(c)
  <2>1. CASE HasRow(c) \/ kind[c] = "destroy"
    BY <1>1, <1>12, <2>1 DEF Finish, Critical
  <2>2. CASE ~HasRow(c) /\ kind[c] # "destroy"
    BY <1>2, <1>12, <2>2 DEF Finish, Die
  <2> QED
    BY <2>1, <2>2
<1>13. CASE DeleteTenant(c)
  BY <1>1, <1>13 DEF DeleteTenant, Critical
<1>14. CASE Release(c)
  BY <1>2, <1>14 DEF Release
<1> QED
  BY <1>3, <1>4, <1>5, <1>6, <1>7, <1>8, <1>9, <1>10, <1>11, <1>12, <1>13, <1>14 DEF JobStep

\* Whatever jobs are asked for, by whom they are joined and where they fail, a
\* tenant never stays locked without a job that will release it, but for a log
\* directory that could not be made.
THEOREM LockReleased == Spec => []NoLockLeak
<1>1. Init => NoLockLeak
  BY DEF Init, NoLockLeak, Processes
<1>2. ASSUME Typed, NoLockLeak, [Next]_vars
      PROVE  NoLockLeak'
  <2>1. CASE \E c \in Calls : JobStep(c)
    BY <1>2, <2>1, JobKeepsLock
  <2>2. CASE \E p \in Processes : Crash(p)
    BY <1>2, <2>2 DEF Crash, Die, NoLockLeak, Typed, TypeOK
  <2>3. CASE UNCHANGED <<locked, pc>>
    BY <1>2, <2>3 DEF NoLockLeak
  <2> QED
    BY <1>2, <2>1, <2>2, <2>3 DEF Next, SoftDelete, Sweep, vars
<1> QED
  BY <1>1, <1>2, InitTyped, StepTyped, PTL DEF Spec

-----------------------------------------------------------------------------
(* Backups and restores.  A call gets inside by taking the lock, or by the *)
(* fall-through of a deploy or destroy; without those the lock is set as   *)
(* long as a call is inside, and keeps the next one out.                   *)

GentleOnly(p) == \A c \in Calls : Process(c) = p => kind[c] \in Gentle \cup {"none"}

Alone ==
  \A p \in Processes :
    GentleOnly(p) => /\ Inside(p) # {} => locked[p]
                     /\ \A c, d \in Inside(p) : c = d

\* Being asked only for backups is not undone backwards.
LEMMA StillGentle ==
  ASSUME Typed, NEW c \in Calls, JobStep(c), NEW p \in Processes, GentleOnly(p)'
  PROVE  GentleOnly(p)
<1>1. CASE Ask(c)
  BY <1>1 DEF Ask, GentleOnly, Typed, TypeOK, KindKnown
<1>2. CASE kind' = kind
  BY <1>2 DEF GentleOnly
<1> QED
  BY <1>1, <1>2 DEF JobStep, Decide, Recheck, ReadTenant, TryAcquire, Busy, CreateRow,
     StartPipeline, PipelineEnds, Finish, Die, DeleteTenant, Release

LEMMA JobKeepsAlone ==
  ASSUME Typed, Alone, NEW c \in Calls, JobStep(c)
  PROVE  Alone'
<1> SUFFICES ASSUME NEW p \in Processes, GentleOnly(p)'
             PROVE  /\ Inside(p)' # {} => locked'[p]
                    /\ \A d, e \in Inside(p)' : d = e
  BY DEF Alone
<1>1. /\ Inside(p) # {} => locked[p]
      /\ \A d, e \in Inside(p) : d = e
  BY StillGentle DEF Alone
<1>2. Process(c) = p => kind[c] \in Gentle \cup {"none"}
  BY StillGentle DEF GentleOnly
<1>3. Process(c) \in Processes
  BY DEF Process, Processes
<1> USE DEF Typed, TypeOK, GoTo
<1> DEFINE Goal == /\ Inside(p)' # {} => locked'[p]
                   /\ \A d, e \in Inside(p)' : d = e
\* Nobody gets inside.
<1>4. ASSUME UNCHANGED locked, Inside(p)' \subseteq Inside(p)
      PROVE  Goal
  BY <1>1, <1>4
<1>5. ASSUME UNCHANGED locked, \A d \in Calls : d # c => pc'[d] = pc[d],
             pc'[c] \in Critical => pc[c] \in Critical
      PROVE  Goal
  <2>1. Inside(p)' \subseteq Inside(p)
    BY <1>5 DEF Inside
  <2> QED
    BY <1>4, <1>5, <2>1
\* The one inside leaves.
<1>6. ASSUME locked' = [locked EXCEPT ![Process(c)] = FALSE], pc[c] \in Critical,
             pc'[c] \notin Critical, \A d \in Calls : d # c => pc'[d] = pc[d]
      PROVE  Goal
  <2>1. CASE Process(c) = p
    <3>1. Inside(p)' = {}
      BY <1>1, <1>6, <2>1 DEF Inside
    <3> QED
      BY <3>1
  <2>2. CASE Process(c) # p
    <3>1. \A d \in Calls : Process(d) = p => pc'[d] = pc[d]
      BY <1>6, <2>2
    <3>2. Inside(p)' \subseteq Inside(p)
      BY <3>1 DEF Inside
    <3>3. locked'[p] = locked[p]
      BY <1>3, <1>6, <2>2
    <3> QED
      BY <1>1, <3>2, <3>3
  <2> QED
    BY <2>1, <2>2
<1>7. CASE Ask(c)
  BY <1>5, <1>7 DEF Ask, Critical
<1>8. CASE Decide(c)
  BY <1>5, <1>8 DEF Decide, Critical
<1>9. CASE Recheck(c)
  BY <1>5, <1>9 DEF Recheck, Critical
<1>10. CASE ReadTenant(c)
  BY <1>5, <1>10 DEF ReadTenant, Critical
<1>11. CASE TryAcquire(c)
  <2>1. CASE locked[Process(c)]
    BY <1>5, <1>11, <2>1 DEF TryAcquire, Critical
  <2>2. CASE ~locked[Process(c)]
    <3>1. \A d \in Calls : d # c => pc'[d] = pc[d]
      BY <1>11, <2>2 DEF TryAcquire
    <3>2. locked' = [locked EXCEPT ![Process(c)] = TRUE]
      BY <1>11, <2>2 DEF TryAcquire
    <3>3. CASE Process(c) = p
      <4>1. Inside(p) = {}
        BY <1>1, <2>2, <3>3
      <4>2. Inside(p)' \subseteq {c}
        BY <3>1, <4>1 DEF Inside
      <4> QED
        BY <3>2, <3>3, <4>2
    <3>4. CASE Process(c) # p
      <4>1. \A d \in Calls : Process(d) = p => pc'[d] = pc[d]
        BY <3>1, <3>4
      <4>2. Inside(p)' \subseteq Inside(p)
        BY <4>1 DEF Inside
      <4>3. locked'[p] = locked[p]
        BY <1>3, <3>2, <3>4
      <4> QED
        BY <1>1, <4>2, <4>3
    <3> QED
      BY <3>3, <3>4
  <2> QED
    BY <2>1, <2>2
<1>12. CASE Busy(c)
  <2>1. CASE Process(c) = p
    <3>1. kind[c] \in Gentle
      BY <1>2, <1>12, <2>1 DEF Busy, KindKnown
    <3> QED
      BY <1>5, <1>12, <3>1 DEF Busy, Critical
  <2>2. CASE Process(c) # p
    <3>1. Inside(p)' = Inside(p)
      BY <1>12, <2>2 DEF Busy, Inside
    <3> QED
      BY <1>4, <1>12, <3>1 DEF Busy
  <2> QED
    BY <2>1, <2>2
<1>13. CASE CreateRow(c)
  <2>1. pc[c] = "creating" /\ \A d \in Calls : d # c => pc'[d] = pc[d]
    BY <1>13 DEF CreateRow
  <2> QED
    BY <1>5, <1>6, <1>13, <2>1 DEF CreateRow, Critical
<1>14. CASE StartPipeline(c)
  BY <1>5, <1>14 DEF StartPipeline, Critical
<1>15. CASE PipelineEnds(c)
  BY <1>5, <1>15 DEF PipelineEnds, Critical
<1>16. CASE Finish(c)
  <2>1. CASE HasRow(c) \/ kind[c] = "destroy"
    BY <1>5, <1>16, <2>1 DEF Finish, Critical
  <2>2. CASE ~HasRow(c) /\ kind[c] # "destroy"
    <3>1. Die(Process(c))
      BY <1>16, <2>2 DEF Finish
    <3>2. Inside(p)' \subseteq Inside(p) /\ (Process(c) = p => Inside(p)' = {})
      BY <3>1 DEF Die, Inside, Critical
    <3>3. Process(c) # p => locked'[p] = locked[p]
      BY <1>3, <3>1 DEF Die
    <3> QED
      BY <1>1, <3>2, <3>3
  <2> QED
    BY <2>1, <2>2
<1>17. CASE DeleteTenant(c)
  BY <1>5, <1>17 DEF DeleteTenant, Critical
<1>18. CASE Release(c)
  BY <1>6, <1>18 DEF Release, Critical
<1> QED
  BY <1>7, <1>8, <1>9, <1>10, <1>11, <1>12, <1>13, <1>14, <1>15, <1>16, <1>17, <1>18
  DEF JobStep

\* Any number of backups and restores asked of one process exclude each other,
\* even when their rows are swept under them or the tenant is deleted.
THEOREM BackupsExclude == Spec => []BackupsAlone
<1>1. Init => Alone
  BY DEF Init, Alone, Inside, Critical
<1>2. ASSUME Typed, Alone, [Next]_vars
      PROVE  Alone'
  <2>1. CASE \E c \in Calls : JobStep(c)
    BY <1>2, <2>1, JobKeepsAlone
  <2>2. CASE \E p \in Processes : Crash(p)
    <3>1. PICK q \in Processes : Die(q)
      BY <2>2 DEF Crash
    <3>2. \A p \in Processes : GentleOnly(p)' => GentleOnly(p)
      BY <3>1 DEF Die, GentleOnly
    <3>3. Inside(q)' = {}
      BY <3>1 DEF Die, Inside, Critical
    <3>4. \A p \in Processes : p # q => Inside(p)' = Inside(p) /\ locked'[p] = locked[p]
      BY <1>2, <3>1 DEF Die, Inside, Typed, TypeOK
    <3> QED
      BY <1>2, <3>2, <3>3, <3>4 DEF Alone
  <2>3. CASE UNCHANGED <<locked, pc, kind>>
    BY <1>2, <2>3 DEF Alone, GentleOnly, Inside
  <2> QED
    BY <1>2, <2>1, <2>2, <2>3 DEF Next, SoftDelete, Sweep, vars
<1>3. Alone => BackupsAlone
  BY DEF Alone, BackupsAlone, GentleOnly
<1> QED
  BY <1>1, <1>2, <1>3, InitTyped, StepTyped, PTL DEF Spec

-----------------------------------------------------------------------------
(* Rows.  A call owns its running row from the insert to finishJob.        *)

Owning == {"preparing", "piping", "succeeding", "failing", "dead"}

\* A running row stays owned when no row starts to run and no owner of a running
\* row stops to own it.
LEMMA RowsKept ==
  ASSUME Typed, Typed', RunningRowHasJob,
         \A i \in DOMAIN jobs' : jobs'[i].status = "running" =>
            /\ i \in DOMAIN jobs
            /\ jobs[i].status = "running" /\ jobs'[i].call = jobs[i].call
            /\ pc[jobs[i].call] \in Owning => pc'[jobs[i].call] \in Owning
  PROVE  RunningRowHasJob'
<1>1. \A i \in DOMAIN jobs : jobs[i] \in Row
  BY JobRows DEF Typed
<1>2. \A i \in DOMAIN jobs : jobs[i].status = "running" => pc[jobs[i].call] \in Owning
  BY <1>1 DEF RunningRowHasJob, Running, Row, Owning
<1> QED
  BY <1>2 DEF RunningRowHasJob, Running, Owning

LEMMA DieKeepsRows ==
  ASSUME Typed, Typed', RunningRowHasJob, NEW p \in Processes, Die(p)
  PROVE  RunningRowHasJob'
<1>1. \A d \in Calls : pc[d] \in Owning => pc'[d] \in Owning
  BY DEF Die, Owning
<1>2. jobs' = jobs /\ \A i \in DOMAIN jobs : jobs[i].call \in Calls
  BY JobRows DEF Die, Typed, Row
<1> QED
  BY <1>1, <1>2, RowsKept

LEMMA JobKeepsRows ==
  ASSUME Typed, Typed', RunningRowHasJob, NEW c \in Calls, JobStep(c)
  PROVE  RunningRowHasJob'
<1>1. \A i \in DOMAIN jobs : jobs[i] \in Row /\ jobs[i].call \in Calls
  BY JobRows DEF Typed, Row
<1>2. \A i \in DOMAIN jobs : jobs[i].status = "running" => pc[jobs[i].call] \in Owning
  BY <1>1 DEF RunningRowHasJob, Running, Row, Owning
<1>3. pc \in [Calls -> Phases]
  BY DEF Typed, TypeOK
\* The rows stay, and c owns none or goes on owning.
<1>4. ASSUME UNCHANGED jobs, pc[c] \notin Owning \/ pc'[c] \in Owning,
             \A d \in Calls : d # c => pc'[d] = pc[d]
      PROVE  RunningRowHasJob'
  <2>1. \A d \in Calls : pc[d] \in Owning => pc'[d] \in Owning
    BY <1>4
  <2> QED
    BY <1>1, <1>4, <2>1, RowsKept
\* The row of c gets a status that is final.
<1>5. ASSUME NEW t \in {"succeeded", "failed"}, jobs' = SetStatus(c, t),
             \A d \in Calls : d # c => pc'[d] = pc[d]
      PROVE  RunningRowHasJob'
  <2>1. /\ DOMAIN jobs' = DOMAIN jobs
        /\ \A i \in DOMAIN jobs :
             jobs'[i] = IF jobs[i].call = c THEN [jobs[i] EXCEPT !.status = t] ELSE jobs[i]
    BY <1>5, SetStatusRows DEF Typed, Statuses
  <2>2. \A i \in DOMAIN jobs : jobs[i].call = c => jobs'[i].status # "running"
    BY <1>1, <1>5, <2>1 DEF Row
  <2>3. \A i \in DOMAIN jobs : jobs[i].call # c =>
          jobs'[i] = jobs[i] /\ pc'[jobs[i].call] = pc[jobs[i].call]
    BY <1>1, <1>5, <2>1
  <2> QED
    BY <2>1, <2>2, <2>3, RowsKept
<1> USE DEF GoTo
<1>6. CASE Ask(c)
  BY <1>3, <1>4, <1>6 DEF Ask, Owning
<1>7. CASE Decide(c)
  BY <1>3, <1>4, <1>7 DEF Decide, Owning
<1>8. CASE Recheck(c)
  BY <1>3, <1>4, <1>8 DEF Recheck, Owning
<1>9. CASE ReadTenant(c)
  BY <1>3, <1>4, <1>9 DEF ReadTenant, Owning
<1>10. CASE TryAcquire(c)
  BY <1>3, <1>4, <1>10 DEF TryAcquire, Owning
<1>11. CASE Busy(c)
  BY <1>3, <1>4, <1>11 DEF Busy, Owning
<1>12. CASE CreateRow(c)
  <2>1. pc[c] = "creating" /\ \A d \in Calls : d # c => pc'[d] = pc[d]
    BY <1>3, <1>12 DEF CreateRow
  <2>2. CASE jobs' = jobs
    BY <1>4, <2>1, <2>2 DEF Owning
  <2>3. CASE /\ jobs' = Append(jobs, [call |-> c, kind |-> kind[c], status |-> "running"])
             /\ pc' = [pc EXCEPT ![c] = "preparing"]
    <3>1. \A i \in DOMAIN jobs' :
            (i \in DOMAIN jobs /\ jobs'[i] = jobs[i]) \/ jobs'[i].call = c
      BY <2>1, <2>3, AppendRow
    <3>2. pc'[c] \in Owning
      BY <1>3, <2>3 DEF Owning
    <3>3. \A i \in DOMAIN jobs : jobs[i].status = "running" => pc'[jobs[i].call] \in Owning
      BY <1>1, <1>2, <2>1, <3>2
    <3>4. \A i \in DOMAIN jobs' : jobs'[i].status = "running" => pc'[jobs'[i].call] \in Owning
      BY <3>1, <3>2, <3>3
    <3> QED
      BY <3>4 DEF RunningRowHasJob, Running, Owning
  <2> QED
    BY <1>12, <2>2, <2>3 DEF CreateRow
<1>13. CASE StartPipeline(c)
  BY <1>3, <1>4, <1>13 DEF StartPipeline, Owning
<1>14. CASE PipelineEnds(c)
  BY <1>3, <1>4, <1>14 DEF PipelineEnds, Owning
<1>15. CASE Finish(c)
  <2>1. CASE HasRow(c)
    BY <1>3, <1>5, <1>15, <2>1 DEF Finish
  <2>2. CASE ~HasRow(c) /\ kind[c] = "destroy"
    <3>1. jobs' = jobs /\ \A d \in Calls : d # c => pc'[d] = pc[d]
      BY <1>3, <1>15, <2>2 DEF Finish
    <3>2. \A i \in DOMAIN jobs : jobs[i].call # c
      BY <2>2 DEF HasRow
    <3> QED
      BY <1>1, <3>1, <3>2, RowsKept
  <2>3. CASE ~HasRow(c) /\ kind[c] # "destroy"
    <3>1. Die(Process(c)) /\ Process(c) \in Processes
      BY <1>15, <2>3 DEF Finish, Process, Processes
    <3> QED
      BY <3>1, DieKeepsRows
  <2> QED
    BY <2>1, <2>2, <2>3
<1>16. CASE DeleteTenant(c)
  <2>1. CASE jobs' = <<>>
    BY <2>1, RowsKept
  <2>2. CASE jobs' = SetStatus(c, "failed")
    BY <1>3, <1>5, <1>16, <2>2 DEF DeleteTenant
  <2> QED
    BY <1>16, <2>1, <2>2 DEF DeleteTenant
<1>17. CASE Release(c)
  BY <1>3, <1>4, <1>17 DEF Release, Owning
<1> QED
  BY <1>6, <1>7, <1>8, <1>9, <1>10, <1>11, <1>12, <1>13, <1>14, <1>15, <1>16, <1>17
  DEF JobStep

\* A running row belongs to a job that has still to finish it, or whose process
\* died, for any number of jobs that overlap or are deleted under way.
THEOREM RowsOwned == Spec => []RunningRowHasJob
<1>1. Init => RunningRowHasJob
  BY DEF Init, RunningRowHasJob, Running
<1>2. ASSUME Typed, Typed', RunningRowHasJob, [Next]_vars
      PROVE  RunningRowHasJob'
  <2>1. CASE \E c \in Calls : JobStep(c)
    BY <1>2, <2>1, JobKeepsRows
  <2>2. CASE SoftDelete
    BY <1>2, <2>2, RowsKept DEF SoftDelete
  <2>3. CASE \E p \in Processes : Crash(p)
    BY <1>2, <2>3, DieKeepsRows DEF Crash
  <2>4. CASE \E n \in 1..Cardinality(Calls) : Sweep(n)
    <3>1. PICK n \in 1..Cardinality(Calls) : Sweep(n)
      BY <2>4
    <3>2. pc' = pc
      BY <3>1 DEF Sweep
    <3> QED
      BY <1>2, <3>1, <3>2, SweepRows, RowsKept DEF Typed
  <2>5. CASE UNCHANGED vars
    BY <1>2, <2>5, RowsKept DEF vars
  <2> QED
    BY <1>2, <2>1, <2>2, <2>3, <2>4, <2>5 DEF Next
<1> QED
  BY <1>1, <1>2, InitTyped, StepTyped, PTL DEF Spec
=============================================================================
