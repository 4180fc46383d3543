-------------------------- MODULE TenantHostProofs --------------------------
(***************************************************************************)
(* The host of TenantHost, for any calls: it is an instance of the jobs of *)
(* TenantJobs, no failure of a connection or a script makes a job succeed, *)
(* and deploys exclude each other by their lock file.                      *)
(***************************************************************************)
EXTENDS TenantHost, TenantJobsProofs

-----------------------------------------------------------------------------
(* Refinement.                                                             *)

\* A step of the composition is a step of the jobs, or leaves them alone.
LEMMA StepImplements ==
  ASSUME [HostNext]_hostVars
  PROVE  [Next]_vars
<1>1. CASE UNCHANGED hostVars
  BY <1>1 DEF hostVars, vars
<1>2. CASE AroundStep
  BY <1>2 DEF AroundStep, Next
<1>3. ASSUME NEW c \in Calls, LocalStep(c)
      PROVE  Next
  BY <1>3 DEF LocalStep, Next, JobStep
<1>4. ASSUME NEW c \in Calls, RemoteStep(c)
      PROVE  [Next]_vars
  <2>1. CASE PreDeployBackup(c)
    BY <2>1 DEF PreDeployBackup
  <2>2. CASE StartPipeline(c) \/ PipelineEnds(c)
    BY <2>2 DEF Next, JobStep
  <2> QED
    BY <1>4, <2>1, <2>2 DEF RemoteStep, CallStarts, CallFails, StreamEnds
<1>5. ASSUME NEW c \in Calls, ScriptStep(c)
      PROVE  UNCHANGED vars
  BY <1>5 DEF ScriptStep, DumpEnds, DeployLocks, ClearsLock, Deprovisions, ScriptEnds
<1> QED
  BY <1>1, <1>2, <1>3, <1>4, <1>5 DEF HostNext

\* Whatever the scripts and the connections do, the server sees a behaviour of
\* TenantJobs: what is proved of Spec holds with a host as well.
THEOREM HostImplementsJobs == HostSpec => Spec
<1>1. HostInit => Init
  BY DEF HostInit
<1>2. [HostNext]_hostVars => [Next]_vars
  BY StepImplements
<1> QED
  BY <1>1, <1>2, PTL DEF HostSpec, Spec

-----------------------------------------------------------------------------
(* Types.                                                                  *)

\* The server's types and the host's.
HostTyped == Typed /\ HostTypeOK

LEMMA ScriptTyped ==
  ASSUME HostTyped, NEW c \in Calls, RemoteStep(c) \/ ScriptStep(c)
  PROVE  HostTypeOK'
<1> USE DEF HostTyped, HostTypeOK, Script, Scripts
<1>1. CASE PreDeployBackup(c)
  BY <1>1 DEF PreDeployBackup
<1>2. CASE CallStarts(c)
  BY <1>2 DEF CallStarts
<1>3. CASE CallFails(c) \/ StreamEnds(c)
  BY <1>3 DEF CallFails, StreamEnds
<1>4. CASE DumpEnds(c)
  BY <1>4 DEF DumpEnds
<1>5. CASE DeployLocks(c)
  BY <1>5 DEF DeployLocks
<1>6. CASE ClearsLock(c)
  BY <1>6 DEF ClearsLock
<1>7. CASE Deprovisions(c)
  BY <1>7 DEF Deprovisions
<1>8. CASE ScriptEnds(c)
  BY <1>8 DEF ScriptEnds
<1> QED
  BY <1>1, <1>2, <1>3, <1>4, <1>5, <1>6, <1>7, <1>8 DEF RemoteStep, ScriptStep

LEMMA StepHostTyped ==
  ASSUME HostTyped, [HostNext]_hostVars
  PROVE  HostTyped'
<1>1. Typed'
  BY StepImplements, StepTyped DEF HostTyped
<1>2. CASE UNCHANGED <<host, flock>>
  BY <1>1, <1>2 DEF HostTyped, HostTypeOK
<1>3. ASSUME NEW c \in Calls, RemoteStep(c) \/ ScriptStep(c)
      PROVE  HostTypeOK'
  BY <1>3, ScriptTyped
<1> QED
  BY <1>1, <1>2, <1>3 DEF HostTyped, HostNext, LocalStep, AroundStep, hostVars

LEMMA InitHostTyped == HostInit => HostTyped
BY InitTyped DEF HostInit, HostTyped, HostTypeOK, Scripts

\* The types of the host hold for any number of calls.
THEOREM HostTypeCorrect == HostSpec => []HostTypeOK
<1>1. HostTyped => HostTypeOK
  BY DEF HostTyped
<1> QED
  BY <1>1, InitHostTyped, StepHostTyped, PTL DEF HostSpec

-----------------------------------------------------------------------------
(* The script of a job follows the job.                                    *)

\* Before a job has its row.
Early == {"idle", "checked", "recheck", "reading", "acquiring", "busy", "creating"}

\* No script runs before the job calls for it, a dump and a start belong to a
\* deploy, a deprovisioning to a destroy.
Phased ==
  \A c \in Calls :
    /\ pc[c] \in Early => host[c] = "none"
    /\ pc[c] = "preparing" => host[c] \in {"none", "dumping", "dumped"}
    /\ pc[c] = "piping" => host[c] \notin {"dumping", "dumped"}
    /\ host[c] \in {"dumping", "dumped", "starting"} => kind[c] = "deploy"
    /\ host[c] = "clearing" => kind[c] = "destroy"

\* A row has the kind of a call that got as far as storing it.
RowsKnown ==
  \A i \in DOMAIN jobs :
    /\ pc[jobs[i].call] \notin Early
    /\ jobs[i].kind = kind[jobs[i].call]

\* What a step of the jobs may do to a call: it never returns to a phase
\* before its row, and keeps its kind once it has one.
Onward(c) ==
  /\ pc'[c] \in Early => pc[c] \in Early
  /\ pc'[c] = "preparing" => pc[c] \in {"creating", "preparing"}
  /\ kind'[c] = kind[c] \/ pc[c] = "idle"

LEMMA DieOnward ==
  ASSUME Typed, NEW p \in Processes, Die(p), NEW c \in Calls
  PROVE  Onward(c)
BY DEF Die, Onward, Typed, TypeOK, Early

LEMMA StepOnward ==
  ASSUME Typed, [Next]_vars, NEW c \in Calls
  PROVE  Onward(c)
<1> USE DEF Onward, Typed, TypeOK, GoTo, Early
<1>1. ASSUME NEW d \in Calls, JobStep(d)
      PROVE  Onward(c)
  <2>1. CASE Ask(d)
    BY <2>1 DEF Ask
  <2>2. CASE Decide(d)
    BY <2>2 DEF Decide
  <2>3. CASE Recheck(d)
    BY <2>3 DEF Recheck
  <2>4. CASE ReadTenant(d)
    BY <2>4 DEF ReadTenant
  <2>5. CASE TryAcquire(d)
    BY <2>5 DEF TryAcquire
  <2>6. CASE Busy(d)
    BY <2>6 DEF Busy
  <2>7. CASE CreateRow(d)
    BY <2>7 DEF CreateRow
  <2>8. CASE StartPipeline(d)
    BY <2>8 DEF StartPipeline
  <2>9. CASE PipelineEnds(d)
    BY <2>9 DEF PipelineEnds
  <2>10. CASE Finish(d)
    <3>1. Process(d) \in Processes
      BY DEF Process, Processes
    <3>2. CASE Die(Process(d))
      BY <3>1, <3>2, DieOnward
    <3> QED
      BY <2>10, <3>2 DEF Finish
  <2>11. CASE DeleteTenant(d)
    BY <2>11 DEF DeleteTenant
  <2>12. CASE Release(d)
    BY <2>12 DEF Release
  <2> QED
    BY <1>1, <2>1, <2>2, <2>3, <2>4, <2>5, <2>6, <2>7, <2>8, <2>9, <2>10, <2>11, <2>12
    DEF JobStep
<1>2. CASE SoftDelete
  BY <1>2 DEF SoftDelete
<1>3. CASE \E p \in Processes : Crash(p)
  BY <1>3, DieOnward DEF Crash
<1>4. CASE \E n \in 1..Cardinality(Calls) : Sweep(n)
  BY <1>4 DEF Sweep
<1>5. CASE UNCHANGED vars
  BY <1>5 DEF vars
<1> QED
  BY <1>1, <1>2, <1>3, <1>4, <1>5 DEF Next

\* A step that no call to the worker takes leaves pipelines alone.
LEMMA QuietCalls ==
  ASSUME Typed, NEW c \in Calls, (\E d \in Calls : LocalStep(d)) \/ AroundStep
  PROVE  /\ pc'[c] = "piping" => pc[c] = "piping"
         /\ pc'[c] \in {"succeeding", "deleting"} => pc[c] \in {"succeeding", "deleting"}
<1> USE DEF Typed, TypeOK, GoTo
<1>1. ASSUME NEW d \in Calls, LocalStep(d)
      PROVE  /\ pc'[c] = "piping" => pc[c] = "piping"
             /\ pc'[c] \in {"succeeding", "deleting"} => pc[c] \in {"succeeding", "deleting"}
  <2>1. CASE Ask(d)
    BY <2>1 DEF Ask
  <2>2. CASE Decide(d)
    BY <2>2 DEF Decide
  <2>3. CASE Recheck(d)
    BY <2>3 DEF Recheck
  <2>4. CASE ReadTenant(d)
    BY <2>4 DEF ReadTenant
  <2>5. CASE TryAcquire(d)
    BY <2>5 DEF TryAcquire
  <2>6. CASE Busy(d)
    BY <2>6 DEF Busy
  <2>7. CASE CreateRow(d)
    BY <2>7 DEF CreateRow
  <2>8. CASE Finish(d)
    BY <2>8 DEF Finish, Die
  <2>9. CASE DeleteTenant(d)
    BY <2>9 DEF DeleteTenant
  <2>10. CASE Release(d)
    BY <2>10 DEF Release
  <2> QED
    BY <1>1, <2>1, <2>2, <2>3, <2>4, <2>5, <2>6, <2>7, <2>8, <2>9, <2>10 DEF LocalStep
<1>2. CASE AroundStep
  BY <1>2 DEF AroundStep, SoftDelete, Crash, Die, Sweep
<1> QED
  BY <1>1, <1>2

LEMMA ScriptPhased ==
  ASSUME HostTyped, Phased, NEW c \in Calls, RemoteStep(c) \/ ScriptStep(c)
  PROVE  Phased'
<1> USE DEF HostTyped, Typed, TypeOK, HostTypeOK, Script, Phased, Early
<1>1. CASE PreDeployBackup(c)
  BY <1>1 DEF PreDeployBackup, vars
<1>2. CASE CallStarts(c)
  <2>1. UNCHANGED kind /\ pc' = [pc EXCEPT ![c] = pc'[c]] /\ pc[c] = "preparing"
                       /\ pc'[c] \in {"piping", "failing"}
    BY <1>2 DEF CallStarts, StartPipeline, GoTo
  <2>2. CASE kind[c] = "deploy"
    BY <1>2, <2>1, <2>2 DEF CallStarts
  <2>3. CASE kind[c] = "destroy"
    BY <1>2, <2>1, <2>3 DEF CallStarts
  <2>4. CASE kind[c] \notin {"deploy", "destroy"}
    BY <1>2, <2>1, <2>4 DEF CallStarts
  <2> QED
    BY <2>2, <2>3, <2>4
<1>3. CASE CallFails(c)
  BY <1>3 DEF CallFails, StartPipeline, GoTo
<1>4. CASE StreamEnds(c)
  BY <1>4 DEF StreamEnds, PipelineEnds, GoTo
<1>5. CASE DumpEnds(c)
  BY <1>5 DEF DumpEnds, vars
<1>6. CASE DeployLocks(c)
  BY <1>6 DEF DeployLocks, vars
<1>7. CASE ClearsLock(c)
  BY <1>7 DEF ClearsLock, vars
<1>8. CASE Deprovisions(c)
  BY <1>8 DEF Deprovisions, vars
<1>9. CASE ScriptEnds(c)
  BY <1>9 DEF ScriptEnds, vars
<1> QED
  BY <1>1, <1>2, <1>3, <1>4, <1>5, <1>6, <1>7, <1>8, <1>9 DEF RemoteStep, ScriptStep

LEMMA StepPhased ==
  ASSUME HostTyped, Phased, [HostNext]_hostVars
  PROVE  Phased'
<1>1. CASE (\E c \in Calls : LocalStep(c)) \/ AroundStep
  <2>1. \A c \in Calls : Onward(c)
    BY StepImplements, StepOnward DEF HostTyped
  <2>2. \A c \in Calls : pc'[c] = "piping" => pc[c] = "piping"
    BY <1>1, QuietCalls DEF HostTyped
  <2>3. UNCHANGED host
    BY <1>1 DEF LocalStep, AroundStep
  <2> QED
    BY <2>1, <2>2, <2>3 DEF Phased, Onward, Early
<1>2. ASSUME NEW c \in Calls, RemoteStep(c) \/ ScriptStep(c)
      PROVE  Phased'
  BY <1>2, ScriptPhased
<1>3. CASE UNCHANGED hostVars
  BY <1>3 DEF hostVars, Phased
<1> QED
  BY <1>1, <1>2, <1>3 DEF HostNext

LEMMA InitPhased == HostInit => Phased
BY DEF HostInit, Init, Phased, Early

-----------------------------------------------------------------------------
(* Dumps.                                                                  *)

\* What a job learns as success is the good end of its script or dump.
LEMMA LearnsTruth ==
  ASSUME NEW c \in Calls, LearnsSuccess(c)
  PROVE  host[c] \in {"good", "dumped"}
<1>1. Outcome(c) = "good"
  BY DEF LearnsSuccess, ExitCode, Outcome
<1> QED
  BY <1>1 DEF Outcome

LEMMA DumpHolds ==
  ASSUME HostTyped, Phased, [HostNext]_hostVars, NEW d \in Calls, host[d] = "dumping"
  PROVE  host'[d] \in {"dumping", "dumped"}
<1> USE DEF HostTyped, HostTypeOK, Script
<1>1. kind[d] = "deploy"
  BY DEF Phased
<1>2. ASSUME NEW c \in Calls, RemoteStep(c)
      PROVE  host'[d] \in {"dumping", "dumped"}
  <2>1. CASE PreDeployBackup(c)
    BY <2>1 DEF PreDeployBackup
  <2>2. CASE CallStarts(c)
    <3>1. c # d
      BY <1>1, <2>2, LearnsTruth DEF CallStarts, DumpAllows
    <3>2. UNCHANGED host \/ \E s \in Scripts : Script(c, s)
      BY <2>2 DEF CallStarts, Scripts
    <3> QED
      BY <3>1, <3>2
  <2>3. CASE CallFails(c) \/ StreamEnds(c)
    BY <2>3 DEF CallFails, StreamEnds
  <2> QED
    BY <1>2, <2>1, <2>2, <2>3 DEF RemoteStep
<1>3. ASSUME NEW c \in Calls, ScriptStep(c)
      PROVE  host'[d] \in {"dumping", "dumped"}
  BY <1>3 DEF ScriptStep, DumpEnds, DeployLocks, ClearsLock, Deprovisions, ScriptEnds
<1> QED
  BY <1>2, <1>3 DEF HostNext, LocalStep, AroundStep, hostVars

\* A deploy never begins over a dump that is under way or failed on the host,
\* whatever the server heard, for any number of overlapping jobs.
THEOREM DumpTheorem == HostSpec => NoDeployOverFailedDump
<1>1. HostInit => HostTyped /\ Phased
  BY InitHostTyped, InitPhased
<1>2. HostTyped /\ Phased /\ [HostNext]_hostVars => HostTyped' /\ Phased'
  BY StepHostTyped, StepPhased
<1>3. HostTyped /\ Phased /\ [HostNext]_hostVars
        => [\A c \in Calls : host[c] = "dumping" => host'[c] \in {"dumping", "dumped"}]_hostVars
  BY DumpHolds
<1> QED
  BY <1>1, <1>2, <1>3, PTL DEF HostSpec, NoDeployOverFailedDump

-----------------------------------------------------------------------------
(* The lock of the deploy script.                                          *)

\* Why DeploysAlone holds: until a deprovisioning removes the file, a deploy at
\* work holds its lock.
HoldsLock == LockRemoved \/ \A c \in Deploying : flock = c

LEMMA RemovedForGood ==
  ASSUME HostTyped, Phased, [HostNext]_hostVars, LockRemoved
  PROVE  LockRemoved'
<1> USE DEF HostTyped, Typed, TypeOK, HostTypeOK, Script
<1>1. PICK d \in Calls : kind[d] = "destroy" /\ host[d] \in {"clearing", "good", "bad"}
  BY DEF LockRemoved
<1>2. pc[d] \notin Early /\ pc[d] # "preparing"
  BY <1>1 DEF Phased
<1>3. kind'[d] = "destroy"
  BY <1>1, <1>2, StepImplements, StepOnward DEF Onward, Early
<1>4. ASSUME NEW c \in Calls, RemoteStep(c)
      PROVE  host'[d] = host[d]
  <2>1. CASE pc[c] = "preparing"
    <3>1. UNCHANGED host \/ \E s \in Scripts : Script(c, s)
      BY <1>4 DEF RemoteStep, PreDeployBackup, CallStarts, CallFails, StreamEnds, Scripts
    <3> QED
      BY <1>2, <2>1, <3>1
  <2>2. CASE pc[c] # "preparing"
    BY <1>4, <2>2 DEF RemoteStep, PreDeployBackup, CallStarts, CallFails, StreamEnds,
                      StartPipeline
  <2> QED
    BY <2>1, <2>2
<1>5. ASSUME NEW c \in Calls, ScriptStep(c)
      PROVE  host'[d] \in {"clearing", "good", "bad"}
  BY <1>1, <1>5
  DEF ScriptStep, DumpEnds, DeployLocks, ClearsLock, Deprovisions, ScriptEnds
<1>6. host'[d] \in {"clearing", "good", "bad"}
  BY <1>1, <1>4, <1>5 DEF HostNext, LocalStep, AroundStep, hostVars
<1> QED
  BY <1>3, <1>6 DEF LockRemoved

LEMMA ScriptHoldsLock ==
  ASSUME HostTyped, Phased, \A d \in Deploying : flock = d,
         NEW c \in Calls, RemoteStep(c) \/ ScriptStep(c)
  PROVE  HoldsLock'
<1> USE DEF HostTyped, Typed, TypeOK, HostTypeOK, Script, Deploying
<1>1. CASE RemoteStep(c)
  <2>1. UNCHANGED <<kind, flock>>
    BY <1>1 DEF RemoteStep, PreDeployBackup, CallStarts, CallFails, StreamEnds,
                StartPipeline, PipelineEnds, vars
  <2>2. Deploying' \subseteq Deploying
    <3>1. CASE PreDeployBackup(c)
      BY <2>1, <3>1 DEF PreDeployBackup
    <3>2. CASE CallStarts(c)
      BY <2>1, <3>2 DEF CallStarts
    <3>3. CASE CallFails(c) \/ StreamEnds(c)
      BY <2>1, <3>3 DEF CallFails, StreamEnds
    <3> QED
      BY <1>1, <3>1, <3>2, <3>3 DEF RemoteStep
  <2> QED
    BY <2>1, <2>2 DEF HoldsLock
<1>2. CASE DumpEnds(c)
  BY <1>2 DEF DumpEnds, HoldsLock, vars
<1>3. CASE DeployLocks(c)
  BY <1>3, NoCallAssumption DEF DeployLocks, HoldsLock, vars
<1>4. CASE ClearsLock(c)
  BY <1>4 DEF ClearsLock, HoldsLock, LockRemoved, vars
<1>5. CASE Deprovisions(c)
  BY <1>5 DEF Deprovisions, HoldsLock, vars
<1>6. CASE ScriptEnds(c)
  <2>1. host'[c] # "running" /\ \A d \in Calls : d # c => host'[d] = host[d]
    BY <1>6 DEF ScriptEnds
  <2>2. UNCHANGED kind /\ (flock' = flock \/ flock = c)
    BY <1>6 DEF ScriptEnds, vars
  <2> QED
    BY <2>1, <2>2 DEF HoldsLock
<1> QED
  BY <1>1, <1>2, <1>3, <1>4, <1>5, <1>6 DEF ScriptStep

LEMMA StepHoldsLock ==
  ASSUME HostTyped, Phased, HoldsLock, [HostNext]_hostVars
  PROVE  HoldsLock'
<1>1. CASE LockRemoved
  BY <1>1, RemovedForGood DEF HoldsLock
<1>2. CASE ~LockRemoved /\ UNCHANGED <<host, flock>>
  <2>1. \A c \in Calls : kind'[c] = kind[c] \/ host[c] = "none"
    BY StepImplements, StepOnward DEF HostTyped, Onward, Phased, Early
  <2> QED
    BY <1>2, <2>1 DEF HoldsLock, Deploying
<1>3. ASSUME ~LockRemoved, NEW c \in Calls, RemoteStep(c) \/ ScriptStep(c)
      PROVE  HoldsLock'
  BY <1>3, ScriptHoldsLock DEF HoldsLock
<1> QED
  BY <1>1, <1>2, <1>3 DEF HostNext, LocalStep, AroundStep, hostVars

\* Deploys of a tenant never run on its host at once before a deprovisioning
\* removes their lock file, for any number of jobs that overlap or were lost.
THEOREM DeploysTheorem == HostSpec => []DeploysAlone
<1>1. HostInit => HostTyped /\ Phased /\ HoldsLock
  BY InitHostTyped, InitPhased DEF HostInit, HoldsLock, Deploying
<1>2. HostTyped /\ Phased /\ HoldsLock /\ [HostNext]_hostVars
        => HostTyped' /\ Phased' /\ HoldsLock'
  BY StepHostTyped, StepPhased, StepHoldsLock
<1>3. HoldsLock => DeploysAlone
  BY DEF HoldsLock, DeploysAlone
<1> QED
  BY <1>1, <1>2, <1>3, PTL DEF HostSpec

-----------------------------------------------------------------------------
(* Success.                                                                *)

\* What the script of c proves: it ended well, if it is followed at all.
EndedWell(c) == kind[c] \in Gentle \/ host[c] = "good"

\* Why SuccessIsReal holds, told of calls only.
Succeeds(c) == pc[c] \in {"succeeding", "deleting"}
Counted(c)  == \E i \in DOMAIN jobs : jobs[i].call = c /\ jobs[i].status = "succeeded"
Real == \A c \in Calls : Succeeds(c) \/ Counted(c) => EndedWell(c)

\* How a step may change the rows: each is one there was, of the same call and
\* kind, that succeeds only with its call; or a new one that runs.
OldRow(r) ==
  \E i \in DOMAIN jobs :
    /\ jobs[i].call = r.call /\ jobs[i].kind = r.kind
    /\ r.status = "succeeded" => jobs[i].status = "succeeded" \/ pc[r.call] = "succeeding"

NewRow(r) ==
  /\ pc[r.call] = "creating" /\ pc'[r.call] = "preparing"
  /\ r.kind = kind[r.call] /\ r.status = "running"

RowsStep == \A i \in DOMAIN jobs' : OldRow(jobs'[i]) \/ NewRow(jobs'[i])

LEMMA SameRows ==
  ASSUME UNCHANGED jobs
  PROVE  RowsStep
BY DEF RowsStep, OldRow

LEMMA SetRows ==
  ASSUME Typed, NEW c \in Calls, NEW s \in Statuses, jobs' = SetStatus(c, s),
         s = "succeeded" => pc[c] = "succeeding"
  PROVE  RowsStep
<1>1. /\ DOMAIN jobs' = DOMAIN jobs
      /\ \A i \in DOMAIN jobs : jobs[i] \in Row /\
           jobs'[i] = IF jobs[i].call = c THEN [jobs[i] EXCEPT !.status = s] ELSE jobs[i]
  BY SetStatusRows, JobRows DEF Typed
<1>2. ASSUME NEW i \in DOMAIN jobs'
      PROVE  OldRow(jobs'[i])
  <2>1. CASE jobs[i].call = c
    <3>1. jobs'[i] = [jobs[i] EXCEPT !.status = s] /\ jobs[i] \in Row
      BY <1>1, <1>2, <2>1
    <3>2. /\ jobs'[i].call = c /\ jobs'[i].kind = jobs[i].kind
          /\ jobs'[i].status = s
      BY <2>1, <3>1 DEF Row
    <3> QED
      BY <1>1, <1>2, <2>1, <3>2 DEF OldRow
  <2>2. CASE jobs[i].call # c
    BY <1>1, <1>2, <2>2 DEF OldRow
  <2> QED
    BY <2>1, <2>2
<1> QED
  BY <1>2 DEF RowsStep

LEMMA SweptRows ==
  ASSUME Typed, NEW n, Sweep(n)
  PROVE  RowsStep
<1>1. /\ jobs' \in Seq(Row) /\ DOMAIN jobs' = DOMAIN jobs
      /\ \A i \in DOMAIN jobs : jobs[i] \in Row
  BY SweepRows, JobRows DEF Typed
<1>2. ASSUME NEW i \in DOMAIN jobs'
      PROVE  OldRow(jobs'[i])
  <2>1. \/ jobs'[i] = jobs[i]
        \/ jobs'[i] = [jobs[i] EXCEPT !.status = "failed"]
    BY <1>1, <1>2, Zenon DEF Sweep
  <2>2. /\ jobs'[i].call = jobs[i].call /\ jobs'[i].kind = jobs[i].kind
        /\ jobs'[i].status = "succeeded" => jobs[i].status = "succeeded"
    BY <1>1, <1>2, <2>1 DEF Row
  <2> QED
    BY <1>1, <1>2, <2>2 DEF OldRow
<1> QED
  BY <1>2 DEF RowsStep

LEMMA StepRows ==
  ASSUME Typed, [Next]_vars
  PROVE  RowsStep
<1>1. ASSUME NEW c \in Calls, JobStep(c)
      PROVE  RowsStep
  <2>1. CASE UNCHANGED jobs
    BY <2>1, SameRows
  <2>2. CASE CreateRow(c) /\ ~UNCHANGED jobs
    <3>1. /\ pc[c] = "creating" /\ pc'[c] = "preparing"
          /\ jobs' = Append(jobs, [call |-> c, kind |-> kind[c], status |-> "running"])
      BY <2>2 DEF CreateRow, GoTo, Typed, TypeOK
    <3>2. ASSUME NEW i \in DOMAIN jobs'
          PROVE  OldRow(jobs'[i]) \/ NewRow(jobs'[i])
      <4>1. jobs \in Seq(Row) /\ DOMAIN jobs = 1..Len(jobs) /\ Len(jobs) \in Nat
        BY JobRows DEF Typed
      <4>2. \/ i \in DOMAIN jobs /\ jobs'[i] = jobs[i]
            \/ jobs'[i] = [call |-> c, kind |-> kind[c], status |-> "running"]
        BY <3>1, <3>2, <4>1
      <4>3. CASE i \in DOMAIN jobs /\ jobs'[i] = jobs[i]
        BY <4>3 DEF OldRow
      <4>4. CASE jobs'[i] = [call |-> c, kind |-> kind[c], status |-> "running"]
        BY <3>1, <4>4 DEF NewRow
      <4> QED
        BY <4>2, <4>3, <4>4
    <3> QED
      BY <3>2 DEF RowsStep
  <2>3. CASE Finish(c) /\ ~UNCHANGED jobs
    <3>1. \E s \in Statuses :
            jobs' = SetStatus(c, s) /\ (s = "succeeded" => pc[c] = "succeeding")
      BY <2>3 DEF Finish, Die, Statuses
    <3> QED
      BY <3>1, SetRows
  <2>4. CASE DeleteTenant(c)
    <3>1. CASE jobs' = <<>>
      BY <3>1 DEF RowsStep
    <3>2. CASE jobs' = SetStatus(c, "failed")
      BY <3>2, SetRows DEF Statuses
    <3> QED
      BY <2>4, <3>1, <3>2 DEF DeleteTenant
  <2> QED
    BY <1>1, <2>1, <2>2, <2>3, <2>4
    DEF JobStep, Ask, Decide, Recheck, ReadTenant, TryAcquire, Busy, StartPipeline,
        PipelineEnds, Release
<1>2. CASE SoftDelete
  BY <1>2 DEF SoftDelete, RowsStep
<1>3. CASE \E n \in 1..Cardinality(Calls) : Sweep(n)
  BY <1>3, SweptRows
<1>4. CASE \E p \in Processes : Crash(p)
  BY <1>4, SameRows DEF Crash, Die
<1>5. CASE UNCHANGED vars
  BY <1>5, SameRows DEF vars
<1> QED
  BY <1>1, <1>2, <1>3, <1>4, <1>5 DEF Next

LEMMA StepRowsKnown ==
  ASSUME Typed, RowsKnown, [Next]_vars
  PROVE  RowsKnown'
<1>1. ASSUME NEW i \in DOMAIN jobs'
      PROVE  pc'[jobs'[i].call] \notin Early /\ jobs'[i].kind = kind'[jobs'[i].call]
  <2> DEFINE r == jobs'[i]
  <2>1. r.call \in Calls
    <3>1. jobs' \in Seq(Row)
      BY StepTyped DEF Typed, TypeOK, Row
    <3>2. r \in Row
      BY <1>1, <3>1, LenProperties, ElementOfSeq
    <3> QED
      BY <3>2 DEF Row
  <2>2. Onward(r.call)
    BY <2>1, StepOnward
  <2>3. CASE OldRow(r)
    <3>1. pc[r.call] \notin Early /\ r.kind = kind[r.call]
      BY <2>3 DEF OldRow, RowsKnown
    <3> QED
      BY <2>2, <3>1 DEF Onward, Early
  <2>4. CASE NewRow(r)
    BY <2>2, <2>4 DEF NewRow, Onward, Early
  <2> QED
    BY <1>1, <2>3, <2>4, StepRows DEF RowsStep
<1> QED
  BY <1>1 DEF RowsKnown

LEMMA EndedStays ==
  ASSUME HostTyped, Phased, [HostNext]_hostVars, NEW c \in Calls,
         EndedWell(c), pc[c] \notin Early
  PROVE  EndedWell(c)'
<1> USE DEF HostTyped, HostTypeOK, Script
<1>1. kind'[c] = kind[c]
  BY StepImplements, StepOnward DEF Onward, Early
<1>2. CASE kind[c] \in Gentle
  BY <1>1, <1>2 DEF EndedWell, Gentle
<1>3. CASE host[c] = "good"
  <2>1. pc[c] # "preparing"
    BY <1>3 DEF Phased
  <2>2. ASSUME NEW d \in Calls, RemoteStep(d)
        PROVE  host'[c] = "good"
    <3>1. CASE d = c
      BY <1>3, <2>1, <2>2, <3>1
      DEF RemoteStep, PreDeployBackup, CallStarts, CallFails, StreamEnds, StartPipeline
    <3>2. CASE d # c
      BY <1>3, <2>2, <3>2 DEF RemoteStep, PreDeployBackup, CallStarts, CallFails, StreamEnds
    <3> QED
      BY <3>1, <3>2
  <2>3. ASSUME NEW d \in Calls, ScriptStep(d)
        PROVE  host'[c] = "good"
    BY <1>3, <2>3
    DEF ScriptStep, DumpEnds, DeployLocks, ClearsLock, Deprovisions, ScriptEnds
  <2>4. host'[c] = "good"
    BY <1>3, <2>2, <2>3 DEF HostNext, LocalStep, AroundStep, hostVars
  <2> QED
    BY <2>4 DEF EndedWell
<1> QED
  BY <1>2, <1>3 DEF EndedWell

\* A call that comes to success has learnt it.
LEMMA SuccessLearnt ==
  ASSUME HostTyped, Phased, [HostNext]_hostVars, NEW c \in Calls,
         Succeeds(c)', ~Succeeds(c)
  PROVE  EndedWell(c) /\ pc[c] \notin Early
<1> USE DEF HostTyped, Typed, TypeOK, Succeeds
<1>1. PICK d \in Calls : RemoteStep(d) \/ ScriptStep(d)
  <2>1. ~UNCHANGED pc
    OBVIOUS
  <2>2. ~((\E d \in Calls : LocalStep(d)) \/ AroundStep)
    BY QuietCalls
  <2> QED
    BY <2>1, <2>2 DEF HostNext, hostVars
<1>2. StreamEnds(d) /\ d = c /\ pc'[c] = "succeeding"
  BY <1>1
  DEF RemoteStep, ScriptStep, PreDeployBackup, CallStarts, CallFails, StreamEnds,
      StartPipeline, PipelineEnds, GoTo, DumpEnds, DeployLocks, ClearsLock, Deprovisions,
      ScriptEnds, vars
<1>3. pc[c] = "piping" /\ (kind[c] \in Gentle \/ LearnsSuccess(c))
  BY <1>2 DEF StreamEnds, PipelineEnds
<1>4. EndedWell(c)
  BY <1>3, LearnsTruth DEF Phased, EndedWell
<1> QED
  BY <1>3, <1>4 DEF Early

LEMMA StepReal ==
  ASSUME HostTyped, Phased, RowsKnown, Real, [HostNext]_hostVars
  PROVE  Real'
<1> SUFFICES ASSUME NEW c \in Calls, Succeeds(c)' \/ Counted(c)'
             PROVE  EndedWell(c)'
  BY DEF Real
<1>1. Succeeds(c) \/ Counted(c) => EndedWell(c) /\ pc[c] \notin Early
  BY DEF Real, RowsKnown, Succeeds, Counted, Early
<1>2. CASE Succeeds(c) \/ Counted(c)
  BY <1>1, <1>2, EndedStays
<1>3. CASE Succeeds(c)' /\ ~Succeeds(c)
  BY <1>3, SuccessLearnt, EndedStays
<1>4. CASE Counted(c)'
  <2>1. PICK i \in DOMAIN jobs' : jobs'[i].call = c /\ jobs'[i].status = "succeeded"
    BY <1>4 DEF Counted
  <2>2. OldRow(jobs'[i])
    BY <2>1, StepImplements, StepRows DEF HostTyped, RowsStep, NewRow
  <2>3. Counted(c) \/ Succeeds(c)
    BY <2>1, <2>2 DEF OldRow, Counted, Succeeds
  <2> QED
    BY <1>2, <2>3
<1> QED
  BY <1>2, <1>3, <1>4

\* However connections break and processes die, no deploy or destroy counts as
\* succeeded whose script did not end well, for any number of jobs.
THEOREM SuccessTheorem == HostSpec => []SuccessIsReal
<1> DEFINE RealInv == HostTyped /\ Phased /\ RowsKnown /\ Real
<1>1. HostInit => RealInv
  BY InitHostTyped, InitPhased DEF HostInit, Init, RowsKnown, Real, Succeeds, Counted
<1>2. RealInv /\ [HostNext]_hostVars => RealInv'
  BY StepImplements, StepHostTyped, StepPhased, StepRowsKnown, StepReal DEF HostTyped
<1>3. RealInv => SuccessIsReal
  <2> SUFFICES ASSUME RealInv
               PROVE  SuccessIsReal
    OBVIOUS
  <2>1. \A i \in DOMAIN jobs : jobs[i].call \in Calls
    BY JobRows DEF HostTyped, Typed, Row
  <2> QED
    BY <2>1 DEF SuccessIsReal, Real, Succeeds, Counted, EndedWell, RowsKnown
<1> QED
  BY <1>1, <1>2, <1>3, PTL DEF HostSpec
=============================================================================
