----------------------------- MODULE TenantJobs -----------------------------
(***************************************************************************)
(* The background jobs of one tenant: deploy, destroy, backup and restore, *)
(* asked of the super-admin server, and the nightly backup, which runs in  *)
(* a process of its own.                                                   *)
(*                                                                         *)
(* Two things are to keep jobs apart: the "running" row of the job table,  *)
(* which every process sees and a restart keeps, and the set               *)
(* runningTenantIds, which lives in one process and dies with it.  A job   *)
(* reads the first, awaits, takes the second, and writes the first.        *)
(***************************************************************************)
EXTENDS Naturals, Sequences, FiniteSets

CONSTANTS
  Asked,      \* the kinds of job asked of the super-admin server
  Requests,   \* calls of start...Job there
  Scheduled   \* calls of startBackupJob in run-scheduled-backups.ts

Calls     == Requests \cup Scheduled
Processes == {"server", "script"}
Process(c) == IF c \in Scheduled THEN "script" ELSE "server"

Kinds  == {"deploy", "destroy", "backup", "restore"}
Gentle == {"backup", "restore"}

ASSUME CallsAssumption == Requests \cap Scheduled = {}
ASSUME AskedAssumption == Asked \subseteq Kinds

VARIABLES
  tenant,    \* the tenant's registry row is there
  jobs,      \* the rows of deploy_jobs, in startedAt order
  locked,    \* the tenant is in runningTenantIds, per process
  pc,        \* where each call is
  kind,      \* what it was asked to do
  existing   \* the kind of the active row it read first, until it is used

vars == <<tenant, jobs, locked, pc, kind, existing>>

Statuses == {"running", "succeeded", "failed"}

\* Between the lock and its release.
Critical == {"creating", "preparing", "piping", "succeeding", "failing", "deleting",
             "releasing"}

Phases == {"idle", "checked", "recheck", "reading", "acquiring", "busy",
           "over", "thrown", "dead"} \cup Critical

Running(K) == {i \in DOMAIN jobs : jobs[i].status = "running" /\ jobs[i].kind \in K}

\* Defective: no active row is answered with a placeholder.
ActiveKindUnknown ==
  IF Running(Kinds) = {} THEN "unknown"
  ELSE jobs[CHOOSE i \in Running(Kinds) : \A j \in Running(Kinds) : j <= i].kind

\* getActiveTenantJob: the last one started.
ActiveKind ==
  IF Running(Kinds) = {} THEN "none"
  ELSE jobs[CHOOSE i \in Running(Kinds) : \A j \in Running(Kinds) : j <= i].kind

\* deployJob.update({where: {id}}) of the row of c; it throws if there is none.
SetStatus(c, s) ==
  [i \in DOMAIN jobs |-> IF jobs[i].call = c THEN [jobs[i] EXCEPT !.status = s] ELSE jobs[i]]

HasRow(c) == \E i \in DOMAIN jobs : jobs[i].call = c

GoTo(c, p) == pc' = [pc EXCEPT ![c] = p]

Init ==
  /\ tenant = TRUE
  /\ jobs = <<>>
  /\ locked = [p \in Processes |-> FALSE]
  /\ pc = [c \in Calls |-> "idle"]
  /\ kind = [c \in Calls |-> "none"]
  /\ existing = [c \in Calls |-> "none"]

-----------------------------------------------------------------------------
(* Admission.                                                              *)

\* start...Job, up to the answer of getActiveTenantJob.
Ask(c) ==
  /\ pc[c] = "idle"
  /\ \E k \in IF c \in Scheduled THEN {"backup"} ELSE Asked : kind' = [kind EXCEPT ![c] = k]
  /\ existing' = [existing EXCEPT ![c] = ActiveKind]
  /\ GoTo(c, "checked")
  /\ UNCHANGED <<tenant, jobs, locked>>

\* The row read, the lock of the moment.  A deploy or a destroy is refused by
\* an active one of either kind, a backup or a restore by anything.
Refused(c) ==
  \/ existing[c] \in {"deploy", "destroy"}
  \/ kind[c] \in Gentle /\ (existing[c] # "none" \/ locked[Process(c)])

Decide(c) ==
  /\ pc[c] = "checked"
  /\ GoTo(c, IF Refused(c) THEN "over"
             ELSE IF kind[c] = "deploy" /\ (existing[c] # "none" \/ locked[Process(c)])
             THEN "recheck" ELSE "reading")
  /\ existing' = [existing EXCEPT ![c] = "none"]
  /\ UNCHANGED <<tenant, jobs, locked, kind>>

\* A deploy looks once more, for a deploy to attach to.
Recheck(c) ==
  /\ pc[c] = "recheck"
  /\ GoTo(c, IF Running({"deploy"}) # {} THEN "over" ELSE "reading")
  /\ UNCHANGED <<tenant, jobs, locked, kind, existing>>

\* tenant.findUnique; a destroy may also be refused for its Linux user, a
\* backup or a restore for its storage.
ReadTenant(c) ==
  /\ pc[c] = "reading"
  /\ \/ tenant /\ GoTo(c, "acquiring")
     \/ (~tenant \/ kind[c] # "deploy") /\ GoTo(c, "over")
  /\ UNCHANGED <<tenant, jobs, locked, kind, existing>>

\* tryAcquireTenantJobLock, and ensureLogDir, which may throw before the try
\* block that gives the lock back.
TryAcquire(c) ==
  /\ pc[c] = "acquiring"
  /\ \/ /\ ~locked[Process(c)]
        /\ locked' = [locked EXCEPT ![Process(c)] = TRUE]
        /\ \E p \in {"creating", "thrown"} : GoTo(c, p)
     \/ /\ locked[Process(c)]
        /\ GoTo(c, "busy")
        /\ UNCHANGED locked
  /\ UNCHANGED <<tenant, jobs, kind, existing>>

\* Defective: a backup goes on when it finds no row, as a deploy does.
BusyBackupGoesOn(c) ==
  /\ pc[c] = "busy"
  /\ GoTo(c, IF ActiveKind # "none" THEN "over" ELSE "creating")
  /\ UNCHANGED <<tenant, jobs, locked, kind, existing>>

\* The lock was taken.  A backup or a restore gives up; a deploy or a destroy
\* looks for the job that holds it and, finding no row, goes on without it (or
\* throws in ensureLogDir).
Busy(c) ==
  /\ pc[c] = "busy"
  /\ \/ /\ kind[c] \in Gentle \/ ActiveKind # "none"
        /\ GoTo(c, "over")
     \/ /\ kind[c] \notin Gentle /\ ActiveKind = "none"
        /\ \E p \in {"creating", "over"} : GoTo(c, p)
  /\ UNCHANGED <<tenant, jobs, locked, kind, existing>>

-----------------------------------------------------------------------------
(* The job.                                                                *)

\* Defective: a job that cannot store its row keeps the lock.
CreateRowKeepsLock(c) ==
  /\ pc[c] = "creating"
  /\ \/ /\ tenant
        /\ jobs' = Append(jobs, [call |-> c, kind |-> kind[c], status |-> "running"])
        /\ GoTo(c, "preparing")
     \/ /\ GoTo(c, "over")
        /\ UNCHANGED jobs
  /\ UNCHANGED <<tenant, locked, kind, existing>>

\* deployJob.create.  It may fail, and must when the tenant is gone; then the
\* lock is given back, whoever took it.
CreateRow(c) ==
  /\ pc[c] = "creating"
  /\ \/ /\ tenant
        /\ jobs' = Append(jobs, [call |-> c, kind |-> kind[c], status |-> "running"])
        /\ GoTo(c, "preparing")
        /\ UNCHANGED locked
     \/ /\ locked' = [locked EXCEPT ![Process(c)] = FALSE]
        /\ GoTo(c, "over")
        /\ UNCHANGED jobs
  /\ UNCHANGED <<tenant, kind, existing>>

\* The worker is called, after the backup of a deploy; either may fail.
StartPipeline(c) ==
  /\ pc[c] = "preparing"
  /\ \E p \in {"piping", "failing"} : GoTo(c, p)
  /\ UNCHANGED <<tenant, jobs, locked, kind, existing>>

\* The pipeline ends; one that never does stays here.  The broken stream of a
\* remote one counts as a failure.
PipelineEnds(c) ==
  /\ pc[c] = "piping"
  /\ \E p \in {"succeeding", "failing"} : GoTo(c, p)
  /\ UNCHANGED <<tenant, jobs, locked, kind, existing>>

\* A process dies with its calls and its locks; the rows stay.
Die(p) ==
  /\ locked' = [locked EXCEPT ![p] = FALSE]
  /\ pc' = [c \in Calls |->
       IF Process(c) = p /\ pc[c] \notin {"idle", "over"} THEN "dead" ELSE pc[c]]
  /\ UNCHANGED <<tenant, jobs, kind, existing>>

\* Defective: the row of a job that failed is left as it is.
FinishOnlySuccess(c) ==
  /\ pc[c] \in {"succeeding", "failing"}
  /\ HasRow(c)
  /\ jobs' = IF pc[c] = "succeeding" THEN SetStatus(c, "succeeded") ELSE jobs
  /\ GoTo(c, IF kind[c] = "destroy" /\ pc[c] = "succeeding" THEN "deleting" ELSE "releasing")
  /\ UNCHANGED <<tenant, locked, kind, existing>>

\* finishJob.  Without a row it throws, and throws again in the catch block;
\* only a destroy catches that, in the others it is an unhandled rejection.
Finish(c) ==
  /\ pc[c] \in {"succeeding", "failing"}
  /\ \/ /\ HasRow(c)
        /\ jobs' = SetStatus(c, IF pc[c] = "succeeding" THEN "succeeded" ELSE "failed")
        /\ GoTo(c, IF kind[c] = "destroy" /\ pc[c] = "succeeding"
                   THEN "deleting" ELSE "releasing")
        /\ UNCHANGED <<tenant, locked, kind, existing>>
     \/ /\ ~HasRow(c) /\ kind[c] = "destroy"
        /\ GoTo(c, "releasing")
        /\ UNCHANGED <<tenant, jobs, locked, kind, existing>>
     \/ ~HasRow(c) /\ kind[c] # "destroy" /\ Die(Process(c))

\* tenant.delete of a destroy, which takes the rows of all jobs with it; when
\* it fails the job counts as failed.
DeleteTenant(c) ==
  /\ pc[c] = "deleting"
  /\ \/ tenant /\ tenant' = FALSE /\ jobs' = <<>>
     \/ jobs' = SetStatus(c, "failed") /\ UNCHANGED tenant
  /\ GoTo(c, "releasing")
  /\ UNCHANGED <<locked, kind, existing>>

\* The finally block: releaseTenantJobLock, whoever took it.
Release(c) ==
  /\ pc[c] = "releasing"
  /\ locked' = [locked EXCEPT ![Process(c)] = FALSE]
  /\ GoTo(c, "over")
  /\ UNCHANGED <<tenant, jobs, kind, existing>>

-----------------------------------------------------------------------------
(* Around the jobs.                                                        *)

\* DELETE /api/tenants/:id, whatever runs.
SoftDelete ==
  /\ tenant
  /\ tenant' = FALSE /\ jobs' = <<>>
  /\ UNCHANGED <<locked, pc, kind, existing>>

Crash(p) ==
  /\ \E c \in Calls : Process(c) = p /\ pc[c] \notin {"idle", "over", "dead"}
  /\ Die(p)

\* Defective: only deploys are swept.
SweepDeploysOnly(n) ==
  /\ \E i \in Running({"deploy"}) : i <= n
  /\ jobs' = [i \in DOMAIN jobs |->
       IF i <= n /\ i \in Running({"deploy"}) THEN [jobs[i] EXCEPT !.status = "failed"]
                                              ELSE jobs[i]]
  /\ UNCHANGED <<tenant, locked, pc, kind, existing>>

\* markStaleDeployJobsFailed: the first n rows started before the cutoff.
Sweep(n) ==
  /\ \E i \in Running(Kinds) : i <= n
  /\ jobs' = [i \in DOMAIN jobs |->
       IF i <= n /\ i \in Running(Kinds) THEN [jobs[i] EXCEPT !.status = "failed"]
                                         ELSE jobs[i]]
  /\ UNCHANGED <<tenant, locked, pc, kind, existing>>

JobStep(c) ==
  \/ Ask(c) \/ Decide(c) \/ Recheck(c) \/ ReadTenant(c) \/ TryAcquire(c) \/ Busy(c)
  \/ CreateRow(c) \/ StartPipeline(c) \/ PipelineEnds(c)
  \/ Finish(c) \/ DeleteTenant(c) \/ Release(c)

Next ==
  \/ \E c \in Calls : JobStep(c)
  \/ SoftDelete
  \/ \E p \in Processes : Crash(p)
  \/ \E n \in 1..Cardinality(Calls) : Sweep(n)

\* The sweep runs every five minutes and at every start of the server, and in
\* the end a row that still runs is older than its cutoff.  Nothing bounds a
\* pipeline.
Fairness == WF_vars(\E n \in 1..Cardinality(Calls) : Sweep(n))

Spec == Init /\ [][Next]_vars /\ Fairness

-----------------------------------------------------------------------------
(* Properties.                                                             *)

\* Every variable has its type.
TypeOK ==
  /\ tenant \in BOOLEAN
  /\ jobs \in Seq([call : Calls, kind : Kinds, status : Statuses])
  /\ locked \in [Processes -> BOOLEAN]
  /\ pc \in [Calls -> Phases]
  /\ kind \in [Calls -> Kinds \cup {"none"}]
  /\ existing \in [Calls -> Kinds \cup {"none"}]

\* releaseTenantJobLock: while the tenant is locked in a process, some job of
\* that process has still to release it, although deploys and destroys that
\* never took the lock release it too, or its log directory could not be made.
\* A lock that leaked refuses every backup until the process restarts.
NoLockLeak ==
  \A p \in Processes :
    locked[p] => \E c \in Calls : Process(c) = p /\ pc[c] \in Critical \cup {"thrown"}

\* The calls of p between their lock and its release.
Inside(p) == {c \in Calls : Process(c) = p /\ pc[c] \in Critical}

\* "same lock + log pattern as deploy/destroy" of backup-job.ts: as long as a
\* process is asked for backups and restores only, one at most is between its
\* lock and its release, through swept rows, deleted tenants and failed inserts.
BackupsAlone ==
  \A p \in Processes :
    (\A c \in Calls : Process(c) = p => kind[c] \in Gentle \cup {"none"})
      => \A c, d \in Inside(p) : c = d

\* finishJob: a row that says "running" belongs to a job that has still to
\* finish it, or died with its process.  Any other would refuse every backup,
\* and swallow every deploy, until the sweep.
RunningRowHasJob ==
  \A i \in Running(Kinds) :
    pc[jobs[i].call] \in {"preparing", "piping", "succeeding", "failing", "dead"}

\* "Mark orphaned running jobs as failed (SA restart mid-deploy or hung
\* pipeline)": no row runs for ever, even if its process died or its pipeline
\* hangs.
RowsSettle == []<>(Running(Kinds) = {})

\* TENANT-DOMAINS-AND-SCALING.md: deploy and destroy block each other, so a
\* pipeline of each is never awaited at once.
DeployDestroyExclude ==
  \A c, d \in {e \in Calls : pc[e] = "piping"} :
    ~(kind[c] = "deploy" /\ kind[d] = "destroy")

\* TENANT-DOMAINS-AND-SCALING.md: one active job per tenant, in any process.
OneActiveJob == Cardinality(Running(Kinds)) <= 1
=============================================================================
