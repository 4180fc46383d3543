----------------------------- MODULE TenantHost -----------------------------
(***************************************************************************)
(* The deploys and destroys of TenantJobs composed with the host of the    *)
(* tenant: the scripts the platform worker spawns there, the lock file of  *)
(* the deploy script, and the connection over which a job learns how its   *)
(* script ends.                                                            *)
(*                                                                         *)
(* A job knows of its script what it reads: the answer to its call, the    *)
(* lines of a stream, one last look at the worker's table.  Any of them    *)
(* may be lost, and the script goes on all the same.  A worker that        *)
(* restarts no longer answers, and its scripts may be killed; on the       *)
(* server's own host nothing is lost, short of the server itself.          *)
(***************************************************************************)
EXTENDS TenantJobs

ASSUME NoCallAssumption == "none" \notin Calls

VARIABLES
  host,    \* the script of each call
  flock    \* who holds /tmp/deploy-<id>.lock, the file that is there now

hostVars == <<tenant, jobs, locked, pc, kind, existing, host, flock>>

\* A deploy may dump the database first, and is "dumping" until the dump ends
\* well; then it provisions ("starting") until it has the lock.  A destroy that
\* is "clearing" has removed the lock file.
Scripts == {"none", "dumping", "dumped", "starting", "running", "clearing", "good", "bad"}

Script(c, s) == host' = [host EXCEPT ![c] = s]

HostInit ==
  /\ Init
  /\ host = [c \in Calls |-> "none"]
  /\ flock = "none"

-----------------------------------------------------------------------------
(* What a job learns.                                                      *)

\* How the script of c has ended, if it has.
Outcome(c) == CASE host[c] \in {"good", "dumped"} -> "good"
                [] host[c] = "bad" -> "bad"
                [] OTHER -> "running"

\* Defective: the exit code starts at zero.
ExitCodeFromZero(heard, answer) ==
  IF answer \in {"good", "bad"} THEN answer ELSE IF heard = "bad" THEN "bad" ELSE "good"

\* The exit code: what the worker's table says if it still has an end of the
\* job, else what the stream said, else failure.
ExitCode(heard, answer) ==
  IF answer \in {"good", "bad"} THEN answer ELSE IF heard = "good" THEN "good" ELSE "bad"

\* The job of c arrives at success with some of what there was to hear: the
\* stream and the answer each give the end of the script or nothing.
LearnsSuccess(c) ==
  \E heard, answer \in {"nothing", Outcome(c)} : ExitCode(heard, answer) = "good"

-----------------------------------------------------------------------------
(* The job and its calls.                                                  *)

\* runPreDeployBackupInline, unless there is no storage or the worker does not
\* say that the tenant is deployed.
PreDeployBackup(c) ==
  /\ pc[c] = "preparing" /\ kind[c] = "deploy" /\ host[c] = "none"
  /\ Script(c, "dumping")
  /\ UNCHANGED <<vars, flock>>

\* Defective: a dump that did not succeed is skipped over.
DumpGoesOn(c) == TRUE

\* A deploy goes on with no dump, or with one that ended well and named its key.
DumpAllows(c) == host[c] = "none" \/ LearnsSuccess(c)

\* The worker begins the script; its answer, or the stream, may then be lost.
CallStarts(c) ==
  /\ kind[c] = "deploy" => DumpAllows(c)
  /\ StartPipeline(c)
  /\ CASE kind[c] = "deploy"  -> Script(c, "starting")
       [] kind[c] = "destroy" -> Script(c, "running")
       [] OTHER -> UNCHANGED host
  /\ UNCHANGED flock

\* The worker refuses or is not reached, or the deploy is aborted by its dump,
\* which may go on.
CallFails(c) ==
  /\ StartPipeline(c)
  /\ pc'[c] = "failing"
  /\ UNCHANGED <<host, flock>>

\* The stream ends, with the script or before it, or breaks.
StreamEnds(c) ==
  /\ PipelineEnds(c)
  /\ pc'[c] = "succeeding" => kind[c] \in Gentle \/ LearnsSuccess(c)
  /\ UNCHANGED <<host, flock>>

-----------------------------------------------------------------------------
(* The scripts.                                                            *)

\* backup-tenant-db.sh before a deploy; one that fails stays at "dumping".
DumpEnds(c) ==
  /\ host[c] = "dumping"
  /\ Script(c, "dumped")
  /\ UNCHANGED <<vars, flock>>

\* Defective: the deploy script only looks for the lock.
DeployLocksWithoutTest(c) ==
  /\ host[c] = "starting"
  /\ Script(c, "running") /\ flock' = c
  /\ UNCHANGED vars

\* flock -n of deploy-client.sh: the second deploy ends.
DeployLocks(c) ==
  /\ host[c] = "starting"
  /\ IF flock = "none" THEN Script(c, "running") /\ flock' = c
                       ELSE Script(c, "bad") /\ UNCHANGED flock
  /\ UNCHANGED vars

\* Defective: the lock file counts as removed under another name.
ClearsLockByName(c) ==
  /\ kind[c] = "destroy" /\ host[c] = "running"
  /\ Script(c, "clearing") /\ flock' = "removed"
  /\ UNCHANGED vars

\* deprovision-client.sh removes the lock file, whoever holds it.
ClearsLock(c) ==
  /\ kind[c] = "destroy" /\ host[c] = "running"
  /\ Script(c, "clearing") /\ flock' = "none"
  /\ UNCHANGED vars

\* It kills what runs as the tenant's user, the deploys, and ends.
Deprovisions(c) ==
  /\ host[c] = "clearing"
  /\ \E s \in {"good", "bad"} :
       host' = [d \in Calls |->
         IF d = c THEN s
         ELSE IF kind[d] = "deploy" /\ host[d] = "running" THEN "bad" ELSE host[d]]
  /\ UNCHANGED <<vars, flock>>

\* A script ends, well or not, or is stopped half way.
ScriptEnds(c) ==
  /\ \/ host[c] \in {"starting", "running", "clearing"} /\ Script(c, "bad")
     \/ host[c] = "running" /\ kind[c] = "deploy" /\ Script(c, "good")
  /\ flock' = IF flock = c THEN "none" ELSE flock
  /\ UNCHANGED vars

-----------------------------------------------------------------------------

\* What the job does by itself.
LocalStep(c) ==
  /\ \/ Ask(c) \/ Decide(c) \/ Recheck(c) \/ ReadTenant(c) \/ TryAcquire(c) \/ Busy(c)
     \/ CreateRow(c) \/ Finish(c) \/ DeleteTenant(c) \/ Release(c)
  /\ UNCHANGED <<host, flock>>

RemoteStep(c) == PreDeployBackup(c) \/ CallStarts(c) \/ CallFails(c) \/ StreamEnds(c)

ScriptStep(c) == DumpEnds(c) \/ DeployLocks(c) \/ ClearsLock(c) \/ Deprovisions(c) \/ ScriptEnds(c)

AroundStep ==
  /\ \/ SoftDelete
     \/ \E p \in Processes : Crash(p)
     \/ \E n \in 1..Cardinality(Calls) : Sweep(n)
  /\ UNCHANGED <<host, flock>>

HostNext ==
  \/ \E c \in Calls : LocalStep(c) \/ RemoteStep(c) \/ ScriptStep(c)
  \/ AroundStep

HostSpec == HostInit /\ [][HostNext]_hostVars /\ Fairness
-----------------------------------------------------------------------------
(* Properties.                                                             *)

\* Every variable of the host has its type.
HostTypeOK ==
  /\ host \in [Calls -> Scripts]
  /\ flock \in Calls \cup {"none"}

\* runDestroyPipeline, "Prefer explicit status endpoint if available": however
\* connections break, a job never counts as succeeded, and a tenant is never
\* deleted by a destroy, unless its script did end well on the host.
SuccessIsReal ==
  /\ \A c \in Calls :
       kind[c] \notin Gentle /\ pc[c] \in {"succeeding", "deleting"} => host[c] = "good"
  /\ \A i \in DOMAIN jobs :
       jobs[i].kind \notin Gentle /\ jobs[i].status = "succeeded"
         => host[jobs[i].call] = "good"

\* "[backup] pre-deploy FAILED -- aborting deploy": a deploy is never begun on
\* the host while its dump is under way or after it failed there, whatever the
\* server was told of it.
NoDeployOverFailedDump ==
  [][\A c \in Calls : host[c] = "dumping" => host'[c] \in {"dumping", "dumped"}]_hostVars

\* A deprovisioning has removed the lock file.
LockRemoved ==
  \E c \in Calls : kind[c] = "destroy" /\ host[c] \in {"clearing", "good", "bad"}

\* The deploys at work in the tenant's directory.
Deploying == {c \in Calls : kind[c] = "deploy" /\ host[c] = "running"}

\* "Serialize deploys for this tenant (super-admin + manual SSH)": jobs that the
\* server lost, released or overlapped included, two deploys of a tenant never
\* run on its host at once, as long as no deprovisioning removed the lock file.
DeploysAlone ==
  LockRemoved \/ \A c, d \in Deploying : c = d
=============================================================================
