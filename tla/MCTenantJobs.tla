---------------------------- MODULE MCTenantJobs ----------------------------
(* Model values for TLC: see the jobs_*.cfg files and README.md. *)
EXTENDS TenantJobs

CONSTANTS r1, r2, s1
=============================================================================
