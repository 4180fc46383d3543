---------------------------- MODULE MCTenantHost ----------------------------
(* Model values for TLC: see the jobs_*.cfg files and README.md. *)
EXTENDS TenantHost

CONSTANTS r1, r2, s1
=============================================================================
