-------------------------- MODULE MCCandidateHost ---------------------------
(* Three orders for two jobs on one host: two orders compete for one job.  *)
EXTENDS CandidateHost
CONSTANTS a1, a2, a3, j1, j2

MCAlloc == {a1, a2, a3}
MCJob   == {j1, j2}
MCJobOf == [a \in MCAlloc |-> IF a = a3 THEN j2 ELSE j1]
=============================================================================
