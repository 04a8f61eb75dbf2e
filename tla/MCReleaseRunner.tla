-------------------------- MODULE MCReleaseRunner ---------------------------
(* ReleaseRunner with two jobs, or one.                                    *)
EXTENDS ReleaseRunner, TLC
CONSTANTS j1, j2

MCJob == {j1, j2}
MCOneJob == {j1}
MCSymmetry == Permutations(MCJob)
=============================================================================
