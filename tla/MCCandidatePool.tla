-------------------------- MODULE MCCandidatePool ---------------------------
(* Two jobs and two hosts: the jobs request one label, or one each.        *)
EXTENDS CandidatePool

MCLabelings == {[j \in Job |-> 1], [j \in Job |-> j]}
=============================================================================
