---------------------------- MODULE MCSharedSlot ----------------------------
(* Two orders of each kind.                                                *)
EXTENDS SharedSlot, TLC
CONSTANTS c1, c2, r1, r2

MCCandidates == {c1, c2}
MCReleases == {r1, r2}
MCOrder == MCCandidates \cup MCReleases
MCKindOf == [o \in MCOrder |-> IF o \in MCCandidates THEN "candidate" ELSE "release"]
MCSymmetry == Permutations(MCCandidates) \cup Permutations(MCReleases)
=============================================================================
