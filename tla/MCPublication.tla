--------------------------- MODULE MCPublication ----------------------------
(* Two heads of the repository and one of a fork, with the same            *)
(* requirements, and callers that pin the first controller or one of two   *)
(* later ones.                                                             *)
EXTENDS Publication, TLC
CONSTANTS a, b, f, legacy, v, w

MCCommit == {a, b, f}
MCFork == {f}
MCRevision == {legacy, v, w}
MCSymmetry == {p @@ q : p \in Permutations({a, b}), q \in Permutations({v, w})}
MCContract == [h \in MCCommit |-> "locked"]
=============================================================================
