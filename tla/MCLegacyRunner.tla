-------------------------- MODULE MCLegacyRunner ---------------------------
(* LegacyRunner with two jobs of the same label.                           *)
EXTENDS LegacyRunner
=============================================================================
