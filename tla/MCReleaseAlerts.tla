-------------------------- MODULE MCReleaseAlerts ---------------------------
(* A blocked host and an overdue job, of which the watchdog reads only the *)
(* first, and one or two passes whose ends may overlap.                    *)
EXTENDS ReleaseAlerts, TLC
CONSTANTS blocked, overdue, stale, pass1, pass2, watchdog

MCReason == {blocked, overdue}
MCBlocking == {blocked}
MCPass == {pass1, pass2}
MCOnePass == {pass1}
=============================================================================
