---------------------------- MODULE MCPromotion -----------------------------
(* Two PRs on the default branch and one on another one.                   *)
EXTENDS Promotion

MCBaseOf == [p \in PR |-> IF p = 3 THEN "v2" ELSE Default]
MCChannel == [b \in Branch |-> IF b = Default THEN "platform-v1" ELSE "platform-v2"]
=============================================================================
