-------------------------- MODULE MCModerationBytes --------------------------
(***************************************************************************)
(* Instances of ModerationBytes for TLC: two moderators at work on one     *)
(* release.                                                                *)
(***************************************************************************)
EXTENDS ModerationBytes, TLC

CONSTANTS m1, m2

Moderators == Permutations({m1, m2})
=============================================================================
