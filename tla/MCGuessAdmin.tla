----------------------------- MODULE MCGuessAdmin -----------------------------
(* Instances of GuessAdmin for TLC.  Admins and tabs are interchangeable. *)
EXTENDS GuessAdmin, TLC

Symmetry == Permutations(Admins) \cup Permutations(Tabs)
=============================================================================
