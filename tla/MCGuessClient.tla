---------------------------- MODULE MCGuessClient ----------------------------
(* Two tabs or one, one daily game of one round. *)
EXTENDS GuessClient

MCRoundsIn == [m \in {"daily", "freeplay"} |-> 1]

\* The identities are interchangeable only to the extent that CHOOSE is not used on
\* them, so no symmetry is declared.
=============================================================================
