----------------------------- MODULE MCGuessGame -----------------------------
(***************************************************************************)
(* Instances of GuessGame for TLC: one player, one game of two rounds (two *)
(* posts, three choices, two errors allowed), two requests at a time.      *)
(***************************************************************************)
EXTENDS GuessGame, TLC

CONSTANTS p1, p2, right, wrong1, wrong2, alice, g1, k1

Rounds == [m \in Modes |-> IF m = "daily" THEN 1 ELSE 2]

\* Requests are interchangeable, and so are the two wrong choices.
Interchangeable == Permutations({p1, p2}) \cup Permutations({wrong1, wrong2})
=============================================================================
