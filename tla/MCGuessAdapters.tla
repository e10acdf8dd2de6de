--------------------------- MODULE MCGuessAdapters ---------------------------
(***************************************************************************)
(* Instances of GuessAdapters for TLC: a daily or a free-play game, its    *)
(* owner and a stranger.                                                   *)
(***************************************************************************)
EXTENDS GuessAdapters, TLC

CONSTANTS alice, bob, g1, right, wrong1, wrong2

Rounds == [m \in Modes |-> IF m = "daily" THEN 1 ELSE 2]

Interchangeable == Permutations({alice, bob}) \cup Permutations({wrong1, wrong2})
=============================================================================
