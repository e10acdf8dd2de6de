---------------------------- MODULE MCGuessContent ----------------------------
(***************************************************************************)
(* Instances of GuessContent for TLC: two users with a curated post each,  *)
(* one of them in a topic that is active again, and a post the game does   *)
(* not know yet, with a poor text.                                         *)
(***************************************************************************)
EXTENDS GuessContent, TLC

CONSTANTS u1, u2, p1, p2, p3, fair, poor

MCAuthor == (p1 :> u1) @@ (p2 :> u2) @@ (p3 :> u1)

MCFirstText == (p1 :> fair) @@ (p2 :> fair) @@ (p3 :> poor)

MCMetrics ==
    (fair :> [words |-> 12, quoted |-> 2, phrase |-> FALSE, leak |-> "none"]) @@
    (poor :> [words |-> 2, quoted |-> 8, phrase |-> TRUE, leak |-> "signature"])

Symmetry == Permutations(Moderators) \cup Permutations(Imports) \cup Permutations(Players)
                \cup Permutations(Conns)
=============================================================================
