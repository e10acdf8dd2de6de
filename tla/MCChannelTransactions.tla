------------------------ MODULE MCChannelTransactions ------------------------
(***************************************************************************)
(* Instances of ChannelTransactions for TLC: two requests that overlap on  *)
(* a channel with a live release, an earlier and a later one.              *)
(***************************************************************************)
EXTENDS ChannelTransactions, TLC

CONSTANTS r1, r2, r3, t1, t2

\* Requests are interchangeable, and so are releases.
Requests == Permutations({t1, t2}) \cup Permutations({r1, r2, r3})
=============================================================================
