---------------------------- MODULE MCAgentUpdate ----------------------------
(***************************************************************************)
(* Instances of AgentUpdate for TLC: two calls that may overlap, such as   *)
(* the scheduler's and the web socket's.                                   *)
(***************************************************************************)
EXTENDS AgentUpdate

CONSTANTS scheduler, socket

\* Every failure the module knows.
AllFaults == {"fetch", "reject", "drop", "deny", "move", "place", "leftover", "snapshot", "copy",
              "lock", "park", "restore", "crash"}

\* Every build is plain, or the second needs a newer Agent and the third adds permissions.
Plain == [b \in 1..MaxSeq |-> "nothing"]

AnyDemands == {Plain, [Plain EXCEPT ![2] = "agent", ![3] = "approval"]}
=============================================================================
