----------------------------- MODULE PublicStore -----------------------------
(***************************************************************************)
(* What the store promises the public, with no trace of how releases are   *)
(* kept.  `USER SUBMISSION != PUBLICATION`: a build can be downloaded, or  *)
(* offered by a channel, only while it is cleared.  Only an administrator's*)
(* decision clears, one release at a time; a developer moves the channels  *)
(* and restores builds among what is cleared.  What existed before there   *)
(* were such decisions is cleared until there is one: grandfathered.  Only *)
(* a grandfathered release may be offered with nothing to download.        *)
(* ReleaseLifecycle is shown to implement this module.                     *)
(***************************************************************************)
CONSTANTS Release, Channel, None

VARIABLES
    cleared,        \* releases an administrator has cleared, and the grandfathered
    grandfathered,  \* releases cleared without a decision
    downloadable,   \* releases whose bytes sit at a public address
    offered         \* what each channel serves, None when it serves nothing

vars == <<cleared, grandfathered, downloadable, offered>>

OneChannelMoves == \E c \in Channel : \A d \in Channel \ {c} : offered'[d] = offered[d]

\* Everything the public can reach stays inside what is cleared.
Contained ==
    /\ grandfathered' \subseteq cleared'
    /\ downloadable' \subseteq cleared'
    /\ offered' \in [Channel -> downloadable' \cup grandfathered' \cup {None}]

Init ==
    /\ cleared \in SUBSET Release
    /\ grandfathered \in SUBSET cleared
    /\ downloadable \in SUBSET cleared
    /\ offered \in [Channel -> downloadable \cup grandfathered \cup {None}]

\* A moderator clears r: only r may become newly downloadable or newly offered.
Clear(r) ==
    /\ cleared' = cleared \cup {r}
    /\ grandfathered' = grandfathered \ {r}
    /\ downloadable' = downloadable \cup {r}
    /\ \A c \in Channel : offered'[c] \in {offered[c], r}
    /\ Contained

\* A moderator withdraws r: its bytes go, and only a channel serving r changes.
Withdraw(r) ==
    /\ cleared' = cleared \ {r}
    /\ grandfathered' = grandfathered \ {r}
    /\ r \notin downloadable'
    /\ \A c \in Channel : offered[c] \notin {r, None} => offered'[c] = offered[c]
    /\ Contained

\* Developers, the validation worker and the automatic stop clear nothing.
Develop ==
    /\ cleared' \subseteq cleared
    /\ grandfathered' \subseteq grandfathered
    /\ OneChannelMoves
    /\ Contained

Next == Develop \/ \E r \in Release : Clear(r) \/ Withdraw(r)

Spec == Init /\ [][Next]_vars
=============================================================================
