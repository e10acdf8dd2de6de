------------------------- MODULE MCReleaseLifecycle -------------------------
(***************************************************************************)
(* Instances of ReleaseLifecycle for TLC.  Three releases let a channel    *)
(* hold a live release, a newer one under review and a superseded one.     *)
(***************************************************************************)
EXTENDS ReleaseLifecycle, TLC

CONSTANTS r1, r2, r3, stable

\* All three releases share one channel.
OneChannel == [r \in Release |-> stable]

\* The two releases that do not predate moderation are interchangeable.
NewReleases == Permutations({r2, r3})
=============================================================================
