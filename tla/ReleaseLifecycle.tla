--------------------------- MODULE ReleaseLifecycle ---------------------------
(***************************************************************************)
(* The server's release lifecycle: upload, validation, publication, pause, *)
(* automatic stop, revocation, rollback, deletion and the moderator's      *)
(* decisions, over the rows of one project.  Every handler commits one     *)
(* database transaction, so every handler is one action here; what two     *)
(* overlapping transactions can do to rows and bytes is ModerationBytes.   *)
(*                                                                         *)
(* Abstracted away: versions, notes, permissions, audit rows, events and   *)
(* notifications, superseded_by_release_id and ChannelAssignment (history  *)
(* that no handler reads), the project's own status and the signed         *)
(* metadata, which Distribution adds.                                      *)
(***************************************************************************)
EXTENDS Integers, FiniteSets

CONSTANTS
    Release,      \* release ids; a deleted id is never used again
    Channel,
    ChannelOf,    \* the channel each release is uploaded to
    Legacy,       \* releases whose rows predate moderation
    Rollouts,     \* rollout percentages a developer may publish with
    MaxSeq,       \* bound on sequence numbers
    None

ASSUME LifecycleAssumption ==
    /\ ChannelOf \in [Release -> Channel]
    /\ Legacy \subseteq Release
    /\ Rollouts \subseteq 1..100
    /\ MaxSeq \in Nat
    /\ None \notin Release

VARIABLES
    status,      \* releases.status, or "absent" / "deleted" when there is no row
    review,      \* releases.review_status
    seq,         \* releases.sequence, 0 for NULL
    relRollout,  \* releases.rollout_percentage
    staged,      \* releases with an artifact row in the private bucket
    public,      \* releases with an artifact row in the public bucket
    active,      \* channels.active_release_id
    paused,      \* channels.is_paused
    rollout      \* channels.rollout_percentage

releaseVars == <<status, review, seq, relRollout>>
artifactVars == <<staged, public>>
channelVars == <<active, paused, rollout>>
vars == <<releaseVars, artifactVars, channelVars>>

-----------------------------------------------------------------------------
ReleaseStatus == {"uploaded", "validating", "validation_failed", "ready", "draft",
                  "scheduled", "publishing", "published", "paused", "superseded", "revoked"}

ReviewStatus == {"pending", "approved", "rejected", "changes_requested", "legacy_pending"}

PUBLIC_REVIEW_STATES == {"approved", "legacy_pending"}

Existing == {r \in Release : status[r] \notin {"absent", "deleted"}}

Cleared(r) == r \in Existing /\ review[r] \in PUBLIC_REVIEW_STATES

\* release_is_publicly_available
Live(r) == status[r] = "published" /\ review[r] \in PUBLIC_REVIEW_STATES

\* What channel c's own rows hand out.  The store's Safe Mode, while it is on, and
\* the device's rollout bucket come on top: they withhold, and move no channel.
Offered(c) ==
    IF active[c] # None /\ ~paused[c] /\ Live(active[c]) THEN active[c] ELSE None

HasBuild(r) == r \in staged \cup public

PublishNothing(r, pub) == pub

\* publish_artifact_public: copies a staged build, leaves a public one alone.
PublishArtifact(r, pub) == pub \cup ({r} \cap (staged \cup pub))

NextSequence ==
    CHOOSE n \in 1..(MaxSeq + 1) :
        /\ \A r \in Existing : seq[r] < n
        /\ \A m \in 1..(n - 1) : \E r \in Existing : seq[r] >= m

-----------------------------------------------------------------------------
(* The channel pointer *)

SetChannelActiveFromZero(c, r, pct, st) ==
    /\ status' = [x \in Release |->
                    IF x = active[c] /\ x # r /\ st[x] = "published" THEN "superseded" ELSE st[x]]
    /\ active' = [active EXCEPT ![c] = r]
    /\ rollout' = [rollout EXCEPT ![c] = pct - 100]
    /\ paused' = [paused EXCEPT ![c] = FALSE]

\* _set_channel_active: st is the releases' status just before the call.
SetChannelActive(c, r, pct, st) ==
    /\ status' = [x \in Release |->
                    IF x = active[c] /\ x # r /\ st[x] = "published" THEN "superseded" ELSE st[x]]
    /\ active' = [active EXCEPT ![c] = r]
    /\ rollout' = [rollout EXCEPT ![c] = pct]
    /\ paused' = [paused EXCEPT ![c] = FALSE]

FallbackUnreviewed(r) ==
    {p \in Release \ {r} : ChannelOf[p] = ChannelOf[r] /\ status[p] = "superseded"}

FallbackCandidates(r) ==
    {p \in Release \ {r} : ChannelOf[p] = ChannelOf[r] /\ status[p] = "superseded" /\ Cleared(p)}

Newest(S) == {p \in S : \A q \in S : seq[q] <= seq[p]}

\* The channel of a release that leaves it goes back to the newest cleared
\* superseded release, whose bytes are restored; is_paused and the rollout stay.
HandBack(r, st, pub) ==
    LET c == ChannelOf[r]
    IN  /\ UNCHANGED <<paused, rollout>>
        /\ \/ /\ active[c] # r
              /\ status' = st
              /\ public' = pub
              /\ UNCHANGED active
           \/ /\ active[c] = r
              /\ FallbackCandidates(r) = {}
              /\ status' = st
              /\ public' = pub
              /\ active' = [active EXCEPT ![c] = None]
           \/ \E prev \in Newest(FallbackCandidates(r)) :
                /\ active[c] = r
                /\ status' = [st EXCEPT ![prev] = "published"]
                /\ public' = PublishArtifact(prev, pub)
                /\ active' = [active EXCEPT ![c] = prev]

-----------------------------------------------------------------------------
(* Developers and the worker *)

Upload(r) ==
    /\ status[r] = "absent"
    /\ status' = [status EXCEPT ![r] = "uploaded"]
    /\ review' = [review EXCEPT ![r] = "pending"]
    /\ UNCHANGED <<seq, relRollout, artifactVars, channelVars>>

\* The worker's job commits once: "validating" is never seen by another session.
Validate(r) ==
    /\ status[r] \in {"uploaded", "validating"}
    /\ \/ /\ status' = [status EXCEPT ![r] = "ready"]
          /\ staged' = staged \cup {r}
       \/ /\ status' = [status EXCEPT ![r] = "validation_failed"]
          /\ UNCHANGED staged
    /\ UNCHANGED <<review, seq, relRollout, public, channelVars>>

MayPublish(r) ==
    /\ status[r] \in {"ready", "draft", "paused", "scheduled"}
    /\ review[r] \notin {"rejected", "changes_requested"}

Publish(r, pct) ==
    LET c == ChannelOf[r]
        s == IF seq[r] = 0 THEN NextSequence ELSE seq[r]
        st == [status EXCEPT ![r] = "published"]
    IN  /\ MayPublish(r)
        /\ HasBuild(r)
        /\ s \in 1..MaxSeq
        /\ seq' = [seq EXCEPT ![r] = s]
        /\ relRollout' = [relRollout EXCEPT ![r] = pct]
        /\ \/ Cleared(r) /\ SetChannelActive(c, r, pct, st)
           \/ ~Cleared(r) /\ status' = st /\ UNCHANGED channelVars
        /\ UNCHANGED <<review, artifactVars>>

Pause(r) ==
    /\ status[r] = "published"
    /\ status' = [status EXCEPT ![r] = "paused"]
    /\ paused' = [c \in Channel |-> paused[c] \/ active[c] = r]
    /\ UNCHANGED <<review, seq, relRollout, artifactVars, active, rollout>>

\* _check_auto_stop, at whatever moment the failure rate crosses its threshold.
AutoStop(r) ==
    LET c == ChannelOf[r]
    IN  /\ status[r] = "published"
        /\ active[c] = r
        /\ ~paused[c]
        /\ paused' = [paused EXCEPT ![c] = TRUE]
        /\ status' = [status EXCEPT ![r] = "paused"]
        /\ UNCHANGED <<review, seq, relRollout, artifactVars, active, rollout>>

Revoke(r) ==
    /\ r \in Existing
    /\ status[r] # "revoked"
    /\ HandBack(r, [status EXCEPT ![r] = "revoked"], public)
    /\ UNCHANGED <<review, seq, relRollout, staged>>

MayRollBackToAny(r) == r \in Existing /\ HasBuild(r)

MayRollBackTo(r) == Cleared(r) /\ HasBuild(r)

Rollback(r) ==
    /\ MayRollBackTo(r)
    /\ NextSequence \in 1..MaxSeq
    /\ public' = PublishArtifact(r, public)
    /\ seq' = [seq EXCEPT ![r] = NextSequence]
    /\ relRollout' = [relRollout EXCEPT ![r] = 100]
    /\ SetChannelActive(ChannelOf[r], r, 100, [status EXCEPT ![r] = "published"])
    /\ UNCHANGED <<review, staged>>

MayDeleteAny(r) == r \in Existing

MayDelete(r) == r \in Existing /\ ~Live(r)

Delete(r) ==
    LET c == ChannelOf[r]
    IN  /\ MayDelete(r)
        /\ status' = [status EXCEPT ![r] = "deleted"]
        /\ seq' = [seq EXCEPT ![r] = 0]
        /\ staged' = staged \ {r}
        /\ public' = public \ {r}
        /\ \/ /\ active[c] = r
              /\ active' = [active EXCEPT ![c] = None]
              /\ paused' = [paused EXCEPT ![c] = FALSE]
           \/ active[c] # r /\ UNCHANGED <<active, paused>>
        /\ UNCHANGED <<review, relRollout, rollout>>

-----------------------------------------------------------------------------
(* Moderators *)

NeverDemotes(r) == FALSE

\* activate_channel refuses to demote a newer release that is live.
Demotes(r) ==
    LET cur == active[ChannelOf[r]]
    IN  cur \notin {None, r} /\ Live(cur) /\ seq[cur] > seq[r]

Approve(r) ==
    /\ r \in Existing
    /\ status[r] \notin {"uploaded", "validating", "validation_failed"}
    /\ HasBuild(r)
    /\ review' = [review EXCEPT ![r] = "approved"]
    /\ public' = PublishArtifact(r, public)
    /\ \/ /\ status[r] = "published" /\ ~Demotes(r)
          /\ SetChannelActive(ChannelOf[r], r, relRollout[r], status)
       \/ /\ status[r] # "published" \/ Demotes(r)
          /\ UNCHANGED <<status, channelVars>>
    /\ UNCHANGED <<seq, relRollout, staged>>

WithdrawNothing(r) == public

\* withdraw_artifact_public archives a build that exists only in public storage.
Withdrawn(r) == public \ {r}

\* _take_down, after _stamp: the bytes go private and the channel is handed back.
TakeDown(r, verdict, st) ==
    /\ review' = [review EXCEPT ![r] = verdict]
    /\ staged' = staged \cup ({r} \cap public)
    /\ HandBack(r, st, Withdrawn(r))
    /\ UNCHANGED <<seq, relRollout>>

\* reject_release and unpublish_release, which differ only in their audit trail.
Reject(r) ==
    r \in Existing /\ TakeDown(r, "rejected", [status EXCEPT ![r] = "revoked"])

RequestChanges(r) == r \in Existing /\ TakeDown(r, "changes_requested", status)

-----------------------------------------------------------------------------
\* Releases whose worker had put a build in public storage, and those once numbered.
BuiltBefore == {"ready", "published", "paused", "superseded"}

PublishedBefore == {"published", "paused", "superseded"}

\* The database moderation was introduced on.  Every row there was is grandfathered,
\* also one not yet validated, rejected by validation, or revoked with or without a
\* build.  Builds sat in public storage, and a channel pointed at its published
\* release, or at a paused one and was paused itself.
Init ==
    /\ status \in [Release -> {"absent", "uploaded", "validation_failed", "revoked"} \cup BuiltBefore]
    /\ \A r \in Release : status[r] = "absent" <=> r \notin Legacy
    /\ review = [r \in Release |-> IF r \in Legacy THEN "legacy_pending" ELSE "pending"]
    /\ relRollout \in [Release -> Rollouts \cup {100}]
    /\ staged = {}
    /\ public \in SUBSET Legacy
    /\ \A r \in Legacy : /\ status[r] \in BuiltBefore => r \in public
                         /\ r \in public => status[r] \in BuiltBefore \cup {"revoked"}
    /\ seq \in [Release -> 0..MaxSeq]
    /\ \A r \in Release :
        /\ seq[r] <= Cardinality(Legacy)
        /\ status[r] \in PublishedBefore => seq[r] > 0
        /\ seq[r] > 0 => status[r] \in PublishedBefore \cup {"revoked"} /\ r \in public
        /\ \A q \in Release \ {r} : seq[r] = seq[q] => seq[r] = 0
    /\ active \in [Channel -> Release \cup {None}]
    /\ \A c \in Channel, r \in Release :
        /\ active[c] = r => status[r] \in {"published", "paused"} /\ ChannelOf[r] = c
        /\ status[r] = "published" /\ ChannelOf[r] = c => active[c] = r
    /\ paused \in [Channel -> BOOLEAN]
    /\ \A c \in Channel : active[c] # None => (paused[c] <=> status[active[c]] = "paused")
    /\ rollout \in [Channel -> Rollouts \cup {100}]

DeveloperStep(r) ==
    \/ Upload(r) \/ Validate(r) \/ Pause(r) \/ AutoStop(r)
    \/ Revoke(r) \/ Rollback(r) \/ Delete(r)
    \/ \E pct \in Rollouts : Publish(r, pct)

ModeratorStep(r) == Approve(r) \/ Reject(r) \/ RequestChanges(r)

Next == \E r \in Release : DeveloperStep(r) \/ ModeratorStep(r)

Spec == Init /\ [][Next]_vars
-----------------------------------------------------------------------------
(* Properties *)

\* Every variable keeps its type.
TypeOK ==
    /\ status \in [Release -> ReleaseStatus \cup {"absent", "deleted"}]
    /\ review \in [Release -> ReviewStatus]
    /\ seq \in [Release -> 0..MaxSeq]
    /\ relRollout \in [Release -> 1..100]
    /\ staged \in SUBSET Release
    /\ public \in SUBSET Release
    /\ active \in [Channel -> Release \cup {None}]
    /\ paused \in [Channel -> BOOLEAN]
    /\ rollout \in [Channel -> 1..100]

\* Nothing sits at a public address without a standing administrative decision,
\* whichever of upload, publication, revocation, deletion or takedown came last.
PublicBytesCleared == \A r \in public : Cleared(r)

\* Grandfathered, with a build that the worker staged after moderation was
\* introduced, and that no decision has been made on.
StagedLegacy(r) == review[r] = "legacy_pending" /\ r \in staged

\* A version the store shows as live has its bytes behind the download button,
\* also when it went live by fallback, by rollback or by a second publication: an
\* approved one always, a grandfathered one unless the worker staged its build
\* only after moderation came, when publish_release takes it live but, unlike
\* approval, rollback and fallback, copies nothing.
LiveHasBytes == \A r \in Release : Live(r) => r \in public \/ StagedLegacy(r)

\* artifact_publication.py: grandfathered releases "stay live" with their artifact
\* "already sitting in the public bucket".
LegacyHasBytes ==
    \A r \in Release : Live(r) /\ review[r] = "legacy_pending" => r \in public

\* A channel points at a cleared release of its own that is published or paused:
\* never at a superseded, revoked, withdrawn or deleted one.
ActivePointerSound ==
    \A c \in Channel : active[c] # None =>
        /\ ChannelOf[active[c]] = c
        /\ status[active[c]] \in {"published", "paused"}
        /\ Cleared(active[c])

Forward ==
    \A c \in Channel : \A r, q \in Release :
        (/\ Offered(c) = r
         /\ Offered(c)' = q
         /\ q # r
         /\ status[q] # "paused"
         /\ status'[r] # "revoked"
         /\ Cleared(r)') => seq'[q] > seq[r]

\* While a channel serves a release, the next one it serves has a higher
\* sequence, by the numbers as they stand, unless the first was revoked or
\* withdrawn, or the second was paused and is published, approved or restored
\* again.  An approval that comes late cannot pull it back.
OffersMoveForward == [][Forward]_vars

PausedOrLast ==
    \A c \in Channel : \A r \in Release :
        Offered(c) = r /\ Offered(c)' = None => paused'[c] \/ FallbackCandidates(r) = {}

\* A channel that was serving serves nothing next only if it is paused then, or
\* the release that left had no cleared *superseded* predecessor.  (A published one
\* that an approval left beside the channel is not looked for: HandBackFindsApproved.)
OffSaleOnlyWhenNothingLeft == [][PausedOrLast]_vars

Store == INSTANCE PublicStore WITH
    cleared <- {r \in Release : Cleared(r)},
    grandfathered <- {r \in Existing : review[r] = "legacy_pending"},
    downloadable <- public,
    offered <- [c \in Channel |-> Offered(c)]

\* The lifecycle implements the promise of PublicStore: what the public can reach is
\* cleared, only a moderator's approval clears, one release at a time, and what is
\* offered without being downloadable was grandfathered and never decided on.
StoreContract == Store!Spec

\* moderation.py: "Rejecting a bad UPDATE must not take the whole extension
\* offline."  A takedown that hands the channel back leaves it serving.
HandBackServes ==
    [][\A c \in Channel : \A r \in Release :
        (/\ active[c] = r
         /\ review'[r] = "rejected"
         /\ active'[c] # None) => Offered(c)' = active'[c]]_vars

\* moderation.py: a takedown "hands the channel back to the newest earlier version
\* that is itself approved".  While one stands published or superseded, the
\* channel is not left empty.
HandBackFindsApproved ==
    [][\A c \in Channel : \A r, q \in Release :
        (/\ active[c] = r
         /\ review'[r] = "rejected"
         /\ q # r
         /\ ChannelOf[q] = c
         /\ seq[q] < seq[r]
         /\ status[q] \in {"published", "superseded"}
         /\ Cleared(q)) => active'[c] # None]_vars

=============================================================================
