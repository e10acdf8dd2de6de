------------------------ MODULE ReleaseLifecycleProofs ------------------------
(***************************************************************************)
(* Proofs that the release lifecycle keeps its invariants for every set of *)
(* releases and channels.  None of the four stated invariants carries      *)
(* itself: what goes live by fallback or by a second publication has bytes *)
(* only because of what validation and approval did long before, which     *)
(* BuildKept and ApprovedPublic record.                                    *)
(***************************************************************************)
EXTENDS ReleaseLifecycle, WellFoundedInduction, TLAPS

\* Past validation, a release keeps a stored build until it is deleted.
BuildKept ==
    \A r \in Release :
        status[r] \in {"ready", "draft", "scheduled", "publishing",
                       "published", "paused", "superseded"} => HasBuild(r)

\* An approved release is in public storage until its approval is withdrawn.
ApprovedPublic == \A r \in Existing : review[r] = "approved" => r \in public

IInv ==
    /\ TypeOK
    /\ PublicBytesCleared
    /\ BuildKept
    /\ ApprovedPublic
    /\ ActivePointerSound

RowStatus == ReleaseStatus \cup {"absent", "deleted"}

-----------------------------------------------------------------------------
\* Every initial database satisfies the inductive invariant.
LEMMA InitInv == Init => IInv
<1> SUFFICES ASSUME Init PROVE IInv
  OBVIOUS
<1> USE LifecycleAssumption
<1>1. TypeOK
  <2>1. status \in [Release -> ReleaseStatus \cup {"absent", "deleted"}]
    BY DEF Init, BuiltBefore, ReleaseStatus
  <2>2. review \in [Release -> ReviewStatus]
    BY DEF Init, ReviewStatus
  <2>3. relRollout \in [Release -> 1..100] /\ rollout \in [Channel -> 1..100]
    <3>1. Rollouts \cup {100} \subseteq 1..100
      OBVIOUS
    <3>2. QED
      BY <3>1 DEF Init
  <2>4. QED
    BY <2>1, <2>2, <2>3 DEF Init, TypeOK
<1>2. \A r \in Legacy : Cleared(r)
  BY DEF Init, Cleared, Existing, BuiltBefore, PUBLIC_REVIEW_STATES
<1>3. PublicBytesCleared
  BY <1>2 DEF Init, PublicBytesCleared
<1>4. BuildKept
  BY DEF Init, BuildKept, HasBuild, BuiltBefore
<1>5. ApprovedPublic
  <2>1. \A r \in Release : review[r] # "approved"
    BY DEF Init
  <2>2. QED
    BY <2>1 DEF ApprovedPublic, Existing
<1>6. ActivePointerSound
  <2>1. ASSUME NEW c \in Channel, active[c] # None
        PROVE  /\ active[c] \in Legacy /\ ChannelOf[active[c]] = c
               /\ status[active[c]] \in {"published", "paused"}
    BY <2>1 DEF Init
  <2>2. QED
    BY <1>2, <2>1 DEF ActivePointerSound
<1>7. QED
  BY <1>1, <1>3, <1>4, <1>5, <1>6 DEF IInv

-----------------------------------------------------------------------------
(* What the two shared routines do *)

\* SetChannelActive leaves every release as st has it, except that the release it
\* replaces goes from published to superseded.
LEMMA SetChannelActiveLemma ==
    ASSUME TypeOK, NEW c \in Channel, NEW r \in Release, NEW pct \in 1..100,
           NEW st \in [Release -> RowStatus],
           SetChannelActive(c, r, pct, st)
    PROVE  /\ status' \in [Release -> RowStatus]
           /\ \A x \in Release :
                \/ status'[x] = st[x]
                \/ x = active[c] /\ x # r /\ st[x] = "published" /\ status'[x] = "superseded"
           /\ active' \in [Channel -> Release \cup {None}]
           /\ active'[c] = r
           /\ \A d \in Channel \ {c} : active'[d] = active[d]
           /\ paused' \in [Channel -> BOOLEAN]
           /\ rollout' \in [Channel -> 1..100]
<1>1. \A x \in Release :
        \/ status'[x] = st[x]
        \/ x = active[c] /\ x # r /\ st[x] = "published" /\ status'[x] = "superseded"
  BY DEF SetChannelActive
<1>2. status' \in [Release -> RowStatus]
  BY DEF SetChannelActive, RowStatus, ReleaseStatus
<1>3. /\ active' \in [Channel -> Release \cup {None}]
      /\ active'[c] = r
      /\ \A d \in Channel \ {c} : active'[d] = active[d]
      /\ rollout' \in [Channel -> 1..100]
  BY DEF SetChannelActive, TypeOK
<1>4. paused' \in [Channel -> BOOLEAN]
  BY DEF SetChannelActive, TypeOK
<1>5. QED
  BY <1>1, <1>2, <1>3, <1>4

\* HandBack moves only the channel of r, and off r: to nothing, or to a cleared
\* superseded release of that channel, whose build it makes public.
LEMMA HandBackLemma ==
    ASSUME TypeOK, NEW r \in Release, NEW st \in [Release -> RowStatus],
           NEW pub \in SUBSET Release,
           HandBack(r, st, pub)
    PROVE  /\ status' \in [Release -> RowStatus]
           /\ public' \in SUBSET Release
           /\ active' \in [Channel -> Release \cup {None}]
           /\ \A d \in Channel \ {ChannelOf[r]} : active'[d] = active[d]
           /\ \/ /\ status' = st
                 /\ public' = pub
                 /\ \/ active' = active /\ active[ChannelOf[r]] # r
                    \/ active'[ChannelOf[r]] = None
              \/ \E p \in FallbackCandidates(r) :
                    /\ \A x \in Release \ {p} : status'[x] = st[x]
                    /\ status'[p] = "published"
                    /\ public' = pub \cup ({p} \cap (staged \cup pub))
                    /\ active'[ChannelOf[r]] = p
<1> DEFINE c == ChannelOf[r]
<1>1. c \in Channel
  BY LifecycleAssumption
<1>2. CASE active[c] # r /\ status' = st /\ public' = pub /\ UNCHANGED active
  BY <1>1, <1>2 DEF TypeOK
<1>3. CASE /\ active[c] = r
           /\ status' = st
           /\ public' = pub
           /\ active' = [active EXCEPT ![c] = None]
  BY <1>1, <1>3 DEF TypeOK
<1>4. ASSUME NEW p \in Newest(FallbackCandidates(r)),
             status' = [st EXCEPT ![p] = "published"],
             public' = PublishArtifact(p, pub),
             active' = [active EXCEPT ![c] = p]
      PROVE  /\ status' \in [Release -> RowStatus]
             /\ public' \in SUBSET Release
             /\ active' \in [Channel -> Release \cup {None}]
             /\ \A d \in Channel \ {c} : active'[d] = active[d]
             /\ p \in FallbackCandidates(r)
             /\ \A x \in Release \ {p} : status'[x] = st[x]
             /\ status'[p] = "published"
             /\ public' = pub \cup ({p} \cap (staged \cup pub))
             /\ active'[c] = p
  <2>1. p \in FallbackCandidates(r) /\ p \in Release
    BY <1>4 DEF Newest, FallbackCandidates
  <2>2. /\ status' \in [Release -> RowStatus]
        /\ \A x \in Release \ {p} : status'[x] = st[x]
        /\ status'[p] = "published"
    BY <1>4, <2>1 DEF RowStatus, ReleaseStatus
  <2>3. /\ active' \in [Channel -> Release \cup {None}]
        /\ \A d \in Channel \ {c} : active'[d] = active[d]
        /\ active'[c] = p
    BY <1>1, <1>4, <2>1 DEF TypeOK
  <2>4. /\ public' \in SUBSET Release
        /\ public' = pub \cup ({p} \cap (staged \cup pub))
    BY <1>4, <2>1 DEF PublishArtifact
  <2>5. QED
    BY <2>1, <2>2, <2>3, <2>4
<1>5. QED
  <2>1. CASE \E p \in Newest(FallbackCandidates(r)) :
                /\ status' = [st EXCEPT ![p] = "published"]
                /\ public' = PublishArtifact(p, pub)
                /\ active' = [active EXCEPT ![c] = p]
    BY <1>4, <2>1
  <2>2. QED
    BY <1>2, <1>3, <2>1 DEF HandBack

-----------------------------------------------------------------------------
(* Each action keeps the inductive invariant *)

LEMMA UploadInv == ASSUME IInv, NEW r \in Release, Upload(r) PROVE IInv'
<1> USE DEF IInv
<1>1. /\ \A x \in Release \ {r} : status'[x] = status[x] /\ review'[x] = review[x]
      /\ status[r] = "absent" /\ status'[r] = "uploaded" /\ review'[r] = "pending"
      /\ UNCHANGED <<staged, public, active>>
  BY DEF Upload, TypeOK, artifactVars, channelVars
<1>2. TypeOK'
  BY DEF Upload, TypeOK, ReleaseStatus, ReviewStatus, artifactVars, channelVars
<1>3. \A x \in Release : Cleared(x)' <=> Cleared(x)
  BY <1>1 DEF Cleared, Existing, PUBLIC_REVIEW_STATES
<1>4. PublicBytesCleared' /\ ApprovedPublic'
  BY <1>1, <1>3 DEF PublicBytesCleared, ApprovedPublic, Cleared, Existing, TypeOK
<1>5. BuildKept'
  BY <1>1 DEF BuildKept, HasBuild
<1>6. ActivePointerSound'
  BY <1>1, <1>3 DEF ActivePointerSound, TypeOK
<1>7. QED
  BY <1>2, <1>4, <1>5, <1>6

LEMMA ValidateInv == ASSUME IInv, NEW r \in Release, Validate(r) PROVE IInv'
<1> USE DEF IInv
<1>1. /\ \A x \in Release \ {r} : status'[x] = status[x]
      /\ status[r] \in {"uploaded", "validating"}
      /\ \/ status'[r] = "ready" /\ staged' = staged \cup {r}
         \/ status'[r] = "validation_failed" /\ staged' = staged
      /\ UNCHANGED <<review, public, active>>
  BY DEF Validate, TypeOK, channelVars
<1>2. TypeOK'
  BY <1>1 DEF Validate, TypeOK, ReleaseStatus, channelVars
<1>3. \A x \in Release : Cleared(x)' <=> Cleared(x)
  BY <1>1 DEF Cleared, Existing
<1>5. PublicBytesCleared' /\ ApprovedPublic'
  BY <1>1, <1>3 DEF PublicBytesCleared, ApprovedPublic, Cleared, Existing, TypeOK
<1>6. BuildKept'
  BY <1>1 DEF BuildKept, HasBuild
<1>7. ActivePointerSound'
  BY <1>1, <1>3 DEF ActivePointerSound, TypeOK
<1>8. QED
  BY <1>2, <1>5, <1>6, <1>7

\* A release put on its channel by Publish, Rollback or Approve: st is its project's
\* statuses with r published, rev the decisions and pub the public bytes by then.
LEMMA GoesLiveInv ==
    ASSUME IInv, NEW r \in Release, NEW pct \in 1..100,
           NEW st \in [Release -> RowStatus], st[r] = "published",
           \A x \in Release \ {r} : st[x] = status[x],
           SetChannelActive(ChannelOf[r], r, pct, st),
           r \in Existing, HasBuild(r),
           \A x \in Release \ {r} : review'[x] = review[x],
           review'[r] \in PUBLIC_REVIEW_STATES,
           public' \in {public, public \cup {r}},
           review'[r] = "approved" => r \in public',
           staged' = staged,
           review' \in [Release -> ReviewStatus],
           seq' \in [Release -> 0..MaxSeq],
           relRollout' \in [Release -> 1..100]
    PROVE  IInv'
<1> USE DEF IInv
<1> DEFINE c == ChannelOf[r]
<1>1. c \in Channel
  BY LifecycleAssumption
<1>2. /\ status' \in [Release -> RowStatus]
      /\ \A x \in Release :
            \/ status'[x] = st[x]
            \/ x = active[c] /\ x # r /\ st[x] = "published" /\ status'[x] = "superseded"
      /\ active' \in [Channel -> Release \cup {None}]
      /\ active'[c] = r
      /\ \A d \in Channel \ {c} : active'[d] = active[d]
      /\ paused' \in [Channel -> BOOLEAN]
      /\ rollout' \in [Channel -> 1..100]
  BY <1>1, SetChannelActiveLemma
<1>3. /\ status'[r] = "published"
      /\ \A x \in Release \ {r} :
            \/ status'[x] = status[x]
            \/ x = active[c] /\ status[x] = "published" /\ status'[x] = "superseded"
  BY <1>2
<1>4. TypeOK'
  BY <1>2 DEF TypeOK, RowStatus
<1>5. Cleared(r)' /\ \A x \in Release \ {r} : Cleared(x)' <=> Cleared(x)
  BY <1>3 DEF Cleared, Existing
<1>6. PublicBytesCleared' /\ ApprovedPublic'
  <2>1. PublicBytesCleared'
    BY <1>5 DEF PublicBytesCleared, TypeOK
  <2>2. \A x \in Existing' \ {r} : x \in Existing /\ review[x] = review'[x]
    BY <1>3 DEF Existing
  <2>3. ApprovedPublic'
    BY <2>2 DEF ApprovedPublic, Existing
  <2>4. QED
    BY <2>1, <2>3
<1>7. BuildKept'
  BY <1>3 DEF BuildKept, HasBuild
<1>8. ActivePointerSound'
  <2> SUFFICES ASSUME NEW d \in Channel, active'[d] # None
               PROVE  /\ ChannelOf[active'[d]] = d
                      /\ status'[active'[d]] \in {"published", "paused"}
                      /\ Cleared(active[d])'
    BY DEF ActivePointerSound
  <2>1. CASE d = c
    BY <1>2, <1>3, <1>5, <2>1
  <2>2. CASE d # c
    <3>1. /\ active'[d] = active[d] /\ active[d] \in Release
          /\ ChannelOf[active[d]] = d /\ active[d] # r
          /\ status[active[d]] \in {"published", "paused"}
          /\ Cleared(active[d])
      BY <1>2, <2>2 DEF ActivePointerSound, TypeOK
    <3>2. active[d] # active[c]
      BY <1>1, <2>2, <3>1 DEF ActivePointerSound, TypeOK
    <3>3. QED
      BY <1>3, <1>5, <3>1, <3>2
  <2>3. QED
    BY <2>1, <2>2
<1>9. QED
  BY <1>4, <1>6, <1>7, <1>8

\* A release that Revoke, Reject or RequestChanges takes off its channel: the first
\* keeps its decision and its bytes, the others withdraw both.
LEMMA LeavesChannelInv ==
    ASSUME IInv, NEW r \in Release, r \in Existing,
           NEW st \in [Release -> RowStatus], st[r] \in {status[r], "revoked"},
           \A x \in Release \ {r} : st[x] = status[x],
           NEW pub \in SUBSET Release,
           HandBack(r, st, pub),
           \/ /\ pub = public /\ staged' = staged /\ review' = review
              /\ st[r] = "revoked"
           \/ /\ pub = public \ {r}
              /\ staged' = staged \cup ({r} \cap public)
              /\ \A x \in Release \ {r} : review'[x] = review[x]
              /\ review'[r] \notin PUBLIC_REVIEW_STATES
              /\ review' \in [Release -> ReviewStatus],
           UNCHANGED <<seq, relRollout>>
    PROVE  IInv'
<1> USE DEF IInv
<1> DEFINE c == ChannelOf[r]
<1>1. /\ status' \in [Release -> RowStatus]
      /\ public' \in SUBSET Release
      /\ active' \in [Channel -> Release \cup {None}]
      /\ \A d \in Channel \ {c} : active'[d] = active[d]
      /\ \/ /\ status' = st
            /\ public' = pub
            /\ \/ active' = active /\ active[c] # r
               \/ active'[c] = None
         \/ \E p \in FallbackCandidates(r) :
               /\ \A x \in Release \ {p} : status'[x] = st[x]
               /\ status'[p] = "published"
               /\ public' = pub \cup ({p} \cap (staged \cup pub))
               /\ active'[c] = p
  BY HandBackLemma
<1>2. c \in Channel /\ UNCHANGED <<paused, rollout>>
  BY LifecycleAssumption DEF HandBack
<1>3. TypeOK'
  BY <1>1, <1>2 DEF TypeOK, RowStatus
<1>4. \A p \in FallbackCandidates(r) :
        /\ p \in Release \ {r} /\ ChannelOf[p] = c
        /\ status[p] = "superseded" /\ Cleared(p)
  BY DEF FallbackCandidates
<1>5. /\ status'[r] = st[r]
      /\ \A x \in Release \ {r} :
            \/ status'[x] = status[x]
            \/ status[x] = "superseded" /\ status'[x] = "published"
  BY SMTT(30), <1>1, <1>4
\* The hand-back makes a grandfathered predecessor public that was only staged.
<1>11. /\ pub \subseteq public'
       /\ \A x \in public' : x \in pub \/ (x \in Release \ {r} /\ Cleared(x))
  BY <1>1, <1>4
<1>6. /\ \A x \in Release \ {r} : Cleared(x)' <=> Cleared(x)
      /\ Cleared(r)' => Cleared(r) /\ pub = public /\ staged' = staged
      /\ r \in pub => Cleared(r)'
  <2>1. \A x \in Release : x \in Existing' <=> x \in Existing
    BY <1>5 DEF Existing
  <2>2. QED
    BY <1>5, <2>1 DEF Cleared, PublicBytesCleared
<1>7. PublicBytesCleared' /\ ApprovedPublic'
  <2>1. PublicBytesCleared'
    BY <1>1, <1>6, <1>11 DEF PublicBytesCleared
  <2>2. \A x \in Existing' : x \in Existing
    BY <1>5 DEF Existing
  <2>3. \A x \in Existing' : review'[x] = "approved" => x \in pub
    BY <2>2 DEF ApprovedPublic, Existing, PUBLIC_REVIEW_STATES
  <2>4. QED
    BY <1>11, <2>1, <2>3 DEF ApprovedPublic
<1>8. BuildKept'
  <2>1. \A x \in Release : HasBuild(x) => HasBuild(x)'
    BY <1>11 DEF HasBuild
  <2>2. QED
    BY <1>5, <2>1 DEF BuildKept
<1>9. ActivePointerSound'
  <2> SUFFICES ASSUME NEW d \in Channel, active'[d] # None
               PROVE  /\ ChannelOf[active'[d]] = d
                      /\ status'[active'[d]] \in {"published", "paused"}
                      /\ Cleared(active[d])'
    BY DEF ActivePointerSound
  <2>1. CASE active'[d] = active[d] /\ active[d] # r
    <3>1. /\ active[d] \in Release \ {r} /\ ChannelOf[active[d]] = d
          /\ status[active[d]] \in {"published", "paused"} /\ Cleared(active[d])
      BY <2>1 DEF ActivePointerSound, TypeOK
    <3>2. QED
      BY <1>5, <1>6, <2>1, <3>1
  <2>2. CASE d = c /\ \E p \in FallbackCandidates(r) : active'[c] = p /\ status'[p] = "published"
    BY <1>4, <1>6, <2>2
  <2>3. d # c => active'[d] = active[d] /\ active[d] # r
    BY <1>1 DEF ActivePointerSound
  <2>4. QED
    BY <1>1, <2>1, <2>2, <2>3
<1>10. QED
  BY <1>3, <1>7, <1>8, <1>9

LEMMA RevokeInv == ASSUME IInv, NEW r \in Release, Revoke(r) PROVE IInv'
<1> DEFINE st == [status EXCEPT ![r] = "revoked"]
<1>1. /\ st \in [Release -> RowStatus] /\ st[r] = "revoked"
      /\ \A x \in Release \ {r} : st[x] = status[x]
  BY DEF IInv, TypeOK, RowStatus, ReleaseStatus
<1>2. HandBack(r, st, public) /\ r \in Existing /\ UNCHANGED <<review, seq, relRollout, staged>>
  BY DEF Revoke
<1>3. public \in SUBSET Release
  BY DEF IInv, TypeOK
<1> HIDE DEF st
<1>4. QED
  BY <1>1, <1>2, <1>3, LeavesChannelInv

\* Both takedowns, whatever statuses they start the hand-back from.
LEMMA TakeDownInv ==
    ASSUME IInv, NEW r \in Release, r \in Existing,
           NEW verdict \in {"rejected", "changes_requested"},
           NEW st \in [Release -> RowStatus], st[r] \in {status[r], "revoked"},
           \A x \in Release \ {r} : st[x] = status[x],
           TakeDown(r, verdict, st)
    PROVE  IInv'
<1> DEFINE pub == Withdrawn(r)
<1>1. pub \in SUBSET Release /\ pub = public \ {r}
  BY DEF IInv, TypeOK, Withdrawn
<1>2. HandBack(r, st, pub) /\ UNCHANGED <<seq, relRollout>>
  BY DEF TakeDown
<1>3. /\ staged' = staged \cup ({r} \cap public)
      /\ \A x \in Release \ {r} : review'[x] = review[x]
      /\ review'[r] \notin PUBLIC_REVIEW_STATES
      /\ review' \in [Release -> ReviewStatus]
  BY DEF TakeDown, IInv, TypeOK, ReviewStatus, PUBLIC_REVIEW_STATES
<1> HIDE DEF pub
<1>4. QED
  BY <1>1, <1>2, <1>3, LeavesChannelInv

LEMMA RejectInv == ASSUME IInv, NEW r \in Release, Reject(r) PROVE IInv'
<1> DEFINE st == [status EXCEPT ![r] = "revoked"]
<1>1. /\ st \in [Release -> RowStatus] /\ st[r] = "revoked"
      /\ \A x \in Release \ {r} : st[x] = status[x]
  BY DEF IInv, TypeOK, RowStatus, ReleaseStatus
<1>2. r \in Existing /\ TakeDown(r, "rejected", st)
  BY DEF Reject
<1> HIDE DEF st
<1>3. QED
  BY <1>1, <1>2, TakeDownInv

LEMMA RequestChangesInv == ASSUME IInv, NEW r \in Release, RequestChanges(r) PROVE IInv'
<1>1. status \in [Release -> RowStatus]
  BY DEF IInv, TypeOK, RowStatus
<1>2. QED
  BY <1>1, TakeDownInv DEF RequestChanges

LEMMA PublishInv ==
    ASSUME IInv, NEW r \in Release, NEW pct \in Rollouts, Publish(r, pct) PROVE IInv'
<1> DEFINE s == IF seq[r] = 0 THEN NextSequence ELSE seq[r]
           st == [status EXCEPT ![r] = "published"]
<1>1. /\ st \in [Release -> RowStatus] /\ st[r] = "published"
      /\ \A x \in Release \ {r} : st[x] = status[x]
      /\ pct \in 1..100
  BY LifecycleAssumption DEF IInv, TypeOK, RowStatus, ReleaseStatus
<1>2. /\ s \in 1..MaxSeq /\ seq' = [seq EXCEPT ![r] = s]
      /\ relRollout' = [relRollout EXCEPT ![r] = pct]
      /\ UNCHANGED <<review, staged, public>>
      /\ HasBuild(r)
      /\ status[r] \in {"ready", "draft", "paused", "scheduled"}
      /\ \/ Cleared(r) /\ SetChannelActive(ChannelOf[r], r, pct, st)
         \/ ~Cleared(r) /\ status' = st /\ UNCHANGED <<active, paused, rollout>>
  BY DEF Publish, MayPublish, artifactVars, channelVars
<1> HIDE DEF s, st
<1>3. seq' \in [Release -> 0..MaxSeq] /\ relRollout' \in [Release -> 1..100]
  BY <1>1, <1>2 DEF IInv, TypeOK
<1>4. CASE Cleared(r) /\ SetChannelActive(ChannelOf[r], r, pct, st)
  <2>1. /\ r \in Existing /\ review[r] \in PUBLIC_REVIEW_STATES
        /\ review[r] = "approved" => r \in public
    BY <1>2, <1>4 DEF Cleared, IInv, ApprovedPublic
  <2>2. /\ public' = public /\ staged' = staged
        /\ review'[r] \in PUBLIC_REVIEW_STATES
        /\ review'[r] = "approved" => r \in public'
        /\ review' \in [Release -> ReviewStatus]
        /\ \A x \in Release \ {r} : review'[x] = review[x]
    BY <1>2, <2>1 DEF IInv, TypeOK
  <2>3. QED
    BY <1>1, <1>2, <1>3, <1>4, <2>1, <2>2, GoesLiveInv
<1>5. CASE ~Cleared(r) /\ status' = st /\ UNCHANGED <<active, paused, rollout>>
  <2> USE DEF IInv
  <2>1. TypeOK'
    BY <1>1, <1>2, <1>3, <1>5 DEF TypeOK, RowStatus
  <2>2. \A x \in Release : Cleared(x)' <=> Cleared(x)
    BY <1>1, <1>2, <1>5 DEF Cleared, Existing
  <2>3. PublicBytesCleared' /\ ApprovedPublic'
    <3>1. r \in Existing /\ \A x \in Release \ {r} : status'[x] = status[x]
      BY <1>1, <1>2, <1>5 DEF Existing
    <3>2. \A x \in Existing' : x \in Existing
      BY <3>1 DEF Existing
    <3>3. PublicBytesCleared'
      BY <1>2, <2>2 DEF PublicBytesCleared, TypeOK
    <3>4. QED
      BY <1>2, <3>2, <3>3 DEF ApprovedPublic
  <2>4. BuildKept'
    BY <1>1, <1>2, <1>5 DEF BuildKept, HasBuild
  <2>5. ActivePointerSound'
    BY <1>1, <1>5, <2>2 DEF ActivePointerSound, TypeOK
  <2>6. QED
    BY <2>1, <2>3, <2>4, <2>5
<1>6. QED
  BY <1>2, <1>4, <1>5

LEMMA RollbackInv == ASSUME IInv, NEW r \in Release, Rollback(r) PROVE IInv'
<1> DEFINE st == [status EXCEPT ![r] = "published"]
           s == NextSequence
<1>1. /\ st \in [Release -> RowStatus] /\ st[r] = "published"
      /\ \A x \in Release \ {r} : st[x] = status[x]
  BY DEF IInv, TypeOK, RowStatus, ReleaseStatus
<1>2. /\ SetChannelActive(ChannelOf[r], r, 100, st)
      /\ s \in 1..MaxSeq /\ seq' = [seq EXCEPT ![r] = s]
      /\ relRollout' = [relRollout EXCEPT ![r] = 100]
      /\ UNCHANGED <<review, staged>>
      /\ r \in Existing /\ HasBuild(r) /\ review[r] \in PUBLIC_REVIEW_STATES
      /\ public' = public \cup {r}
  BY DEF Rollback, MayRollBackTo, Cleared, HasBuild, PublishArtifact
<1> HIDE DEF st, s
<1>3. /\ seq' \in [Release -> 0..MaxSeq] /\ relRollout' \in [Release -> 1..100]
      /\ review' \in [Release -> ReviewStatus]
      /\ \A x \in Release \ {r} : review'[x] = review[x]
      /\ review'[r] \in PUBLIC_REVIEW_STATES /\ r \in public'
  BY <1>2 DEF IInv, TypeOK
<1>4. QED
  BY <1>1, <1>2, <1>3, GoesLiveInv

LEMMA ApproveInv == ASSUME IInv, NEW r \in Release, Approve(r) PROVE IInv'
<1>1. /\ r \in Existing
      /\ status[r] \notin {"uploaded", "validating", "validation_failed"}
      /\ review' = [review EXCEPT ![r] = "approved"]
      /\ HasBuild(r)
      /\ public' = public \cup {r}
      /\ UNCHANGED <<seq, relRollout, staged>>
      /\ \/ status[r] = "published" /\ SetChannelActive(ChannelOf[r], r, relRollout[r], status)
         \/ UNCHANGED <<status, active, paused, rollout>>
  BY DEF Approve, HasBuild, PublishArtifact, channelVars
<1>2. /\ review' \in [Release -> ReviewStatus]
      /\ \A x \in Release \ {r} : review'[x] = review[x]
      /\ review'[r] = "approved" /\ review'[r] \in PUBLIC_REVIEW_STATES
  BY <1>1 DEF IInv, TypeOK, ReviewStatus, PUBLIC_REVIEW_STATES
<1>3. CASE status[r] = "published" /\ SetChannelActive(ChannelOf[r], r, relRollout[r], status)
  <2> DEFINE pct == relRollout[r]
  <2>1. /\ pct \in 1..100 /\ status \in [Release -> RowStatus]
        /\ seq' \in [Release -> 0..MaxSeq] /\ relRollout' \in [Release -> 1..100]
        /\ r \in public' /\ SetChannelActive(ChannelOf[r], r, pct, status)
    BY <1>1, <1>3 DEF IInv, TypeOK, RowStatus
  <2> HIDE DEF pct
  <2>2. QED
    BY <1>1, <1>2, <1>3, <2>1, GoesLiveInv
<1>4. CASE UNCHANGED <<status, active, paused, rollout>>
  <2> USE DEF IInv
  <2>1. TypeOK'
    BY <1>1, <1>2, <1>4 DEF TypeOK
  <2>2. Cleared(r)' /\ \A x \in Release \ {r} : Cleared(x)' <=> Cleared(x)
    BY <1>1, <1>2, <1>4 DEF Cleared, Existing
  <2>3. PublicBytesCleared' /\ ApprovedPublic'
    BY <1>1, <2>2 DEF PublicBytesCleared, ApprovedPublic, Cleared, Existing, TypeOK
  <2>4. BuildKept'
    BY <1>1, <1>2, <1>4 DEF BuildKept, HasBuild
  <2>5. ActivePointerSound'
    BY <1>4, <2>2 DEF ActivePointerSound, TypeOK
  <2>6. QED
    BY <2>1, <2>3, <2>4, <2>5
<1>5. QED
  BY <1>1, <1>3, <1>4

\* A release that becomes paused, by its developer or by the automatic stop.
LEMMA PausedInv ==
    ASSUME IInv, NEW r \in Release, status[r] = "published",
           status' = [status EXCEPT ![r] = "paused"],
           paused' \in [Channel -> BOOLEAN],
           UNCHANGED <<review, seq, relRollout, staged, public, active, rollout>>
    PROVE  IInv'
<1> USE DEF IInv
<1>1. TypeOK'
  BY DEF TypeOK, ReleaseStatus
<1>2. status'[r] = "paused" /\ \A x \in Release \ {r} : status'[x] = status[x]
  BY DEF TypeOK
<1>3. \A x \in Release : Cleared(x)' <=> Cleared(x)
  BY <1>2 DEF Cleared, Existing
<1>4. PublicBytesCleared' /\ ApprovedPublic'
  BY <1>3 DEF PublicBytesCleared, ApprovedPublic, Cleared, Existing, TypeOK
<1>5. BuildKept'
  BY <1>2 DEF BuildKept, HasBuild
<1>6. ActivePointerSound'
  BY <1>2, <1>3 DEF ActivePointerSound, TypeOK
<1>7. QED
  BY <1>1, <1>4, <1>5, <1>6

LEMMA PauseInv == ASSUME IInv, NEW r \in Release, Pause(r) PROVE IInv'
<1>1. paused' \in [Channel -> BOOLEAN]
  BY DEF Pause, IInv, TypeOK
<1>2. QED
  BY <1>1, PausedInv DEF Pause, artifactVars

LEMMA AutoStopInv == ASSUME IInv, NEW r \in Release, AutoStop(r) PROVE IInv'
<1>1. paused' \in [Channel -> BOOLEAN]
  BY DEF AutoStop, IInv, TypeOK
<1>2. QED
  BY <1>1, PausedInv DEF AutoStop, artifactVars

LEMMA DeleteInv == ASSUME IInv, NEW r \in Release, Delete(r) PROVE IInv'
<1> USE DEF IInv
<1> DEFINE c == ChannelOf[r]
<1>1. /\ c \in Channel
      /\ status'[r] = "deleted" /\ \A x \in Release \ {r} : status'[x] = status[x]
      /\ staged' = staged \ {r} /\ public' = public \ {r}
      /\ UNCHANGED <<review, relRollout, rollout>>
      /\ active' \in [Channel -> Release \cup {None}]
      /\ \/ active'[c] = None /\ \A d \in Channel \ {c} : active'[d] = active[d]
         \/ active[c] # r /\ active' = active
  BY LifecycleAssumption DEF Delete, TypeOK
<1>2. TypeOK'
  <2>1. seq' \in [Release -> 0..MaxSeq]
    BY LifecycleAssumption DEF Delete, TypeOK
  <2>2. status' \in [Release -> ReleaseStatus \cup {"absent", "deleted"}]
    BY DEF Delete, TypeOK
  <2>3. paused' \in [Channel -> BOOLEAN]
    BY DEF Delete, TypeOK
  <2>4. QED
    BY <1>1, <2>1, <2>2, <2>3 DEF TypeOK
<1>3. ~Cleared(r)' /\ \A x \in Release \ {r} : Cleared(x)' <=> Cleared(x)
  BY <1>1 DEF Cleared, Existing
<1>4. PublicBytesCleared' /\ ApprovedPublic'
  BY <1>1, <1>3 DEF PublicBytesCleared, ApprovedPublic, Cleared, Existing, TypeOK
<1>5. BuildKept'
  BY <1>1 DEF BuildKept, HasBuild
<1>6. ActivePointerSound'
  <2>1. ASSUME NEW d \in Channel, active'[d] # None PROVE active'[d] = active[d] /\ active[d] # r
    BY <1>1, <2>1 DEF ActivePointerSound
  <2>2. QED
    BY <1>1, <1>3, <2>1 DEF ActivePointerSound, TypeOK
<1>7. QED
  BY <1>2, <1>4, <1>5, <1>6

LEMMA StutterInv == ASSUME IInv, UNCHANGED vars PROVE IInv'
BY DEF IInv, TypeOK, PublicBytesCleared, BuildKept, ApprovedPublic,
       ActivePointerSound, Cleared, Existing, HasBuild, vars, releaseVars, artifactVars, channelVars

\* Every step of the system keeps the inductive invariant.
LEMMA NextInv == IInv /\ [Next]_vars => IInv'
<1> SUFFICES ASSUME IInv, [Next]_vars PROVE IInv'
  OBVIOUS
<1>1. ASSUME NEW r \in Release, DeveloperStep(r) PROVE IInv'
  BY <1>1, UploadInv, ValidateInv, PauseInv, AutoStopInv, RevokeInv, RollbackInv, DeleteInv,
     PublishInv DEF DeveloperStep
<1>2. ASSUME NEW r \in Release, ModeratorStep(r) PROVE IInv'
  BY <1>2, ApproveInv, RejectInv, RequestChangesInv DEF ModeratorStep
<1>3. QED
  BY <1>1, <1>2, StutterInv DEF Next

\* The inductive invariant holds throughout every behaviour.
THEOREM InvariantHolds == Spec => []IInv
BY InitInv, NextInv, PTL DEF Spec

-----------------------------------------------------------------------------
(* The stated invariants *)

\* Every variable of the lifecycle keeps its type.
THEOREM TypeCorrect == Spec => []TypeOK
<1>1. IInv => TypeOK
  BY DEF IInv
<1>2. QED
  BY <1>1, InvariantHolds, PTL

\* Nothing sits at a public address without a standing administrative decision.
THEOREM PublicBytesAreCleared == Spec => []PublicBytesCleared
<1>1. IInv => PublicBytesCleared
  BY DEF IInv
<1>2. QED
  BY <1>1, InvariantHolds, PTL

\* An approved version shown as live has its bytes behind the download button; a
\* grandfathered one has them unless its build was only ever staged.
THEOREM LiveVersionsHaveBytes == Spec => []LiveHasBytes
<1>1. IInv => LiveHasBytes
  BY DEF IInv, LiveHasBytes, StagedLegacy, Live, BuildKept, HasBuild, ApprovedPublic, Existing,
         PUBLIC_REVIEW_STATES
<1>2. QED
  BY <1>1, InvariantHolds, PTL

\* A channel points only at a cleared release of its own, published or paused.
THEOREM ActivePointersAreSound == Spec => []ActivePointerSound
<1>1. IInv => ActivePointerSound
  BY DEF IInv
<1>2. QED
  BY <1>1, InvariantHolds, PTL
-----------------------------------------------------------------------------
(* Sequence numbers: what makes a channel move forward *)

\* A release has a number while it is published, paused or superseded, none before it
\* is published nor after it is deleted, and no two releases of the project have the
\* same.  (The number of a deleted one may be given again.)
Numbered ==
    /\ \A r \in Release : status[r] \in {"published", "paused", "superseded"} => seq[r] > 0
    /\ \A r \in Release :
          status[r] \in {"absent", "uploaded", "validating", "validation_failed",
                         "ready", "draft", "scheduled", "deleted"} => seq[r] = 0
    /\ \A r, q \in Release : r # q /\ seq[r] = seq[q] => seq[r] = 0

\* A set of naturals that has a member has a least one.
LEMMA LeastNatural ==
    ASSUME NEW T \in SUBSET Nat, T # {}
    PROVE  \E n \in T : \A m \in T : n <= m
<1>1. PICK n \in T : \A m \in T : <<m, n>> \notin OpToRel(<, Nat)
  BY NatLessThanWellFounded, WFMin
<1>2. ASSUME NEW m \in T PROVE n <= m
  <2>1. OpToRel(<, Nat) = {pair \in Nat \X Nat : pair[1] < pair[2]}
    BY Zenon DEF OpToRel
  <2>2. <<m, n>> \notin {pair \in Nat \X Nat : pair[1] < pair[2]}
    BY <1>1, <2>1
  <2>3. QED
    BY <2>2
<1>3. QED
  BY <1>2

\* _next_sequence is above the number of every release that exists.
LEMMA NextSequenceLemma ==
    ASSUME TypeOK
    PROVE  /\ NextSequence \in 1..(MaxSeq + 1)
           /\ \A r \in Existing : seq[r] < NextSequence
<1> DEFINE Above == {n \in 1..(MaxSeq + 1) : \A r \in Existing : seq[r] < n}
<1>1. MaxSeq \in Nat /\ \A r \in Existing : seq[r] \in 0..MaxSeq
  BY LifecycleAssumption DEF TypeOK, Existing
<1>2. Above \in SUBSET Nat /\ MaxSeq + 1 \in Above
  BY <1>1
<1>3. PICK n \in Above : \A m \in Above : n <= m
  BY <1>2, LeastNatural
<1>4. /\ n \in 1..(MaxSeq + 1)
      /\ \A r \in Existing : seq[r] < n
      /\ \A m \in 1..(n - 1) : \E r \in Existing : seq[r] >= m
  <2>1. ASSUME NEW m \in 1..(n - 1) PROVE \E r \in Existing : seq[r] >= m
    <3>1. m \in 1..(MaxSeq + 1) /\ m < n
      BY <1>1, <1>3
    <3>2. m \notin Above
      BY <3>1, <1>3, <1>1
    <3>3. QED
      BY <3>1, <3>2, <1>1
  <2>2. QED
    BY <1>3, <2>1
<1>5. QED
  BY <1>4 DEF NextSequence

\* A release that takes the next number.
LEMMA TakesNext ==
    ASSUME IInv, Numbered, NEW r \in Release, NEW s, s = NextSequence,
           s \in 1..MaxSeq, seq' = [seq EXCEPT ![r] = s]
    PROVE  /\ seq'[r] > 0
           /\ \A x \in Release \ {r} : seq'[x] = seq[x]
           /\ \A x \in Release \ {r} : seq[x] < seq'[r]
<1>1. /\ seq \in [Release -> 0..MaxSeq] /\ MaxSeq \in Nat
      /\ status \in [Release -> RowStatus]
  BY LifecycleAssumption DEF IInv, TypeOK, RowStatus
<1>2. \A x \in Existing : seq[x] < s
  BY NextSequenceLemma DEF IInv
<1>3. \A x \in Release \ Existing : seq[x] = 0
  BY DEF Numbered, Existing
<1>4. QED
  BY <1>1, <1>2, <1>3

\* A step that gives no new number, and no status that needs one to a release without.
LEMMA KeepsNumbers ==
    ASSUME IInv, Numbered,
           \A x \in Release :
                \/ status'[x] = status[x]
                \/ status'[x] = "revoked"
                \/ status'[x] \in {"uploaded", "ready", "validation_failed"} /\ seq[x] = 0
                \/ /\ status'[x] \in {"published", "paused", "superseded"}
                   /\ status[x] \in {"published", "paused", "superseded"},
           seq' = seq
    PROVE  Numbered'
BY DEF Numbered, IInv, TypeOK

\* Every way a release leaves its channel hands the channel back.
LEMMA LeavingStep ==
    ASSUME IInv, NEW r \in Release, Revoke(r) \/ Reject(r) \/ RequestChanges(r)
    PROVE  \E st \in [Release -> RowStatus], pub \in SUBSET Release :
              /\ \A x \in Release \ {r} : st[x] = status[x]
              /\ st[r] \in {status[r], "revoked"}
              /\ st[r] = "revoked" \/ review'[r] \notin PUBLIC_REVIEW_STATES
              /\ \A x \in Release \ {r} : review'[x] = review[x]
              /\ pub \subseteq public
              /\ HandBack(r, st, pub) /\ seq' = seq
<1> DEFINE st == [status EXCEPT ![r] = "revoked"]
<1>1. /\ status \in [Release -> RowStatus] /\ public \in SUBSET Release
      /\ st \in [Release -> RowStatus] /\ st[r] = "revoked"
      /\ \A x \in Release \ {r} : st[x] = status[x]
  BY DEF IInv, TypeOK, RowStatus, ReleaseStatus
<1>2. /\ Withdrawn(r) \in SUBSET Release /\ Withdrawn(r) \subseteq public
      /\ review \in [Release -> ReviewStatus]
  BY <1>1 DEF Withdrawn, IInv, TypeOK
<1>3. CASE Revoke(r)
  <2>1. HandBack(r, st, public) /\ seq' = seq /\ review' = review
    BY <1>3 DEF Revoke
  <2> HIDE DEF st
  <2>2. QED
    BY <1>1, <2>1
<1>4. CASE Reject(r)
  <2>1. /\ HandBack(r, st, Withdrawn(r)) /\ seq' = seq
        /\ \A x \in Release \ {r} : review'[x] = review[x]
    BY <1>2, <1>4 DEF Reject, TakeDown
  <2> HIDE DEF st
  <2>2. QED
    BY <1>1, <1>2, <2>1
<1>5. CASE RequestChanges(r)
  <2>1. /\ HandBack(r, status, Withdrawn(r)) /\ seq' = seq
        /\ \A x \in Release \ {r} : review'[x] = review[x]
        /\ review'[r] \notin PUBLIC_REVIEW_STATES
    BY <1>2, <1>5 DEF RequestChanges, TakeDown, PUBLIC_REVIEW_STATES
  <2>2. QED
    BY <1>1, <1>2, <2>1
<1>6. QED
  BY <1>3, <1>4, <1>5

LEMMA NumberedInit == Init => Numbered
BY LifecycleAssumption DEF Init, Numbered, BuiltBefore, PublishedBefore

\* The statuses and numbers of each kind of step.
LEMMA NumberedNext ==
    ASSUME IInv, Numbered, NEW r \in Release, DeveloperStep(r) \/ ModeratorStep(r)
    PROVE  Numbered'
<1>0. /\ status \in [Release -> RowStatus] /\ seq \in [Release -> 0..MaxSeq] /\ MaxSeq \in Nat
      /\ ChannelOf[r] \in Channel
  BY LifecycleAssumption DEF IInv, TypeOK, RowStatus
<1>1. CASE Upload(r)
  BY <1>0, <1>1, KeepsNumbers DEF Upload, Numbered
<1>2. CASE Validate(r)
  BY <1>0, <1>2, KeepsNumbers DEF Validate, Numbered
<1>3. CASE Pause(r) \/ AutoStop(r)
  <2>1. /\ status[r] = "published" /\ seq' = seq
        /\ status' = [status EXCEPT ![r] = "paused"]
    BY <1>3 DEF Pause, AutoStop
  <2>2. \A x \in Release : \/ status'[x] = status[x]
                           \/ status'[x] = "paused" /\ status[x] = "published"
    BY <1>0, <2>1
  <2>3. QED
    BY <2>1, <2>2, KeepsNumbers
<1>4. CASE Revoke(r) \/ Reject(r) \/ RequestChanges(r)
  <2>1. PICK st \in [Release -> RowStatus], pub \in SUBSET Release :
           /\ \A x \in Release : st[x] \in {status[x], "revoked"}
           /\ HandBack(r, st, pub) /\ seq' = seq
    <3>1. PICK st \in [Release -> RowStatus], pub \in SUBSET Release :
             /\ \A x \in Release \ {r} : st[x] = status[x]
             /\ st[r] \in {status[r], "revoked"}
             /\ HandBack(r, st, pub) /\ seq' = seq
      BY <1>4, LeavingStep
    <3>2. QED
      BY <3>1
  <2>2. \A x \in Release : \/ status'[x] = st[x]
                           \/ status[x] = "superseded" /\ status'[x] = "published"
    BY <2>1, HandBackLemma DEF IInv, FallbackCandidates
  <2>3. \A x \in Release : \/ status'[x] = status[x]
                           \/ status'[x] = "revoked"
                           \/ status[x] = "superseded" /\ status'[x] = "published"
    BY <2>1, <2>2
  <2>4. QED
    BY <2>1, <2>3, KeepsNumbers
<1>5. CASE Rollback(r)
  <2> DEFINE st == [status EXCEPT ![r] = "published"]
             s == NextSequence
  <2>1. /\ s \in 1..MaxSeq /\ seq' = [seq EXCEPT ![r] = s]
        /\ st \in [Release -> RowStatus]
        /\ st[r] = "published" /\ \A x \in Release \ {r} : st[x] = status[x]
        /\ SetChannelActive(ChannelOf[r], r, 100, st)
    BY <1>0, <1>5 DEF Rollback, RowStatus, ReleaseStatus
  <2> HIDE DEF s, st
  <2>2. /\ seq'[r] > 0
        /\ \A x \in Release \ {r} : seq'[x] = seq[x] /\ seq[x] < seq'[r]
    BY <2>1, TakesNext DEF s
  <2>3. /\ status'[r] = "published"
        /\ \A x \in Release \ {r} : \/ status'[x] = status[x]
                                    \/ status[x] = "published" /\ status'[x] = "superseded"
    <3>1. \A x \in Release : \/ status'[x] = st[x]
                             \/ /\ x # r /\ st[x] = "published"
                                /\ status'[x] = "superseded"
      BY <2>1 DEF SetChannelActive
    <3>2. status'[r] = st[r]
      BY <3>1
    <3>3. QED
      BY <2>1, <3>1, <3>2
  <2>4. QED
    BY <1>0, <2>2, <2>3 DEF Numbered
<1>6. ASSUME NEW pct \in Rollouts, Publish(r, pct) PROVE Numbered'
  <2> DEFINE st == [status EXCEPT ![r] = "published"]
             s == NextSequence
  <2>0. /\ st \in [Release -> RowStatus]
        /\ st[r] = "published" /\ \A x \in Release \ {r} : st[x] = status[x]
    BY <1>0 DEF RowStatus, ReleaseStatus
  <2>1. /\ pct \in 1..100
        /\ SetChannelActive(ChannelOf[r], r, pct, st) \/ status' = st
        /\ seq[r] = 0 => s \in 1..MaxSeq /\ seq' = [seq EXCEPT ![r] = s]
        /\ seq[r] # 0 => seq' = [seq EXCEPT ![r] = seq[r]]
    BY <1>6, LifecycleAssumption DEF Publish
  <2> HIDE DEF s, st
  <2>2. /\ seq'[r] > 0
        /\ \A x \in Release \ {r} : seq'[x] = seq[x]
        /\ \/ seq'[r] = seq[r]
           \/ \A x \in Release \ {r} : seq[x] < seq'[r]
    BY <1>0, <2>1, TakesNext DEF s
  <2>3. /\ status'[r] = "published"
        /\ \A x \in Release \ {r} : \/ status'[x] = status[x]
                                    \/ status[x] = "published" /\ status'[x] = "superseded"
    BY <1>0, <2>0, <2>1 DEF SetChannelActive
  <2>4. QED
    BY <1>0, <2>2, <2>3 DEF Numbered
<1>7. CASE Delete(r)
  BY <1>0, <1>7 DEF Delete, Numbered
<1>8. CASE Approve(r)
  <2>1. /\ seq' = seq
        /\ \/ status' = status
           \/ SetChannelActive(ChannelOf[r], r, relRollout[r], status)
    BY <1>8 DEF Approve
  <2>2. \A x \in Release : \/ status'[x] = status[x]
                           \/ status[x] = "published" /\ status'[x] = "superseded"
    BY <1>0, <2>1 DEF SetChannelActive
  <2>3. QED
    BY <2>1, <2>2, KeepsNumbers
<1>9. QED
  BY <1>1, <1>2, <1>3, <1>4, <1>5, <1>6, <1>7, <1>8 DEF DeveloperStep, ModeratorStep

\* In every state a release has a number from its publication on, as long as it is
\* published, paused or superseded, and no two releases that exist share one.
THEOREM NumberedHolds == Spec => []Numbered
<1>1. Init => Numbered
  BY NumberedInit
<1>2. IInv /\ Numbered /\ [Next]_vars => Numbered'
  <2>1. ASSUME Numbered, UNCHANGED vars PROVE Numbered'
    BY <2>1 DEF Numbered, vars, releaseVars
  <2>2. QED
    BY <2>1, NumberedNext DEF Next
<1>3. QED
  BY <1>1, <1>2, InvariantHolds, PTL DEF Spec

\* A number given in a step is above that of every release that exists at that moment.
NewNumberIsHighest ==
    \A r \in Release : seq'[r] \notin {seq[r], 0} => \A x \in Existing : seq[x] < seq'[r]

LEMMA StepNumbers ==
    ASSUME IInv, NEW r \in Release, DeveloperStep(r) \/ ModeratorStep(r)
    PROVE  NewNumberIsHighest
<1>1. TypeOK /\ seq \in [Release -> 0..MaxSeq]
  BY DEF IInv, TypeOK
<1>2. \A x \in Existing : seq[x] < NextSequence
  BY <1>1, NextSequenceLemma
<1>3. \A x \in Release : seq'[x] \in {seq[x], 0, NextSequence}
  <2>1. CASE Rollback(r) \/ \E pct \in Rollouts : Publish(r, pct)
    BY <1>1, <2>1 DEF Rollback, Publish
  <2>2. CASE Delete(r)
    BY <1>1, <2>2 DEF Delete
  <2>3. CASE Upload(r) \/ Validate(r) \/ Pause(r) \/ AutoStop(r) \/ Revoke(r) \/ ModeratorStep(r)
    BY <2>3 DEF Upload, Validate, Pause, AutoStop, Revoke, ModeratorStep, Approve, Reject,
                RequestChanges, TakeDown
  <2>4. QED
    BY <2>1, <2>2, <2>3 DEF DeveloperStep
<1>4. QED
  BY <1>2, <1>3 DEF NewNumberIsHighest

\* _next_sequence: whoever gets a number, by publication or by rollback, gets one above
\* every release that exists at that moment.
THEOREM NumbersOnlyRise == Spec => [][NewNumberIsHighest]_vars
<1>1. IInv /\ [Next]_vars => [NewNumberIsHighest]_vars
  BY StepNumbers DEF Next
<1>2. QED
  BY <1>1, InvariantHolds, PTL DEF Spec

-----------------------------------------------------------------------------
(* What a step does to what the channels offer *)

\* An offer changes only with the channel's row and the row of the release offered.
LEMMA OfferStands ==
    ASSUME TypeOK, NEW d \in Channel, active'[d] = active[d], paused'[d] = paused[d],
           active[d] # None => /\ status'[active[d]] = status[active[d]]
                               /\ review'[active[d]] \in PUBLIC_REVIEW_STATES
                                     <=> review[active[d]] \in PUBLIC_REVIEW_STATES
    PROVE  Offered(d)' = Offered(d)
BY DEF Offered, Live

\* A channel that offers something offers a live release of its own.
LEMMA OfferedLemma ==
    ASSUME IInv, NEW c \in Channel, Offered(c) # None
    PROVE  /\ Offered(c) = active[c] /\ Offered(c) \in Release
           /\ ChannelOf[Offered(c)] = c
           /\ status[Offered(c)] = "published" /\ Cleared(Offered(c))
           /\ ~paused[c]
BY DEF IInv, Offered, Live, ActivePointerSound, TypeOK

\* A channel pointed at a live release of its own and not paused offers it.
LEMMA OffersIt ==
    ASSUME NEW c \in Channel, NEW r \in Release,
           active'[c] = r, ~paused'[c], status'[r] = "published",
           review'[r] \in PUBLIC_REVIEW_STATES
    PROVE  Offered(c)' = r
BY LifecycleAssumption DEF Offered, Live

\* A step about r leaves the other channels' rows, and the releases they point at,
\* alone.
LEMMA OtherRowsStand ==
    ASSUME IInv, NEW r \in Release, DeveloperStep(r) \/ ModeratorStep(r),
           NEW d \in Channel, d # ChannelOf[r]
    PROVE  /\ active'[d] = active[d] /\ paused'[d] = paused[d]
           /\ active[d] # None => /\ status'[active[d]] = status[active[d]]
                                  /\ review'[active[d]] = review[active[d]]
<1> DEFINE c == ChannelOf[r]
           a == active[d]
<1>1. /\ c \in Channel /\ d # c
      /\ status \in [Release -> RowStatus] /\ review \in [Release -> ReviewStatus]
      /\ active \in [Channel -> Release \cup {None}] /\ paused \in [Channel -> BOOLEAN]
      /\ a # None => a \in Release \ {r} /\ a # active[c] /\ ChannelOf[a] = d
                       /\ status[a] \in {"published", "paused"}
  BY LifecycleAssumption DEF IInv, TypeOK, RowStatus, ActivePointerSound
<1> HIDE DEF c, a
<1>2. CASE Upload(r) \/ Validate(r) \/ AutoStop(r) \/ Delete(r)
  BY <1>1, <1>2 DEF Upload, Validate, AutoStop, Delete, channelVars, a, c
<1>3. CASE Pause(r)
  <2>1. a # r
    BY <1>1, LifecycleAssumption
  <2>2. paused'[d] = (paused[d] \/ a = r)
    BY <1>1, <1>3 DEF Pause, a
  <2>3. paused'[d] = paused[d]
    BY <1>1, <2>1, <2>2
  <2>4. QED
    BY <1>1, <1>3, <2>3 DEF Pause, a
<1>4. CASE Revoke(r) \/ Reject(r) \/ RequestChanges(r)
  <2>1. PICK st \in [Release -> RowStatus], pub \in SUBSET Release :
           /\ \A x \in Release \ {r} : st[x] = status[x]
           /\ \A x \in Release \ {r} : review'[x] = review[x]
           /\ HandBack(r, st, pub)
    BY <1>4, LeavingStep
  <2>2. /\ active'[d] = active[d]
        /\ \A x \in Release : \/ status'[x] = st[x]
                              \/ status[x] = "superseded" /\ status'[x] = "published"
    BY <1>1, <2>1, HandBackLemma DEF IInv, FallbackCandidates, c
  <2>3. paused' = paused
    BY <2>1 DEF HandBack
  <2>4. QED
    BY <1>1, <2>1, <2>2, <2>3 DEF a
<1>5. ASSUME Rollback(r) \/ Approve(r) \/ \E pct \in Rollouts : Publish(r, pct)
      PROVE  /\ active'[d] = active[d] /\ paused'[d] = paused[d]
             /\ a # None => status'[a] = status[a] /\ review'[a] = review[a]
  <2> DEFINE st == [status EXCEPT ![r] = "published"]
  <2>1. /\ \A x \in Release \ {r} : review'[x] = review[x]
        /\ \/ \E pct : SetChannelActive(c, r, pct, st) \/ SetChannelActive(c, r, pct, status)
           \/ (status' = st \/ status' = status) /\ UNCHANGED <<active, paused>>
    BY <1>1, <1>5 DEF Rollback, Approve, Publish, channelVars, c
  <2>2. /\ active'[d] = active[d] /\ paused'[d] = paused[d]
        /\ \A x \in Release \ {r} : status'[x] = status[x] \/ x = active[c]
    BY <1>1, <2>1 DEF SetChannelActive
  <2>3. QED
    BY <1>1, <2>1, <2>2
<1>6. QED
  BY <1>2, <1>3, <1>4, <1>5 DEF DeveloperStep, ModeratorStep, a

\* A release comes to its channel from another one that is lower, or paused; or nothing
\* was offered.
GoesLive(c, r) ==
    /\ Offered(c)' = r
    /\ Offered(c) # None => status[r] = "paused" \/ seq'[r] > seq[Offered(c)]

\* A release leaves its channel, revoked or withdrawn.
LeavesSale(c, r) ==
    /\ Offered(c) \in {r, None}
    /\ status'[r] = "revoked" \/ ~Cleared(r)'
    /\ Offered(c)' = None => paused'[c] \/ FallbackCandidates(r) = {}

\* What a step about r does to the offer of its channel.
OfferMoves(r) ==
    LET c == ChannelOf[r] IN
    \/ Offered(c)' = Offered(c)
    \/ Offered(c)' = None /\ paused'[c]
    \/ GoesLive(c, r)
    \/ LeavesSale(c, r)

LEMMA PublishMoves ==
    ASSUME IInv, Numbered, NEW r \in Release, NEW pct \in Rollouts, Publish(r, pct)
    PROVE  OfferMoves(r)
<1> DEFINE c == ChannelOf[r]
           st == [status EXCEPT ![r] = "published"]
<1>1. /\ c \in Channel /\ TypeOK
      /\ status \in [Release -> RowStatus] /\ seq \in [Release -> 0..MaxSeq]
  BY LifecycleAssumption DEF IInv, TypeOK, RowStatus
<1>2. CASE Cleared(r) /\ SetChannelActive(c, r, pct, st)
  <2>1. status'[r] = "published" /\ active'[c] = r /\ ~paused'[c]
    BY <1>1, <1>2 DEF SetChannelActive, TypeOK
  <2>2. Offered(c)' = r
    BY <1>1, <1>2, <2>1, OffersIt DEF Publish, Cleared
  <2>3. ASSUME Offered(c) # None, status[r] # "paused" PROVE seq'[r] > seq[Offered(c)]
    <3>1. Offered(c) \in Existing /\ Offered(c) \in Release
      BY <1>1, <2>3, OfferedLemma DEF Cleared
    <3>2. seq[r] = 0
      BY <2>3 DEF Publish, MayPublish, Numbered
    <3>3. NextSequence \in Int /\ seq[Offered(c)] < NextSequence
      BY <1>1, <3>1, NextSequenceLemma, LifecycleAssumption
    <3>4. seq'[r] = NextSequence
      BY <1>1, <3>2 DEF Publish
    <3>5. QED
      BY <1>1, <3>1, <3>3, <3>4
  <2>4. QED
    BY <2>2, <2>3 DEF OfferMoves, GoesLive
<1>3. CASE ~Cleared(r) /\ status' = st /\ UNCHANGED channelVars
  <2>1. active[c] # r
    BY <1>1, <1>3, LifecycleAssumption DEF IInv, ActivePointerSound
  <2>2. Offered(c)' = Offered(c)
    BY <1>1, <1>3, <2>1, OfferStands DEF Publish, channelVars, TypeOK
  <2>3. QED
    BY <2>2 DEF OfferMoves
<1>4. QED
  BY <1>2, <1>3 DEF Publish

LEMMA RollbackMoves ==
    ASSUME IInv, Numbered, NEW r \in Release, Rollback(r) PROVE OfferMoves(r)
<1> DEFINE c == ChannelOf[r]
           st == [status EXCEPT ![r] = "published"]
<1>1. /\ c \in Channel /\ TypeOK
      /\ status \in [Release -> RowStatus] /\ seq \in [Release -> 0..MaxSeq]
  BY LifecycleAssumption DEF IInv, TypeOK, RowStatus
<1>2. status'[r] = "published" /\ active'[c] = r /\ ~paused'[c]
  BY <1>1 DEF Rollback, SetChannelActive, TypeOK
<1>3. Offered(c)' = r
  BY <1>1, <1>2, OffersIt DEF Rollback, MayRollBackTo, Cleared
<1>4. ASSUME Offered(c) # None PROVE seq'[r] > seq[Offered(c)]
  <2>1. Offered(c) \in Existing /\ Offered(c) \in Release
    BY <1>1, <1>4, OfferedLemma DEF Cleared
  <2>2. NextSequence \in Int /\ seq[Offered(c)] < NextSequence
    BY <1>1, <2>1, NextSequenceLemma, LifecycleAssumption
  <2>3. seq'[r] = NextSequence
    BY <1>1 DEF Rollback
  <2>4. QED
    BY <1>1, <2>1, <2>2, <2>3
<1>5. QED
  BY <1>3, <1>4 DEF OfferMoves, GoesLive

LEMMA ApproveMoves ==
    ASSUME IInv, Numbered, NEW r \in Release, Approve(r) PROVE OfferMoves(r)
<1> DEFINE c == ChannelOf[r]
<1>1. /\ c \in Channel /\ TypeOK /\ seq' = seq
      /\ status \in [Release -> RowStatus] /\ seq \in [Release -> 0..MaxSeq]
      /\ review'[r] = "approved" /\ \A x \in Release \ {r} : review'[x] = review[x]
  BY LifecycleAssumption DEF IInv, TypeOK, RowStatus, Approve
<1>2. CASE status[r] = "published" /\ ~Demotes(r) /\ SetChannelActive(c, r, relRollout[r], status)
  <2>1. status'[r] = "published" /\ active'[c] = r /\ ~paused'[c]
    BY <1>1, <1>2 DEF SetChannelActive, TypeOK
  <2>2. Offered(c)' = r
    BY <1>1, <2>1, OffersIt DEF PUBLIC_REVIEW_STATES
  <2>3. CASE Offered(c) = r
    BY <2>2, <2>3 DEF OfferMoves
  <2>4. ASSUME Offered(c) # None, Offered(c) # r PROVE seq'[r] > seq[Offered(c)]
    <3>1. /\ Offered(c) = active[c] /\ Offered(c) \in Release
          /\ Live(Offered(c))
      BY <1>1, <2>4, OfferedLemma DEF Live, Cleared
    <3>2. ~(seq[Offered(c)] > seq[r])
      BY <1>2, <2>4, <3>1 DEF Demotes
    <3>3. seq[r] > 0 /\ seq[r] # seq[Offered(c)]
      BY <1>2, <2>4, <3>1 DEF Numbered
    <3>4. QED
      BY <1>1, <3>1, <3>2, <3>3
  <2>5. QED
    BY <2>2, <2>3, <2>4 DEF OfferMoves, GoesLive
<1>3. CASE UNCHANGED <<status, channelVars>>
  <2>1. active[c] = r => review[r] \in PUBLIC_REVIEW_STATES
    BY <1>1, LifecycleAssumption DEF IInv, ActivePointerSound, Cleared
  <2>2. Offered(c)' = Offered(c)
    BY <1>1, <1>3, <2>1, OfferStands DEF channelVars, TypeOK, PUBLIC_REVIEW_STATES
  <2>3. QED
    BY <2>2 DEF OfferMoves
<1>4. QED
  BY <1>2, <1>3 DEF Approve

LEMMA LeavingMoves ==
    ASSUME IInv, NEW r \in Release, Revoke(r) \/ Reject(r) \/ RequestChanges(r)
    PROVE  OfferMoves(r)
<1> DEFINE c == ChannelOf[r]
<1>1. /\ c \in Channel /\ TypeOK /\ None \notin Release
      /\ status \in [Release -> RowStatus]
  BY LifecycleAssumption DEF IInv, TypeOK, RowStatus
<1>2. PICK st \in [Release -> RowStatus], pub \in SUBSET Release :
         /\ \A x \in Release \ {r} : st[x] = status[x]
         /\ st[r] \in {status[r], "revoked"}
         /\ st[r] = "revoked" \/ review'[r] \notin PUBLIC_REVIEW_STATES
         /\ \A x \in Release \ {r} : review'[x] = review[x]
         /\ HandBack(r, st, pub)
  BY LeavingStep
<1>3. /\ paused' = paused
      /\ \/ status' = st /\ active' = active /\ active[c] # r
         \/ status' = st /\ active'[c] = None /\ active[c] = r /\ FallbackCandidates(r) = {}
         \/ \E p \in FallbackCandidates(r) :
               /\ active[c] = r /\ active'[c] = p
               /\ \A x \in Release \ {p} : status'[x] = st[x]
               /\ status'[p] = "published"
  <2>1. Newest(FallbackCandidates(r)) \subseteq FallbackCandidates(r)
        /\ FallbackCandidates(r) \subseteq Release
    BY DEF Newest, FallbackCandidates
  <2>2. QED
    BY <1>1, <1>2, <2>1 DEF HandBack, TypeOK
<1>4. status'[r] = "revoked" \/ ~Cleared(r)'
  BY <1>2, <1>3 DEF FallbackCandidates, Cleared
<1>5. CASE status' = st /\ active' = active /\ active[c] # r
  <2>1. Offered(c)' = Offered(c)
    BY <1>1, <1>2, <1>3, <1>5, OfferStands DEF TypeOK
  <2>2. QED
    BY <2>1 DEF OfferMoves
<1>6. CASE active'[c] = None /\ active[c] = r /\ FallbackCandidates(r) = {}
  BY <1>4, <1>6 DEF OfferMoves, LeavesSale, Offered
<1>7. ASSUME NEW p \in FallbackCandidates(r), active[c] = r, active'[c] = p, status'[p] = "published"
      PROVE  OfferMoves(r)
  <2>1. /\ p \in Release \ {r} /\ review'[p] = review[p] /\ review[p] \in PUBLIC_REVIEW_STATES
    BY <1>2 DEF FallbackCandidates, Cleared
  <2>2. ~paused'[c] => Offered(c)' = p
    BY <1>1, <1>7, <2>1, OffersIt
  <2>3. Offered(c) \in {r, None}
    BY <1>7 DEF Offered
  <2>4. QED
    BY <1>1, <1>4, <2>1, <2>2, <2>3 DEF OfferMoves, LeavesSale
<1>8. QED
  BY <1>3, <1>5, <1>6, <1>7

\* Every step about a release moves its channel's offer in one of the four ways.
LEMMA OfferMovesLemma ==
    ASSUME IInv, Numbered, NEW r \in Release, DeveloperStep(r) \/ ModeratorStep(r)
    PROVE  OfferMoves(r)
<1> DEFINE c == ChannelOf[r]
<1>1. /\ c \in Channel /\ TypeOK
      /\ active[c] # None => status[active[c]] \in {"published", "paused"}
  BY LifecycleAssumption DEF IInv, ActivePointerSound
<1>2. CASE Upload(r) \/ Validate(r)
  <2>1. /\ UNCHANGED <<active, paused>>
        /\ \A x \in Release \ {r} : status'[x] = status[x] /\ review'[x] = review[x]
        /\ status[r] \in {"absent", "uploaded", "validating"}
    BY <1>1, <1>2 DEF Upload, Validate, channelVars, TypeOK
  <2>2. Offered(c)' = Offered(c)
    BY <1>1, <2>1, OfferStands DEF TypeOK
  <2>3. QED
    BY <2>2 DEF OfferMoves
<1>3. CASE Pause(r) \/ AutoStop(r)
  <2>1. /\ active' = active /\ review' = review
        /\ \A x \in Release \ {r} : status'[x] = status[x]
        /\ active[c] = r => paused'[c]
        /\ active[c] # r => paused'[c] = paused[c]
    BY <1>1, <1>3 DEF Pause, AutoStop, TypeOK
  <2>2. active[c] = r => Offered(c)' = None
    BY <2>1 DEF Offered
  <2>3. active[c] # r => Offered(c)' = Offered(c)
    BY <1>1, <2>1, OfferStands DEF TypeOK
  <2>4. QED
    BY <2>1, <2>2, <2>3 DEF OfferMoves
<1>4. CASE Delete(r)
  <2>1. /\ active[c] = r => active'[c] = None /\ ~Live(r)
        /\ active[c] # r => active' = active /\ paused' = paused
        /\ review' = review
        /\ \A x \in Release \ {r} : status'[x] = status[x]
    BY <1>1, <1>4 DEF Delete, MayDelete, TypeOK
  <2>2. active[c] = r => Offered(c)' = None /\ Offered(c) = None
    BY <2>1 DEF Offered
  <2>3. active[c] # r => Offered(c)' = Offered(c)
    BY <1>1, <2>1, OfferStands DEF TypeOK
  <2>4. QED
    BY <2>2, <2>3 DEF OfferMoves
<1>5. QED
  BY <1>2, <1>3, <1>4, PublishMoves, RollbackMoves, ApproveMoves, LeavingMoves
     DEF DeveloperStep, ModeratorStep

-----------------------------------------------------------------------------
(* The action properties *)

\* In every step, what a channel serves next has a higher number, unless what it served
\* was revoked or withdrawn or what it serves was paused.
LEMMA StepMovesForward ==
    ASSUME IInv, Numbered, NEW x \in Release, DeveloperStep(x) \/ ModeratorStep(x)
    PROVE  Forward /\ PausedOrLast
<1>1. None \notin Release /\ ChannelOf[x] \in Channel /\ TypeOK
  BY LifecycleAssumption DEF IInv
<1>2. \A d \in Channel : d # ChannelOf[x] => Offered(d)' = Offered(d)
  BY <1>1, OtherRowsStand, OfferStands
<1>3. OfferMoves(x)
  BY OfferMovesLemma
<1>4. Forward
  <2> SUFFICES ASSUME NEW c \in Channel, NEW r \in Release, NEW q \in Release,
                      Offered(c) = r, Offered(c)' = q, q # r, status[q] # "paused",
                      status'[r] # "revoked", Cleared(r)'
               PROVE  seq'[q] > seq[r]
    BY DEF Forward
  <2>1. c = ChannelOf[x]
    BY <1>2
  <2>2. GoesLive(c, x) \/ LeavesSale(c, x)
    BY <1>1, <1>3, <2>1 DEF OfferMoves
  <2>3. ~LeavesSale(c, x)
    BY <1>1 DEF LeavesSale
  <2>4. QED
    BY <1>1, <2>2, <2>3 DEF GoesLive
<1>5. PausedOrLast
  <2> SUFFICES ASSUME NEW c \in Channel, NEW r \in Release,
                      Offered(c) = r, Offered(c)' = None, ~paused'[c]
               PROVE  FallbackCandidates(r) = {}
    BY DEF PausedOrLast
  <2>1. c = ChannelOf[x]
    BY <1>1, <1>2
  <2>2. ~GoesLive(c, x)
    BY <1>1 DEF GoesLive
  <2>3. LeavesSale(c, x)
    BY <1>1, <1>3, <2>1, <2>2 DEF OfferMoves
  <2>4. QED
    BY <1>1, <2>3 DEF LeavesSale
<1>6. QED
  BY <1>4, <1>5

LEMMA NextMovesForward == IInv /\ Numbered /\ [Next]_vars => [Forward]_vars /\ [PausedOrLast]_vars
BY StepMovesForward DEF Next

\* When a channel goes from serving one release to serving another, the other has the
\* higher number at that moment, except after the first was revoked or withdrawn, or when
\* the other was paused before.  Numbers are those of the rows as they stand: one freed by
\* a deletion may be given again.
THEOREM OffersOnlyMoveForward == Spec => OffersMoveForward
<1>1. IInv /\ Numbered /\ [Next]_vars => [Forward]_vars
  BY NextMovesForward
<1>2. QED
  BY <1>1, InvariantHolds, NumberedHolds, PTL DEF Spec, OffersMoveForward

\* A channel goes from serving something to serving nothing only if it is paused then, or
\* no other release of it that is cleared stands superseded.  (A cleared one may still
\* stand published beside the channel.)
THEOREM OffSaleOnlyThen == Spec => OffSaleOnlyWhenNothingLeft
<1>1. IInv /\ Numbered /\ [Next]_vars => [PausedOrLast]_vars
  BY NextMovesForward
<1>2. QED
  BY <1>1, InvariantHolds, NumberedHolds, PTL DEF Spec, OffSaleOnlyWhenNothingLeft

-----------------------------------------------------------------------------
(* The lifecycle implements PublicStore *)

StoreCleared == {r \in Release : Cleared(r)}

StoreGrandfathered == {r \in Existing : review[r] = "legacy_pending"}

Inside ==
    /\ StoreGrandfathered \in SUBSET StoreCleared
    /\ public \in SUBSET StoreCleared
    /\ [c \in Channel |-> Offered(c)] \in [Channel -> public \cup StoreGrandfathered \cup {None}]

\* What the public can reach is inside what is cleared.
LEMMA Reachable == IInv => StoreCleared \in SUBSET Release /\ Inside
<1> SUFFICES ASSUME IInv PROVE StoreCleared \in SUBSET Release /\ Inside
  OBVIOUS
<1>1. \A c \in Channel : Offered(c) \in public \cup StoreGrandfathered \cup {None}
  <2> SUFFICES ASSUME NEW c \in Channel, Offered(c) # None
               PROVE  Offered(c) \in public \cup StoreGrandfathered
    OBVIOUS
  <2>1. Offered(c) \in Release /\ Cleared(Offered(c))
    BY OfferedLemma
  <2>2. QED
    BY <2>1 DEF IInv, ApprovedPublic, Cleared, PUBLIC_REVIEW_STATES, StoreGrandfathered
<1>2. StoreGrandfathered \in SUBSET StoreCleared
  BY DEF StoreGrandfathered, StoreCleared, Cleared, Existing, PUBLIC_REVIEW_STATES
<1>3. QED
  BY <1>1, <1>2 DEF StoreCleared, Inside, IInv, TypeOK, PublicBytesCleared

LEMMA ContainedStep == IInv' => Store!Contained
<1>1. IInv => Inside
  BY Reachable
<1>2. IInv' => Inside'
  BY <1>1, PTL
<1>3. QED
  BY <1>2 DEF Store!Contained, StoreCleared, StoreGrandfathered, Inside

\* Developers, the worker and the automatic stop clear nothing.
LEMMA DeveloperClearsNothing ==
    ASSUME IInv, NEW r \in Release, DeveloperStep(r)
    PROVE  /\ StoreCleared' \subseteq StoreCleared
           /\ StoreGrandfathered' \subseteq StoreGrandfathered
<1>1. /\ status \in [Release -> RowStatus] /\ review \in [Release -> ReviewStatus]
      /\ ChannelOf[r] \in Channel
  BY LifecycleAssumption DEF IInv, TypeOK, RowStatus
<1> SUFFICES ASSUME NEW x \in Release, Cleared(x)'
             PROVE  Cleared(x) /\ review'[x] = review[x]
  BY DEF StoreCleared, StoreGrandfathered, Cleared, Existing, PUBLIC_REVIEW_STATES
<1>2. CASE Upload(r)
  BY <1>1, <1>2 DEF Upload, Cleared, Existing, PUBLIC_REVIEW_STATES
<1>3. CASE Validate(r) \/ Pause(r) \/ AutoStop(r) \/ Delete(r)
  BY <1>1, <1>3 DEF Validate, Pause, AutoStop, Delete, Cleared, Existing
<1>4. CASE Revoke(r)
  <2> DEFINE st == [status EXCEPT ![r] = "revoked"]
  <2>1. /\ st \in [Release -> RowStatus] /\ public \in SUBSET Release /\ HandBack(r, st, public)
        /\ review' = review /\ r \in Existing
        /\ st[r] = "revoked" /\ \A y \in Release \ {r} : st[y] = status[y]
    BY <1>1, <1>4 DEF Revoke, RowStatus, ReleaseStatus, IInv, TypeOK
  <2> HIDE DEF st
  <2>2. status'[x] = st[x] \/ x \in FallbackCandidates(r)
    BY <2>1, HandBackLemma DEF IInv
  <2>3. x \in Existing'  => x \in Existing
    BY <2>1, <2>2 DEF FallbackCandidates, Existing
  <2>4. QED
    BY <2>1, <2>3 DEF Cleared
<1>5. CASE Rollback(r)
  <2>1. review' = review /\ r \in Existing
        /\ (status'[x] = status[x] \/ x = r \/ status[x] = "published")
    BY <1>1, <1>5 DEF Rollback, MayRollBackTo, Cleared, SetChannelActive
  <2>2. QED
    BY <2>1 DEF Cleared, Existing
<1>6. ASSUME NEW pct \in Rollouts, Publish(r, pct)
      PROVE  Cleared(x) /\ review'[x] = review[x]
  <2>1. review' = review /\ r \in Existing
        /\ (status'[x] = status[x] \/ x = r \/ status[x] = "published")
    BY <1>1, <1>6 DEF Publish, MayPublish, Existing, SetChannelActive
  <2>2. QED
    BY <2>1 DEF Cleared, Existing
<1>7. QED
  BY <1>2, <1>3, <1>4, <1>5, <1>6 DEF DeveloperStep

LEMMA DeveloperDevelops ==
    ASSUME IInv, IInv', NEW r \in Release, DeveloperStep(r)
    PROVE  Store!Develop
<1>1. ChannelOf[r] \in Channel /\ TypeOK
  BY LifecycleAssumption DEF IInv
<1>2. \A d \in Channel \ {ChannelOf[r]} : Offered(d)' = Offered(d)
  BY <1>1, OtherRowsStand, OfferStands
<1>3. StoreCleared' \subseteq StoreCleared /\ StoreGrandfathered' \subseteq StoreGrandfathered
  BY DeveloperClearsNothing
<1>4. QED
  BY <1>1, <1>2, <1>3, ContainedStep
     DEF Store!Develop, Store!OneChannelMoves, StoreCleared, StoreGrandfathered

\* An approval clears r, and only r can become newly public or newly offered.
LEMMA ApprovalClears ==
    ASSUME IInv, IInv', NEW r \in Release, Approve(r)
    PROVE  Store!Clear(r)
<1> DEFINE c == ChannelOf[r]
<1>1. /\ c \in Channel /\ TypeOK /\ r \in Existing
      /\ status \in [Release -> RowStatus] /\ review \in [Release -> ReviewStatus]
      /\ review'[r] = "approved" /\ \A x \in Release \ {r} : review'[x] = review[x]
      /\ public' = public \cup {r}
  <2>1. /\ c \in Channel /\ TypeOK
        /\ status \in [Release -> RowStatus] /\ review \in [Release -> ReviewStatus]
    BY LifecycleAssumption DEF IInv, TypeOK, RowStatus
  <2>2. /\ r \in Existing /\ r \in staged \cup public
        /\ review' = [review EXCEPT ![r] = "approved"]
        /\ public' = public \cup ({r} \cap (staged \cup public))
    BY DEF Approve, HasBuild, PublishArtifact
  <2>3. public' = public \cup {r}
    BY <2>2
  <2>4. QED
    BY <2>1, <2>2, <2>3
<1>2. \A x \in Release : x \in Existing' <=> x \in Existing
  BY <1>1 DEF Approve, SetChannelActive, Existing
<1>3. /\ StoreCleared' = StoreCleared \cup {r}
      /\ StoreGrandfathered' = StoreGrandfathered \ {r}
  BY <1>1, <1>2 DEF StoreCleared, StoreGrandfathered, Cleared, Existing, PUBLIC_REVIEW_STATES
<1>4. \A d \in Channel : Offered(d)' \in {Offered(d), r}
  <2>1. \A d \in Channel \ {c} : Offered(d)' = Offered(d)
    BY <1>1, OtherRowsStand, OfferStands DEF ModeratorStep
  <2>2. CASE status[r] = "published" /\ SetChannelActive(c, r, relRollout[r], status)
    <3>1. active'[c] = r /\ ~paused'[c] /\ status'[r] = "published"
      BY <1>1, <2>2 DEF SetChannelActive, TypeOK
    <3>2. Offered(c)' = r
      BY <1>1, <3>1, OffersIt DEF PUBLIC_REVIEW_STATES
    <3>3. QED
      BY <1>1, <2>1, <3>2
  <2>3. CASE UNCHANGED <<status, channelVars>>
    <3>1. active[c] = r => review[r] \in PUBLIC_REVIEW_STATES
      BY <1>1, LifecycleAssumption DEF IInv, ActivePointerSound, Cleared
    <3>2. Offered(c)' = Offered(c)
      BY <1>1, <2>3, <3>1, OfferStands DEF channelVars, TypeOK, PUBLIC_REVIEW_STATES
    <3>3. QED
      BY <1>1, <2>1, <3>2
  <2>4. QED
    BY <2>2, <2>3 DEF Approve
<1>5. QED
  BY <1>1, <1>3, <1>4, ContainedStep DEF Store!Clear, StoreCleared, StoreGrandfathered

\* A takedown withdraws r, and moves no channel that served anything else.
LEMMA TakedownWithdraws ==
    ASSUME IInv, IInv', NEW r \in Release, Reject(r) \/ RequestChanges(r)
    PROVE  Store!Withdraw(r)
<1> DEFINE c == ChannelOf[r]
<1>1. /\ c \in Channel /\ TypeOK /\ None \notin Release
      /\ status \in [Release -> RowStatus] /\ review \in [Release -> ReviewStatus]
      /\ r \in Existing
  BY LifecycleAssumption DEF IInv, TypeOK, RowStatus, Reject, RequestChanges
<1>2. PICK st \in [Release -> RowStatus] :
         /\ \A x \in Release \ {r} : st[x] = status[x]
         /\ st[r] \in {status[r], "revoked"}
         /\ HandBack(r, st, public \ {r})
         /\ \A x \in Release \ {r} : review'[x] = review[x]
         /\ review'[r] \notin PUBLIC_REVIEW_STATES
  <2>1. /\ [status EXCEPT ![r] = "revoked"] \in [Release -> RowStatus]
        /\ \A x \in Release \ {r} : [status EXCEPT ![r] = "revoked"][x] = status[x]
        /\ [status EXCEPT ![r] = "revoked"][r] = "revoked"
    BY <1>1 DEF RowStatus, ReleaseStatus
  <2>2. ASSUME NEW verdict \in {"rejected", "changes_requested"}, NEW s, TakeDown(r, verdict, s)
        PROVE  /\ HandBack(r, s, public \ {r})
               /\ \A x \in Release \ {r} : review'[x] = review[x]
               /\ review'[r] \notin PUBLIC_REVIEW_STATES
    BY <1>1, <2>2 DEF TakeDown, Withdrawn, PUBLIC_REVIEW_STATES
  <2>3. CASE Reject(r)
    BY <2>1, <2>2, <2>3 DEF Reject
  <2>4. CASE RequestChanges(r)
    BY <1>1, <2>2, <2>4 DEF RequestChanges
  <2>5. QED
    BY <2>3, <2>4
<1>3. /\ paused' = paused
      /\ \/ status' = st /\ public' = public \ {r} /\ active' = active
         \/ status' = st /\ public' = public \ {r} /\ active[c] = r
         \/ \E p \in FallbackCandidates(r) :
               /\ active[c] = r
               /\ \A x \in Release \ {p} : status'[x] = st[x]
               /\ status'[p] = "published"
               /\ public' = (public \ {r}) \cup ({p} \cap (staged \cup (public \ {r})))
  <2>1. /\ Newest(FallbackCandidates(r)) \subseteq FallbackCandidates(r)
        /\ FallbackCandidates(r) \subseteq Release
    BY DEF Newest, FallbackCandidates
  <2>2. QED
    BY <1>1, <1>2, <2>1 DEF HandBack, PublishArtifact
<1>4. r \notin public'
  BY <1>3 DEF FallbackCandidates
<1>5. \A x \in Release : x \in Existing' <=> x \in Existing
  BY <1>1, <1>2, <1>3 DEF Existing, FallbackCandidates
<1>6. /\ StoreCleared' = StoreCleared \ {r}
      /\ StoreGrandfathered' = StoreGrandfathered \ {r}
  BY <1>2, <1>5 DEF StoreCleared, StoreGrandfathered, Cleared, Existing, PUBLIC_REVIEW_STATES
<1>7. ASSUME NEW d \in Channel, Offered(d) \notin {r, None} PROVE Offered(d)' = Offered(d)
  <2>1. CASE d # c
    BY <1>1, <2>1, OtherRowsStand, OfferStands DEF ModeratorStep
  <2>2. CASE d = c
    <3>1. active[c] # r
      BY <1>7, <2>2 DEF Offered
    <3>2. QED
      BY <1>1, <1>2, <1>3, <2>2, <3>1, OfferStands DEF TypeOK
  <2>3. QED
    BY <2>1, <2>2
<1>8. QED
  BY <1>4, <1>6, <1>7, ContainedStep DEF Store!Withdraw, StoreCleared, StoreGrandfathered

\* The lifecycle implements PublicStore: every behaviour of the developers, the worker
\* and the moderators is one of the promise, for any releases and channels.
THEOREM ImplementsPublicStore == Spec => StoreContract
<1>1. Init => Store!Init
  <2>1. Init => IInv
    BY InitInv
  <2>2. QED
    BY <2>1, Reachable DEF Store!Init, StoreCleared, StoreGrandfathered, Inside
<1>2. IInv /\ IInv' /\ [Next]_vars => [Store!Next]_(Store!vars)
  <2> SUFFICES ASSUME IInv, IInv', [Next]_vars PROVE [Store!Next]_(Store!vars)
    OBVIOUS
  <2>1. ASSUME NEW r \in Release, DeveloperStep(r) PROVE Store!Next
    BY <2>1, DeveloperDevelops DEF Store!Next
  <2>2. ASSUME NEW r \in Release, ModeratorStep(r) PROVE Store!Next
    BY <2>2, ApprovalClears, TakedownWithdraws DEF ModeratorStep, Store!Next
  <2>3. ASSUME UNCHANGED vars PROVE UNCHANGED Store!vars
    BY <2>3 DEF vars, releaseVars, artifactVars, channelVars, Store!vars, Cleared, Existing,
                Offered, Live
  <2>4. QED
    BY <2>1, <2>2, <2>3 DEF Next
<1>3. QED
  BY <1>1, <1>2, InvariantHolds, PTL DEF Spec, StoreContract, Store!Spec

===============================================================================
