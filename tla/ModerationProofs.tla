---------------------------- MODULE ModerationProofs ----------------------------
(***************************************************************************)
(* Proofs about moderation, in three parts.                                *)
(* ModerationBytes, for any number of overlapping requests and decisions:  *)
(* the tables agree because a request that commits loaded the version it   *)
(* replaces, so nobody changed the rows it read meanwhile                  *)
(* (ApprovalsAddRow); a build survives because whoever deletes the public  *)
(* object has a private one behind it (DeletersHaveCopy).                  *)
(* Console, for any tabs, calls in flight and prepared decisions: one of   *)
(* them at most is applied, because a release that one was applied to is   *)
(* there and decided, and no handler takes that back (Sole, Keeps).        *)
(* Console again, for what its pages show (TypeInv, PagesInv): a page that *)
(* is not told by the answer to a change or by a load that is yet to be    *)
(* answered shows, or is being brought, what the server holds (Current).   *)
(***************************************************************************)
EXTENDS ModerationBytes, Console, FiniteSetTheorems, SequenceTheorems,
        WellFoundedInduction, TLAPS

\* No request has loaded a version that is not there yet.
SeenPast == \A t \in Request : seen[t] <= version

\* An approval about to commit on the rows it read leaves a public row.
ApprovalsAddRow ==
    \A t \in Request :
        (/\ pc[t] = "writing"
         /\ decision[t] = "approve"
         /\ Fresh(t)) => pubRow \/ copied[t]

\* Only approvals copy out, only rejections archive and only deletions erase.
StagesMatch ==
    \A t \in Request :
        /\ pc[t] = "copying" => decision[t] = "approve"
        /\ pc[t] \in {"archiving", "deleting"} => decision[t] = "reject"
        /\ pc[t] = "erasing" => decision[t] = "delete"

\* Until a deletion, an artifact row in the private bucket has its object there.
StagedRowsHaveObject == ~erased /\ stagedRow => stagedObj

\* So has a rejection that is about to add such a row.
ArchivesHaveObject ==
    \A t \in Request : ~erased /\ decision[t] = "reject" /\ copied[t] => stagedObj

\* A rejection deletes the public object only with a private one in place.
DeletersHaveCopy == \A t \in Request : ~erased /\ pc[t] = "deleting" => stagedObj

IInv ==
    /\ TypeOK
    /\ RowsAgree
    /\ BuildSurvives
    /\ SeenPast
    /\ ApprovalsAddRow
    /\ StagesMatch
    /\ StagedRowsHaveObject
    /\ ArchivesHaveObject
    /\ DeletersHaveCopy

-----------------------------------------------------------------------------
\* Every initial state satisfies the inductive invariant.
LEMMA InitInv == Init => IInv
<1> SUFFICES ASSUME Init PROVE IInv
  OBVIOUS
<1>1. TypeOK
  <2>1. /\ exists \in BOOLEAN /\ erased \in BOOLEAN
        /\ pubRow \in BOOLEAN /\ stagedRow \in BOOLEAN
        /\ pubObj \in BOOLEAN /\ stagedObj \in BOOLEAN
        /\ review \in {"pending", "legacy_pending", "approved", "rejected"}
    BY DEF Init
  <2>2. version \in Nat /\ asked \in 0..MaxDecisions
    BY BytesAssumption DEF Init
  <2>3. /\ pc \in [Request -> {"idle", "reading", "copying", "archiving", "deleting", "erasing", "writing"}]
        /\ decision \in [Request -> {"approve", "reject", "delete"}]
        /\ seen \in [Request -> Nat]
        /\ copied \in [Request -> BOOLEAN]
    BY DEF Init
  <2>4. QED
    BY <2>1, <2>2, <2>3 DEF TypeOK
<1>2. RowsAgree /\ BuildSurvives
  BY DEF Init, RowsAgree, BuildSurvives, Cleared, PUBLIC_REVIEW_STATES
<1>3. SeenPast /\ ApprovalsAddRow /\ StagesMatch
  BY DEF Init, SeenPast, ApprovalsAddRow, StagesMatch
<1>4. StagedRowsHaveObject /\ ArchivesHaveObject /\ DeletersHaveCopy
  BY DEF Init, StagedRowsHaveObject, ArchivesHaveObject, DeletersHaveCopy
<1>5. QED
  BY <1>1, <1>2, <1>3, <1>4 DEF IInv

-----------------------------------------------------------------------------
(* Each action keeps the inductive invariant *)

LEMMA LoadInv == ASSUME IInv, NEW t \in Request, NEW d \in Decisions, Load(t, d) PROVE IInv'
<1> USE DEF IInv
<1>1. /\ UNCHANGED <<exists, review, version, pubRow, stagedRow, pubObj, stagedObj, erased>>
      /\ decision' = [decision EXCEPT ![t] = d]
      /\ seen' = [seen EXCEPT ![t] = version]
      /\ copied' = [copied EXCEPT ![t] = FALSE]
      /\ pc' = [pc EXCEPT ![t] = "reading"]
      /\ asked < MaxDecisions /\ asked' = asked + 1
      /\ d \in {"approve", "reject", "delete"}
  BY BytesAssumption DEF Load, Goto, rows, objects
<1>2. TypeOK'
  BY <1>1, BytesAssumption DEF TypeOK
<1>3. RowsAgree' /\ BuildSurvives' /\ StagedRowsHaveObject'
  BY <1>1 DEF RowsAgree, Cleared, BuildSurvives, StagedRowsHaveObject
<1>4. SeenPast'
  BY <1>1 DEF SeenPast, TypeOK
<1>5. ApprovalsAddRow' /\ StagesMatch' /\ DeletersHaveCopy'
  BY <1>1 DEF ApprovalsAddRow, StagesMatch, DeletersHaveCopy, Fresh, TypeOK
<1>6. ArchivesHaveObject'
  BY <1>1 DEF ArchivesHaveObject, TypeOK
<1>7. QED
  BY <1>2, <1>3, <1>4, <1>5, <1>6

LEMMA ReadInv == ASSUME IInv, NEW t \in Request, Read(t) PROVE IInv'
<1> USE DEF IInv
<1>1. /\ UNCHANGED <<exists, review, version, pubRow, stagedRow, pubObj, stagedObj, erased>>
      /\ UNCHANGED <<decision, seen, copied, asked>>
      /\ \/ decision[t] = "approve" /\ pubRow /\ pc' = [pc EXCEPT ![t] = "writing"]
         \/ decision[t] = "approve" /\ pc' = [pc EXCEPT ![t] = "copying"]
         \/ pc' = [pc EXCEPT ![t] = "idle"]
         \/ decision[t] = "reject" /\ pc' = [pc EXCEPT ![t] = "writing"]
         \/ decision[t] = "reject" /\ pc' = [pc EXCEPT ![t] = "archiving"]
         \/ decision[t] = "reject" /\ stagedRow /\ pc' = [pc EXCEPT ![t] = "deleting"]
         \/ decision[t] = "delete" /\ pc' = [pc EXCEPT ![t] = "erasing"]
  BY DEF Read, Goto, OnlyCopyIsPublic, rows, objects
<1>2. TypeOK'
  BY <1>1 DEF TypeOK
<1>3. RowsAgree' /\ BuildSurvives' /\ StagedRowsHaveObject' /\ SeenPast' /\ ArchivesHaveObject'
  BY <1>1 DEF RowsAgree, Cleared, BuildSurvives, StagedRowsHaveObject, SeenPast, ArchivesHaveObject
<1>4. ApprovalsAddRow'
  BY <1>1 DEF ApprovalsAddRow, Fresh, TypeOK
<1>5. StagesMatch'
  BY <1>1 DEF StagesMatch, TypeOK
<1>6. DeletersHaveCopy'
  BY <1>1 DEF DeletersHaveCopy, StagedRowsHaveObject, TypeOK
<1>7. QED
  BY <1>2, <1>3, <1>4, <1>5, <1>6

LEMMA CopyOutInv == ASSUME IInv, NEW t \in Request, CopyOut(t) PROVE IInv'
<1> USE DEF IInv
<1>1. /\ UNCHANGED <<exists, review, version, pubRow, stagedRow, stagedObj, erased>>
      /\ UNCHANGED <<decision, seen, asked>>
      /\ decision[t] = "approve"
      /\ \/ /\ pubObj' = TRUE
            /\ copied' = [copied EXCEPT ![t] = TRUE]
            /\ pc' = [pc EXCEPT ![t] = "writing"]
         \/ /\ pc' = [pc EXCEPT ![t] = "idle"]
            /\ UNCHANGED <<pubObj, copied>>
  BY DEF CopyOut, Goto, StagesMatch, rows
<1>2. TypeOK'
  BY <1>1 DEF TypeOK
<1>3. RowsAgree' /\ BuildSurvives' /\ StagedRowsHaveObject' /\ SeenPast'
  BY <1>1 DEF RowsAgree, Cleared, BuildSurvives, StagedRowsHaveObject, SeenPast
<1>4. ApprovalsAddRow'
  BY <1>1 DEF ApprovalsAddRow, Fresh, TypeOK
<1>5. StagesMatch' /\ DeletersHaveCopy'
  BY <1>1 DEF StagesMatch, DeletersHaveCopy, TypeOK
<1>6. ArchivesHaveObject'
  BY <1>1 DEF ArchivesHaveObject, TypeOK
<1>7. QED
  BY <1>2, <1>3, <1>4, <1>5, <1>6

LEMMA ArchiveInv == ASSUME IInv, NEW t \in Request, Archive(t) PROVE IInv'
<1> USE DEF IInv
<1>1. /\ UNCHANGED <<exists, review, version, pubRow, stagedRow, pubObj, erased>>
      /\ UNCHANGED <<decision, seen, asked>>
      /\ decision[t] = "reject"
      /\ \/ /\ stagedObj' = TRUE
            /\ copied' = [copied EXCEPT ![t] = TRUE]
            /\ pc' = [pc EXCEPT ![t] = "deleting"]
         \/ /\ pc' = [pc EXCEPT ![t] = "idle"]
            /\ UNCHANGED <<stagedObj, copied>>
  BY DEF Archive, Goto, StagesMatch, rows
<1>2. TypeOK'
  BY <1>1 DEF TypeOK
<1>3. RowsAgree' /\ BuildSurvives' /\ StagedRowsHaveObject' /\ SeenPast'
  BY <1>1 DEF RowsAgree, Cleared, BuildSurvives, StagedRowsHaveObject, SeenPast
<1>4. ApprovalsAddRow'
  BY <1>1 DEF ApprovalsAddRow, Fresh, TypeOK
<1>5. StagesMatch' /\ DeletersHaveCopy'
  BY <1>1 DEF StagesMatch, DeletersHaveCopy, TypeOK
<1>6. ArchivesHaveObject'
  BY <1>1 DEF ArchivesHaveObject, TypeOK
<1>7. QED
  BY <1>2, <1>3, <1>4, <1>5, <1>6

LEMMA DeletePublicInv == ASSUME IInv, NEW t \in Request, DeletePublic(t) PROVE IInv'
<1> USE DEF IInv
<1>1. /\ UNCHANGED <<exists, review, version, pubRow, stagedRow, stagedObj, erased>>
      /\ UNCHANGED <<decision, seen, copied, asked>>
      /\ pubObj' \in BOOLEAN /\ pc[t] = "deleting"
      /\ pc' = [pc EXCEPT ![t] = "writing"]
  BY DEF DeletePublic, Goto, TypeOK, rows
<1>2. TypeOK'
  BY <1>1 DEF TypeOK
<1>3. BuildSurvives'
  BY <1>1 DEF BuildSurvives, DeletersHaveCopy
<1>4. RowsAgree' /\ StagedRowsHaveObject' /\ SeenPast' /\ ArchivesHaveObject'
  BY <1>1 DEF RowsAgree, Cleared, StagedRowsHaveObject, SeenPast, ArchivesHaveObject
<1>5. decision[t] # "approve"
  BY <1>1 DEF StagesMatch
<1>6. ApprovalsAddRow'
  BY <1>1, <1>5 DEF ApprovalsAddRow, Fresh, TypeOK
<1>7. StagesMatch' /\ DeletersHaveCopy'
  BY <1>1 DEF StagesMatch, DeletersHaveCopy, TypeOK
<1>8. QED
  BY <1>2, <1>3, <1>4, <1>6, <1>7

LEMMA EraseInv == ASSUME IInv, NEW t \in Request, Erase(t) PROVE IInv'
<1> USE DEF IInv
<1>1. /\ UNCHANGED <<exists, review, version, pubRow, stagedRow>>
      /\ UNCHANGED <<decision, seen, copied, asked>>
      /\ pubObj' \in BOOLEAN /\ stagedObj' \in BOOLEAN
      /\ erased' = TRUE /\ pc[t] = "erasing"
      /\ pc' = [pc EXCEPT ![t] = "writing"]
  BY DEF Erase, Goto, TypeOK, rows
<1>2. TypeOK'
  BY <1>1 DEF TypeOK
<1>3. /\ RowsAgree' /\ SeenPast'
      /\ BuildSurvives' /\ StagedRowsHaveObject' /\ ArchivesHaveObject' /\ DeletersHaveCopy'
  BY <1>1 DEF RowsAgree, Cleared, SeenPast, BuildSurvives, StagedRowsHaveObject,
              ArchivesHaveObject, DeletersHaveCopy
<1>4. decision[t] # "approve"
  BY <1>1 DEF StagesMatch
<1>5. ApprovalsAddRow' /\ StagesMatch'
  BY <1>1, <1>4 DEF ApprovalsAddRow, StagesMatch, Fresh, TypeOK
<1>6. QED
  BY <1>2, <1>3, <1>5

LEMMA RollbackInv == ASSUME IInv, NEW t \in Request, Rollback(t) PROVE IInv'
<1> USE DEF IInv
<1>1. /\ UNCHANGED <<exists, review, version, pubRow, stagedRow, pubObj, stagedObj, erased>>
      /\ UNCHANGED <<decision, seen, copied, asked>>
      /\ pc' = [pc EXCEPT ![t] = "idle"]
  BY DEF Rollback, Goto, rows, objects
<1>2. TypeOK'
  BY <1>1 DEF TypeOK
<1>3. RowsAgree' /\ BuildSurvives' /\ StagedRowsHaveObject' /\ SeenPast' /\ ArchivesHaveObject'
  BY <1>1 DEF RowsAgree, Cleared, BuildSurvives, StagedRowsHaveObject, SeenPast, ArchivesHaveObject
<1>4. ApprovalsAddRow' /\ StagesMatch' /\ DeletersHaveCopy'
  BY <1>1 DEF ApprovalsAddRow, StagesMatch, DeletersHaveCopy, Fresh, TypeOK
<1>5. QED
  BY <1>2, <1>3, <1>4

LEMMA CommitInv == ASSUME IInv, NEW t \in Request, Commit(t) PROVE IInv'
<1> USE DEF IInv
<1>1. /\ exists /\ pc[t] = "writing" /\ Fresh(t)
      /\ pc'[t] = "idle" /\ \A u \in Request \ {t} : pc'[u] = pc[u]
      /\ version' = version + 1
      /\ UNCHANGED <<pubObj, stagedObj, decision, seen, copied, erased>>
  BY DEF Commit, Fresh, Goto, TypeOK, objects
<1>2. \/ decision[t] = "approve" /\ WriteApproval(t)
      \/ decision[t] = "reject" /\ WriteRejection(t)
      \/ decision[t] = "delete" /\ WriteDeletion
  BY DEF Commit
<1>3. TypeOK'
  <2>1. copied[t] \in BOOLEAN
    BY DEF TypeOK
  <2>2. /\ exists' \in BOOLEAN /\ pubRow' \in BOOLEAN /\ stagedRow' \in BOOLEAN
        /\ review' \in {"pending", "legacy_pending", "approved", "rejected"}
    BY <1>2, <2>1 DEF WriteApproval, WriteRejection, WriteDeletion, TypeOK
  <2>3. pc' = [pc EXCEPT ![t] = "idle"] /\ UNCHANGED asked
    BY DEF Commit, Goto
  <2>4. QED
    BY <1>1, <2>2, <2>3 DEF TypeOK
<1>4. RowsAgree'
  BY <1>1, <1>2 DEF WriteApproval, WriteRejection, WriteDeletion, RowsAgree, Cleared,
                    ApprovalsAddRow, PUBLIC_REVIEW_STATES
<1>5. SeenPast' /\ \A u \in Request : ~Fresh(u)'
  BY <1>1 DEF SeenPast, Fresh, TypeOK
<1>6. BuildSurvives' /\ ApprovalsAddRow' /\ StagesMatch'
  BY <1>1, <1>5 DEF BuildSurvives, ApprovalsAddRow, StagesMatch
<1>7. StagedRowsHaveObject'
  BY <1>1, <1>2 DEF WriteApproval, WriteRejection, WriteDeletion, StagedRowsHaveObject,
                    ArchivesHaveObject
<1>8. ArchivesHaveObject' /\ DeletersHaveCopy'
  BY <1>1 DEF ArchivesHaveObject, DeletersHaveCopy
<1>9. QED
  BY <1>3, <1>4, <1>5, <1>6, <1>7, <1>8

\* Every step of the system keeps the inductive invariant.
LEMMA NextInv == IInv /\ [Next]_vars => IInv'
<1> SUFFICES ASSUME IInv, [Next]_vars PROVE IInv'
  OBVIOUS
<1>1. CASE Next
  <2>1. PICK t \in Request :
            \/ \E d \in Decisions : Load(t, d)
            \/ Read(t) \/ CopyOut(t) \/ Archive(t) \/ DeletePublic(t) \/ Erase(t)
            \/ Commit(t) \/ Rollback(t)
    BY <1>1 DEF Next
  <2>2. QED
    BY <2>1, LoadInv, ReadInv, CopyOutInv, ArchiveInv, DeletePublicInv, EraseInv, CommitInv,
       RollbackInv
<1>2. CASE UNCHANGED vars
  BY <1>2 DEF IInv, TypeOK, RowsAgree, BuildSurvives, SeenPast, ApprovalsAddRow, StagesMatch,
              StagedRowsHaveObject, ArchivesHaveObject, DeletersHaveCopy, Cleared, Fresh,
              vars, rows, objects
<1>3. QED
  BY <1>1, <1>2

\* The inductive invariant holds throughout every behaviour.
THEOREM InvariantHolds == Spec => []IInv
BY InitInv, NextInv, PTL DEF Spec

\* Every variable keeps its type.
THEOREM TypeCorrect == Spec => []TypeOK
<1>1. IInv => TypeOK
  BY DEF IInv
<1>2. QED
  BY <1>1, InvariantHolds, PTL

\* However approvals, rejections and a deletion overlap, a public artifact row is
\* there exactly while the release is there and cleared.
THEOREM TablesAgree == Spec => []RowsAgree
<1>1. IInv => RowsAgree
  BY DEF IInv
<1>2. QED
  BY <1>1, InvariantHolds, PTL

\* No moderator's decision, overlapping or interrupted, destroys the only copy.
THEOREM BuildsSurvive == Spec => []BuildSurvives
<1>1. IInv => BuildSurvives
  BY DEF IInv
<1>2. QED
  BY <1>1, InvariantHolds, PTL

-----------------------------------------------------------------------------
\* A set of naturals that has a member has a least one.
LEMMA LeastNatural ==
    ASSUME NEW S \in SUBSET Nat, S # {}
    PROVE  \E n \in S : \A m \in S : n <= m
<1>1. PICK n \in S : \A y \in S : ~(<<y, n>> \in OpToRel(<, Nat))
  BY NatLessThanWellFounded, WFMin
<1>2. \A y \in S : ~(y < n)
  BY <1>1 DEF OpToRel
<1>3. QED
  BY <1>2

-----------------------------------------------------------------------------
(* Prepared decisions: what the server's handlers do to the rows of a release *)

ServerFields == {"gone", "public", "stage", "copy", "snapshot", "listing", "status", "review", "links",
                 "safe", "report", "rows", "lib"}

Applied(st, r) == st.rows[r].state = "applied"

\* One decision at most is applied, and then the release is there and decided.
Sole(st) ==
    /\ DOMAIN st = ServerFields
    /\ DOMAIN st.rows = Rows
    /\ \A r \in Rows : DOMAIN st.rows[r] = {"plan", "state"}
    /\ \A r \in Rows : Applied(st, r) => ~Undecided(st) /\ st.status # "absent"
    /\ \A r, q \in Rows : Applied(st, r) /\ Applied(st, q) => r = q

\* A handler that leaves the prepared decisions alone takes no release back to where it
\* waits for one, unless the release was not there.
Keeps(st, new) ==
    /\ DOMAIN new = ServerFields
    /\ new.rows = st.rows
    /\ st.status # "absent" => new.status # "absent"
    /\ Undecided(new) => Undecided(st) \/ st.status = "absent"

LEMMA KeepsSole ==
    ASSUME NEW st, Sole(st), NEW new, Keeps(st, new)
    PROVE  Sole(new)
  BY DEF Keeps, Sole, Applied

LEMMA ApproveListingKeeps ==
    ASSUME NEW st, DOMAIN st = ServerFields
    PROVE  LET new == ApproveListing(st) IN
           /\ DOMAIN new = ServerFields /\ new.rows = st.rows
           /\ new.status = st.status /\ new.review = st.review
  BY DEF ApproveListing, ServerFields

LEMMA DirtyKeeps ==
    ASSUME NEW st, DOMAIN st = ServerFields
    PROVE  LET new == Dirty(st) IN
           /\ DOMAIN new = ServerFields /\ new.rows = st.rows
           /\ new.status = st.status /\ new.review = st.review
  BY DEF Dirty, ServerFields

LEMMA ProjectKeeps ==
    ASSUME NEW st, Sole(st), NEW do \in ProjectMutations \cup {"delete"}, NEW arg
    PROVE  Keeps(st, OnProject(st, do, arg).st)
<1>1. DOMAIN st = ServerFields
  BY DEF Sole
<1>2. ASSUME NEW v
      PROVE  /\ Keeps(st, Dirty([st EXCEPT !.copy = v]))
             /\ Keeps(st, [st EXCEPT !.public = v]) /\ Keeps(st, [st EXCEPT !.gone = v])
  <2>1. LET new == [st EXCEPT !.copy = v] IN
        /\ DOMAIN new = ServerFields /\ new.rows = st.rows
        /\ new.status = st.status /\ new.review = st.review
    BY <1>1 DEF ServerFields
  <2>2. Keeps(st, Dirty([st EXCEPT !.copy = v]))
    BY <2>1, DirtyKeeps DEF Keeps, Undecided
  <2>3. Keeps(st, [st EXCEPT !.public = v]) /\ Keeps(st, [st EXCEPT !.gone = v])
    BY <1>1 DEF Keeps, Undecided, ServerFields
  <2>4. QED
    BY <2>2, <2>3
<1>3. Keeps(st, st)
  BY <1>1 DEF Keeps
<1>4. CASE do = "visibility"
  BY <1>2, <1>4 DEF OnProject, Did
<1>5. CASE do = "save"
  BY <1>2, <1>5 DEF OnProject, Did
<1>6. CASE do = "icon" \/ do = "unicon"
  BY <1>2, <1>6 DEF OnProject, Did
<1>7. CASE do = "shot"
  BY <1>2, <1>3, <1>7 DEF OnProject, Did, Refused
<1>8. CASE do = "unshot"
  BY <1>2, <1>3, <1>8 DEF OnProject, Did, Refused
<1>9. CASE do = "delete"
  BY <1>2, <1>9 DEF OnProject, Did
<1>10. QED
  BY <1>4, <1>5, <1>6, <1>7, <1>8, <1>9 DEF ProjectMutations

LEMMA VersionsKeep ==
    ASSUME NEW st, Sole(st), NEW do \in ReleaseMutations
    PROVE  Keeps(st, OnVersions(st, do).st)
<1>1. DOMAIN st = ServerFields
  BY DEF Sole
<1>2. Keeps(st, st)
  BY <1>1 DEF Keeps
<1>3. ASSUME NEW v, v # "absent" PROVE Keeps(st, [st EXCEPT !.status = v])
  BY <1>1, <1>3 DEF Keeps, Undecided, ServerFields
<1>4. st.status = "absent" =>
         Keeps(st, [st EXCEPT !.status = "validating", !.review = "pending"])
  BY <1>1 DEF Keeps, ServerFields
<1>5. CASE do = "upload"
  BY <1>2, <1>4, <1>5 DEF OnVersions, Did, Refused
<1>6. CASE do = "publish"
  <2>1. PICK new : new = [st EXCEPT !.status = "published", !.stage = "active"]
    OBVIOUS
  <2>2. /\ DOMAIN new = ServerFields /\ new.rows = st.rows
        /\ new.status = "published" /\ new.review = st.review
    BY <1>1, <2>1 DEF ServerFields
  <2>3. Keeps(st, new)
    BY <2>2 DEF Keeps, Undecided
  <2>4. OnVersions(st, do).st = new \/ OnVersions(st, do).st = st
    BY <1>6, <2>1 DEF OnVersions, Did, Refused
  <2>5. QED
    BY <1>2, <2>3, <2>4
<1>7. CASE do = "rollback"
  BY <1>2, <1>3, <1>7 DEF OnVersions, Did, Refused
<1>8. CASE do = "remove"
  BY <1>2, <1>3, <1>8 DEF OnVersions, Did, Refused
<1>9. QED
  BY <1>5, <1>6, <1>7, <1>8 DEF ReleaseMutations

LEMMA LinksKeep ==
    ASSUME NEW st, Sole(st), NEW do \in LinkMutations, NEW l
    PROVE  Keeps(st, OnLinks(st, do, l).st)
<1>1. DOMAIN st = ServerFields
  BY DEF Sole
<1>2. Keeps(st, st)
  BY <1>1 DEF Keeps
<1>3. ASSUME NEW v PROVE Keeps(st, [st EXCEPT !.links = v])
  BY <1>1 DEF Keeps, Undecided, ServerFields
<1>4. CASE do = "create"
  BY <1>2, <1>3, <1>4 DEF OnLinks, Did, Refused
<1>5. CASE do \in {"on", "off"}
  BY <1>2, <1>3, <1>5 DEF OnLinks, Did, Refused
<1>6. CASE do = "remove"
  BY <1>2, <1>3, <1>6 DEF OnLinks, Did
<1>7. QED
  BY <1>4, <1>5, <1>6 DEF LinkMutations

\* A moderator's verdict leaves the release decided, or refuses it.
Decides(st, made) ==
    \/ made = Refused(st)
    \/ /\ made.code = "ok" /\ Keeps(st, made.st)
       /\ ~Undecided(made.st) /\ made.st.status # "absent"

\* An approval with or without the listing.
LEMMA ApproveDecides ==
    ASSUME NEW st, Sole(st), st.status \notin {"absent", "deleted"}, NEW too
    PROVE  Decides(st, Approve(st, too))
<1> DEFINE cleared == [st EXCEPT !.review = "approved"]
<1>1. /\ DOMAIN cleared = ServerFields /\ cleared.rows = st.rows
      /\ cleared.status = st.status /\ cleared.review = "approved"
  BY DEF ServerFields, Sole
<1>2. \/ Approve(st, too) = Refused(st)
      \/ Approve(st, too) = Did(cleared)
      \/ Approve(st, too) = Did(ApproveListing(cleared))
  BY DEF Approve
<1> HIDE DEF cleared
<1>3. Decides(st, Did(cleared)) /\ Decides(st, Did(ApproveListing(cleared)))
  BY <1>1, ApproveListingKeeps DEF Decides, Did, Keeps, Undecided
<1>4. QED
  BY <1>2, <1>3 DEF Decides

LEMMA ReleaseDecides ==
    ASSUME NEW st, Sole(st), NEW do \in Verdicts
    PROVE  Decides(st, OnRelease(st, do))
<1>1. DOMAIN st = ServerFields
  BY DEF Sole
<1>2. CASE st.status \in {"absent", "deleted"}
  BY <1>2 DEF OnRelease, Decides
<1>3. CASE st.status \notin {"absent", "deleted"} /\ do = "approve"
  <2>1. OnRelease(st, do) = Approve(st, TRUE)
    BY <1>3 DEF OnRelease
  <2>2. QED
    BY <1>3, <2>1, ApproveDecides
<1>4. CASE st.status \notin {"absent", "deleted"} /\ do = "request-changes"
  <2>1. OnRelease(st, do) = Did([st EXCEPT !.review = "changes_requested"])
    BY <1>4 DEF OnRelease
  <2>2. Decides(st, Did([st EXCEPT !.review = "changes_requested"]))
    BY <1>1, <1>4 DEF Decides, Did, Keeps, Undecided, ServerFields
  <2>3. QED
    BY <2>1, <2>2
<1>5. CASE st.status \notin {"absent", "deleted"} /\ do \in {"reject", "unpublish"}
  <2>1. OnRelease(st, do) = Did([st EXCEPT !.review = "rejected", !.status = "revoked"])
    BY <1>5 DEF OnRelease
  <2>2. Decides(st, Did([st EXCEPT !.review = "rejected", !.status = "revoked"]))
    BY <1>1, <1>5 DEF Decides, Did, Keeps, Undecided, ServerFields
  <2>3. QED
    BY <2>1, <2>2
<1>6. QED
  BY <1>2, <1>3, <1>4, <1>5 DEF Verdicts

LEMMA RefusedKeeps ==
    ASSUME NEW st, Sole(st)
    PROVE  Keeps(st, Refused(st).st) /\ Refused(st).code # "ok"
  BY DEF Sole, Keeps, Refused

LEMMA ApplyListingKeeps ==
    ASSUME NEW st, DOMAIN st = ServerFields, NEW said
    PROVE  LET new == ApplyListing(st, said) IN
           /\ DOMAIN new = ServerFields /\ new.rows = st.rows
           /\ new.status = st.status /\ new.review = st.review
<1>1. LET new == [st EXCEPT !.listing = "rejected"] IN
      /\ DOMAIN new = ServerFields /\ new.rows = st.rows
      /\ new.status = st.status /\ new.review = st.review
  BY DEF ServerFields
<1>2. ApplyListing(st, said) \in {st, ApproveListing(st), [st EXCEPT !.listing = "rejected"]}
  BY DEF ApplyListing
<1>3. QED
  BY <1>1, <1>2, ApproveListingKeeps

\* A row of a batch: the release waited for a decision, or nothing of it changes.
LEMMA ApplyOneSole ==
    ASSUME NEW st, Sole(st), NEW r \in Rows
    PROVE  Sole(ApplyOne(st, r))
<1> DEFINE plan == st.rows[r].plan
           done == CASE plan.decision = "approve" ->
                          Approve(st, plan.listing \in {"none", "approve_listing"})
                     [] plan.decision = "request_changes" -> OnRelease(st, "request-changes")
                     [] OTHER -> OnRelease(st, "unpublish")
           runs == ~(Blocked(st.rows[r]) \/ ~Undecided(st) \/ st.status \in {"absent", "deleted"})
           listed == ApplyListing(done.st, plan.listing)
<1>1. ApplyOne(st, r) = IF ~runs THEN st
                        ELSE IF done.code = "ok" THEN [listed EXCEPT !.rows[r].state = "applied"]
                        ELSE [st EXCEPT !.rows[r].state = "failed"]
  BY DEF ApplyOne
<1>2. ASSUME runs
      PROVE  Decides(st, done)
  <2>1. \/ \E too : done = Approve(st, too)
        \/ \E do \in Verdicts : done = OnRelease(st, do)
    BY DEF Verdicts
  <2>2. QED
    BY <1>2, <2>1, ReleaseDecides, ApproveDecides
<1>7. DOMAIN done.st = ServerFields =>
        /\ DOMAIN listed = ServerFields /\ listed.rows = done.st.rows
        /\ listed.status = done.st.status /\ listed.review = done.st.review
  BY ApplyListingKeeps
<1> HIDE DEF done, runs, listed
<1>3. CASE ~runs
  BY <1>1, <1>3
<1>4. CASE runs /\ done.code = "ok"
  <2>1. /\ DOMAIN done.st = ServerFields /\ done.st.rows = st.rows
        /\ ~Undecided(done.st) /\ done.st.status # "absent"
    BY <1>2, <1>4, RefusedKeeps DEF Decides, Keeps
  <2>2. \A q \in Rows : ~Applied(st, q)
    BY <1>4 DEF Sole, runs
  <2>3. PICK d, new : d = listed /\ new = [d EXCEPT !.rows[r].state = "applied"]
    OBVIOUS
  <2>7. /\ DOMAIN d = ServerFields /\ d.rows = st.rows
        /\ ~Undecided(d) /\ d.status # "absent"
    BY <1>7, <2>1, <2>3 DEF Undecided
  <2>4. /\ DOMAIN new = ServerFields /\ new.status = d.status /\ new.review = d.review
        /\ DOMAIN new.rows = Rows
        /\ \A q \in Rows : DOMAIN new.rows[q] = {"plan", "state"}
        /\ \A q \in Rows \ {r} : new.rows[q] = d.rows[q]
    BY <2>3, <2>7 DEF ServerFields, Sole
  <2>5. Sole(new)
    BY <2>2, <2>4, <2>7 DEF Sole, Applied, Undecided
  <2>6. QED
    BY <1>1, <1>4, <2>3, <2>5
<1>5. CASE runs /\ done.code # "ok"
  <2>1. PICK new : new = [st EXCEPT !.rows[r].state = "failed"]
    OBVIOUS
  <2>2. /\ DOMAIN new = ServerFields /\ new.status = st.status /\ new.review = st.review
        /\ DOMAIN new.rows = Rows
        /\ \A q \in Rows : DOMAIN new.rows[q] = {"plan", "state"}
        /\ \A q \in Rows \ {r} : new.rows[q] = st.rows[q]
        /\ new.rows[r].state = "failed"
    BY <2>1 DEF ServerFields, Sole
  <2>3. Sole(new)
    BY <2>2 DEF Sole, Applied, Undecided
  <2>4. QED
    BY <1>1, <1>5, <2>1, <2>3
<1>6. QED
  BY <1>3, <1>4, <1>5

\* f holds what the first i rows of s leave of st, for i up to n.
Applications(f, st, s, n) ==
    f = [i \in 0..n |-> IF i = 0 THEN st ELSE ApplyOne(f[i - 1], s[i])]

LEMMA ApplicationsExist ==
    ASSUME NEW N \in Nat, NEW st, NEW s
    PROVE  \E f : Applications(f, st, s, N)
<1> DEFINE Bad == {n \in 0..N : ~\E f : Applications(f, st, s, n)}
<1>0. N \in 0..N /\ Bad \in SUBSET Nat
  OBVIOUS
<1>1. SUFFICES ASSUME Bad # {} PROVE FALSE
  <2>1. Bad = {} => \E f : Applications(f, st, s, N)
    BY <1>0
  <2>2. QED
    BY <2>1
<1>2. PICK n \in Bad : \A m \in Bad : n <= m
  <2> HIDE DEF Bad
  <2>1. QED
    BY <1>0, <1>1, LeastNatural
<1>3. n \in 0..N
  OBVIOUS
<1>4. CASE n = 0
  <2>1. Applications([i \in 0..0 |-> st], st, s, 0)
    BY DEF Applications
  <2>2. QED
    BY <1>4, <2>1
<1>5. CASE n # 0
  <2>1. n - 1 \in 0..N /\ n - 1 \notin Bad /\ n - 1 \in Nat
    BY <1>2, <1>3, <1>5
  <2>2. PICK f : Applications(f, st, s, n - 1)
    BY <2>1
  <2> DEFINE h == [i \in 0..n |-> IF i = n THEN ApplyOne(f[n - 1], s[n]) ELSE f[i]]
  <2>3. \A i \in 0..(n - 1) : f[i] = IF i = 0 THEN st ELSE ApplyOne(f[i - 1], s[i])
    BY <2>2 DEF Applications
  <2>4. ASSUME NEW i \in 0..n
        PROVE  h[i] = IF i = 0 THEN st ELSE ApplyOne(h[i - 1], s[i])
    <3>1. CASE i = n
      <4>1. i # 0 /\ i - 1 \in 0..n /\ i - 1 # n
        BY <1>3, <1>5, <3>1
      <4>2. QED
        BY <3>1, <4>1
    <3>2. CASE i # n
      <4>1. i \in 0..(n - 1)
        BY <1>3, <3>2
      <4>2. i # 0 => i - 1 \in 0..n /\ i - 1 # n
        BY <1>3, <4>1
      <4>3. QED
        BY <2>3, <3>2, <4>1, <4>2
    <3>3. QED
      BY <3>1, <3>2
  <2>5. h = [i \in 0..n |-> h[i]]
    OBVIOUS
  <2> HIDE DEF h
  <2>6. Applications(h, st, s, n)
    BY <2>4, <2>5 DEF Applications
  <2>7. QED
    BY <2>6
<1>6. QED
  BY <1>4, <1>5

LEMMA ApplicationsSole ==
    ASSUME NEW n \in Nat, NEW st, Sole(st), NEW s \in [1..n -> Rows], NEW f,
           Applications(f, st, s, n)
    PROVE  Sole(f[n])
<1> DEFINE Bad == {i \in 0..n : ~Sole(f[i])}
<1>1. \A i \in 0..n : f[i] = IF i = 0 THEN st ELSE ApplyOne(f[i - 1], s[i])
  BY DEF Applications
<1>2. SUFFICES ASSUME Bad # {} PROVE FALSE
  OBVIOUS
<1>3. Bad \in SUBSET Nat
  OBVIOUS
<1>4. PICK i \in Bad : \A m \in Bad : i <= m
  <2> HIDE DEF Bad
  <2>1. QED
    BY <1>2, <1>3, LeastNatural
<1>5. i \in 0..n /\ i # 0
  BY <1>1, <1>4
<1>6. i - 1 \in 0..n /\ i - 1 \notin Bad /\ s[i] \in Rows
  BY <1>4, <1>5
<1>7. Sole(ApplyOne(f[i - 1], s[i]))
  BY <1>6, ApplyOneSole
<1>8. QED
  BY <1>1, <1>4, <1>5, <1>7

\* A batch is the application of its rows in some order.
LEMMA BatchApplies ==
    ASSUME NEW st, NEW ids \in SUBSET Rows
    PROVE  \E n \in Nat : \E s \in [1..n -> Rows] : \E f :
             Applications(f, st, s, n) /\ ApplyBatch(st, ids) = f[n]
<1> DEFINE n == Cardinality(ids)
           order == SetToSeq(ids)
           F == CHOOSE f : Applications(f, st, order, n)
<1>1. IsFiniteSet(ids)
  BY ConsoleAssumption, FS_Subset
<1>2. n \in Nat /\ ExistsBijection(1..n, ids)
  BY <1>1, FS_CardinalityType
<1>3. order \in [1..n -> Rows]
  <2>1. \E f \in [1..n -> ids] : IsInjective(f)
    BY <1>2 DEF ExistsBijection, Bijection, Injection
  <2>2. order \in [1..n -> ids]
    BY <2>1 DEF SetToSeq
  <2>3. QED
    BY <2>2
<1> HIDE DEF order, n
<1>4. Applications(F, st, order, n)
  BY <1>2, ApplicationsExist
<1>5. ApplyBatch(st, ids) = F[n]
  BY DEF ApplyBatch, Applications, order, n
<1>6. QED
  BY <1>2, <1>3, <1>4, <1>5

LEMMA BatchSole ==
    ASSUME NEW st, Sole(st), NEW ids \in SUBSET Rows
    PROVE  Sole(ApplyBatch(st, ids))
  BY BatchApplies, ApplicationsSole

-----------------------------------------------------------------------------
(* Calls in flight *)

CallFields == {"t", "page", "do", "arg", "step", "again", "code", "view", "badge",
               "token", "cookie", "sess"}

\* What a page's handlers may be called with.
Handled(page, do, arg) ==
    \/ page = "overview" /\ do \in ProjectMutations \cup {"delete"}
    \/ page = "versions" /\ do \in ReleaseMutations
    \/ page = "links" /\ do \in LinkMutations
    \/ page \in {"review", "triage"} /\ do \in Verdicts
    \/ page = "prepared" /\ arg \in SUBSET Rows
    \/ page = "library" /\ do \in {"take", "installAll"}
    \/ page \in {"safe", "reports", "listing", "gallery"}

CallSound(c) == DOMAIN c = CallFields /\ (c.do \notin Session => Handled(c.page, c.do, c.arg))

CallsSound == DOMAIN call = Slots /\ \A k \in Slots : call[k] # NoRow => CallSound(call[k])

LEMMA EffectSole ==
    ASSUME NEW st, Sole(st), NEW page, NEW do, NEW arg, Handled(page, do, arg)
    PROVE  Sole(Effect(st, page, do, arg).st)
<1>1. DOMAIN st = ServerFields
  BY DEF Sole
<1>2. CASE page \in Developers \cup {"listing"} /\ st.gone
  BY <1>2 DEF Effect, Refused
<1>3. CASE ~(page \in Developers \cup {"listing"} /\ st.gone)
  <2>1. CASE page = "overview" /\ do \in ProjectMutations \cup {"delete"}
    BY <1>3, <2>1, ProjectKeeps, KeepsSole DEF Effect
  <2>2. CASE page = "versions" /\ do \in ReleaseMutations
    BY <1>3, <2>2, VersionsKeep, KeepsSole DEF Effect
  <2>3. CASE page = "links" /\ do \in LinkMutations
    BY <1>3, <2>3, LinksKeep, KeepsSole DEF Effect
  <2>4. CASE page \in {"review", "triage"} /\ do \in Verdicts
    <3>1. Effect(st, page, do, arg) = OnRelease(st, do)
      BY <1>3, <2>4 DEF Effect
    <3>2. PICK made : made = OnRelease(st, do)
      OBVIOUS
    <3>3. Decides(st, made)
      BY <2>4, <3>2, ReleaseDecides
    <3>4. Keeps(st, made.st)
      BY <3>3, RefusedKeeps DEF Decides
    <3>5. Sole(made.st)
      BY <3>4, KeepsSole
    <3>6. QED
      BY <3>1, <3>2, <3>5
  <2>5. CASE page = "prepared" /\ arg \in SUBSET Rows
    BY <1>3, <2>5, BatchSole DEF Effect, Did
  <2>6. ASSUME NEW v
        PROVE  /\ Keeps(st, [st EXCEPT !.safe = v]) /\ Keeps(st, [st EXCEPT !.report = v])
               /\ Keeps(st, [st EXCEPT !.listing = v]) /\ Keeps(st, [st EXCEPT !.lib = v])
    BY <1>1 DEF Keeps, Undecided, ServerFields
  <2>7. CASE page = "library" /\ do \in {"take", "installAll"}
    <3>1. Effect(st, page, do, arg) = OnLibrary(st, do, arg)
      BY <1>3, <2>7 DEF Effect
    <3>2. PICK v : v = RemoveFirst(st.lib, arg.item)
      OBVIOUS
    <3>3. OnLibrary(st, do, arg).st \in {st, [st EXCEPT !.lib = v]}
      BY <2>7, <3>2 DEF OnLibrary, Did, Refused
    <3>4. QED
      BY <2>6, <3>1, <3>3, KeepsSole
  <2>8. CASE page = "safe"
    BY <1>3, <2>6, <2>8, KeepsSole DEF Effect, Did
  <2>9. CASE page = "reports"
    BY <1>3, <2>6, <2>9, KeepsSole DEF Effect, Did
  <2>10. CASE page = "listing"
    <3>1. PICK new : new = Effect(st, page, do, arg).st
      OBVIOUS
    <3>2. Effect(st, page, do, arg) = OnListing(st, do)
      BY <1>3, <2>10 DEF Effect
    <3>3. new = ApproveListing(st) \/ new = [st EXCEPT !.listing = "rejected"]
      BY <3>1, <3>2 DEF OnListing, Did
    <3>4. Keeps(st, ApproveListing(st))
      BY <1>1, ApproveListingKeeps DEF Keeps, Undecided
    <3>5. Keeps(st, new)
      BY <2>6, <3>3, <3>4
    <3>6. QED
      BY <3>1, <3>5, KeepsSole
  <2>11. CASE page = "gallery"
    <3>1. Effect(st, page, do, arg) = Did(AddToLibrary(st, arg))
      BY <1>3, <2>11 DEF Effect
    <3>2. PICK v : AddToLibrary(st, arg) = [st EXCEPT !.lib = v]
      BY DEF AddToLibrary
    <3>3. PICK new : new = [st EXCEPT !.lib = v]
      OBVIOUS
    <3>4. Sole(new)
      BY <2>6, <3>3, KeepsSole
    <3>5. QED
      BY <3>1, <3>2, <3>3, <3>4 DEF Did
  <2>12. QED
    BY <2>1, <2>2, <2>3, <2>4, <2>5, <2>7, <2>8, <2>9, <2>10, <2>11 DEF Handled
<1>4. QED
  BY <1>2, <1>3

LEMMA NewCallSound ==
    ASSUME NEW click, NEW token, click.do \in Session \/ Handled(click.page, click.do, click.arg)
    PROVE  CallSound(NewCall(click, token))
  BY DEF CallSound, NewCall, CallFields

LEMMA QuerySound ==
    ASSUME NEW t, NEW page, NEW token
    PROVE  CallSound(Query(t, page, token))
  BY NewCallSound DEF Query, Session

\* Every page's buttons ask for what its handlers take.
LEMMA OffersHandled ==
    ASSUME NEW t, NEW click \in Offers(t)
    PROVE  Handled(click.page, click.do, click.arg)
<1> DEFINE v == tab[t].view
           page == tab[t].page
<1>1. tab[t].user /\ v # NoRow
  BY DEF Offers
<1>2. \A do, arg : /\ Click(t, do, arg).page = page /\ Click(t, do, arg).do = do
                   /\ Click(t, do, arg).arg = arg
  BY DEF Click
<1>3. CASE page = "overview"
  <2>1. click \in OverviewTab(t, v)
    BY <1>1, <1>3 DEF Offers
  <2>2. QED
    <3>1. \E do \in ProjectMutations \cup {"delete"} : \E arg : click = Click(t, do, arg)
      BY <2>1 DEF OverviewTab, When, ProjectMutations
    <3>2. QED
      BY <1>2, <1>3, <3>1 DEF Handled
<1>4. CASE page = "versions"
  <2>1. click \in VersionsTab(t, v)
    BY <1>1, <1>4 DEF Offers
  <2>2. QED
    BY <1>2, <1>4, <2>1 DEF VersionsTab, When, Handled, ReleaseMutations
<1>5. CASE page = "links"
  <2>1. click \in LinksTab(t, v)
    BY <1>1, <1>5 DEF Offers
  <2>2. QED
    BY <1>2, <1>5, <2>1 DEF LinksTab, When, Handled, LinkMutations
<1>6. CASE page = "review"
  <2>1. click \in ReviewPage(t, v)
    BY <1>1, <1>6 DEF Offers
  <2>2. QED
    BY <1>2, <1>6, <2>1 DEF ReviewPage, When, Handled, Verdicts
<1>7. CASE page = "triage"
  <2>1. click \in TriagePage(t, v)
    BY <1>1, <1>7 DEF Offers
  <2>2. QED
    BY <1>2, <1>7, <2>1 DEF TriagePage, When, Handled, Verdicts, TriageVerdicts
<1>8. CASE page = "prepared"
  <2>1. click \in PreparedPage(t, v)
    BY <1>1, <1>8 DEF Offers
  <2>2. QED
    <3>1. PICK chosen \in Selections(v) : click = Click(t, "apply", chosen)
      BY <2>1 DEF PreparedPage, When
    <3>2. chosen \in SUBSET Rows
      BY DEF Selections, Runnable
    <3>3. QED
      BY <1>2, <1>8, <3>1, <3>2 DEF Handled
<1>9. CASE page = "library"
  <2>1. click \in LibraryPage(t, tab[t].shown)
    BY <1>1, <1>9 DEF Offers
  <2>2. QED
    <3>1. \E arg : click = Click(t, "take", arg) \/ click = Click(t, "installAll", arg)
      BY <2>1 DEF LibraryPage, When
    <3>2. QED
      BY <1>2, <1>9, <3>1 DEF Handled
<1>10. CASE page \in {"safe", "reports", "listing", "gallery"}
  <2>1. click \in SafeModeCard(t, v) \cup ReportsTab(t, v) \cup ListingPage(t, v) \cup GalleryPage(t, v)
    BY <1>1, <1>10 DEF Offers
  <2>2. click.page = page
    BY <1>2, <2>1 DEF SafeModeCard, ReportsTab, ListingPage, GalleryPage, When
  <2>3. QED
    BY <1>10, <2>2 DEF Handled
<1>11. QED
  <2>1. page \in {"overview", "versions", "links", "review", "triage", "prepared", "library",
                  "safe", "reports", "listing", "gallery"}
    BY <1>1 DEF Offers
  <2> HIDE DEF page
  <2>2. QED
    BY <1>3, <1>4, <1>5, <1>6, <1>7, <1>8, <1>9, <1>10, <2>1

\* The ways a step treats the calls.
LEMMA PutSound ==
    ASSUME CallsSound, NEW k, NEW c, c = NoRow \/ CallSound(c), call' = Put(k, c)
    PROVE  CallsSound'
  BY DEF Put, CallsSound

LEMMA CallMoves ==
    ASSUME CallsSound, NEW k \in Slots, NEW c, CallSound(c), call' = [call EXCEPT ![k] = c]
    PROVE  CallsSound'
  BY DEF CallsSound

LEMMA FailedSound ==
    ASSUME CallsSound, NEW k \in Slots, NEW lost, Failed(k, lost)
    PROVE  CallsSound'
<1>1. \E c : call' = Put(k, c) /\ (c = NoRow \/ CallSound(c))
  BY QuerySound DEF Failed, End, ReloadLibrary
<1>2. QED
  BY <1>1, PutSound

-----------------------------------------------------------------------------
(* The invariant *)

PreparedInv == Sole(db) /\ CallsSound

\* A step of the pages and their calls leaves the server alone.
LEMMA DbStays ==
    ASSUME PreparedInv, UNCHANGED db, CallsSound'
    PROVE  PreparedInv'
  BY DEF PreparedInv

LEMMA SlotFree ==
    ASSUME Free # {}
    PROVE  Slot \in Slots /\ call[Slot] = NoRow
  BY DEF Slot, Free

LEMMA PreparedInit ==
    ASSUME ConsoleInit
    PROVE  PreparedInv
<1>1. PICK scene \in Scenes :
        LET copy == [text |-> "old", icon |-> FALSE, shots |-> MaxShots - 1] IN
        db = [gone |-> FALSE, public |-> TRUE,
              stage |-> IF scene.status \in {"absent", "ready"} THEN "draft" ELSE "active",
              copy |-> copy,
              snapshot |-> IF scene.listing = "approved" THEN copy ELSE NoRow,
              listing |-> scene.listing, status |-> scene.status, review |-> scene.review,
              links |-> [l \in Links |-> "none"], safe |-> FALSE, report |-> "open",
              rows |-> [r \in Rows |-> [plan |-> scene.plans[r], state |-> "prepared"]],
              lib |-> Catalog]
  BY DEF ConsoleInit
<1>2. /\ DOMAIN db = ServerFields
      /\ db.rows = [r \in Rows |-> [plan |-> scene.plans[r], state |-> "prepared"]]
  BY <1>1 DEF ServerFields
<1>3. Sole(db)
  BY <1>2 DEF Sole, Applied
<1>4. CallsSound
  BY DEF ConsoleInit, CallsSound
<1>5. QED
  BY <1>3, <1>4 DEF PreparedInv

LEMMA PageSteps ==
    ASSUME PreparedInv, NEW t \in Tabs,
           Open(t) \/ Press(t) \/ Render(t) \/ Reload(t) \/ login(t) \/ logout(t) \/ Expire(t) \/ Poll(t)
    PROVE  PreparedInv'
<1>0. UNCHANGED db /\ CallsSound
  BY DEF PreparedInv, Open, Press, Render, Reload, login, logout, Sign, Expire, Poll
<1>1. CASE Expire(t) \/ Render(t)
  BY <1>0, <1>1, DbStays DEF Expire, Render, CallsSound
<1>2. CASE Open(t) \/ Poll(t)
  <2>1. \E page, token : call' = Put(Slot, Query(t, page, token))
    BY <1>2 DEF Open, Poll
  <2>2. QED
    BY <1>0, <2>1, QuerySound, PutSound, DbStays
<1>3. CASE Press(t)
  <2>1. PICK click \in Offers(t) : call' = Put(Slot, NewCall(click, tab[t].token))
    BY <1>3 DEF Press
  <2>2. CallSound(NewCall(click, tab[t].token))
    BY OffersHandled, NewCallSound
  <2>3. QED
    BY <1>0, <2>1, <2>2, PutSound, DbStays
<1>4. CASE Reload(t)
  <2>1. PICK c : c = NewCall([t |-> t, page |-> tab[t].page, do |-> "restore", arg |-> NoRow], 0)
    OBVIOUS
  <2>2. CallSound(c) /\ c.do = "restore"
    BY <2>1 DEF NewCall, CallSound, CallFields, Session
  <2>3. CallSound([c EXCEPT !.step = "refresh"])
    BY <2>2 DEF CallSound, CallFields, Session
  <2>4. call' = Put(Slot, [c EXCEPT !.step = "refresh"])
    BY <1>4, <2>1 DEF Reload
  <2>5. QED
    BY <1>0, <2>3, <2>4, PutSound, DbStays
<1>5. CASE login(t) \/ logout(t)
  <2>1. PICK do, c :
          /\ do \in Session
          /\ c = NewCall([t |-> t, page |-> tab[t].page, do |-> do, arg |-> NoRow], tab[t].token)
          /\ call' = Put(Slot, c)
    BY <1>5 DEF login, logout, Sign, Session
  <2>2. CallSound(c)
    BY <2>1 DEF NewCall, CallSound, CallFields
  <2>3. QED
    BY <1>0, <2>1, <2>2, PutSound, DbStays
<1>6. QED
  BY <1>1, <1>2, <1>3, <1>4, <1>5

\* A call at the server changes by more than its answer only there.
LEMMA CallAnswered ==
    ASSUME CallsSound, NEW k \in Slots, call[k] # NoRow, NEW c, DOMAIN c = CallFields,
           c.page = call[k].page, c.do = call[k].do, c.arg = call[k].arg,
           call' = [call EXCEPT ![k] = c]
    PROVE  CallsSound'
<1>1. CallSound(call[k])
  BY DEF CallsSound
<1>2. CallSound(c)
  BY <1>1 DEF CallSound
<1>3. QED
  BY <1>2, CallMoves

LEMMA ServerSteps ==
    ASSUME PreparedInv, NEW k \in Slots,
           ServeLoad(k) \/ Serve(k) \/ ServeLogin(k) \/ ServeLogout(k) \/ ServeRefresh(k)
    PROVE  PreparedInv'
<1>0. CallsSound /\ call[k] # NoRow /\ DOMAIN call = Slots
  BY DEF PreparedInv, CallsSound, ServeLoad, Serve, ServeLogin, ServeLogout, ServeRefresh
<1>1. DOMAIN call[k] = CallFields
  BY <1>0 DEF CallsSound, CallSound
<1>2. CallsSound'
  <2>1. PICK c : /\ call' = [call EXCEPT ![k] = c] /\ DOMAIN c = CallFields
                 /\ c.page = call[k].page /\ c.do = call[k].do /\ c.arg = call[k].arg
    <3>1. CASE ServeLoad(k)
      BY <1>0, <1>1, <3>1 DEF ServeLoad, CallFields
    <3>2. CASE Serve(k)
      BY <1>0, <1>1, <3>2 DEF Serve, CallFields
    <3>3. CASE ServeLogin(k)
      BY <1>0, <1>1, <3>3 DEF ServeLogin, CallFields
    <3>4. CASE ServeLogout(k)
      <4>1. PICK c : c = [call[k] EXCEPT !.step = "back", !.code = "ok"]
        OBVIOUS
      <4>2. call' = [call EXCEPT ![k] = c]
        BY <1>0, <3>4, <4>1 DEF ServeLogout
      <4>3. DOMAIN c = CallFields /\ c.page = call[k].page /\ c.do = call[k].do /\ c.arg = call[k].arg
        BY <1>1, <4>1 DEF CallFields
      <4>4. QED
        BY <4>2, <4>3
    <3>5. CASE ServeRefresh(k)
      BY <1>0, <1>1, <3>5 DEF ServeRefresh, CallFields
    <3>6. QED
      BY <3>1, <3>2, <3>3, <3>4, <3>5
  <2>2. QED
    BY <1>0, <2>1, CallAnswered
<1>3. CASE Serve(k)
  <2>1. CASE UNCHANGED db
    BY <1>2, <2>1, DbStays
  <2>2. CASE db' = Effect(db, call[k].page, call[k].do, call[k].arg).st
    <3>1. Handled(call[k].page, call[k].do, call[k].arg)
      BY <1>0, <1>3 DEF Serve, CallsSound, CallSound, Session
    <3>2. Sole(db')
      BY <2>2, <3>1, EffectSole DEF PreparedInv
    <3>3. QED
      BY <1>2, <3>2 DEF PreparedInv, Sole, Applied, Undecided
  <2>3. QED
    BY <1>3, <2>1, <2>2 DEF Serve
<1>4. CASE ~Serve(k)
  BY <1>2, <1>4, DbStays DEF ServeLoad, ServeLogin, ServeLogout, ServeRefresh
<1>5. QED
  BY <1>3, <1>4

\* An answer is taken.
LEMMA AcceptSound ==
    ASSUME CallsSound, NEW k \in Slots, Accept(k)
    PROVE  CallsSound'
<1>1. \E c : call' = Put(k, c) /\ (c = NoRow \/ CallSound(c))
  BY QuerySound DEF Accept, Loaded, refreshMe, finish, End
<1>2. QED
  BY <1>1, PutSound

LEMMA SignedSound ==
    ASSUME CallsSound, NEW k \in Slots, call[k] # NoRow, Signed(k)
    PROVE  CallsSound'
<1>1. DOMAIN call = Slots /\ DOMAIN call[k] = CallFields
  BY DEF CallsSound, CallSound
<1>2. CASE call[k].do = "login"
  <2>1. PICK c : /\ call' = [call EXCEPT ![k] = c] /\ DOMAIN c = CallFields /\ c.do = "me"
    BY <1>1, <1>2 DEF Signed, CallFields
  <2>2. CallSound(c)
    BY <2>1 DEF CallSound, Session
  <2>3. QED
    BY <2>1, <2>2, CallMoves
<1>3. CASE call[k].do # "login"
  BY <1>3, FailedSound DEF Signed
<1>4. QED
  BY <1>2, <1>3

LEMMA AnswerSteps ==
    ASSUME PreparedInv, NEW k \in Slots, Hear(k) \/ HearRefresh(k) \/ Lose(k)
    PROVE  PreparedInv'
<1>0. CallsSound /\ call[k] # NoRow /\ DOMAIN call = Slots /\ UNCHANGED db
  BY DEF PreparedInv, CallsSound, Hear, HearRefresh, Lose
<1>1. CallSound(call[k]) /\ DOMAIN call[k] = CallFields
  BY <1>0 DEF CallsSound, CallSound
<1>2. CASE Hear(k)
  <2>1. CASE call[k].code = "401" /\ ~call[k].again
    <3>1. PICK c : /\ call' = [call EXCEPT ![k] = c] /\ DOMAIN c = CallFields
                   /\ c.page = call[k].page /\ c.do = call[k].do /\ c.arg = call[k].arg
      BY <1>0, <1>1, <1>2, <2>1 DEF Hear, CallFields
    <3>2. QED
      BY <1>0, <3>1, CallAnswered, DbStays
  <2>2. CASE ~(call[k].code = "401" /\ ~call[k].again)
    <3>1. Failed(k, call[k].code = "401") \/ Signed(k) \/ Accept(k)
      BY <1>2, <2>2 DEF Hear
    <3>2. QED
      BY <1>0, <3>1, FailedSound, SignedSound, AcceptSound, DbStays
  <2>3. QED
    BY <2>1, <2>2
<1>3. CASE HearRefresh(k)
  <2>1. CASE call[k].code = "ok"
    <3>1. PICK do, c : /\ do = IF call[k].do = "restore" THEN "me" ELSE call[k].do
                       /\ call' = [call EXCEPT ![k] = c] /\ DOMAIN c = CallFields
                       /\ c.page = call[k].page /\ c.do = do /\ c.arg = call[k].arg
      <4>1. PICK do, again, sess :
              /\ do = IF call[k].do = "restore" THEN "me" ELSE call[k].do
              /\ again = (call[k].do # "restore") /\ sess = call[k].sess
        OBVIOUS
      <4>2. PICK c : c = [call[k] EXCEPT !.step = "ask", !.again = again, !.do = do, !.code = "none",
                            !.token = sess, !.cookie = sess, !.sess = 0]
        OBVIOUS
      <4>3. call' = [call EXCEPT ![k] = c]
        <5>1. call' = [call EXCEPT ![k].step = "ask", ![k].again = again, ![k].do = do,
                         ![k].code = "none", ![k].token = sess, ![k].cookie = sess, ![k].sess = 0]
          BY <1>3, <2>1, <4>1 DEF HearRefresh
        <5>2. QED
          BY <1>0, <4>2, <5>1
      <4>4. /\ DOMAIN c = CallFields /\ c.page = call[k].page /\ c.do = do
            /\ c.arg = call[k].arg
        BY <1>1, <4>2 DEF CallFields
      <4>5. QED
        BY <4>1, <4>3, <4>4
    <3>2. CallSound(c)
      BY <1>1, <3>1 DEF CallSound, Session
    <3>3. QED
      BY <1>0, <3>1, <3>2, CallMoves, DbStays
  <2>2. CASE call[k].code # "ok"
    <3>1. Failed(k, TRUE) \/ End(k)
      BY <1>3, <2>2 DEF HearRefresh
    <3>2. QED
      BY <1>0, <3>1, FailedSound, PutSound, DbStays DEF End
  <2>3. QED
    BY <2>1, <2>2
<1>4. CASE Lose(k)
  <2>1. Failed(k, TRUE) \/ End(k)
    BY <1>4 DEF Lose
  <2>2. QED
    BY <1>0, <2>1, FailedSound, PutSound, DbStays DEF End
<1>5. QED
  BY <1>2, <1>3, <1>4

\* The worker moves a release on: it is there before and after.
LEMMA ValidatedStep ==
    ASSUME PreparedInv, Validated
    PROVE  PreparedInv'
<1>1. PICK status \in {"ready", "validation_failed"} : db' = [db EXCEPT !.status = status]
  BY DEF Validated
<1>2. Keeps(db, db')
  BY <1>1 DEF PreparedInv, Sole, Keeps, Undecided, ServerFields
<1>3. PICK new : new = db'
  OBVIOUS
<1>4. Sole(new)
  BY <1>2, <1>3, KeepsSole DEF PreparedInv
<1>5. CallsSound'
  BY DEF Validated, PreparedInv, CallsSound, CallSound
<1>6. QED
  BY <1>3, <1>4, <1>5 DEF PreparedInv, Sole, Applied, Undecided

\* Of the decisions prepared for one release, over all batches and however often they are
\* applied, one at most is ever applied: once one is, the release is decided for good,
\* and apply_decisions skips the others.
THEOREM OneDecisionAppliedHolds == ConsoleSpec => []OneDecisionApplied
<1>1. ConsoleInit => PreparedInv
  BY PreparedInit
<1>2. PreparedInv /\ [ConsoleNext]_consoleVars => PreparedInv'
  <2>1. SUFFICES ASSUME PreparedInv, [ConsoleNext]_consoleVars PROVE PreparedInv'
    OBVIOUS
  <2>2. CASE UNCHANGED consoleVars
    BY <2>1, <2>2, DbStays DEF consoleVars, PreparedInv, CallsSound
  <2>3. ASSUME NEW t \in Tabs,
               Open(t) \/ Press(t) \/ Render(t) \/ Reload(t) \/ login(t) \/ logout(t) \/ Expire(t) \/ Poll(t)
        PROVE  PreparedInv'
    BY <2>1, <2>3, PageSteps
  <2>4. ASSUME NEW k \in Slots,
               ServeLoad(k) \/ Serve(k) \/ ServeLogin(k) \/ ServeLogout(k) \/ ServeRefresh(k)
        PROVE  PreparedInv'
    BY <2>1, <2>4, ServerSteps
  <2>5. ASSUME NEW k \in Slots, Hear(k) \/ HearRefresh(k) \/ Lose(k)
        PROVE  PreparedInv'
    BY <2>1, <2>5, AnswerSteps
  <2>6. QED
    BY <2>1, <2>2, <2>3, <2>4, <2>5, ValidatedStep DEF ConsoleNext
<1>3. PreparedInv => OneDecisionApplied
  <2>1. SUFFICES ASSUME PreparedInv PROVE OneDecisionApplied
    OBVIOUS
  <2>2. PICK S : S = {r \in Rows : db.rows[r].state = "applied"}
    OBVIOUS
  <2>3. \A r, q \in S : r = q
    BY <2>1, <2>2 DEF PreparedInv, Sole, Applied
  <2>4. CASE S = {}
    BY <2>2, <2>4, FS_EmptySet DEF OneDecisionApplied
  <2>5. CASE S # {}
    <3>1. PICK r \in S : S = {r}
      BY <2>3, <2>5
    <3>2. Cardinality(S) = 1
      BY <3>1, FS_Singleton
    <3>3. QED
      BY <2>2, <3>2 DEF OneDecisionApplied
  <2>6. QED
    BY <2>4, <2>5
<1>4. QED
  BY <1>1, <1>2, <1>3, PTL DEF ConsoleSpec

-----------------------------------------------------------------------------
(* The types behind ConsoleTypeOK: what a call carries and what a page shows. *)

TabRow(page) ==
    [page : {page}, user : BOOLEAN, token : Token, view : PageView(page) \cup {NoRow},
     shown : Seq(Items) \cup {NoRow}, seen : SUBSET Items, badge : Stages \cup {NoRow},
     latest : Slots \cup {NoRow}, behind : BOOLEAN]

TabOK(w) == w.page \in Pages /\ w \in TabRow(w.page)

\* What a page's buttons ask for.
Asks(page, do, arg) ==
    \/ page = "overview" /\ do = "visibility" /\ arg \in BOOLEAN
    \/ page = "overview" /\ do = "save" /\ arg \in {"old", "new"}
    \/ page = "overview" /\ do \in {"icon", "unicon", "shot", "unshot", "delete"} /\ arg = NoRow
    \/ page = "versions" /\ do \in ReleaseMutations /\ arg = NoRow
    \/ page = "links" /\ do = "create" /\ arg = NoRow
    \/ page = "links" /\ do \in {"on", "off", "remove"} /\ arg \in Links
    \/ page = "safe" /\ do = "safe" /\ arg \in BOOLEAN
    \/ page = "reports" /\ do \in ReportMutations /\ arg = NoRow
    \/ page = "review" /\ do \in Verdicts /\ arg \in Listing
    \/ page = "triage" /\ do \in TriageVerdicts /\ arg = NoRow
    \/ page = "prepared" /\ do = "apply" /\ arg \in SUBSET Rows
    \/ page = "listing" /\ do \in ListingVerdicts /\ arg \in Listing
    \/ page = "library" /\ do = "take" /\ arg \in [item : Items, index : Nat \ {0}]
    \/ page = "library" /\ do = "installAll" /\ arg = NoRow
    \/ page = "gallery" /\ do = "finish" /\ arg \in SUBSET Items

\* A call as its tab made it; an answer has a code, that of a query has the rows.
CallOK(c) ==
    /\ c.page \in Pages /\ c \in Call(c.page, c.do)
    /\ IF c.do \in Session THEN c.arg = NoRow ELSE Asks(c.page, c.do, c.arg)
    /\ c.step = "back" => c.code # "none"
    /\ c.do = "load" /\ c.step = "back" /\ c.code = "ok" => c.view \in PageView(c.page)

TypeInv ==
    /\ db \in Server
    /\ live \subseteq 1..Sessions /\ jar \in Token
    /\ DOMAIN tab = Tabs /\ \A t \in Tabs : TabOK(tab[t])
    /\ DOMAIN call = Slots /\ \A k \in Slots : call[k] # NoRow => CallOK(call[k])
    /\ clicks \in 0..MaxClicks /\ trouble \in 0..MaxTrouble

-----------------------------------------------------------------------------
(* What a tab's page and its calls in flight say of each other. *)

\* A page that can be at rest makes its own calls only.
Belongs(t) ==
    tab[t].page \notin {"left", "library"} => \A k \in Mine(t) : call[k].page = tab[t].page

\* The loads that supersede one another: a page has one of them under way.
Queries(c) == c.do = "load" /\ c.page # "library"

OneLoad(t) ==
    \A j, k \in Mine(t) : Queries(call[j]) /\ Queries(call[k]) => j = k

\* Nothing else is under way in a tab that signs in or restores its session.
Enters(c) == c.do \in {"login", "me", "restore"}

Entering(t) ==
    \A k \in Mine(t) : Enters(call[k]) =>
        /\ \A j \in Mine(t) : j = k
        /\ ~tab[t].user
        /\ call[k].do # "login" => tab[t].view = NoRow

\* A change that was made and whose answer is on its way.
Written(c) == c.step = "back" /\ c.code = "ok" /\ c.do \notin Session

\* A load that is yet to be answered, and one whose answer is on its way.
Asked(c) == c.do = "load" /\ ~(c.step = "back" /\ c.code \in {"ok", "refused"})
Brings(c) == c.do = "load" /\ c.step = "back" /\ c.code = "ok"

\* Somebody will tell the page: the answer to a change, or a load.
Told(t) == \E k \in Mine(t) : Written(call[k]) \/ Asked(call[k])

\* A page that no one will tell shows, or is brought, what the server holds.
Current(t) ==
    tab[t].user /\ ~tab[t].behind /\ tab[t].page \notin {"left", "library"} /\ ~Told(t) =>
        /\ \A k \in Mine(t) : Brings(call[k]) => call[k].view = View(db, tab[t].page)
        /\ (\A k \in Mine(t) : ~Brings(call[k])) /\ tab[t].view # NoRow =>
             tab[t].view = View(db, tab[t].page)

\* A page of a project that is gone has nothing to show, unless it is about to make way.
Deleted(c) == Written(c) /\ c.do = "delete"

GoneKnown(t) ==
    db.gone /\ tab[t].user /\ ~tab[t].behind /\ tab[t].page \in Developers \cup {"listing"}
    /\ (\A k \in Mine(t) : ~Deleted(call[k])) =>
        tab[t].view = NoRow /\ \A k \in Mine(t) : ~Brings(call[k])

\* The library page shows what it has loaded, or is taking it off.
Takes(c, e) == c.do = "take" /\ c.arg.item = e

Shown(t) ==
    tab[t].page = "library" /\ tab[t].view # NoRow =>
        \A e \in tab[t].seen :
            e \in ToSet(tab[t].view) \/ \E k \in Mine(t) : Takes(call[k], e)

TabInv(t) == /\ Belongs(t) /\ OneLoad(t) /\ Entering(t)
             /\ Current(t) /\ GoneKnown(t) /\ Shown(t)

PagesInv == \A t \in Tabs : TabInv(t)

-----------------------------------------------------------------------------
(* What the handlers return and the queries show has its type. *)

\* What a query returns has the type of its page's data.
LEMMA ViewTyped ==
    ASSUME NEW st \in Server, NEW page \in Pages
    PROVE  View(st, page) \in PageView(page)
<1>1. CASE page = "overview"
  BY <1>1 DEF View, PageView, Project, Server
<1>2. CASE page = "versions"
  BY <1>2 DEF View, PageView, Release, Server
<1>3. CASE page = "review"
  BY <1>3 DEF View, PageView, ModerationDetail, Live, Server
<1>4. CASE page = "triage"
  BY <1>4 DEF View, PageView, TriageRow, Live, Server
<1>5. CASE page = "listing"
  BY <1>5 DEF View, PageView, ListingDetail, Server
<1>6. CASE page = "gallery"
  <2>1. st.lib \in Seq(Items)
    BY DEF Server
  <2>2. ToSet(st.lib) \in SUBSET Items
    BY <2>1 DEF ToSet
  <2>3. QED
    BY <1>6, <2>2 DEF View, PageView
<1>7. CASE page \in {"links", "safe", "reports", "prepared", "library", "left"}
  BY <1>7 DEF View, PageView, Server
<1>8. QED
  BY <1>1, <1>2, <1>3, <1>4, <1>5, <1>6, <1>7 DEF Pages, Developers, Moderation

\* A handler's answer is typed; a refusal changes nothing, and only a deletion ends the project.
Answers(st, made, delete) ==
    /\ made.st \in Server /\ made.code \in {"ok", "refused"}
    /\ made.code # "ok" => made.st = st
    /\ made.st.gone # st.gone => delete /\ made.st.gone

\* A handler that changed typed rows, one that refused, and the parts handlers share.
LEMMA DidAnswers ==
    ASSUME NEW st \in Server, NEW new \in Server, new.gone = st.gone, NEW delete
    PROVE  Answers(st, Did(new), delete)
  BY DEF Answers, Did

LEMMA RefusedAnswers ==
    ASSUME NEW st \in Server, NEW delete
    PROVE  Answers(st, Refused(st), delete)
  BY DEF Answers, Refused

LEMMA DirtyTyped ==
    ASSUME NEW st \in Server
    PROVE  Dirty(st) \in Server /\ Dirty(st).gone = st.gone
  BY DEF Dirty, Server, Reviews

LEMMA ApproveListingTyped ==
    ASSUME NEW st \in Server
    PROVE  ApproveListing(st) \in Server /\ ApproveListing(st).gone = st.gone
  BY DEF ApproveListing, Server, Reviews

\* The handlers of each page.
LEMMA ProjectTyped ==
    ASSUME NEW st \in Server, NEW do, NEW arg, Asks("overview", do, arg)
    PROVE  Answers(st, OnProject(st, do, arg), do = "delete")
<1>0. MaxShots \in Nat \ {0}
  BY ConsoleAssumption
<1>1. ASSUME NEW v \in Listing
      PROVE  Answers(st, Did(Dirty([st EXCEPT !.copy = v])), do = "delete")
  <2>1. PICK new : new = [st EXCEPT !.copy = v]
    OBVIOUS
  <2>2. new \in Server /\ new.gone = st.gone
    BY <2>1 DEF Server
  <2>3. Dirty(new) \in Server /\ Dirty(new).gone = st.gone
    BY <2>2, DirtyTyped
  <2>4. QED
    BY <2>1, <2>3, DidAnswers
<1>2. CASE do = "visibility"
  <2>1. OnProject(st, do, arg) = Did([st EXCEPT !.public = arg]) /\ arg \in BOOLEAN
    BY <1>2 DEF OnProject, Asks
  <2>2. PICK new : new = [st EXCEPT !.public = arg]
    OBVIOUS
  <2>3. new \in Server /\ new.gone = st.gone
    BY <2>1, <2>2 DEF Server
  <2>4. QED
    BY <2>1, <2>2, <2>3, DidAnswers
<1>3. CASE do \in {"save", "icon", "unicon", "shot", "unshot"}
  <2>1. \/ OnProject(st, do, arg) = Refused(st)
        \/ \E v \in Listing : OnProject(st, do, arg) = Did(Dirty([st EXCEPT !.copy = v]))
    <3>1. st.copy \in Listing
      BY DEF Server
    <3>2. CASE do = "save"
      <4>1. [st.copy EXCEPT !.text = arg] \in Listing
        BY <3>1, <3>2 DEF Asks, Listing
      <4>2. OnProject(st, do, arg) = Did(Dirty([st EXCEPT !.copy = [st.copy EXCEPT !.text = arg]]))
        BY <3>2 DEF OnProject
      <4>3. QED
        BY <4>1, <4>2
    <3>3. CASE do \in {"icon", "unicon"}
      <4>1. PICK b \in BOOLEAN : b = (do = "icon")
        OBVIOUS
      <4>2. [st.copy EXCEPT !.icon = b] \in Listing
        BY <3>1 DEF Listing
      <4>3. OnProject(st, do, arg) = Did(Dirty([st EXCEPT !.copy = [st.copy EXCEPT !.icon = b]]))
        BY <3>3, <4>1 DEF OnProject
      <4>4. QED
        BY <4>2, <4>3
    <3>4. CASE do = "shot"
      <4>1. CASE Full(st)
        BY <3>4, <4>1 DEF OnProject
      <4>2. CASE ~Full(st)
        <5>1. [st.copy EXCEPT !.shots = @ + 1] \in Listing
          BY <1>0, <3>1, <4>2 DEF Listing, Full
        <5>2. OnProject(st, do, arg) = Did(Dirty([st EXCEPT !.copy = [st.copy EXCEPT !.shots = @ + 1]]))
          BY <3>4, <4>2 DEF OnProject
        <5>3. QED
          BY <5>1, <5>2
      <4>3. QED
        BY <4>1, <4>2
    <3>5. CASE do = "unshot"
      <4>1. CASE st.copy.shots = 0
        BY <3>5, <4>1 DEF OnProject
      <4>2. CASE st.copy.shots # 0
        <5>1. [st.copy EXCEPT !.shots = @ - 1] \in Listing
          BY <1>0, <3>1, <4>2 DEF Listing
        <5>2. OnProject(st, do, arg) = Did(Dirty([st EXCEPT !.copy = [st.copy EXCEPT !.shots = @ - 1]]))
          BY <3>5, <4>2 DEF OnProject
        <5>3. QED
          BY <5>1, <5>2
      <4>3. QED
        BY <4>1, <4>2
    <3>6. QED
      BY <1>3, <3>2, <3>3, <3>4, <3>5
  <2>2. QED
    BY <1>1, <2>1, RefusedAnswers
<1>4. CASE do = "delete"
  <2>1. OnProject(st, do, arg) = Did([st EXCEPT !.gone = TRUE])
    BY <1>4 DEF OnProject
  <2>2. PICK new : new = [st EXCEPT !.gone = TRUE]
    OBVIOUS
  <2>3. new \in Server /\ new.gone
    BY <2>2 DEF Server
  <2>4. OnProject(st, do, arg).st = new /\ OnProject(st, do, arg).code = "ok"
    BY <2>1, <2>2 DEF Did
  <2>5. QED
    BY <1>4, <2>3, <2>4 DEF Answers
<1>5. QED
  BY <1>2, <1>3, <1>4 DEF Asks

LEMMA VersionsTyped ==
    ASSUME NEW st \in Server, NEW do \in ReleaseMutations
    PROVE  Answers(st, OnVersions(st, do), FALSE)
<1>1. ASSUME NEW v \in Statuses PROVE Answers(st, Did([st EXCEPT !.status = v]), FALSE)
  BY DEF Answers, Did, Server
<1>2. Answers(st, Did([st EXCEPT !.status = "validating", !.review = "pending"]), FALSE)
  BY DEF Answers, Did, Server, Statuses, Reviews
<1>5. Answers(st, Did([st EXCEPT !.status = "published", !.stage = "active"]), FALSE)
  BY DEF Answers, Did, Server, Statuses, Stages
<1>3. \/ OnVersions(st, do) = Refused(st)
      \/ OnVersions(st, do) = Did([st EXCEPT !.status = "published", !.stage = "active"])
      \/ OnVersions(st, do) = Did([st EXCEPT !.status = "validating", !.review = "pending"])
      \/ \E v \in Statuses : OnVersions(st, do) = Did([st EXCEPT !.status = v])
  BY DEF OnVersions, ReleaseMutations, Statuses
<1>4. QED
  BY <1>1, <1>2, <1>3, <1>5, RefusedAnswers

LEMMA LinksTyped ==
    ASSUME NEW st \in Server, NEW do \in LinkMutations, NEW l,
           do # "create" => l \in Links
    PROVE  Answers(st, OnLinks(st, do, l), FALSE)
<1>1. ASSUME NEW m \in Links, NEW v \in {"none", "on", "off"}
      PROVE  Answers(st, Did([st EXCEPT !.links[m] = v]), FALSE)
  BY DEF Answers, Did, Server
<1>2. \/ OnLinks(st, do, l) = Refused(st)
      \/ \E m \in Links, v \in {"none", "on", "off"} :
            OnLinks(st, do, l) = Did([st EXCEPT !.links[m] = v])
  <2>1. CASE do = "create"
    BY <2>1 DEF OnLinks
  <2>2. CASE do \in {"on", "off"}
    BY <2>2 DEF OnLinks
  <2>3. CASE do = "remove"
    BY <2>3 DEF OnLinks
  <2>4. QED
    BY <2>1, <2>2, <2>3 DEF LinkMutations
<1>3. QED
  BY <1>1, <1>2, RefusedAnswers

\* An approval with or without the listing, and what was prepared for the listing.
LEMMA ApproveTyped ==
    ASSUME NEW st \in Server, NEW too
    PROVE  Answers(st, Approve(st, too), FALSE)
<1>1. PICK cleared : cleared = [st EXCEPT !.review = "approved"]
  OBVIOUS
<1>2. cleared \in Server /\ cleared.gone = st.gone
  BY <1>1 DEF Server, Reviews
<1>3. ApproveListing(cleared) \in Server /\ ApproveListing(cleared).gone = st.gone
  BY <1>2, ApproveListingTyped
<1>4. Approve(st, too) \in {Refused(st), Did(cleared), Did(ApproveListing(cleared))}
  BY <1>1 DEF Approve
<1>5. PICK new : new = ApproveListing(cleared)
  OBVIOUS
<1>6. /\ Answers(st, Refused(st), FALSE) /\ Answers(st, Did(cleared), FALSE)
      /\ Answers(st, Did(new), FALSE)
  BY <1>2, <1>3, <1>5, RefusedAnswers, DidAnswers
<1>7. QED
  BY <1>4, <1>5, <1>6

LEMMA ApplyListingTyped ==
    ASSUME NEW st \in Server, NEW said
    PROVE  ApplyListing(st, said) \in Server /\ ApplyListing(st, said).gone = st.gone
<1>1. PICK new : new = [st EXCEPT !.listing = "rejected"]
  OBVIOUS
<1>2. new \in Server /\ new.gone = st.gone
  BY <1>1 DEF Server, Reviews
<1>3. ApplyListing(st, said) \in {st, ApproveListing(st), new}
  BY <1>1 DEF ApplyListing
<1>4. QED
  BY <1>2, <1>3, ApproveListingTyped

LEMMA ReleaseTyped ==
    ASSUME NEW st \in Server, NEW do \in Verdicts
    PROVE  Answers(st, OnRelease(st, do), FALSE)
<1>1. CASE st.status \in {"absent", "deleted"}
  BY <1>1, RefusedAnswers DEF OnRelease
<1>2. CASE st.status \notin {"absent", "deleted"} /\ do = "approve"
  <2>1. OnRelease(st, do) = Approve(st, TRUE)
    BY <1>2 DEF OnRelease
  <2>2. QED
    BY <2>1, ApproveTyped
<1>3. CASE st.status \notin {"absent", "deleted"} /\ do = "request-changes"
  <2>1. OnRelease(st, do) = Did([st EXCEPT !.review = "changes_requested"])
    BY <1>3 DEF OnRelease
  <2>2. PICK new : new = [st EXCEPT !.review = "changes_requested"]
    OBVIOUS
  <2>3. new \in Server /\ new.gone = st.gone
    BY <2>2 DEF Server, Reviews
  <2>4. QED
    BY <2>1, <2>2, <2>3, DidAnswers
<1>4. CASE st.status \notin {"absent", "deleted"} /\ do \in {"reject", "unpublish"}
  <2>1. OnRelease(st, do) = Did([st EXCEPT !.review = "rejected", !.status = "revoked"])
    BY <1>4 DEF OnRelease
  <2>2. PICK new : new = [st EXCEPT !.review = "rejected", !.status = "revoked"]
    OBVIOUS
  <2>3. new \in Server /\ new.gone = st.gone
    BY <2>2 DEF Server, Reviews, Statuses
  <2>4. QED
    BY <2>1, <2>2, <2>3, DidAnswers
<1>5. QED
  BY <1>1, <1>2, <1>3, <1>4 DEF Verdicts

\* The rows of a batch, one after the other.
LEMMA ApplyOneTyped ==
    ASSUME NEW st \in Server, NEW r \in Rows
    PROVE  ApplyOne(st, r) \in Server /\ ApplyOne(st, r).gone = st.gone
<1> DEFINE plan == st.rows[r].plan
           done == CASE plan.decision = "approve" ->
                          Approve(st, plan.listing \in {"none", "approve_listing"})
                     [] plan.decision = "request_changes" -> OnRelease(st, "request-changes")
                     [] OTHER -> OnRelease(st, "unpublish")
           runs == ~(Blocked(st.rows[r]) \/ ~Undecided(st) \/ st.status \in {"absent", "deleted"})
           listed == ApplyListing(done.st, plan.listing)
<1>1. ApplyOne(st, r) = IF ~runs THEN st
                        ELSE IF done.code = "ok" THEN [listed EXCEPT !.rows[r].state = "applied"]
                        ELSE [st EXCEPT !.rows[r].state = "failed"]
  BY DEF ApplyOne
<1>2. ASSUME runs
      PROVE  Answers(st, done, FALSE)
  <2>1. \/ \E too : done = Approve(st, too)
        \/ \E do \in Verdicts : done = OnRelease(st, do)
    BY DEF Verdicts
  <2>2. QED
    BY <2>1, ReleaseTyped, ApproveTyped
<1>7. done.st \in Server => listed \in Server /\ listed.gone = done.st.gone
  BY ApplyListingTyped
<1> HIDE DEF done, runs, listed
<1>3. ASSUME NEW new \in Server, NEW mark \in {"applied", "failed"}
      PROVE  /\ [new EXCEPT !.rows[r].state = mark] \in Server
             /\ [new EXCEPT !.rows[r].state = mark].gone = new.gone
  <2>1. new.rows \in [Rows -> Prepared]
    BY DEF Server
  <2>2. PICK marked : marked = [new.rows EXCEPT ![r] = [new.rows[r] EXCEPT !.state = mark]]
    OBVIOUS
  <2>3. marked \in [Rows -> Prepared]
    BY <2>1, <2>2 DEF Prepared
  <2>4. [new EXCEPT !.rows[r].state = mark] = [new EXCEPT !.rows = marked]
    BY <2>2
  <2>5. QED
    BY <2>3, <2>4 DEF Server
<1>4. PICK new : new = listed
  OBVIOUS
<1>5. runs => new \in Server /\ new.gone = st.gone
  BY <1>2, <1>4, <1>7 DEF Answers
<1>6. QED
  BY <1>1, <1>3, <1>4, <1>5

LEMMA ApplicationsTyped ==
    ASSUME NEW n \in Nat, NEW st \in Server, NEW s \in [1..n -> Rows], NEW f,
           Applications(f, st, s, n)
    PROVE  f[n] \in Server /\ f[n].gone = st.gone
<1> DEFINE Bad == {i \in 0..n : ~(f[i] \in Server /\ f[i].gone = st.gone)}
<1>1. \A i \in 0..n : f[i] = IF i = 0 THEN st ELSE ApplyOne(f[i - 1], s[i])
  BY DEF Applications
<1>2. SUFFICES ASSUME Bad # {} PROVE FALSE
  OBVIOUS
<1>3. Bad \in SUBSET Nat
  OBVIOUS
<1>4. PICK i \in Bad : \A m \in Bad : i <= m
  <2> HIDE DEF Bad
  <2>1. QED
    BY <1>2, <1>3, LeastNatural
<1>5. i \in 0..n /\ i # 0
  BY <1>1, <1>4
<1>6. i - 1 \in 0..n /\ i - 1 \notin Bad /\ s[i] \in Rows
  BY <1>4, <1>5
<1>7. PICK before : before = f[i - 1]
  OBVIOUS
<1>8. ApplyOne(before, s[i]) \in Server /\ ApplyOne(before, s[i]).gone = st.gone
  BY <1>6, <1>7, ApplyOneTyped
<1>9. QED
  BY <1>1, <1>4, <1>5, <1>7, <1>8

LEMMA BatchTyped ==
    ASSUME NEW st \in Server, NEW ids \in SUBSET Rows
    PROVE  ApplyBatch(st, ids) \in Server /\ ApplyBatch(st, ids).gone = st.gone
<1>1. PICK n \in Nat : \E order \in [1..n -> Rows] : \E F :
        Applications(F, st, order, n) /\ ApplyBatch(st, ids) = F[n]
  BY BatchApplies
<1>2. QED
  BY <1>1, ApplicationsTyped

\* Sequences: what stays, and what is put back.
LEMMA SubSeqIs ==
    ASSUME NEW S, NEW s, NEW a \in Nat \ {0}, NEW b \in Nat, a <= b + 1,
           \A i \in a..b : s[i] \in S
    PROVE  /\ SubSeq(s, a, b) \in Seq(S) /\ Len(SubSeq(s, a, b)) = b - a + 1
           /\ \A i \in 1..(b - a + 1) : SubSeq(s, a, b)[i] = s[a + i - 1]
  OBVIOUS

LEMMA RemoveAtTyped ==
    ASSUME NEW S, NEW s \in Seq(S), NEW i \in 1..Len(s)
    PROVE  /\ RemoveAt(s, i) \in Seq(S)
           /\ \A e \in ToSet(s) : e # s[i] => e \in ToSet(RemoveAt(s, i))
<1>1. PICK n \in Nat : n = Len(s) /\ DOMAIN s = 1..n /\ \A j \in 1..n : s[j] \in S
  BY LenProperties, ElementOfSeq
<1>2. PICK m \in Nat, l \in Nat, a \in Nat \ {0} : i = m + 1 /\ n = i + l /\ a = i + 1
  <2>1. i - 1 \in Nat /\ n - i \in Nat /\ i + 1 \in Nat \ {0}
    BY <1>1
  <2>2. i = (i - 1) + 1 /\ n = i + (n - i)
    BY <1>1
  <2>3. QED
    BY <2>1, <2>2
<1>3. PICK p, q : p = SubSeq(s, 1, m) /\ q = SubSeq(s, a, n)
  OBVIOUS
<1>4. p \in Seq(S) /\ Len(p) = m /\ \A j \in 1..m : p[j] = s[j]
  <2>1. \A j \in 1..m : s[j] \in S
    BY <1>1, <1>2
  <2>2. /\ SubSeq(s, 1, m) \in Seq(S) /\ Len(SubSeq(s, 1, m)) = m - 1 + 1
        /\ \A j \in 1..(m - 1 + 1) : SubSeq(s, 1, m)[j] = s[1 + j - 1]
    BY <2>1, SubSeqIs
  <2>3. QED
    BY <1>3, <2>2
<1>5. q \in Seq(S) /\ Len(q) = l /\ \A j \in 1..l : q[j] = s[i + j]
  <2>1. a <= n + 1 /\ \A j \in a..n : s[j] \in S
    BY <1>1, <1>2
  <2>2. /\ SubSeq(s, a, n) \in Seq(S) /\ Len(SubSeq(s, a, n)) = n - a + 1
        /\ \A j \in 1..(n - a + 1) : SubSeq(s, a, n)[j] = s[a + j - 1]
    BY <2>1, SubSeqIs
  <2>3. n - a + 1 = l /\ \A j \in 1..l : a + j - 1 = i + j
    BY <1>2
  <2>4. QED
    BY <1>3, <2>2, <2>3
<1>6. PICK r : r = p \o q
  OBVIOUS
<1>7. /\ r \in Seq(S) /\ DOMAIN r = 1..(m + l)
      /\ \A j \in 1..m : r[j] = p[j]
      /\ \A j \in 1..l : r[m + j] = q[j]
  <2>1. p \in Seq(S) /\ q \in Seq(S)
    BY <1>4, <1>5
  <2>2. /\ r \in Seq(S) /\ DOMAIN r = 1..(Len(p) + Len(q))
        /\ \A j \in 1..Len(p) : r[j] = p[j]
        /\ \A j \in 1..Len(q) : r[Len(p) + j] = q[j]
    BY <2>1, <1>6
  <2>3. QED
    BY <1>4, <1>5, <2>2
<1>8. ASSUME NEW j \in 1..n, j # i
      PROVE  \E k \in DOMAIN r : r[k] = s[j]
  <2>1. CASE j \in 1..m
    <3>1. j \in DOMAIN r
      BY <1>7, <2>1
    <3>2. QED
      BY <1>4, <1>7, <2>1, <3>1
  <2>2. CASE j \notin 1..m
    <3>1. PICK k \in 1..l : j = i + k
      <4>1. j - i \in 1..l /\ j = i + (j - i)
        BY <1>2, <1>8, <2>2
      <4>2. QED
        BY <4>1
    <3>2. m + k \in DOMAIN r /\ r[m + k] = q[k] /\ q[k] = s[j]
      BY <1>5, <1>7, <3>1
    <3>3. QED
      BY <3>2
  <2>3. QED
    BY <2>1, <2>2
<1>9. RemoveAt(s, i) = r
  <2>1. i - 1 = m
    BY <1>2
  <2>2. QED
    BY <1>1, <1>2, <1>3, <1>6, <2>1 DEF RemoveAt
<1>10. QED
  <2>1. ASSUME NEW e \in ToSet(s), e # s[i]
        PROVE  e \in ToSet(r)
    <3>1. PICK j \in 1..n : e = s[j]
      BY <1>1 DEF ToSet
    <3>2. PICK k \in DOMAIN r : r[k] = e
      BY <1>8, <2>1, <3>1
    <3>3. QED
      BY <3>2 DEF ToSet
  <2>2. QED
    BY <1>7, <1>9, <2>1

LEMMA InsertAtTyped ==
    ASSUME NEW S, NEW s \in Seq(S), NEW i \in 1..(Len(s) + 1), NEW e \in S
    PROVE  /\ InsertAt(s, i, e) \in Seq(S)
           /\ \A d \in ToSet(s) \cup {e} : d \in ToSet(InsertAt(s, i, e))
<1>1. PICK n \in Nat : n = Len(s) /\ DOMAIN s = 1..n /\ \A j \in 1..n : s[j] \in S
  BY LenProperties, ElementOfSeq
<1>2. PICK m \in Nat, l \in Nat : i = m + 1 /\ n = m + l
  <2>1. i - 1 \in Nat /\ n - (i - 1) \in Nat
    BY <1>1
  <2>2. i = (i - 1) + 1 /\ n = (i - 1) + (n - (i - 1))
    BY <1>1
  <2>3. QED
    BY <2>1, <2>2
<1>3. PICK p, q, o, one : p = SubSeq(s, 1, m) /\ q = SubSeq(s, i, n) /\ o = <<e>> /\ one = 1
  OBVIOUS
<1>4. p \in Seq(S) /\ Len(p) = m /\ \A j \in 1..m : p[j] = s[j]
  <2>1. \A j \in 1..m : s[j] \in S
    BY <1>1, <1>2
  <2>2. /\ SubSeq(s, 1, m) \in Seq(S) /\ Len(SubSeq(s, 1, m)) = m - 1 + 1
        /\ \A j \in 1..(m - 1 + 1) : SubSeq(s, 1, m)[j] = s[1 + j - 1]
    BY <2>1, SubSeqIs
  <2>3. QED
    BY <1>3, <2>2
<1>5. q \in Seq(S) /\ Len(q) = l /\ \A j \in 1..l : q[j] = s[m + j]
  <2>1. i \in Nat \ {0} /\ i <= n + 1 /\ \A j \in i..n : s[j] \in S
    BY <1>1, <1>2
  <2>2. /\ SubSeq(s, i, n) \in Seq(S) /\ Len(SubSeq(s, i, n)) = n - i + 1
        /\ \A j \in 1..(n - i + 1) : SubSeq(s, i, n)[j] = s[i + j - 1]
    BY <2>1, SubSeqIs
  <2>3. n - i + 1 = l /\ \A j \in 1..l : i + j - 1 = m + j
    BY <1>2
  <2>4. QED
    BY <1>3, <2>2, <2>3
<1>6. o \in Seq(S) /\ Len(o) = one /\ o[1] = e
  BY <1>3
<1>7. PICK h : h = p \o o
  OBVIOUS
<1>8. h \in Seq(S) /\ Len(h) = i /\ (\A j \in 1..m : h[j] = s[j]) /\ h[i] = e
  <2>1. /\ h \in Seq(S) /\ DOMAIN h = 1..(m + one) /\ \A j \in 1..m : h[j] = p[j]
        /\ \A j \in 1..one : h[m + j] = o[j]
    <3>1. /\ h \in Seq(S) /\ DOMAIN h = 1..(Len(p) + Len(o))
          /\ \A j \in 1..Len(p) : h[j] = p[j]
          /\ \A j \in 1..Len(o) : h[Len(p) + j] = o[j]
      BY <1>4, <1>6, <1>7
    <3>2. QED
      BY <1>4, <1>6, <3>1
  <2>2. DOMAIN h = 1..i /\ h[i] = e
    BY <1>2, <1>3, <1>6, <2>1
  <2>3. Len(h) = i
    BY <1>2, <2>1, <2>2
  <2>4. QED
    BY <1>4, <2>1, <2>2, <2>3
<1>9. PICK r : r = h \o q
  OBVIOUS
<1>10. /\ r \in Seq(S) /\ DOMAIN r = 1..(i + l)
       /\ \A j \in 1..i : r[j] = h[j]
       /\ \A j \in 1..l : r[i + j] = q[j]
  <2>1. h \in Seq(S) /\ q \in Seq(S)
    BY <1>5, <1>8
  <2>2. /\ r \in Seq(S) /\ DOMAIN r = 1..(Len(h) + Len(q))
        /\ \A j \in 1..Len(h) : r[j] = h[j]
        /\ \A j \in 1..Len(q) : r[Len(h) + j] = q[j]
    BY <2>1, <1>9
  <2>3. QED
    BY <1>5, <1>8, <2>2
<1>11. ASSUME NEW j \in 1..n
       PROVE  \E k \in DOMAIN r : r[k] = s[j]
  <2>1. CASE j \in 1..m
    <3>1. j \in DOMAIN r /\ j \in 1..i
      BY <1>2, <1>10, <2>1
    <3>2. QED
      BY <1>8, <1>10, <2>1, <3>1
  <2>2. CASE j \notin 1..m
    <3>1. PICK k \in 1..l : j = m + k
      <4>1. j - m \in 1..l /\ j = m + (j - m)
        BY <1>2, <2>2
      <4>2. QED
        BY <4>1
    <3>2. i + k \in DOMAIN r /\ r[i + k] = q[k] /\ q[k] = s[j]
      BY <1>2, <1>5, <1>10, <3>1
    <3>3. QED
      BY <3>2
  <2>3. QED
    BY <2>1, <2>2
<1>12. i \in DOMAIN r /\ r[i] = e
  BY <1>2, <1>8, <1>10
<1>13. InsertAt(s, i, e) = r
  <2>1. i - 1 = m
    BY <1>2
  <2>2. QED
    BY <1>1, <1>3, <1>7, <1>9, <2>1 DEF InsertAt
<1>14. QED
  <2>1. ASSUME NEW d \in ToSet(s) \cup {e}
        PROVE  d \in ToSet(r)
    <3>1. PICK k \in DOMAIN r : r[k] = d
      BY <1>1, <1>11, <1>12 DEF ToSet
    <3>2. QED
      BY <3>1 DEF ToSet
  <2>2. QED
    BY <1>10, <1>13, <2>1

\* The library's list at the server: what is taken off, what is added.
LEMMA RemoveFirstTyped ==
    ASSUME NEW S, NEW s \in Seq(S), NEW e
    PROVE  RemoveFirst(s, e) \in Seq(S)
<1>1. CASE \E i \in 1..Len(s) : s[i] = e
  <2> DEFINE Where == {i \in 1..Len(s) : s[i] = e}
  <2>1. Where # {} /\ Where \in SUBSET Nat
    BY <1>1, LenProperties
  <2>2. PICK m \in Where : \A i \in Where : m <= i
    <3> HIDE DEF Where
    <3>1. QED
      BY <2>1, LeastNatural
  <2>3. Min(Where) \in Where
    BY <2>2 DEF Min
  <2>4. RemoveFirst(s, e) = RemoveAt(s, Min(Where))
    BY <1>1, <2>1 DEF RemoveFirst, SelectInSeq
  <2>5. QED
    BY <2>3, <2>4, RemoveAtTyped
<1>2. CASE ~\E i \in 1..Len(s) : s[i] = e
  BY <1>2 DEF RemoveFirst
<1>3. QED
  BY <1>1, <1>2

LEMMA SetToSeqTyped ==
    ASSUME NEW S, IsFiniteSet(S)
    PROVE  SetToSeq(S) \in Seq(S)
<1>1. Cardinality(S) \in Nat /\ ExistsBijection(1..Cardinality(S), S)
  BY FS_CardinalityType
<1>2. \E f \in [1..Cardinality(S) -> S] : IsInjective(f)
  BY <1>1 DEF ExistsBijection, Bijection, Injection, IsInjective
<1>3. SetToSeq(S) \in [1..Cardinality(S) -> S]
  BY <1>2 DEF SetToSeq
<1>4. QED
  BY <1>1, <1>3

LEMMA LibraryTyped ==
    ASSUME NEW st \in Server, NEW do \in {"take", "installAll"}, NEW arg
    PROVE  Answers(st, OnLibrary(st, do, arg), FALSE)
<1>1. PICK v : v = RemoveFirst(st.lib, arg.item)
  OBVIOUS
<1>2. v \in Seq(Items)
  BY <1>1, RemoveFirstTyped DEF Server
<1>3. OnLibrary(st, do, arg) \in {Refused(st), Did(st), Did([st EXCEPT !.lib = v])}
  BY <1>1 DEF OnLibrary
<1>4. PICK new : new = [st EXCEPT !.lib = v]
  OBVIOUS
<1>5. new \in Server /\ new.gone = st.gone
  BY <1>2, <1>4 DEF Server
<1>6. Answers(st, Refused(st), FALSE) /\ Answers(st, Did(st), FALSE) /\ Answers(st, Did(new), FALSE)
  BY <1>5, RefusedAnswers, DidAnswers
<1>7. QED
  BY <1>3, <1>4, <1>6

LEMMA GalleryTyped ==
    ASSUME NEW st \in Server, NEW wanted \in SUBSET Items
    PROVE  Answers(st, Did(AddToLibrary(st, wanted)), FALSE)
<1>1. PICK missing : missing = wanted \ ToSet(st.lib)
  OBVIOUS
<1>2. IsFiniteSet(missing)
  <2>1. Catalog \in Seq(Items)
    BY ConsoleAssumption
  <2>2. PICK n \in Nat : Catalog \in [1..n -> Items] /\ DOMAIN Catalog = 1..n
    BY <2>1, LenProperties
  <2>3. Catalog \in Surjection(1..n, Items)
    BY <2>2 DEF Surjection, Items
  <2>4. IsFiniteSet(1..n)
    BY FS_Interval
  <2>5. IsFiniteSet(Items)
    BY <2>3, <2>4, FS_Surjection
  <2>6. QED
    BY <1>1, <2>5, FS_Subset
<1>3. PICK more : more = SetToSeq(missing)
  OBVIOUS
<1>4. more \in Seq(Items) /\ st.lib \in Seq(Items)
  <2>1. more \in Seq(missing) /\ missing \subseteq Items
    BY <1>1, <1>2, <1>3, SetToSeqTyped
  <2>2. QED
    BY <2>1, SeqMonotonic DEF Server
<1>5. PICK v : v = more \o st.lib
  OBVIOUS
<1>6. v \in Seq(Items)
  BY <1>4, <1>5
<1>7. AddToLibrary(st, wanted) = [st EXCEPT !.lib = v]
  BY <1>1, <1>3, <1>5 DEF AddToLibrary
<1>8. QED
  BY <1>6, <1>7 DEF Answers, Did, Server

\* A click's handler, whichever page's.
LEMMA EffectTyped ==
    ASSUME NEW st \in Server, NEW page, NEW do, NEW arg, Asks(page, do, arg)
    PROVE  Answers(st, Effect(st, page, do, arg), page = "overview" /\ do = "delete")
<1>1. CASE page \in Developers \cup {"listing"} /\ st.gone
  BY <1>1, RefusedAnswers DEF Effect
<1>2. CASE ~(page \in Developers \cup {"listing"} /\ st.gone)
  <2>1. CASE page = "overview"
    BY <1>2, <2>1, ProjectTyped DEF Effect, Answers
  <2>2. CASE page = "versions"
    BY <1>2, <2>2, VersionsTyped DEF Effect, Asks
  <2>3. CASE page = "links"
    BY <1>2, <2>3, LinksTyped DEF Effect, Asks, LinkMutations
  <2>4. CASE page \in {"review", "triage"}
    <3>1. do \in Verdicts /\ Effect(st, page, do, arg) = OnRelease(st, do)
      BY <1>2, <2>4 DEF Effect, Asks, Verdicts, TriageVerdicts
    <3>2. QED
      BY <2>4, <3>1, ReleaseTyped
  <2>5. CASE page = "prepared"
    <3>1. arg \in SUBSET Rows /\ Effect(st, page, do, arg) = Did(ApplyBatch(st, arg))
      BY <1>2, <2>5 DEF Effect, Asks
    <3>2. QED
      BY <2>5, <3>1, BatchTyped DEF Answers, Did
  <2>6. CASE page = "library"
    <3>1. do \in {"take", "installAll"} /\ Effect(st, page, do, arg) = OnLibrary(st, do, arg)
      BY <1>2, <2>6 DEF Effect, Asks
    <3>2. QED
      BY <2>6, <3>1, LibraryTyped
  <2>7. CASE page = "safe"
    <3>1. arg \in BOOLEAN /\ Effect(st, page, do, arg) = Did([st EXCEPT !.safe = arg])
      BY <1>2, <2>7 DEF Effect, Asks
    <3>2. QED
      BY <2>7, <3>1 DEF Answers, Did, Server
  <2>8. CASE page = "reports"
    <3>1. do \in ReportMutations /\ Effect(st, page, do, arg) = Did([st EXCEPT !.report = do])
      BY <1>2, <2>8 DEF Effect, Asks
    <3>2. QED
      BY <2>8, <3>1 DEF Answers, Did, Server, ReportMutations
  <2>9. CASE page = "listing"
    <3>1. \/ Effect(st, page, do, arg) = Did(ApproveListing(st))
          \/ Effect(st, page, do, arg) = Did([st EXCEPT !.listing = "rejected"])
      BY <1>2, <2>9 DEF Effect, OnListing
    <3>2. Answers(st, Did([st EXCEPT !.listing = "rejected"]), FALSE)
      BY DEF Answers, Did, Server, Reviews
    <3>3. Answers(st, Did(ApproveListing(st)), FALSE)
      BY ApproveListingTyped DEF Answers, Did
    <3>4. QED
      BY <2>9, <3>1, <3>2, <3>3
  <2>10. CASE page = "gallery"
    <3>1. arg \in SUBSET Items /\ Effect(st, page, do, arg) = Did(AddToLibrary(st, arg))
      BY <1>2, <2>10 DEF Effect, Asks
    <3>2. QED
      BY <2>10, <3>1, GalleryTyped
  <2>11. QED
    BY <2>1, <2>2, <2>3, <2>4, <2>5, <2>6, <2>7, <2>8, <2>9, <2>10 DEF Asks
<1>3. QED
  BY <1>1, <1>2

-----------------------------------------------------------------------------
(* A step of a tab: slot k takes call c, the loads that c supersedes are let go, and the  *)
(* other tabs keep what they have, unless the server's rows change.                       *)

Supersedes(c, d) == c # NoRow /\ Queries(c) /\ d # NoRow /\ d.t = c.t /\ Queries(d)

Puts(k, c) ==
    /\ DOMAIN call' = Slots /\ call'[k] = c
    /\ \A j \in Slots \ {k} : call'[j] = IF Supersedes(c, call[j]) THEN NoRow ELSE call[j]

\* Slot k was free or the tab's, and is now.
Owns(t, k, c) ==
    /\ call[k] = NoRow \/ call[k].t = t
    /\ c # NoRow => CallOK(c) /\ c.t = t

\* The tab's calls after the step.
Moved(t, k, c) ==
    /\ c # NoRow => k \in Mine(t)' /\ call'[k] = c
    /\ \A j \in Mine(t)' :
         IF j = k THEN c # NoRow /\ call'[j] = c ELSE j \in Mine(t) /\ call'[j] = call[j]
    /\ \A j \in Mine(t) \ {k} :
         IF c # NoRow /\ Queries(c) /\ Queries(call[j]) THEN j \notin Mine(t)'
         ELSE j \in Mine(t)'

SamePage(t) ==
    /\ tab'[t].page = tab[t].page /\ tab'[t].user = tab[t].user
    /\ tab'[t].view = tab[t].view /\ tab'[t].behind = tab[t].behind

SameView(u) == db'.gone = db.gone /\ View(db', tab[u].page) = View(db, tab[u].page)

Others(t) ==
    /\ DOMAIN tab' = Tabs
    /\ \A u \in Tabs \ {t} :
         \/ tab'[u] = tab[u] /\ SameView(u)
         \/ tab'[u] = [tab[u] EXCEPT !.behind = TRUE]

LEMMA NotNoRow ==
    ASSUME NEW c, CallOK(c)
    PROVE  c # NoRow
<1>1. c.page \in Pages /\ c \in Call(c.page, c.do)
  BY DEF CallOK
<1>2. c.do \in Session \cup Clicks
  BY DEF CallOK, Asks, Clicks, ReleaseMutations, LinkMutations, ReportMutations, Verdicts,
         TriageVerdicts, ListingVerdicts, ProjectMutations
<1>3. QED
  BY <1>1, <1>2, NoCallAssumption

\* What a slot takes, as its tab sees it.
LEMMA PutPuts ==
    ASSUME NEW k \in Slots, NEW c, DOMAIN call = Slots, call' = Put(k, c)
    PROVE  Puts(k, c)
  BY DEF Put, Puts, Supersedes, Queries, Loads, Mine

\* A call that goes on supersedes nothing: its tab has one load.
LEMMA StaysPuts ==
    ASSUME TypeInv, PagesInv, NEW k \in Slots, call[k] # NoRow, NEW c, c.t = call[k].t,
           c.page = call[k].page, c.do = "load" => call[k].do = "load",
           DOMAIN call' = Slots, call'[k] = c, \A j \in Slots \ {k} : call'[j] = call[j]
    PROVE  Puts(k, c)
<1>1. call[k].t \in Tabs
  BY DEF TypeInv, CallOK, Call
<1>2. OneLoad(call[k].t)
  BY <1>1 DEF PagesInv, TabInv
<1>3. QED
  BY <1>2 DEF Puts, Supersedes, Queries, OneLoad, Mine

LEMMA PutsTyped ==
    ASSUME TypeInv, NEW t, NEW k \in Slots, NEW c, Owns(t, k, c), Puts(k, c)
    PROVE  DOMAIN call' = Slots /\ \A j \in Slots : call'[j] # NoRow => CallOK(call'[j])
  BY DEF TypeInv, Owns, Puts

LEMMA PutsMoved ==
    ASSUME NEW t, NEW k \in Slots, NEW c, Owns(t, k, c), Puts(k, c)
    PROVE  Moved(t, k, c)
  BY DEF Moved, Mine, Owns, Puts, Supersedes

LEMMA PutsApart ==
    ASSUME NEW t, NEW k \in Slots, NEW c, Owns(t, k, c), Puts(k, c), NEW u \in Tabs \ {t}
    PROVE  Mine(u)' = Mine(u) /\ \A j \in Mine(u) : call'[j] = call[j]
  BY DEF Mine, Owns, Puts, Supersedes

\* A tab whose calls are as they were, and whose rows too unless it is behind.
LEMMA ApartKept ==
    ASSUME NEW u \in Tabs, TabInv(u),
           Mine(u)' = Mine(u), \A j \in Mine(u) : call'[j] = call[j],
           /\ tab'[u].page = tab[u].page /\ tab'[u].user = tab[u].user
           /\ tab'[u].view = tab[u].view /\ tab'[u].seen = tab[u].seen,
           tab'[u].behind \/ (tab'[u].behind = tab[u].behind /\ SameView(u))
    PROVE  TabInv(u)'
<1>2. Belongs(u)'
  BY DEF TabInv, Belongs
<1>3. OneLoad(u)'
  BY DEF TabInv, OneLoad
<1>4. Entering(u)'
  BY DEF TabInv, Entering
<1>5. Current(u)'
  BY DEF TabInv, Current, Told, SameView
<1>6. GoneKnown(u)'
  BY DEF TabInv, GoneKnown, SameView
<1>7. Shown(u)'
  BY DEF TabInv, Shown
<1>8. QED
  BY <1>2, <1>3, <1>4, <1>5, <1>6, <1>7 DEF TabInv

\* What is left to show of a step is its own tab.
LEMMA StepKeeps ==
    ASSUME TypeInv, PagesInv, NEW t \in Tabs, NEW k \in Slots, NEW c, Owns(t, k, c), Puts(k, c),
           Others(t), TabOK(tab'[t]), TabInv(t)',
           db' \in Server, live' \subseteq 1..Sessions, jar' \in Token,
           clicks' \in 0..MaxClicks, trouble' \in 0..MaxTrouble
    PROVE  TypeInv' /\ PagesInv'
<1>1. ASSUME NEW u \in Tabs PROVE TabOK(tab'[u]) /\ TabInv(u)'
  <2>1. CASE u = t
    BY <2>1
  <2>2. CASE u # t
    <3>1. TabInv(u) /\ TabOK(tab[u])
      BY DEF TypeInv, PagesInv
    <3>2. Mine(u)' = Mine(u) /\ \A j \in Mine(u) : call'[j] = call[j]
      BY <2>2, PutsApart
    <3>3. \/ tab'[u] = tab[u] /\ SameView(u)
          \/ tab'[u] = [tab[u] EXCEPT !.behind = TRUE]
      BY <2>2 DEF Others
    <3>4. TabOK(tab'[u])
      BY <3>1, <3>3 DEF TabOK, TabRow
    <3>5. /\ tab'[u].page = tab[u].page /\ tab'[u].user = tab[u].user
          /\ tab'[u].view = tab[u].view /\ tab'[u].seen = tab[u].seen
          /\ tab'[u].behind \/ (tab'[u].behind = tab[u].behind /\ SameView(u))
      BY <3>1, <3>3 DEF TabOK, TabRow
    <3>6. QED
      BY <3>1, <3>2, <3>4, <3>5, ApartKept
  <2>3. QED
    BY <2>1, <2>2
<1>2. DOMAIN call' = Slots /\ \A j \in Slots : call'[j] # NoRow => CallOK(call'[j])
  BY PutsTyped
<1>3. DOMAIN tab' = Tabs
  BY DEF Others
<1>4. QED
  BY <1>1, <1>2, <1>3 DEF TypeInv, PagesInv

-----------------------------------------------------------------------------
(* The tab whose step it is. *)

LEMMA OneLoadKept ==
    ASSUME NEW t, NEW k, NEW c, OneLoad(t), Moved(t, k, c)
    PROVE  OneLoad(t)'
  BY DEF OneLoad, Moved

LEMMA BelongsKept ==
    ASSUME NEW t, NEW k, NEW c, Belongs(t), Moved(t, k, c),
           tab'[t].page \notin {"left", "library"} =>
               tab'[t].page = tab[t].page /\ (c # NoRow => c.page = tab[t].page)
    PROVE  Belongs(t)'
  BY DEF Belongs, Moved

LEMMA EntersKept ==
    ASSUME NEW t, NEW k, NEW c, Entering(t), Moved(t, k, c), c # NoRow, Enters(c),
           Mine(t) = {} \/ (k \in Mine(t) /\ Enters(call[k])),
           ~tab'[t].user, c.do # "login" => tab'[t].view = NoRow
    PROVE  Entering(t)'
  BY DEF Entering, Moved

LEMMA InsideKept ==
    ASSUME NEW t, NEW k, NEW c, Entering(t), Moved(t, k, c), c # NoRow => ~Enters(c),
           Mine(t) = {} \/ k \in Mine(t) \/ tab[t].user
    PROVE  Entering(t)'
<1>1. ASSUME NEW j \in Mine(t)', Enters(call'[j]) PROVE FALSE
  <2>1. j # k /\ j \in Mine(t) /\ call'[j] = call[j]
    BY <1>1 DEF Moved
  <2>2. (\A i \in Mine(t) : i = j) /\ ~tab[t].user
    BY <1>1, <2>1 DEF Entering
  <2>3. QED
    BY <2>1, <2>2
<1>2. QED
  BY <1>1 DEF Entering

\* Nothing is asked of a page that nobody sees, or that is known to be behind.
LEMMA Excused ==
    ASSUME NEW t, \/ ~tab'[t].user \/ tab'[t].behind \/ tab'[t].page \in {"left", "library"}
    PROVE  Current(t)' /\ GoneKnown(t)'
  BY DEF Current, GoneKnown, Developers

LEMMA CurrentTold ==
    ASSUME NEW t, NEW k, NEW c, Moved(t, k, c), c # NoRow, Written(c) \/ Asked(c)
    PROVE  Current(t)'
  BY DEF Current, Told, Moved

LEMMA CurrentKept ==
    ASSUME NEW t, NEW k, NEW c, Current(t), Moved(t, k, c), SamePage(t), db' = db,
           k \in Mine(t) => ~Written(call[k]) /\ ~Asked(call[k]) /\ ~Brings(call[k]),
           c # NoRow => c.do # "load" /\ ~Written(c)
    PROVE  Current(t)'
<1>1. c # NoRow => ~Asked(c) /\ ~Brings(c)
  BY DEF Asked, Brings
<1>2. \A j \in Mine(t) \ {k} : j \in Mine(t)' /\ call'[j] = call[j]
  BY DEF Moved, Queries
<1>3. \A j \in Mine(t)' : \/ j = k /\ c # NoRow /\ call'[j] = c
                          \/ j # k /\ j \in Mine(t) /\ call'[j] = call[j]
  BY DEF Moved
<1>4. Told(t) => Told(t)'
  BY <1>2 DEF Told
<1>5. (\E j \in Mine(t) : Brings(call[j])) => \E j \in Mine(t)' : Brings(call'[j])
  BY <1>2
<1>6. \A j \in Mine(t)' : Brings(call'[j]) => j \in Mine(t) /\ call'[j] = call[j]
  BY <1>1, <1>3
<1>7. QED
  BY <1>4, <1>5, <1>6 DEF Current, SamePage

LEMMA GoneKept ==
    ASSUME NEW t, NEW k, NEW c, GoneKnown(t), Moved(t, k, c), SamePage(t), db'.gone = db.gone,
           k \in Mine(t) => ~Deleted(call[k]),
           c # NoRow => ~Brings(c)
    PROVE  GoneKnown(t)'
<1>1. \A j \in Mine(t) \ {k} : Deleted(call[j]) => j \in Mine(t)' /\ call'[j] = call[j]
  BY DEF Moved, Deleted, Queries
<1>2. (\A j \in Mine(t)' : ~Deleted(call'[j])) => \A j \in Mine(t) : ~Deleted(call[j])
  BY <1>1
<1>3. (\A j \in Mine(t) : ~Brings(call[j])) => \A j \in Mine(t)' : ~Brings(call'[j])
  BY DEF Moved
<1>4. QED
  BY <1>2, <1>3 DEF GoneKnown, SamePage

LEMMA ShownKept ==
    ASSUME NEW t, NEW k, NEW c, Shown(t), Moved(t, k, c),
           tab'[t].page = "library" /\ tab'[t].view # NoRow =>
               tab'[t].page = tab[t].page /\ tab'[t].view = tab[t].view /\ tab'[t].seen = tab[t].seen,
           k \in Mine(t) => call[k].do # "take" \/ (c # NoRow /\ c.do = "take" /\ c.arg = call[k].arg)
    PROVE  Shown(t)'
<1>1. SUFFICES ASSUME tab'[t].page = "library", tab'[t].view # NoRow, NEW e \in tab'[t].seen
               PROVE  e \in ToSet(tab'[t].view) \/ \E j \in Mine(t)' : Takes(call'[j], e)
  BY DEF Shown
<1>2. e \in ToSet(tab[t].view) \/ \E j \in Mine(t) : Takes(call[j], e)
  BY <1>1 DEF Shown
<1>3. ASSUME NEW j \in Mine(t), Takes(call[j], e)
      PROVE  \E i \in Mine(t)' : Takes(call'[i], e)
  <2>1. CASE j = k
    BY <1>3, <2>1 DEF Moved, Takes
  <2>2. CASE j # k
    BY <1>3, <2>2 DEF Moved, Takes, Queries
  <2>3. QED
    BY <2>1, <2>2
<1>4. QED
  BY <1>1, <1>2, <1>3

-----------------------------------------------------------------------------
(* The calls that tabs make. *)

\* What a button asks for is what its kind of call carries.
LEMMA AsksCarried ==
    ASSUME NEW page, NEW do, NEW arg, Asks(page, do, arg)
    PROVE  page \in Pages /\ do \notin Session /\ arg \in Carried(do)
<1>1. page \in Pages
  BY DEF Asks, Pages, Developers, Moderation
<1>2. do \notin Session
  BY DEF Asks, Session, ReleaseMutations, LinkMutations, ReportMutations, Verdicts,
         TriageVerdicts, ListingVerdicts, ProjectMutations
<1>3. arg \in Carried(do)
  BY DEF Asks, Carried, ReleaseMutations, LinkMutations, ReportMutations, Verdicts,
         TriageVerdicts, ListingVerdicts, ProjectMutations
<1>4. QED
  BY <1>1, <1>2, <1>3

\* A click's call, and a page's query, are typed and yet to be answered.
LEMMA NewCallOK ==
    ASSUME TypeInv, NEW click, click.t \in Tabs, click.page \in Pages, NEW token \in Token,
           IF click.do \in Session THEN click.arg = NoRow ELSE Asks(click.page, click.do, click.arg)
    PROVE  CallOK(NewCall(click, token))
<1>1. click.arg \in Carried(click.do)
  <2>1. CASE click.do \in Session
    BY <2>1 DEF Carried, Session, LinkMutations, Verdicts
  <2>2. CASE click.do \notin Session
    BY <2>2, AsksCarried
  <2>3. QED
    BY <2>1, <2>2
<1>2. 0 \in Token /\ jar \in Token
  BY ConsoleAssumption DEF Token, TypeInv
<1>3. NewCall(click, token) \in Call(click.page, click.do)
  BY <1>1, <1>2 DEF NewCall, Call
<1>4. QED
  BY <1>3 DEF CallOK, NewCall

LEMMA QueryOK ==
    ASSUME TypeInv, NEW t \in Tabs, NEW page \in Pages, NEW token \in Token
    PROVE  /\ CallOK(Query(t, page, token)) /\ Query(t, page, token).t = t
           /\ Query(t, page, token).page = page /\ Query(t, page, token).do = "load"
           /\ Asked(Query(t, page, token))
<1>1. PICK click : click = [t |-> t, page |-> page, do |-> "load", arg |-> NoRow]
  OBVIOUS
<1>2. CallOK(NewCall(click, token))
  BY <1>1, NewCallOK DEF Session
<1>3. QED
  BY <1>1, <1>2 DEF Query, NewCall, Asked

\* What a page lets its reader click is one of the page's calls.
LEMMA OffersAsk ==
    ASSUME NEW t \in Tabs, TabOK(tab[t]), NEW click \in Offers(t)
    PROVE  /\ tab[t].user /\ tab[t].view # NoRow
           /\ click.t = t /\ click.page = tab[t].page
           /\ Asks(click.page, click.do, click.arg)
           /\ click.do = "take" => /\ tab[t].shown \in Seq(Items)
                                   /\ click.arg.index \in DOMAIN tab[t].shown
                                   /\ click.arg.item = tab[t].shown[click.arg.index]
<1> DEFINE v == tab[t].view
           s == tab[t].shown
           Good(S) == \A c \in S : /\ c.t = t /\ c.page = tab[t].page
                                   /\ Asks(c.page, c.do, c.arg)
                                   /\ c.do = "take" => /\ s \in Seq(Items)
                                                       /\ c.arg.index \in DOMAIN s
                                                       /\ c.arg.item = s[c.arg.index]
<1>1. tab[t].user /\ v # NoRow
  BY DEF Offers
<1>2. tab[t].page \in Pages /\ v \in PageView(tab[t].page)
  BY <1>1 DEF TabOK, TabRow
<1>3. CASE tab[t].page = "overview"
  <2>1. PICK b \in BOOLEAN : b = ~v.public
    OBVIOUS
  <2>2. Good(OverviewTab(t, v))
    <3> DEFINE Rest == OverviewTab(t, v) \ {Click(t, "visibility", b)}
    <3>1. Good({Click(t, "visibility", b)})
      BY <1>3 DEF Click, Asks
    <3>2. Good(Rest)
      <4>1. ASSUME NEW c \in Rest
            PROVE  \/ \E text \in {"old", "new"} : c = Click(t, "save", text)
                   \/ \E do \in {"icon", "unicon", "shot", "unshot", "delete"} : c = Click(t, do, NoRow)
        <5>1. c \in OverviewTab(t, v) /\ c # Click(t, "visibility", ~v.public)
          BY <2>1
        <5>2. QED
          BY <5>1 DEF OverviewTab, When
      <4>2. QED
        BY <1>3, <4>1 DEF Click, Asks
    <3>3. QED
      BY <3>1, <3>2
  <2>3. QED
    BY <1>1, <1>3, <2>2 DEF Offers
<1>4. CASE tab[t].page = "versions"
  <2>1. Good(VersionsTab(t, v))
    BY <1>4 DEF VersionsTab, When, Click, Asks, ReleaseMutations
  <2>2. QED
    BY <1>1, <1>4, <2>1 DEF Offers
<1>5. CASE tab[t].page = "links"
  <2>1. Good(LinksTab(t, v))
    BY <1>5 DEF LinksTab, When, Click, Asks
  <2>2. QED
    BY <1>1, <1>5, <2>1 DEF Offers
<1>6. CASE tab[t].page = "safe"
  <2>1. PICK b \in BOOLEAN : b = ~v
    OBVIOUS
  <2>2. Good(SafeModeCard(t, v))
    <3>1. \A c \in SafeModeCard(t, v) : c = Click(t, "safe", ~v)
      BY DEF SafeModeCard, When
    <3>2. \A c \in SafeModeCard(t, v) : c = Click(t, "safe", b)
      BY <2>1, <3>1
    <3>3. QED
      BY <1>6, <3>2 DEF Click, Asks
  <2>3. QED
    BY <1>1, <1>6, <2>2 DEF Offers
<1>7. CASE tab[t].page = "reports"
  <2>1. Good(ReportsTab(t, v))
    BY <1>7 DEF ReportsTab, When, Click, Asks, ReportMutations
  <2>2. QED
    BY <1>1, <1>7, <2>1 DEF Offers
<1>8. CASE tab[t].page = "review"
  <2>1. v.copy \in Listing
    BY <1>2, <1>8 DEF PageView
  <2>2. Good(ReviewPage(t, v))
    BY <1>8, <2>1 DEF ReviewPage, When, Click, Asks, Verdicts
  <2>3. QED
    BY <1>1, <1>8, <2>2 DEF Offers
<1>9. CASE tab[t].page = "triage"
  <2>1. Good(TriagePage(t, v))
    BY <1>9 DEF TriagePage, When, Click, Asks, TriageVerdicts
  <2>2. QED
    BY <1>1, <1>9, <2>1 DEF Offers
<1>10. CASE tab[t].page = "prepared"
  <2>1. Good(PreparedPage(t, v))
    BY <1>10 DEF PreparedPage, Selections, Runnable, When, Click, Asks
  <2>2. QED
    BY <1>1, <1>10, <2>1 DEF Offers
<1>11. CASE tab[t].page = "listing"
  <2>1. v.copy \in Listing
    BY <1>2, <1>11 DEF PageView
  <2>2. Good(ListingPage(t, v))
    BY <1>11, <2>1 DEF ListingPage, When, Click, Asks, ListingVerdicts
  <2>3. QED
    BY <1>1, <1>11, <2>2 DEF Offers
<1>12. CASE tab[t].page = "library"
  <2>1. click \in LibraryPage(t, s) /\ s # NoRow
    BY <1>1, <1>12 DEF Offers
  <2>2. s \in Seq(Items)
    BY <2>1 DEF TabOK, TabRow
  <2>3. \A i \in DOMAIN s : i \in Nat \ {0} /\ s[i] \in Items
    BY <2>2, LenProperties
  <2>4. Good(LibraryPage(t, s))
    BY <1>12, <2>2, <2>3 DEF LibraryPage, When, Click, Asks
  <2>5. QED
    BY <1>1, <2>1, <2>4
<1>13. CASE tab[t].page = "gallery"
  <2>1. Good(GalleryPage(t, v))
    BY <1>13 DEF GalleryPage, Picks, When, Click, Asks
  <2>2. QED
    BY <1>1, <1>13, <2>1 DEF Offers
<1>14. CASE tab[t].page = "left"
  BY <1>1, <1>14 DEF Offers
<1>15. QED
  BY <1>2, <1>3, <1>4, <1>5, <1>6, <1>7, <1>8, <1>9, <1>10, <1>11, <1>12, <1>13, <1>14
     DEF Pages, Developers, Moderation

\* A session that is made has a number of its own bound.
LEMMA NewSessionFree ==
    ASSUME Unheld # {}
    PROVE  NewSession \in 1..Sessions
<1>1. Unheld \in SUBSET Nat
  BY ConsoleAssumption DEF Unheld
<1>2. PICK n \in Unheld : \A m \in Unheld : n <= m
  BY <1>1, LeastNatural
<1>3. NewSession \in Unheld
  BY <1>2 DEF NewSession
<1>4. QED
  BY <1>3 DEF Unheld

\* An item that is put back is on the list again, and nothing leaves it.
LEMMA PutBackTyped ==
    ASSUME NEW view \in Seq(Items) \cup {NoRow}, NEW arg \in [item : Items, index : Nat \ {0}]
    PROVE  /\ PutBack(view, arg) \in Seq(Items) \cup {NoRow}
           /\ PutBack(view, arg) # NoRow /\ view # NoRow =>
                ToSet(view) \cup {arg.item} \subseteq ToSet(PutBack(view, arg))
<1>1. CASE view = NoRow \/ arg.item \in ToSet(view)
  BY <1>1 DEF PutBack
<1>2. CASE ~(view = NoRow \/ arg.item \in ToSet(view))
  <2>1. view \in Seq(Items) /\ Len(view) \in Nat
    BY <1>2, LenProperties
  <2>2. PICK i : i = IF arg.index <= Len(view) THEN arg.index ELSE Len(view) + 1
    OBVIOUS
  <2>3. i \in 1..(Len(view) + 1)
    BY <2>1, <2>2
  <2>4. PutBack(view, arg) = InsertAt(view, i, arg.item)
    BY <1>2, <2>2 DEF PutBack
  <2>5. QED
    BY <2>1, <2>3, <2>4, InsertAtTyped
<1>3. QED
  BY <1>1, <1>2

-----------------------------------------------------------------------------
(* Three kinds of step: a load is asked for, a call goes on, and one that changes nothing *)
(* the page shows begins or ends.                                                          *)

\* The invariant, for one tab and for one call.
LEMMA TabThere ==
    ASSUME TypeInv, PagesInv, NEW t \in Tabs
    PROVE  /\ TabOK(tab[t]) /\ tab[t].page \in Pages /\ tab[t].token \in Token
           /\ Belongs(t) /\ OneLoad(t) /\ Entering(t) /\ Current(t) /\ GoneKnown(t) /\ Shown(t)
  BY DEF TypeInv, TabOK, TabRow, PagesInv, TabInv

LEMMA CallThere ==
    ASSUME TypeInv, NEW k \in Slots, call[k] # NoRow
    PROVE  /\ CallOK(call[k]) /\ call[k].t \in Tabs /\ call[k].page \in Pages
           /\ k \in Mine(call[k].t)
  BY DEF TypeInv, CallOK, Call, Mine

\* A load is asked for: the page will be told.
LEMMA AskStep ==
    ASSUME TypeInv, PagesInv, NEW t \in Tabs, NEW k \in Slots, NEW c, Owns(t, k, c), Puts(k, c),
           SamePage(t), tab'[t].seen = tab[t].seen, db' = db,
           c # NoRow, Asked(c), c.page = tab[t].page, Entering(t)',
           k \in Mine(t) => ~Deleted(call[k]) /\ call[k].do # "take"
    PROVE  TabInv(t)'
<1>1. Moved(t, k, c)
  BY PutsMoved
<1>2. Belongs(t)' /\ OneLoad(t)'
  BY <1>1, TabThere, BelongsKept, OneLoadKept DEF SamePage
<1>3. Current(t)'
  BY <1>1, CurrentTold
<1>4. GoneKnown(t)'
  BY <1>1, TabThere, GoneKept DEF Asked, Brings
<1>5. Shown(t)'
  BY <1>1, TabThere, ShownKept DEF SamePage
<1>6. QED
  BY <1>2, <1>3, <1>4, <1>5 DEF TabInv

\* A call begins or ends that tells the page nothing.
LEMMA QuietStep ==
    ASSUME TypeInv, PagesInv, NEW t \in Tabs, NEW k \in Slots, NEW c, Owns(t, k, c), Puts(k, c),
           SamePage(t), tab'[t].seen = tab[t].seen, db' = db, Entering(t)',
           k \in Mine(t) => ~Written(call[k]) /\ ~Asked(call[k]) /\ ~Brings(call[k]),
           c # NoRow => /\ c.do # "load" /\ ~Written(c)
                        /\ c.page = tab[t].page \/ tab[t].page \in {"left", "library"},
           k \in Mine(t) => call[k].do # "take" \/ (c # NoRow /\ c.do = "take" /\ c.arg = call[k].arg)
    PROVE  TabInv(t)'
<1>1. Moved(t, k, c)
  BY PutsMoved
<1>2. Belongs(t)' /\ OneLoad(t)'
  BY <1>1, TabThere, BelongsKept, OneLoadKept DEF SamePage
<1>3. Current(t)'
  BY <1>1, TabThere, CurrentKept
<1>4. GoneKnown(t)'
  BY <1>1, TabThere, GoneKept DEF Deleted, Brings
<1>5. Shown(t)'
  BY <1>1, TabThere, ShownKept DEF SamePage
<1>6. QED
  BY <1>2, <1>3, <1>4, <1>5 DEF TabInv

\* A sign-in that goes on is still alone.
LEMMA EnteringGoesOn ==
    ASSUME TypeInv, PagesInv, NEW t \in Tabs, NEW k \in Mine(t), NEW c, c # NoRow,
           Moved(t, k, c), c.do = call[k].do,
           tab'[t].user = tab[t].user, tab'[t].view = tab[t].view
    PROVE  Entering(t)'
<1>1. Entering(t)
  BY TabThere
<1>2. CASE Enters(c)
  <2>1. Enters(call[k])
    BY <1>2 DEF Enters
  <2>2. ~tab[t].user /\ (call[k].do # "login" => tab[t].view = NoRow)
    BY <1>1, <2>1 DEF Entering
  <2>3. QED
    BY <1>1, <1>2, <2>1, <2>2, EntersKept
<1>3. CASE ~Enters(c)
  BY <1>1, <1>3, InsideKept
<1>4. QED
  BY <1>2, <1>3

\* A call of the tab goes on as what it was.
LEMMA GoOnStep ==
    ASSUME TypeInv, PagesInv, NEW t \in Tabs, NEW k \in Slots, call[k] # NoRow, call[k].t = t,
           NEW c, CallOK(c), c.t = t, c.page = call[k].page, c.do = call[k].do, c.arg = call[k].arg,
           Puts(k, c), SamePage(t), tab'[t].seen = tab[t].seen, db' = db,
           ~Written(call[k]), ~Written(c), c.do = "load" => Asked(call[k]) /\ Asked(c)
    PROVE  TabInv(t)'
<1>1. c # NoRow /\ Owns(t, k, c) /\ Moved(t, k, c) /\ k \in Mine(t)
  BY NotNoRow, PutsMoved, CallThere DEF Owns
<1>2. Entering(t)'
  BY <1>1, EnteringGoesOn DEF SamePage
<1>3. c.page = tab[t].page \/ tab[t].page \in {"left", "library"}
  BY <1>1, TabThere DEF Belongs
<1>4. CASE c.do = "load"
  <2>1. Asked(call[k]) /\ Asked(c) /\ ~Brings(c) /\ ~Deleted(call[k])
    BY <1>4 DEF Asked, Brings, Deleted
  <2>2. Belongs(t)' /\ OneLoad(t)'
    BY <1>1, <1>3, TabThere, BelongsKept, OneLoadKept DEF SamePage
  <2>3. Current(t)'
    BY <1>1, <2>1, CurrentTold
  <2>4. GoneKnown(t)'
    BY <1>1, <2>1, TabThere, GoneKept
  <2>5. Shown(t)'
    BY <1>1, <1>4, TabThere, ShownKept DEF SamePage
  <2>6. QED
    BY <1>2, <2>2, <2>3, <2>4, <2>5 DEF TabInv
<1>5. CASE c.do # "load"
  <2>1. ~Asked(call[k]) /\ ~Brings(call[k])
    BY <1>5 DEF Asked, Brings
  <2>2. QED
    BY <1>1, <1>2, <1>3, <1>5, <2>1, QuietStep
<1>6. QED
  BY <1>4, <1>5

-----------------------------------------------------------------------------
(* Tabs that open, click and sign. *)

\* A free slot is taken, the other tabs stay, the page stays.
LEMMA FreshCall ==
    ASSUME TypeInv, NEW t \in Tabs, Free # {}, NEW c, CallOK(c), c.t = t, call' = Put(Slot, c)
    PROVE  /\ Slot \in Slots /\ call[Slot] = NoRow /\ Slot \notin Mine(t) /\ c # NoRow
           /\ Owns(t, Slot, c) /\ Puts(Slot, c)
  BY SlotFree, NotNoRow, PutPuts DEF Owns, Mine, TypeInv

LEMMA OthersStay ==
    ASSUME TypeInv, NEW t \in Tabs, DOMAIN tab' = Tabs, \A u \in Tabs \ {t} : tab'[u] = tab[u],
           db' = db
    PROVE  Others(t)
  BY DEF Others, SameView

LEMMA SameTab ==
    ASSUME TypeInv, PagesInv, NEW t \in Tabs, UNCHANGED <<db, tab>>
    PROVE  /\ SamePage(t) /\ tab'[t].seen = tab[t].seen /\ tab'[t] = tab[t]
           /\ Others(t) /\ TabOK(tab'[t])
  BY TabThere DEF Others, SameView, SamePage, TypeInv

\* A page is opened, polls, or is clicked.
LEMMA OpenKeeps ==
    ASSUME TypeInv, PagesInv, NEW t \in Tabs, Open(t)
    PROVE  TypeInv' /\ PagesInv'
<1>1. PICK k, c : k = Slot /\ c = Query(t, tab[t].page, tab[t].token)
  OBVIOUS
<1>2. UNCHANGED <<db, live, jar, tab, clicks, trouble>> /\ call' = Put(k, c)
  BY <1>1 DEF Open
<1>3. CallOK(c) /\ c.t = t /\ c.page = tab[t].page /\ c.do = "load" /\ Asked(c)
  BY <1>1, TabThere, QueryOK
<1>4. /\ k \in Slots /\ call[k] = NoRow /\ k \notin Mine(t) /\ c # NoRow
      /\ Owns(t, k, c) /\ Puts(k, c)
  BY <1>1, <1>2, <1>3, FreshCall DEF Open
<1>5. Moved(t, k, c)
  BY <1>4, PutsMoved
<1>6. Entering(t)'
  BY <1>3, <1>4, <1>5, TabThere, InsideKept DEF Enters, Open
<1>7. TabInv(t)'
  BY <1>2, <1>3, <1>4, <1>6, SameTab, AskStep
<1>8. QED
  BY <1>2, <1>4, <1>7, SameTab, StepKeeps DEF TypeInv

LEMMA PollKeeps ==
    ASSUME TypeInv, PagesInv, NEW t \in Tabs, Poll(t)
    PROVE  TypeInv' /\ PagesInv'
<1>1. PICK k, c : k = Slot /\ c = Query(t, "versions", tab[t].token)
  OBVIOUS
<1>2. UNCHANGED <<db, live, jar, tab, clicks, trouble>> /\ call' = Put(k, c)
  BY <1>1 DEF Poll
<1>3. CallOK(c) /\ c.t = t /\ c.page = tab[t].page /\ c.do = "load" /\ Asked(c)
  BY <1>1, TabThere, QueryOK DEF Poll
<1>4. /\ k \in Slots /\ call[k] = NoRow /\ k \notin Mine(t) /\ c # NoRow
      /\ Owns(t, k, c) /\ Puts(k, c)
  BY <1>1, <1>2, <1>3, FreshCall DEF Poll
<1>5. Moved(t, k, c)
  BY <1>4, PutsMoved
<1>6. Entering(t)'
  BY <1>3, <1>4, <1>5, TabThere, InsideKept DEF Enters, Poll
<1>7. TabInv(t)'
  BY <1>2, <1>3, <1>4, <1>6, SameTab, AskStep
<1>8. QED
  BY <1>2, <1>4, <1>7, SameTab, StepKeeps DEF TypeInv

LEMMA PressKeeps ==
    ASSUME TypeInv, PagesInv, NEW t \in Tabs, Press(t)
    PROVE  TypeInv' /\ PagesInv'
<1>1. PICK click \in Offers(t) :
        /\ call' = Put(Slot, NewCall(click, tab[t].token))
        /\ tab' = IF click.do = "take" THEN TakeOff(t, click.arg.index)
                  ELSE IF click.do = "icon" THEN [tab EXCEPT ![t].latest = Slot]
                  ELSE tab
  BY DEF Press
<1>2. UNCHANGED <<db, live, jar, trouble>> /\ clicks' \in 0..MaxClicks /\ Free # {}
  BY ConsoleAssumption DEF Press, TypeInv
<1>3. /\ tab[t].user /\ tab[t].view # NoRow
      /\ click.t = t /\ click.page = tab[t].page
      /\ Asks(click.page, click.do, click.arg)
      /\ click.do = "take" => /\ tab[t].shown \in Seq(Items)
                              /\ click.arg.index \in DOMAIN tab[t].shown
                              /\ click.arg.item = tab[t].shown[click.arg.index]
  BY TabThere, OffersAsk
<1>4. click.do \notin Session
  BY <1>3, AsksCarried
<1>5. PICK k, c : k = Slot /\ c = NewCall(click, tab[t].token)
  OBVIOUS
<1>6. /\ CallOK(c) /\ c.t = t /\ c.page = tab[t].page /\ c.do = click.do /\ c.arg = click.arg
      /\ ~Written(c) /\ c.do # "load" /\ ~Enters(c) /\ ~Brings(c)
  <2>1. CallOK(c)
    BY <1>3, <1>4, <1>5, TabThere, NewCallOK
  <2>2. QED
    BY <1>3, <1>4, <1>5, <2>1 DEF NewCall, Written, Session, Enters, Brings
<1>7. /\ k \in Slots /\ call[k] = NoRow /\ k \notin Mine(t) /\ c # NoRow
      /\ Owns(t, k, c) /\ Puts(k, c)
  BY <1>1, <1>2, <1>5, <1>6, FreshCall
<1>8. Moved(t, k, c)
  BY <1>7, PutsMoved
<1>9. Entering(t)'
  BY <1>3, <1>6, <1>7, <1>8, TabThere, InsideKept
<1>10. CASE click.do \notin {"take", "icon"}
  <2>1. UNCHANGED tab
    BY <1>1, <1>10
  <2>2. TabInv(t)'
    BY <1>2, <1>6, <1>7, <1>9, <2>1, SameTab, QuietStep
  <2>3. QED
    BY <1>2, <1>7, <2>1, <2>2, SameTab, StepKeeps DEF TypeInv
<1>13. CASE click.do = "icon"
  <2>1. tab' = [tab EXCEPT ![t].latest = k]
    BY <1>1, <1>5, <1>13
  <2>2. /\ DOMAIN tab' = Tabs /\ \A u \in Tabs \ {t} : tab'[u] = tab[u]
        /\ tab'[t] = [tab[t] EXCEPT !.latest = k]
    BY <2>1 DEF TypeInv
  <2>3. TabOK(tab'[t]) /\ SamePage(t) /\ tab'[t].seen = tab[t].seen
    BY <1>7, <2>2, TabThere DEF TabOK, TabRow, SamePage
  <2>4. TabInv(t)'
    BY <1>2, <1>6, <1>7, <1>9, <2>3, QuietStep
  <2>5. Others(t)
    BY <1>2, <2>2, OthersStay
  <2>6. QED
    BY <1>2, <1>7, <2>3, <2>4, <2>5, StepKeeps DEF TypeInv
<1>11. CASE click.do = "take"
  <2>1. tab[t].page = "library" /\ tab[t].view \in Seq(Items) /\ tab[t].shown \in Seq(Items)
    BY <1>3, <1>11, TabThere DEF Asks, TabOK, TabRow, PageView, Verdicts, ReleaseMutations,
       ReportMutations, TriageVerdicts, ListingVerdicts
  <2>2. PICK i \in 1..Len(tab[t].shown) : i = click.arg.index /\ click.arg.item = tab[t].shown[i]
    BY <1>3, <1>11, <2>1, LenProperties
  <2>3. PICK rest, known : /\ rest = RemoveAt(tab[t].shown, i)
                          /\ known = tab[t].seen \ (ToSet(tab[t].view) \ ToSet(tab[t].shown))
    OBVIOUS
  <2>4. rest \in Seq(Items) /\ \A e \in ToSet(tab[t].shown) : e # click.arg.item => e \in ToSet(rest)
    BY <2>1, <2>2, <2>3, RemoveAtTyped
  <2>5. tab' = [tab EXCEPT ![t].view = rest, ![t].shown = rest, ![t].seen = known]
    BY <1>1, <1>11, <2>2, <2>3 DEF TakeOff
  <2>6. /\ DOMAIN tab' = Tabs /\ \A u \in Tabs \ {t} : tab'[u] = tab[u]
        /\ tab'[t] = [tab[t] EXCEPT !.view = rest, !.shown = rest, !.seen = known]
    BY <2>5 DEF TypeInv
  <2>14. known \subseteq tab[t].seen
    BY <2>3
  <2>7. /\ TabOK(tab'[t]) /\ tab'[t].page = "library" /\ tab'[t].seen = known
        /\ tab'[t].view = rest
    BY <2>1, <2>4, <2>6, <2>14, TabThere DEF TabOK, TabRow, PageView
  <2>8. Belongs(t)' /\ OneLoad(t)'
    BY <1>8, <2>7, TabThere, BelongsKept, OneLoadKept
  <2>9. Current(t)' /\ GoneKnown(t)'
    BY <2>7, Excused
  <2>10. Shown(t)'
    <3>1. ASSUME NEW e \in known
          PROVE  e \in ToSet(rest) \/ \E j \in Mine(t)' : Takes(call'[j], e)
      <4>1. CASE \E j \in Mine(t) : Takes(call[j], e)
        BY <1>6, <1>7, <1>8, <4>1 DEF Moved, Takes, Queries
      <4>2. CASE e = click.arg.item
        BY <1>6, <1>7, <1>8, <1>11, <4>2 DEF Moved, Takes
      <4>3. CASE e \in ToSet(tab[t].view) /\ e # click.arg.item
        BY <2>3, <2>4, <4>3
      <4>4. QED
        BY <1>3, <2>1, <2>14, <4>1, <4>2, <4>3, TabThere DEF Shown
    <3>2. QED
      BY <2>7, <3>1 DEF Shown
  <2>11. TabInv(t)'
    BY <1>9, <2>8, <2>9, <2>10 DEF TabInv
  <2>12. Others(t)
    BY <1>2, <2>6, OthersStay
  <2>13. QED
    BY <1>2, <1>7, <2>7, <2>11, <2>12, StepKeeps DEF TypeInv
<1>12. QED
  BY <1>10, <1>11, <1>13

LEMMA CallsStay ==
    ASSUME UNCHANGED call
    PROVE  \A u \in Tabs : Mine(u)' = Mine(u) /\ \A j \in Mine(u) : call'[j] = call[j]
  BY DEF Mine

\* The library's list is drawn.
LEMMA RenderKeeps ==
    ASSUME TypeInv, PagesInv, NEW t \in Tabs, Render(t)
    PROVE  TypeInv' /\ PagesInv'
<1>1. /\ UNCHANGED <<db, live, jar, call, clicks, trouble>> /\ tab[t].page = "library"
      /\ DOMAIN tab' = Tabs /\ \A u \in Tabs \ {t} : tab'[u] = tab[u]
      /\ tab'[t] = [tab[t] EXCEPT !.shown = tab[t].view]
  BY DEF Render, TypeInv
<1>2. tab[t].view \in Seq(Items) \cup {NoRow}
  BY <1>1, TabThere DEF TabOK, TabRow, PageView
<1>3. ASSUME NEW u \in Tabs
      PROVE  /\ TabOK(tab'[u])
             /\ tab'[u].page = tab[u].page /\ tab'[u].user = tab[u].user
             /\ tab'[u].view = tab[u].view /\ tab'[u].seen = tab[u].seen
             /\ tab'[u].behind = tab[u].behind
  BY <1>1, <1>2, TabThere DEF TabOK, TabRow
<1>4. ASSUME NEW u \in Tabs PROVE TabInv(u)'
  BY <1>1, <1>3, CallsStay, ApartKept DEF PagesInv, SameView
<1>5. QED
  BY <1>1, <1>3, <1>4 DEF TypeInv, PagesInv

-----------------------------------------------------------------------------
(* Sessions and the worker: pages loaded anew, sign-ins, hours that end, scans. *)

\* A tab loaded anew shows nothing until it knows who is signed in.
LEMMA ReloadKeeps ==
    ASSUME TypeInv, PagesInv, NEW t \in Tabs, Reload(t)
    PROVE  TypeInv' /\ PagesInv'
<1>1. PICK click : click = [t |-> t, page |-> tab[t].page, do |-> "restore", arg |-> NoRow]
  OBVIOUS
<1>2. PICK k, c : k = Slot /\ c = [NewCall(click, 0) EXCEPT !.step = "refresh"]
  OBVIOUS
<1>3. /\ UNCHANGED <<db, live, jar, trouble>> /\ clicks' \in 0..MaxClicks /\ Free # {} /\ Mine(t) = {}
      /\ call' = Put(k, c)
      /\ tab' = [tab EXCEPT ![t] = [FreshTab(@.page) EXCEPT !.user = FALSE, !.token = 0]]
  BY <1>1, <1>2, ConsoleAssumption DEF Reload, TypeInv
<1>4. CallOK(c) /\ c.t = t /\ c.page = tab[t].page /\ c.do = "restore"
  <2>1. CallOK(NewCall(click, 0))
    BY <1>1, TabThere, NewCallOK, ConsoleAssumption DEF Session, Token
  <2>2. PICK d : d = NewCall(click, 0)
    OBVIOUS
  <2>3. d.t = t /\ d.page = tab[t].page /\ d.do = "restore" /\ CallOK(d) /\ c = [d EXCEPT !.step = "refresh"]
    BY <1>1, <1>2, <2>1, <2>2 DEF NewCall
  <2>4. QED
    BY <2>3 DEF CallOK, Call
<1>5. /\ k \in Slots /\ call[k] = NoRow /\ k \notin Mine(t) /\ c # NoRow
      /\ Owns(t, k, c) /\ Puts(k, c)
  BY <1>2, <1>3, <1>4, FreshCall
<1>6. Moved(t, k, c)
  BY <1>5, PutsMoved
<1>7. PICK w : w = [FreshTab(tab[t].page) EXCEPT !.user = FALSE, !.token = 0]
  OBVIOUS
<1>8. /\ DOMAIN tab' = Tabs /\ tab'[t] = w /\ \A u \in Tabs \ {t} : tab'[u] = tab[u]
  BY <1>3, <1>7 DEF TypeInv
<1>9. /\ w.page = tab[t].page /\ ~w.user /\ w.view = NoRow /\ w.seen = {} /\ TabOK(w)
  <2>1. w = [page |-> tab[t].page, user |-> FALSE, token |-> 0, view |-> NoRow,
             shown |-> NoRow, seen |-> {}, badge |-> NoRow, latest |-> NoRow, behind |-> FALSE]
    BY <1>7 DEF FreshTab
  <2>2. 0 \in Token
    BY ConsoleAssumption DEF Token
  <2>3. QED
    BY <2>1, <2>2, TabThere DEF TabOK, TabRow
<1>10. Belongs(t)' /\ OneLoad(t)'
  BY <1>4, <1>6, <1>8, <1>9, TabThere, BelongsKept, OneLoadKept
<1>11. Entering(t)'
  BY <1>3, <1>4, <1>5, <1>6, <1>8, <1>9, TabThere, EntersKept DEF Enters
<1>12. Current(t)' /\ GoneKnown(t)'
  BY <1>8, <1>9, Excused
<1>13. Shown(t)'
  BY <1>8, <1>9 DEF Shown
<1>14. TabInv(t)'
  BY <1>10, <1>11, <1>12, <1>13 DEF TabInv
<1>15. Others(t)
  BY <1>3, <1>8, OthersStay
<1>16. QED
  BY <1>3, <1>5, <1>8, <1>9, <1>14, <1>15, StepKeeps DEF TypeInv

\* A sign-in or a sign-out is sent when nothing else is.
LEMMA SignKeeps ==
    ASSUME TypeInv, PagesInv, NEW t \in Tabs, NEW do, Sign(t, do),
           (do = "login" /\ ~tab[t].user) \/ do = "logout"
    PROVE  TypeInv' /\ PagesInv'
<1>1. PICK click : click = [t |-> t, page |-> tab[t].page, do |-> do, arg |-> NoRow]
  OBVIOUS
<1>2. PICK k, c : k = Slot /\ c = NewCall(click, tab[t].token)
  OBVIOUS
<1>3. /\ UNCHANGED <<db, live, jar, tab, trouble>> /\ clicks' \in 0..MaxClicks /\ Free # {}
      /\ Mine(t) = {} /\ call' = Put(k, c)
  BY <1>1, <1>2, ConsoleAssumption DEF Sign, TypeInv
<1>4. CallOK(c) /\ c.t = t /\ c.page = tab[t].page /\ c.do = do
  BY <1>1, <1>2, TabThere, NewCallOK DEF Session, NewCall
<1>5. /\ k \in Slots /\ call[k] = NoRow /\ k \notin Mine(t) /\ c # NoRow
      /\ Owns(t, k, c) /\ Puts(k, c)
  BY <1>2, <1>3, <1>4, FreshCall
<1>6. Moved(t, k, c)
  BY <1>5, PutsMoved
<1>7. Entering(t)'
  <2>1. CASE do = "login"
    BY <1>3, <1>4, <1>5, <1>6, <2>1, TabThere, EntersKept DEF Enters
  <2>2. CASE do = "logout"
    BY <1>3, <1>4, <1>6, <2>2, TabThere, InsideKept DEF Enters
  <2>3. QED
    BY <2>1, <2>2
<1>8. c.do # "load" /\ ~Written(c)
  BY <1>4 DEF Written, Session
<1>9. TabInv(t)'
  BY <1>3, <1>4, <1>5, <1>7, <1>8, SameTab, QuietStep
<1>10. QED
  BY <1>3, <1>5, <1>9, SameTab, StepKeeps DEF TypeInv

\* A step that is no call's.
\* An hour that ends changes nothing a page shows.
LEMMA ExpireKeeps ==
    ASSUME TypeInv, PagesInv, NEW t \in Tabs, Expire(t)
    PROVE  TypeInv' /\ PagesInv'
<1>1. /\ UNCHANGED <<db, live, jar, call, clicks>> /\ trouble' \in 0..MaxTrouble
      /\ DOMAIN tab' = Tabs /\ \A u \in Tabs : tab'[u] = tab[u] \/ tab'[u] = [tab[u] EXCEPT !.token = 0]
  BY ConsoleAssumption DEF Expire, TypeInv
<1>2. ASSUME NEW u \in Tabs
      PROVE  /\ TabOK(tab'[u])
             /\ tab'[u].page = tab[u].page /\ tab'[u].user = tab[u].user
             /\ tab'[u].view = tab[u].view /\ tab'[u].seen = tab[u].seen
             /\ tab'[u].behind = tab[u].behind
  <2>1. 0 \in Token /\ TabOK(tab[u])
    BY TabThere, ConsoleAssumption DEF Token
  <2>2. CASE tab'[u] = tab[u]
    BY <2>1, <2>2
  <2>3. CASE tab'[u] = [tab[u] EXCEPT !.token = 0]
    BY <2>1, <2>3 DEF TabOK, TabRow
  <2>4. QED
    BY <1>1, <2>2, <2>3
<1>3. ASSUME NEW u \in Tabs PROVE TabInv(u)'
  BY <1>1, <1>2, CallsStay, ApartKept DEF PagesInv, SameView
<1>4. QED
  BY <1>1, <1>2, <1>3 DEF TypeInv, PagesInv

\* The worker's result leaves behind the pages that show the release.
LEMMA ValidatedKeeps ==
    ASSUME TypeInv, PagesInv, Validated
    PROVE  TypeInv' /\ PagesInv'
<1>1. PICK status \in {"ready", "validation_failed"} :
        db' = [db EXCEPT !.status = status] /\ tab' = Behind(NoRow, db')
  BY DEF Validated
<1>2. UNCHANGED <<live, jar, call, clicks, trouble>>
  BY DEF Validated
<1>3. db' \in Server /\ db'.gone = db.gone
  BY <1>1 DEF TypeInv, Server, Statuses
<1>4. NoRow \notin Tabs
  BY ConsoleAssumption
<1>5. DOMAIN tab' = Tabs
  BY <1>1 DEF Behind
<1>6. ASSUME NEW u \in Tabs
      PROVE  /\ TabOK(tab'[u])
             /\ tab'[u].page = tab[u].page /\ tab'[u].user = tab[u].user
             /\ tab'[u].view = tab[u].view /\ tab'[u].seen = tab[u].seen
             /\ tab'[u].behind \/ (tab'[u].behind = tab[u].behind /\ SameView(u))
  <2>1. PICK changed \in BOOLEAN :
          changed = (u # NoRow /\ (db'.gone # db.gone \/ View(db', tab[u].page) # View(db, tab[u].page)))
    OBVIOUS
  <2>2. tab'[u] = [tab[u] EXCEPT !.behind = tab[u].behind \/ changed]
    BY <1>1, <2>1 DEF Behind
  <2>3. ~changed => SameView(u)
    BY <1>4, <2>1 DEF SameView
  <2>4. QED
    BY <2>2, <2>3, TabThere DEF TabOK, TabRow
<1>7. ASSUME NEW u \in Tabs PROVE TabInv(u)'
  BY <1>2, <1>6, CallsStay, ApartKept DEF PagesInv
<1>8. QED
  BY <1>2, <1>3, <1>5, <1>6, <1>7 DEF TypeInv, PagesInv

-----------------------------------------------------------------------------
(* The server's steps. *)

\* A call goes on, and its tab shows what it showed.
LEMMA GoOnKeeps ==
    ASSUME TypeInv, PagesInv, NEW t \in Tabs, NEW k \in Slots, call[k] # NoRow, call[k].t = t,
           NEW c, CallOK(c), c.t = t, c.page = call[k].page, c.do = call[k].do, c.arg = call[k].arg,
           DOMAIN call' = Slots, call'[k] = c, \A j \in Slots \ {k} : call'[j] = call[j],
           ~Written(call[k]), ~Written(c), c.do = "load" => Asked(call[k]) /\ Asked(c),
           SamePage(t), tab'[t].seen = tab[t].seen, TabOK(tab'[t]), Others(t), db' = db,
           live' \subseteq 1..Sessions, jar' \in Token,
           clicks' \in 0..MaxClicks, trouble' \in 0..MaxTrouble
    PROVE  TypeInv' /\ PagesInv'
<1>1. Puts(k, c)
  BY StaysPuts
<1>2. TabInv(t)'
  BY <1>1, GoOnStep
<1>3. Owns(t, k, c)
  BY DEF Owns
<1>4. db' \in Server
  BY DEF TypeInv
<1>5. QED
  BY <1>1, <1>2, <1>3, <1>4, StepKeeps

\* The handlers of sessions.
LEMMA ServeRefreshKeeps ==
    ASSUME TypeInv, PagesInv, NEW k \in Slots, ServeRefresh(k)
    PROVE  TypeInv' /\ PagesInv'
<1>1. PICK t : t = call[k].t
  OBVIOUS
<1>2. /\ call[k] # NoRow /\ call[k].step = "refresh" /\ CallOK(call[k]) /\ t \in Tabs
      /\ UNCHANGED <<db, jar, tab, clicks, trouble>>
  BY <1>1, CallThere DEF ServeRefresh
<1>3. PICK n \in Token, code \in {"ok", "401"} :
        /\ call' = [call EXCEPT ![k] = [call[k] EXCEPT !.step = "refreshed", !.code = code, !.sess = n]]
        /\ live' \subseteq 1..Sessions
  <2>1. CASE call[k].cookie \in live
    <3>1. PICK n : n = NewSession
      OBVIOUS
    <3>2. n \in 1..Sessions
      BY <2>1, <3>1, NewSessionFree DEF ServeRefresh
    <3>3. /\ call' = [call EXCEPT ![k].step = "refreshed", ![k].code = "ok", ![k].sess = n]
          /\ live' = (live \ {call[k].cookie}) \cup {n}
      BY <2>1, <3>1 DEF ServeRefresh
    <3>4. call' = [call EXCEPT ![k] = [call[k] EXCEPT !.step = "refreshed", !.code = "ok", !.sess = n]]
      BY <3>3
    <3>5. n \in Token /\ live' \subseteq 1..Sessions
      BY <3>2, <3>3, ConsoleAssumption DEF Token, TypeInv
    <3>6. QED
      BY <3>4, <3>5
  <2>2. CASE call[k].cookie \notin live
    <3>1. PICK n : n = call[k].sess
      OBVIOUS
    <3>2. n \in Token
      BY <1>2, <3>1 DEF CallOK, Call
    <3>3. call' = [call EXCEPT ![k].step = "refreshed", ![k].code = "401"]
      BY <2>2 DEF ServeRefresh
    <3>4. [call[k] EXCEPT !.step = "refreshed", !.code = "401", !.sess = n]
            = [call[k] EXCEPT !.step = "refreshed", !.code = "401"]
      BY <1>2, <3>1 DEF CallOK, Call
    <3>5. call' = [call EXCEPT ![k] = [call[k] EXCEPT !.step = "refreshed", !.code = "401", !.sess = n]]
      BY <3>3, <3>4
    <3>6. live' \subseteq 1..Sessions
      BY <2>2 DEF ServeRefresh, TypeInv
    <3>7. QED
      BY <3>2, <3>5, <3>6
  <2>3. QED
    BY <2>1, <2>2
<1>4. PICK c : c = [call[k] EXCEPT !.step = "refreshed", !.code = code, !.sess = n]
  OBVIOUS
<1>5. /\ CallOK(c) /\ c.t = t /\ c.page = call[k].page /\ c.do = call[k].do /\ c.arg = call[k].arg
      /\ c.step = "refreshed"
  BY <1>1, <1>2, <1>4 DEF CallOK, Call
<1>6. ~Written(call[k]) /\ ~Written(c) /\ (c.do = "load" => Asked(call[k]) /\ Asked(c))
  BY <1>2, <1>5 DEF Written, Asked
<1>7. DOMAIN call' = Slots /\ call'[k] = c /\ \A j \in Slots \ {k} : call'[j] = call[j]
  BY <1>3, <1>4 DEF TypeInv
<1>8. live' \subseteq 1..Sessions /\ jar' \in Token /\ clicks' \in 0..MaxClicks /\ trouble' \in 0..MaxTrouble
  BY <1>2, <1>3 DEF TypeInv
<1>9. db' = db /\ SamePage(t) /\ tab'[t].seen = tab[t].seen /\ TabOK(tab'[t]) /\ Others(t)
  BY <1>2, SameTab
<1>10. QED
  BY <1>1, <1>2, <1>5, <1>6, <1>7, <1>8, <1>9, GoOnKeeps

LEMMA ServeLoginKeeps ==
    ASSUME TypeInv, PagesInv, NEW k \in Slots, ServeLogin(k)
    PROVE  TypeInv' /\ PagesInv'
<1>1. PICK t : t = call[k].t
  OBVIOUS
<1>2. /\ call[k] # NoRow /\ call[k].step = "ask" /\ call[k].do = "login"
      /\ CallOK(call[k]) /\ t \in Tabs
      /\ UNCHANGED <<db, jar, tab, clicks>>
  BY <1>1, CallThere DEF ServeLogin
<1>3. PICK n \in Token, code \in {"ok", "401"} :
        /\ call' = [call EXCEPT ![k] = [call[k] EXCEPT !.step = "back", !.code = code, !.sess = n]]
        /\ live' \subseteq 1..Sessions /\ trouble' \in 0..MaxTrouble
  <2>1. CASE /\ Unheld # {}
             /\ live' = live \cup {NewSession}
             /\ call' = [call EXCEPT ![k].step = "back", ![k].code = "ok", ![k].sess = NewSession]
             /\ UNCHANGED trouble
    <3>1. PICK n : n = NewSession
      OBVIOUS
    <3>2. n \in 1..Sessions
      BY <2>1, <3>1, NewSessionFree
    <3>3. call' = [call EXCEPT ![k].step = "back", ![k].code = "ok", ![k].sess = n]
      BY <2>1, <3>1
    <3>4. call' = [call EXCEPT ![k] = [call[k] EXCEPT !.step = "back", !.code = "ok", !.sess = n]]
      BY <3>3
    <3>5. n \in Token /\ live' \subseteq 1..Sessions /\ trouble' \in 0..MaxTrouble
      BY <2>1, <3>1, <3>2, ConsoleAssumption DEF Token, TypeInv
    <3>6. QED
      BY <3>4, <3>5
  <2>2. CASE /\ trouble < MaxTrouble
             /\ trouble' = trouble + 1
             /\ call' = [call EXCEPT ![k].step = "back", ![k].code = "401"]
             /\ UNCHANGED live
    <3>1. PICK n : n = call[k].sess
      OBVIOUS
    <3>2. n \in Token
      BY <1>2, <3>1 DEF CallOK, Call
    <3>3. [call[k] EXCEPT !.step = "back", !.code = "401", !.sess = n]
            = [call[k] EXCEPT !.step = "back", !.code = "401"]
      BY <1>2, <3>1 DEF CallOK, Call
    <3>4. call' = [call EXCEPT ![k] = [call[k] EXCEPT !.step = "back", !.code = "401", !.sess = n]]
      BY <2>2, <3>3
    <3>5. live' \subseteq 1..Sessions /\ trouble' \in 0..MaxTrouble
      BY <2>2, ConsoleAssumption DEF TypeInv
    <3>6. QED
      BY <3>2, <3>4, <3>5
  <2>3. QED
    BY <2>1, <2>2 DEF ServeLogin
<1>4. PICK c : c = [call[k] EXCEPT !.step = "back", !.code = code, !.sess = n]
  OBVIOUS
<1>5. /\ CallOK(c) /\ c.t = t /\ c.page = call[k].page /\ c.do = call[k].do /\ c.arg = call[k].arg
  BY <1>1, <1>2, <1>4 DEF CallOK, Call
<1>6. ~Written(call[k]) /\ ~Written(c) /\ c.do # "load"
  BY <1>2, <1>5 DEF Written, Session
<1>7. DOMAIN call' = Slots /\ call'[k] = c /\ \A j \in Slots \ {k} : call'[j] = call[j]
  BY <1>3, <1>4 DEF TypeInv
<1>8. live' \subseteq 1..Sessions /\ jar' \in Token /\ clicks' \in 0..MaxClicks /\ trouble' \in 0..MaxTrouble
  BY <1>2, <1>3 DEF TypeInv
<1>9. db' = db /\ SamePage(t) /\ tab'[t].seen = tab[t].seen /\ TabOK(tab'[t]) /\ Others(t)
  BY <1>2, SameTab
<1>10. QED
  BY <1>1, <1>2, <1>5, <1>6, <1>7, <1>8, <1>9, GoOnKeeps

LEMMA ServeLogoutKeeps ==
    ASSUME TypeInv, PagesInv, NEW k \in Slots, ServeLogout(k)
    PROVE  TypeInv' /\ PagesInv'
<1>1. PICK t : t = call[k].t
  OBVIOUS
<1>2. /\ call[k] # NoRow /\ call[k].step = "ask" /\ call[k].do = "logout"
      /\ CallOK(call[k]) /\ t \in Tabs
      /\ UNCHANGED <<db, jar, tab, clicks, trouble>>
      /\ call' = [call EXCEPT ![k].step = "back", ![k].code = "ok"]
      /\ live' \subseteq 1..Sessions
  BY <1>1, CallThere DEF ServeLogout, TypeInv
<1>3. PICK c : c = [call[k] EXCEPT !.step = "back", !.code = "ok"]
  OBVIOUS
<1>4. /\ CallOK(c) /\ c.t = t /\ c.page = call[k].page /\ c.do = call[k].do /\ c.arg = call[k].arg
  BY <1>1, <1>2, <1>3 DEF CallOK, Call
<1>5. ~Written(call[k]) /\ ~Written(c) /\ c.do # "load"
  BY <1>2, <1>4 DEF Written, Session
<1>6. DOMAIN call' = Slots /\ call'[k] = c /\ \A j \in Slots \ {k} : call'[j] = call[j]
  BY <1>2, <1>3 DEF TypeInv
<1>7. live' \subseteq 1..Sessions /\ jar' \in Token /\ clicks' \in 0..MaxClicks /\ trouble' \in 0..MaxTrouble
  BY <1>2 DEF TypeInv
<1>8. db' = db /\ SamePage(t) /\ tab'[t].seen = tab[t].seen /\ TabOK(tab'[t]) /\ Others(t)
  BY <1>2, SameTab
<1>9. QED
  BY <1>1, <1>2, <1>4, <1>5, <1>6, <1>7, <1>8, GoOnKeeps

\* A call whose answer is on its way, with nothing in it that the page waits for.
LEMMA Refused401 ==
    ASSUME TypeInv, PagesInv, NEW k \in Slots, call[k] # NoRow, call[k].step = "ask",
           NEW code \in {"ok", "401", "refused"},
           call' = [call EXCEPT ![k].step = "back", ![k].code = code],
           code = "ok" => call[k].do \in Session, call[k].do = "load" => code = "401",
           UNCHANGED <<db, live, jar, tab, clicks, trouble>>
    PROVE  TypeInv' /\ PagesInv'
<1>1. PICK t : t = call[k].t
  OBVIOUS
<1>2. CallOK(call[k]) /\ t \in Tabs
  BY <1>1, CallThere
<1>3. PICK c : c = [call[k] EXCEPT !.step = "back", !.code = code]
  OBVIOUS
<1>4. /\ CallOK(c) /\ c.t = t /\ c.page = call[k].page /\ c.do = call[k].do /\ c.arg = call[k].arg
      /\ c.code = code
  BY <1>1, <1>2, <1>3 DEF CallOK, Call
<1>5. ~Written(call[k]) /\ ~Written(c) /\ (c.do = "load" => Asked(call[k]) /\ Asked(c))
  BY <1>2, <1>4 DEF Written, Asked
<1>6. DOMAIN call' = Slots /\ call'[k] = c /\ \A j \in Slots \ {k} : call'[j] = call[j]
  BY <1>3 DEF TypeInv
<1>7. live' \subseteq 1..Sessions /\ jar' \in Token /\ clicks' \in 0..MaxClicks /\ trouble' \in 0..MaxTrouble
  BY DEF TypeInv
<1>8. db' = db /\ SamePage(t) /\ tab'[t].seen = tab[t].seen /\ TabOK(tab'[t]) /\ Others(t)
  BY <1>2, SameTab
<1>9. QED
  BY <1>1, <1>2, <1>4, <1>5, <1>6, <1>7, <1>8, GoOnKeeps

\* A query's answer brings the rows of the moment, to a page that is behind no longer.
LEMMA ServeLoadKeeps ==
    ASSUME TypeInv, PagesInv, NEW k \in Slots, ServeLoad(k)
    PROVE  TypeInv' /\ PagesInv'
<1>1. PICK t, found : /\ t = call[k].t
                      /\ found = ~(db.gone /\ call[k].page \in Developers \cup {"listing"})
  OBVIOUS
<1>2. /\ call[k] # NoRow /\ call[k].step = "ask" /\ call[k].do \in {"load", "me"}
      /\ CallOK(call[k]) /\ t \in Tabs /\ call[k].page \in Pages /\ k \in Mine(t)
      /\ UNCHANGED <<db, live, jar, clicks, trouble>>
  BY <1>1, CallThere DEF ServeLoad
<1>3. CASE call[k].token \notin live
  <2>1. call' = [call EXCEPT ![k].step = "back", ![k].code = "401"] /\ UNCHANGED tab
    BY <1>3 DEF ServeLoad
  <2>2. QED
    BY <1>2, <2>1, Refused401
<1>4. CASE call[k].token \in live
  <2>1. PICK code, view, badge :
          /\ code = IF found \/ call[k].do = "me" THEN "ok" ELSE "refused"
          /\ view = IF call[k].do = "me" THEN NoRow ELSE View(db, call[k].page)
          /\ badge = IF call[k].do = "load" /\ call[k].page \in Developers THEN db.stage ELSE NoRow
    OBVIOUS
  <2>2. /\ call' = [call EXCEPT ![k].step = "back", ![k].code = code, ![k].view = view,
                     ![k].badge = badge]
        /\ tab' = [tab EXCEPT ![t].behind = @ /\ ~(found /\ call[k].do = "load")]
    BY <1>1, <1>4, <2>1 DEF ServeLoad
  <2>3. PICK c : c = [call[k] EXCEPT !.step = "back", !.code = code, !.view = view, !.badge = badge]
    OBVIOUS
  <2>18. badge \in Stages \cup {NoRow}
    BY <2>1 DEF TypeInv, Server
  <2>4. call[k].do = "load" => view \in PageView(call[k].page)
    BY <1>2, <2>1, ViewTyped DEF TypeInv
  <2>19. /\ call[k] \in Call(call[k].page, call[k].do)
         /\ code \in {"ok", "refused"} /\ view \in PageView(call[k].page) \cup {NoRow}
    BY <1>2, <2>1, <2>4 DEF CallOK
  <2>20. /\ c \in Call(call[k].page, call[k].do) /\ c.t = t /\ c.page = call[k].page
         /\ c.do = call[k].do /\ c.arg = call[k].arg
         /\ c.step = "back" /\ c.code = code /\ c.view = view
    BY <1>1, <2>3, <2>18, <2>19 DEF Call
  <2>5. /\ CallOK(c) /\ c.t = t /\ c.page = call[k].page /\ c.do = call[k].do /\ c.arg = call[k].arg
        /\ c.step = "back" /\ c.code = code /\ c.view = view
    BY <1>2, <2>1, <2>4, <2>19, <2>20 DEF CallOK
  <2>6. DOMAIN call' = Slots /\ call'[k] = c /\ \A j \in Slots \ {k} : call'[j] = call[j]
    BY <2>2, <2>3 DEF TypeInv
  <2>7. /\ c # NoRow /\ Puts(k, c) /\ Owns(t, k, c) /\ Moved(t, k, c)
    BY <1>1, <1>2, <2>5, <2>6, NotNoRow, StaysPuts, PutsMoved DEF Owns
  <2>8. PICK behind \in BOOLEAN : behind = (tab[t].behind /\ ~(found /\ call[k].do = "load"))
    OBVIOUS
  <2>9. /\ DOMAIN tab' = Tabs /\ tab'[t] = [tab[t] EXCEPT !.behind = behind]
        /\ \A u \in Tabs \ {t} : tab'[u] = tab[u]
    BY <1>2, <2>2, <2>8 DEF TypeInv
  <2>10. /\ TabOK(tab'[t]) /\ tab'[t].page = tab[t].page /\ tab'[t].user = tab[t].user
         /\ tab'[t].view = tab[t].view /\ tab'[t].seen = tab[t].seen /\ tab'[t].behind = behind
    BY <1>2, <2>9, TabThere DEF TabOK, TabRow
  <2>11. Belongs(t)' /\ OneLoad(t)'
    BY <1>2, <2>5, <2>7, <2>10, TabThere, BelongsKept, OneLoadKept DEF Belongs
  <2>12. Entering(t)'
    BY <1>2, <2>5, <2>7, <2>10, EnteringGoesOn
  <2>13. Shown(t)'
    BY <1>2, <2>5, <2>7, <2>10, TabThere, ShownKept
  <2>14. Current(t)' /\ GoneKnown(t)'
    <3>1. CASE \/ ~tab'[t].user \/ tab'[t].behind \/ tab'[t].page \in {"left", "library"}
      BY <3>1, Excused
    <3>2. CASE tab'[t].user /\ ~tab'[t].behind /\ tab'[t].page \notin {"left", "library"}
      <4>1. call[k].do = "load" /\ call[k].page = tab[t].page
        BY <1>2, <2>10, <3>2, TabThere DEF Entering, Enters, Belongs
      <4>2. \A j \in Mine(t)' : call'[j].do = "load" => j = k
        BY <1>2, <2>5, <2>7, <2>10, <3>2, <4>1, TabThere DEF Moved, Queries, Belongs
      <4>3. k \in Mine(t)' /\ call'[k] = c
        BY <2>7 DEF Moved
      <4>4. CASE found
        <5>1. Brings(c) /\ c.view = View(db, tab[t].page)
          BY <2>1, <2>5, <4>1, <4>4 DEF Brings
        <5>2. Current(t)'
          BY <1>2, <2>10, <4>2, <4>3, <5>1 DEF Current, Brings
        <5>3. GoneKnown(t)'
          BY <1>1, <1>2, <2>10, <4>1, <4>4 DEF GoneKnown
        <5>4. QED
          BY <5>2, <5>3
      <4>5. CASE ~found
        <5>1. ~Asked(c) /\ ~Brings(c) /\ ~Written(c) /\ ~Written(call[k])
          BY <1>2, <2>1, <2>5, <4>1, <4>5 DEF Asked, Brings, Written
        <5>2. /\ db.gone /\ tab[t].user /\ ~tab[t].behind
              /\ tab[t].page \in Developers \cup {"listing"}
          BY <1>1, <2>8, <2>10, <3>2, <4>1, <4>5
        <5>3. GoneKnown(t)'
          <6>1. SamePage(t)
            <7>1. tab[t].behind \in BOOLEAN
              BY <1>2, TabThere DEF TabOK, TabRow
            <7>2. behind = FALSE /\ tab[t].behind = FALSE
              BY <2>10, <3>2, <5>2, <7>1
            <7>3. QED
              BY <2>10, <7>2 DEF SamePage
          <6>2. db'.gone = db.gone
            BY <1>2
          <6>3. QED
            BY <1>2, <2>7, <5>1, <6>1, <6>2, TabThere, GoneKept DEF Deleted
        <5>4. Current(t)'
          <6>1. SUFFICES ASSUME ~Told(t)'
                         PROVE  /\ tab[t].view = NoRow
                                /\ \A j \in Mine(t)' : ~Brings(call'[j])
            BY <2>10 DEF Current
          <6>2. \A j \in Mine(t)' : ~Deleted(call'[j])
            BY <6>1 DEF Told, Deleted
          <6>3. QED
            BY <1>2, <2>10, <3>2, <5>2, <5>3, <6>2 DEF GoneKnown
        <5>5. QED
          BY <5>3, <5>4
      <4>6. QED
        BY <1>1, <4>4, <4>5
    <3>3. QED
      BY <3>1, <3>2
  <2>15. TabInv(t)'
    BY <2>11, <2>12, <2>13, <2>14 DEF TabInv
  <2>16. Others(t)
    BY <1>2, <2>9, OthersStay
  <2>17. QED
    BY <1>2, <2>7, <2>10, <2>15, <2>16, StepKeeps DEF TypeInv
<1>5. QED
  BY <1>3, <1>4

\* A change that is made leaves behind the other tabs that show it; its own will be told.
LEMMA ServeKeeps ==
    ASSUME TypeInv, PagesInv, NEW k \in Slots, Serve(k)
    PROVE  TypeInv' /\ PagesInv'
<1>1. PICK t : t = call[k].t
  OBVIOUS
<1>2. /\ call[k] # NoRow /\ call[k].step = "ask" /\ call[k].do \notin Session
      /\ CallOK(call[k]) /\ t \in Tabs /\ call[k].page \in Pages /\ k \in Mine(t)
      /\ UNCHANGED <<live, jar, clicks, trouble>>
  BY <1>1, CallThere DEF Serve
<1>3. CASE call[k].token \notin live
  <2>1. call' = [call EXCEPT ![k].step = "back", ![k].code = "401"] /\ UNCHANGED <<db, tab>>
    BY <1>3 DEF Serve
  <2>2. QED
    BY <1>2, <2>1, Refused401 DEF Session
<1>4. CASE call[k].token \in live
  <2>1. PICK made : made = Effect(db, call[k].page, call[k].do, call[k].arg)
    OBVIOUS
  <2>2. /\ db' = made.st /\ tab' = Behind(t, db')
        /\ call' = [call EXCEPT ![k].step = "back", ![k].code = made.code]
    BY <1>1, <1>4, <2>1 DEF Serve
  <2>3. Asks(call[k].page, call[k].do, call[k].arg)
    BY <1>2 DEF CallOK
  <2>4. Answers(db, made, call[k].page = "overview" /\ call[k].do = "delete")
    BY <2>1, <2>3, EffectTyped DEF TypeInv
  <2>5. /\ db' \in Server /\ made.code \in {"ok", "refused"}
        /\ made.code # "ok" => db' = db
        /\ db'.gone # db.gone => call[k].do = "delete"
    BY <2>2, <2>4 DEF Answers
  <2>6. PICK c : c = [call[k] EXCEPT !.step = "back", !.code = made.code]
    OBVIOUS
  <2>7. /\ CallOK(c) /\ c.t = t /\ c.page = call[k].page /\ c.do = call[k].do /\ c.arg = call[k].arg
        /\ c.step = "back" /\ c.code = made.code
    BY <1>1, <1>2, <2>5, <2>6 DEF CallOK, Call, Session
  <2>8. DOMAIN call' = Slots /\ call'[k] = c /\ \A j \in Slots \ {k} : call'[j] = call[j]
    BY <2>2, <2>6 DEF TypeInv
  <2>9. /\ c # NoRow /\ Puts(k, c) /\ Owns(t, k, c) /\ Moved(t, k, c)
    BY <1>1, <1>2, <2>7, <2>8, NotNoRow, StaysPuts, PutsMoved DEF Owns
  <2>10. DOMAIN tab' = Tabs
    BY <2>2 DEF Behind
  <2>11. ASSUME NEW u \in Tabs
         PROVE  \/ tab'[u] = tab[u] /\ (u = t \/ SameView(u))
                \/ u # t /\ tab'[u] = [tab[u] EXCEPT !.behind = TRUE]
    <3>1. PICK changed \in BOOLEAN :
            changed = (u # t /\ (db'.gone # db.gone \/ View(db', tab[u].page) # View(db, tab[u].page)))
      OBVIOUS
    <3>2. tab'[u] = [tab[u] EXCEPT !.behind = tab[u].behind \/ changed]
      BY <2>2, <3>1 DEF Behind
    <3>3. CASE changed
      <4>1. (tab[u].behind \/ changed) = TRUE
        BY <3>3
      <4>2. QED
        BY <3>1, <3>2, <3>3, <4>1
    <3>4. CASE ~changed
      <4>1. tab'[u] = tab[u]
        BY <3>2, <3>4, TabThere DEF TabOK, TabRow
      <4>2. u = t \/ SameView(u)
        BY <3>1, <3>4 DEF SameView
      <4>3. QED
        BY <4>1, <4>2
    <3>5. QED
      BY <3>3, <3>4
  <2>12. tab'[t] = tab[t] /\ Others(t)
    BY <1>2, <2>10, <2>11 DEF Others
  <2>13. SamePage(t) /\ TabOK(tab'[t])
    BY <1>2, <2>12, TabThere DEF SamePage
  <2>14. Belongs(t)' /\ OneLoad(t)'
    BY <1>2, <2>7, <2>9, <2>12, TabThere, BelongsKept, OneLoadKept DEF Belongs
  <2>15. Entering(t)'
    BY <1>2, <2>7, <2>9, <2>12, EnteringGoesOn
  <2>16. Shown(t)'
    BY <1>2, <2>7, <2>9, <2>12, TabThere, ShownKept
  <2>17. ~Written(call[k]) /\ ~Asked(call[k]) /\ ~Brings(call[k]) /\ c.do # "load" /\ ~Brings(c)
    BY <1>2, <2>7 DEF Written, Asked, Brings, Session
  <2>18. Current(t)' /\ GoneKnown(t)'
    <3>1. CASE made.code = "ok"
      <4>1. Written(c)
        BY <1>2, <2>7, <3>1 DEF Written
      <4>2. Current(t)'
        BY <2>9, <4>1, CurrentTold
      <4>3. CASE db'.gone = db.gone
        BY <1>2, <2>9, <2>13, <2>17, <4>2, <4>3, TabThere, GoneKept DEF Deleted
      <4>4. CASE db'.gone # db.gone
        <5>1. Deleted(c)
          BY <2>5, <2>7, <4>1, <4>4 DEF Deleted
        <5>2. GoneKnown(t)'
          BY <2>9, <5>1 DEF GoneKnown, Moved
        <5>3. QED
          BY <4>2, <5>2
      <4>5. QED
        BY <4>3, <4>4
    <3>2. CASE made.code # "ok"
      <4>1. db' = db /\ ~Written(c)
        BY <2>5, <2>7, <3>2 DEF Written
      <4>2. Current(t)'
        BY <1>2, <2>9, <2>13, <2>17, <4>1, TabThere, CurrentKept
      <4>3. GoneKnown(t)'
        BY <1>2, <2>9, <2>13, <2>17, <4>1, TabThere, GoneKept DEF Deleted
      <4>4. QED
        BY <4>2, <4>3
    <3>3. QED
      BY <3>1, <3>2
  <2>19. TabInv(t)'
    BY <2>14, <2>15, <2>16, <2>18 DEF TabInv
  <2>20. QED
    BY <1>2, <2>5, <2>9, <2>12, <2>13, <2>19, StepKeeps DEF TypeInv
<1>5. QED
  BY <1>3, <1>4

-----------------------------------------------------------------------------
(* Answers that are heard, or lost. *)

\* What the library's calls are.
LEMMA LibraryCalls ==
    ASSUME NEW c, CallOK(c)
    PROVE  /\ c.do = "take" => c.page = "library" /\ c.arg \in [item : Items, index : Nat \ {0}]
           /\ c.do = "installAll" => c.page = "library"
           /\ c.do \notin Session => Asks(c.page, c.do, c.arg)
  BY DEF CallOK, Asks, Session, Verdicts, ReleaseMutations, ReportMutations, TriageVerdicts,
         ListingVerdicts

\* A call of the tab, and what takes its place.
LEMMA OwnCall ==
    ASSUME TypeInv, NEW t \in Tabs, NEW k \in Slots, call[k] # NoRow, call[k].t = t,
           NEW c, c = NoRow \/ (CallOK(c) /\ c.t = t), call' = Put(k, c)
    PROVE  k \in Mine(t) /\ Owns(t, k, c) /\ Puts(k, c) /\ Moved(t, k, c)
<1>1. k \in Mine(t) /\ Owns(t, k, c)
  BY DEF Mine, Owns
<1>2. Puts(k, c)
  BY PutPuts DEF TypeInv
<1>3. QED
  BY <1>1, <1>2, PutsMoved

\* The page goes blank.
LEMMA BlankStep ==
    ASSUME TypeInv, PagesInv, NEW t \in Tabs, NEW k \in Mine(t), NEW c, Moved(t, k, c),
           tab'[t].view = NoRow,
           \/ ~tab'[t].user /\ tab'[t].page = tab[t].page /\ c = NoRow
           \/ tab'[t].page \in {"left", "library"},
           c # NoRow => ~Enters(c)
    PROVE  TabInv(t)'
<1>1. Belongs(t)' /\ OneLoad(t)'
  BY TabThere, BelongsKept, OneLoadKept
<1>2. Entering(t)'
  BY TabThere, InsideKept
<1>3. Current(t)' /\ GoneKnown(t)'
  BY Excused
<1>4. Shown(t)'
  BY DEF Shown
<1>5. QED
  BY <1>1, <1>2, <1>3, <1>4 DEF TabInv

\* Nobody is signed in, and the page goes blank.
LEMMA AuthLostKeeps ==
    ASSUME TypeInv, PagesInv, NEW k \in Slots, call[k] # NoRow, End(k), onAuthLost(call[k].t),
           db' = db, live' = live, jar' \in Token, clicks' = clicks, trouble' \in 0..MaxTrouble
    PROVE  TypeInv' /\ PagesInv'
<1>1. PICK t \in Tabs : t = call[k].t
  BY CallThere
<1>2. PICK c : c = NoRow
  OBVIOUS
<1>3. k \in Mine(t) /\ Owns(t, k, c) /\ Puts(k, c) /\ Moved(t, k, c)
  BY <1>1, <1>2, OwnCall DEF End
<1>4. /\ DOMAIN tab' = Tabs /\ \A u \in Tabs \ {t} : tab'[u] = tab[u]
      /\ tab'[t] = [tab[t] EXCEPT !.user = FALSE, !.view = NoRow, !.behind = TRUE]
  BY <1>1 DEF onAuthLost, TypeInv
<1>5. TabOK(tab'[t]) /\ tab'[t].view = NoRow /\ ~tab'[t].user /\ tab'[t].page = tab[t].page
  BY <1>4, TabThere DEF TabOK, TabRow
<1>6. TabInv(t)'
  BY <1>2, <1>3, <1>5, BlankStep
<1>7. Others(t)
  BY <1>4, OthersStay
<1>8. QED
  BY <1>3, <1>5, <1>6, <1>7, StepKeeps DEF TypeInv

\* A call that failed leaves its page behind, unless it would have told it nothing.
LEMMA FailedKeeps ==
    ASSUME TypeInv, PagesInv, NEW k \in Slots, call[k] # NoRow, NEW lost \in BOOLEAN, Failed(k, lost),
           lost \/ (~Written(call[k]) /\ ~Asked(call[k]) /\ ~Brings(call[k])),
           db' = db, live' = live, jar' \in Token, clicks' = clicks, trouble' \in 0..MaxTrouble
    PROVE  TypeInv' /\ PagesInv'
<1>1. PICK t \in Tabs : t = call[k].t
  BY CallThere
<1>2. /\ CallOK(call[k]) /\ k \in Mine(t) /\ TabOK(tab[t]) /\ Belongs(t) /\ Shown(t) /\ OneLoad(t)
      /\ Entering(t) /\ tab[t].behind \in BOOLEAN
  BY <1>1, CallThere, TabThere DEF TabOK, TabRow
<1>3. PICK behind \in BOOLEAN : behind = (tab[t].behind \/ lost)
  OBVIOUS
<1>4. PICK told : told = [tab EXCEPT ![t].behind = behind]
  OBVIOUS
<1>5. /\ DOMAIN told = Tabs /\ \A u \in Tabs \ {t} : told[u] = tab[u]
      /\ told[t] = [tab[t] EXCEPT !.behind = behind]
  BY <1>4 DEF TypeInv
<1>6. /\ TabOK(told[t]) /\ told[t].page = tab[t].page /\ told[t].user = tab[t].user
      /\ told[t].view = tab[t].view /\ told[t].seen = tab[t].seen /\ told[t].behind = behind
  BY <1>2, <1>5 DEF TabOK, TabRow
<1>7. CASE call[k].do = "take"
  <2>1. PICK arg, view : arg = call[k].arg /\ view = PutBack(tab[t].view, arg)
    OBVIOUS
  <2>2. End(k) /\ tab' = [told EXCEPT ![t].view = view]
    BY <1>1, <1>3, <1>4, <1>6, <1>7, <2>1 DEF Failed
  <2>3. PICK c : c = NoRow
    OBVIOUS
  <2>4. Owns(t, k, c) /\ Puts(k, c) /\ Moved(t, k, c)
    BY <1>1, <2>2, <2>3, OwnCall DEF End
  <2>5. call[k].page = "library" /\ arg \in [item : Items, index : Nat \ {0}]
    BY <1>2, <1>7, <2>1, LibraryCalls
  <2>6. tab[t].page \in {"left", "library"}
    BY <1>2, <2>5 DEF Belongs
  <2>7. tab[t].view \in Seq(Items) \cup {NoRow} /\ (tab[t].page = "left" => tab[t].view = NoRow)
    BY <1>2, <2>6 DEF TabOK, TabRow, PageView
  <2>8. /\ view \in Seq(Items) \cup {NoRow} /\ (tab[t].view = NoRow => view = NoRow)
        /\ view # NoRow /\ tab[t].view # NoRow => ToSet(tab[t].view) \cup {arg.item} \subseteq ToSet(view)
    BY <2>1, <2>5, <2>7, PutBackTyped DEF PutBack
  <2>9. /\ DOMAIN tab' = Tabs /\ \A u \in Tabs \ {t} : tab'[u] = tab[u]
        /\ tab'[t] = [told[t] EXCEPT !.view = view]
    BY <1>5, <2>2
  <2>10. /\ TabOK(tab'[t]) /\ tab'[t].page = tab[t].page /\ tab'[t].view = view
         /\ tab'[t].seen = tab[t].seen
    BY <1>6, <2>6, <2>7, <2>8, <2>9 DEF TabOK, TabRow, PageView
  <2>11. Belongs(t)' /\ OneLoad(t)'
    BY <1>2, <2>3, <2>4, <2>10, BelongsKept, OneLoadKept
  <2>12. Entering(t)'
    BY <1>2, <2>3, <2>4, InsideKept
  <2>13. Current(t)' /\ GoneKnown(t)'
    BY <2>6, <2>10, Excused
  <2>14. Shown(t)'
    <3>1. SUFFICES ASSUME tab[t].page = "library", view # NoRow, NEW e \in tab[t].seen
                   PROVE  e \in ToSet(view) \/ \E j \in Mine(t)' : Takes(call'[j], e)
      BY <2>10 DEF Shown
    <3>2. ToSet(tab[t].view) \cup {arg.item} \subseteq ToSet(view)
      BY <2>8, <3>1
    <3>3. CASE e \in ToSet(tab[t].view) \cup {arg.item}
      BY <3>2, <3>3
    <3>4. CASE e \notin ToSet(tab[t].view) \cup {arg.item}
      <4>1. PICK j \in Mine(t) : Takes(call[j], e)
        BY <1>2, <2>8, <3>1, <3>4 DEF Shown
      <4>2. j # k
        BY <2>1, <3>4, <4>1 DEF Takes
      <4>3. QED
        BY <2>3, <2>4, <4>1, <4>2 DEF Moved, Takes
    <3>5. QED
      BY <3>3, <3>4
  <2>15. TabInv(t)'
    BY <2>11, <2>12, <2>13, <2>14 DEF TabInv
  <2>16. Others(t)
    BY <2>9, OthersStay
  <2>17. QED
    BY <2>4, <2>10, <2>15, <2>16, StepKeeps DEF TypeInv
<1>8. CASE call[k].do = "installAll"
  <2>1. PICK c : c = Query(t, "library", tab[t].token)
    OBVIOUS
  <2>2. call' = Put(k, c) /\ tab' = told
    BY <1>1, <1>3, <1>4, <1>8, <2>1 DEF Failed, ReloadLibrary
  <2>3. CallOK(c) /\ c.t = t /\ c.do = "load" /\ c # NoRow
    <3>1. "library" \in Pages /\ tab[t].token \in Token
      BY TabThere DEF Pages
    <3>2. QED
      BY <2>1, <3>1, QueryOK, NotNoRow
  <2>4. Owns(t, k, c) /\ Puts(k, c) /\ Moved(t, k, c)
    BY <1>1, <2>2, <2>3, OwnCall
  <2>5. tab[t].page \in {"left", "library"}
    BY <1>2, <1>8, LibraryCalls DEF Belongs
  <2>6. Belongs(t)' /\ OneLoad(t)'
    BY <1>2, <1>6, <2>2, <2>4, <2>5, BelongsKept, OneLoadKept
  <2>7. Entering(t)'
    BY <1>2, <2>3, <2>4, InsideKept DEF Enters
  <2>8. Current(t)' /\ GoneKnown(t)'
    BY <1>6, <2>2, <2>5, Excused
  <2>9. Shown(t)'
    BY <1>2, <1>6, <1>8, <2>2, <2>4, ShownKept
  <2>10. TabInv(t)'
    BY <2>6, <2>7, <2>8, <2>9 DEF TabInv
  <2>11. Others(t)
    BY <1>5, <2>2, OthersStay
  <2>12. QED
    BY <1>6, <2>2, <2>4, <2>10, <2>11, StepKeeps DEF TypeInv
<1>9. CASE call[k].do \in {"me", "restore"}
  <2>1. End(k) /\ onAuthLost(call[k].t)
    BY <1>9 DEF Failed
  <2>2. QED
    BY <2>1, AuthLostKeeps
<1>10. CASE call[k].do = "logout"
  <2>1. End(k) /\ tab' = [tab EXCEPT ![t].user = FALSE, ![t].token = 0, ![t].view = NoRow]
    BY <1>1, <1>10 DEF Failed
  <2>2. PICK c : c = NoRow
    OBVIOUS
  <2>3. Owns(t, k, c) /\ Puts(k, c) /\ Moved(t, k, c)
    BY <1>1, <2>1, <2>2, OwnCall DEF End
  <2>4. /\ DOMAIN tab' = Tabs /\ \A u \in Tabs \ {t} : tab'[u] = tab[u]
        /\ tab'[t] = [tab[t] EXCEPT !.user = FALSE, !.token = 0, !.view = NoRow]
    BY <2>1 DEF TypeInv
  <2>5. 0 \in Token
    BY ConsoleAssumption DEF Token
  <2>6. TabOK(tab'[t]) /\ tab'[t].view = NoRow /\ ~tab'[t].user /\ tab'[t].page = tab[t].page
    BY <1>2, <2>4, <2>5 DEF TabOK, TabRow
  <2>7. TabInv(t)'
    BY <1>2, <2>2, <2>3, <2>6, BlankStep
  <2>8. Others(t)
    BY <2>4, OthersStay
  <2>9. QED
    BY <2>3, <2>6, <2>7, <2>8, StepKeeps DEF TypeInv
<1>11. CASE call[k].do \notin {"take", "installAll", "me", "restore", "logout"}
  <2>1. End(k) /\ tab' = told
    BY <1>1, <1>3, <1>4, <1>11 DEF Failed
  <2>2. PICK c : c = NoRow
    OBVIOUS
  <2>3. Owns(t, k, c) /\ Puts(k, c) /\ Moved(t, k, c)
    BY <1>1, <2>1, <2>2, OwnCall DEF End
  <2>4. Entering(t)'
    BY <1>2, <2>2, <2>3, InsideKept
  <2>5. TabInv(t)'
    <3>1. CASE lost
      <4>1. Belongs(t)' /\ OneLoad(t)'
        BY <1>2, <1>6, <2>1, <2>2, <2>3, BelongsKept, OneLoadKept
      <4>2. Current(t)' /\ GoneKnown(t)'
        BY <1>3, <1>6, <2>1, <3>1, Excused
      <4>3. Shown(t)'
        BY <1>2, <1>6, <1>11, <2>1, <2>3, ShownKept
      <4>4. QED
        BY <2>4, <4>1, <4>2, <4>3 DEF TabInv
    <3>2. CASE ~lost
      <4>1. SamePage(t) /\ tab'[t].seen = tab[t].seen
        <5>1. behind = tab[t].behind
          BY <1>2, <1>3, <3>2
        <5>2. QED
          BY <1>6, <2>1, <5>1 DEF SamePage
      <4>2. QED
        BY <1>11, <2>2, <2>3, <2>4, <3>2, <4>1, QuietStep
    <3>3. QED
      BY <3>1, <3>2
  <2>6. Others(t)
    BY <1>5, <2>1, OthersStay
  <2>7. QED
    BY <1>6, <2>1, <2>3, <2>5, <2>6, StepKeeps DEF TypeInv
<1>12. QED
  BY <1>7, <1>8, <1>9, <1>10, <1>11

\* A request or an answer that is lost.
LEMMA LoseKeeps ==
    ASSUME TypeInv, PagesInv, NEW k \in Slots, Lose(k)
    PROVE  TypeInv' /\ PagesInv'
<1>1. /\ call[k] # NoRow /\ db' = db /\ live' = live /\ jar' \in Token /\ clicks' = clicks
      /\ trouble' \in 0..MaxTrouble
  BY ConsoleAssumption DEF Lose, TypeInv
<1>2. (End(k) /\ onAuthLost(call[k].t)) \/ Failed(k, TRUE)
  BY DEF Lose
<1>3. QED
  BY <1>1, <1>2, AuthLostKeeps, FailedKeeps

\* The answer to a refresh.
LEMMA HearRefreshKeeps ==
    ASSUME TypeInv, PagesInv, NEW k \in Slots, HearRefresh(k)
    PROVE  TypeInv' /\ PagesInv'
<1>1. PICK t \in Tabs : t = call[k].t
  BY CallThere DEF HearRefresh
<1>2. /\ call[k] # NoRow /\ call[k].step = "refreshed" /\ db' = db /\ live' = live
      /\ clicks' = clicks /\ trouble' = trouble /\ trouble' \in 0..MaxTrouble
  BY DEF HearRefresh, TypeInv
<1>3. CallOK(call[k]) /\ k \in Mine(t) /\ TabOK(tab[t])
  BY <1>1, <1>2, CallThere, TabThere
<1>4. CASE call[k].code # "ok"
  <2>1. jar' \in Token /\ (Failed(k, TRUE) \/ (End(k) /\ onAuthLost(call[k].t)))
    BY <1>4 DEF HearRefresh, TypeInv
  <2>2. QED
    BY <1>2, <2>1, AuthLostKeeps, FailedKeeps
<1>5. CASE call[k].code = "ok"
  <2>1. PICK do, again, sess :
          /\ do = IF call[k].do = "restore" THEN "me" ELSE call[k].do
          /\ again = (call[k].do # "restore") /\ sess = call[k].sess
    OBVIOUS
  <2>2. sess \in Token /\ again \in BOOLEAN
    BY <1>3, <2>1 DEF CallOK, Call
  <2>3. PICK c : c = [call[k] EXCEPT !.step = "ask", !.again = again, !.do = do, !.code = "none",
                                     !.token = sess, !.cookie = sess, !.sess = 0]
    OBVIOUS
  <2>4. /\ jar' = sess /\ tab' = [tab EXCEPT ![t].token = sess]
        /\ call' = [call EXCEPT ![k].step = "ask", ![k].again = again, ![k].do = do,
                      ![k].code = "none", ![k].token = sess, ![k].cookie = sess, ![k].sess = 0]
    BY <1>1, <1>5, <2>1 DEF HearRefresh
  <2>5. DOMAIN call' = Slots /\ call'[k] = c /\ \A j \in Slots \ {k} : call'[j] = call[j]
    BY <2>3, <2>4 DEF TypeInv
  <2>6. /\ c.t = t /\ c.page = call[k].page /\ c.do = do /\ c.arg = call[k].arg /\ c.step = "ask"
        /\ c.code = "none"
    BY <1>1, <1>3, <2>3 DEF CallOK, Call
  <2>7. CallOK(c)
    <3>1. 0 \in Token
      BY ConsoleAssumption DEF Token
    <3>2. CASE call[k].do = "restore"
      <4>1. call[k].arg = NoRow /\ do = "me" /\ NoRow \in Carried("me")
        BY <1>3, <2>1, <3>2 DEF CallOK, Session, Carried, LinkMutations, Verdicts
      <4>2. c \in Call(c.page, c.do)
        BY <1>3, <2>2, <2>3, <2>6, <3>1, <4>1 DEF CallOK, Call
      <4>3. QED
        BY <1>3, <2>6, <4>1, <4>2 DEF CallOK, Session
    <3>3. CASE call[k].do # "restore"
      BY <1>3, <2>1, <2>2, <2>3, <2>6, <3>1, <3>3 DEF CallOK, Call
    <3>4. QED
      BY <3>2, <3>3
  <2>8. /\ DOMAIN tab' = Tabs /\ tab'[t] = [tab[t] EXCEPT !.token = sess]
        /\ \A u \in Tabs \ {t} : tab'[u] = tab[u]
    BY <2>4 DEF TypeInv
  <2>9. SamePage(t) /\ tab'[t].seen = tab[t].seen /\ TabOK(tab'[t])
    BY <1>3, <2>2, <2>8 DEF SamePage, TabOK, TabRow
  <2>10. Others(t)
    BY <1>2, <2>8, OthersStay
  <2>11. ~Written(call[k]) /\ ~Written(c) /\ (c.do = "load" => Asked(call[k]) /\ Asked(c))
    BY <1>2, <2>1, <2>6 DEF Written, Asked
  <2>12. CASE call[k].do # "restore"
    <3>1. c.do = call[k].do
      BY <2>1, <2>6, <2>12
    <3>2. live' \subseteq 1..Sessions /\ jar' \in Token /\ clicks' \in 0..MaxClicks
      BY <1>2, <2>2, <2>4 DEF TypeInv
    <3>3. QED
      BY <1>1, <1>2, <2>5, <2>6, <2>7, <2>9, <2>10, <2>11, <3>1, <3>2, GoOnKeeps
  <2>13. CASE call[k].do = "restore"
    <3>1. c # NoRow /\ Puts(k, c) /\ Owns(t, k, c) /\ Moved(t, k, c)
      <4>1. c.do # "load"
        BY <2>1, <2>6, <2>13
      <4>2. QED
        BY <1>1, <1>2, <2>5, <2>6, <2>7, <4>1, NotNoRow, StaysPuts, PutsMoved DEF Owns
    <3>2. Enters(call[k]) /\ Enters(c) /\ ~tab[t].user /\ tab[t].view = NoRow
      BY <1>3, <2>1, <2>6, <2>13, TabThere DEF Enters, Entering
    <3>3. Entering(t)'
      BY <1>3, <2>9, <3>1, <3>2, TabThere, EntersKept DEF SamePage
    <3>4. Belongs(t)' /\ OneLoad(t)'
      BY <1>3, <2>6, <2>9, <3>1, TabThere, BelongsKept, OneLoadKept DEF Belongs, SamePage
    <3>5. Current(t)' /\ GoneKnown(t)' /\ Shown(t)'
      BY <2>9, <3>2, Excused DEF SamePage, Shown
    <3>6. TabInv(t)'
      BY <3>3, <3>4, <3>5 DEF TabInv
    <3>7. QED
      BY <1>2, <2>2, <2>4, <2>9, <2>10, <3>1, <3>6, StepKeeps DEF TypeInv
  <2>14. QED
    BY <2>12, <2>13
<1>6. QED
  BY <1>4, <1>5

-----------------------------------------------------------------------------
(* Answers that are accepted. *)

\* The answer to a query.
LEMMA LoadedKeeps ==
    ASSUME TypeInv, PagesInv, NEW k \in Slots, call[k] # NoRow, Brings(call[k]), Loaded(k),
           UNCHANGED <<db, live, jar, clicks, trouble>>
    PROVE  TypeInv' /\ PagesInv'
<1>1. PICK t \in Tabs : t = call[k].t
  BY CallThere
<1>2. /\ CallOK(call[k]) /\ k \in Mine(t) /\ TabOK(tab[t]) /\ Belongs(t) /\ OneLoad(t)
      /\ Entering(t) /\ Current(t) /\ GoneKnown(t)
      /\ call[k].do = "load" /\ call[k].view \in PageView(call[k].page)
  BY <1>1, CallThere, TabThere DEF Brings, CallOK
<1>3. PICK c : c = NoRow
  OBVIOUS
<1>4. Owns(t, k, c) /\ Puts(k, c) /\ Moved(t, k, c)
  BY <1>1, <1>3, OwnCall DEF End, Loaded
<1>20. PICK badge : badge = IF tab[t].view = NoRow THEN call[k].badge ELSE tab[t].badge
  OBVIOUS
<1>21. badge \in Stages \cup {NoRow}
  BY <1>2, <1>20 DEF CallOK, Call, TabOK, TabRow
<1>5. PICK view, known : /\ view = IF tab[t].page = call[k].page THEN call[k].view ELSE tab[t].view
                        /\ known = IF call[k].page = "library" THEN ToSet(call[k].view) ELSE {}
  OBVIOUS
<1>6. tab' = [tab EXCEPT ![t].view = view, ![t].seen = known, ![t].badge = badge]
  BY <1>1, <1>5, <1>20 DEF Loaded
<1>7. /\ DOMAIN tab' = Tabs /\ \A u \in Tabs \ {t} : tab'[u] = tab[u]
      /\ tab'[t] = [tab[t] EXCEPT !.view = view, !.seen = known, !.badge = badge]
  BY <1>6 DEF TypeInv
<1>8. known \in SUBSET Items
  <2>1. CASE call[k].page = "library"
    <3>1. call[k].view \in Seq(Items)
      BY <1>2, <2>1 DEF PageView
    <3>2. QED
      BY <1>5, <2>1, <3>1 DEF ToSet
  <2>2. CASE call[k].page # "library"
    BY <1>5, <2>2
  <2>3. QED
    BY <2>1, <2>2
<1>9. /\ TabOK(tab'[t]) /\ tab'[t].page = tab[t].page /\ tab'[t].user = tab[t].user
      /\ tab'[t].behind = tab[t].behind /\ tab'[t].view = view /\ tab'[t].seen = known
  BY <1>2, <1>5, <1>7, <1>8, <1>21 DEF TabOK, TabRow
<1>10. Belongs(t)' /\ OneLoad(t)'
  BY <1>2, <1>3, <1>4, <1>9, BelongsKept, OneLoadKept
<1>11. Entering(t)'
  BY <1>2, <1>3, <1>4, InsideKept
<1>22. \A j \in Mine(t)' : j # k /\ j \in Mine(t) /\ call'[j] = call[j]
  BY <1>2, <1>3, <1>4 DEF Moved
<1>12. tab[t].page \notin {"left", "library"} => \A j \in Mine(t)' : ~Brings(call'[j])
  BY <1>2, <1>22 DEF OneLoad, Queries, Brings, Belongs
<1>13. ~Written(call[k]) /\ ~Asked(call[k])
  BY <1>2 DEF Brings, Written, Asked, Session
<1>14. Current(t)'
  <2>1. SUFFICES ASSUME tab[t].user, ~tab[t].behind, tab[t].page \notin {"left", "library"}, ~Told(t)'
                 PROVE  view = View(db, tab[t].page)
    BY <1>9, <1>12 DEF Current
  <2>2. ~Told(t)
    BY <1>3, <1>4, <1>13, <2>1 DEF Told, Moved
  <2>3. call[k].view = View(db, tab[t].page)
    BY <1>2, <2>1, <2>2 DEF Current
  <2>4. QED
    BY <1>2, <1>5, <2>1, <2>3 DEF Belongs
<1>15. GoneKnown(t)'
  <2>1. SUFFICES ASSUME db.gone, tab[t].user, ~tab[t].behind,
                        tab[t].page \in Developers \cup {"listing"},
                        \A j \in Mine(t)' : ~Deleted(call'[j])
                 PROVE  FALSE
    BY <1>9 DEF GoneKnown
  <2>2. \A j \in Mine(t) : ~Deleted(call[j])
    BY <1>3, <1>4, <1>13, <2>1 DEF Moved, Deleted
  <2>3. QED
    BY <1>2, <2>1, <2>2 DEF GoneKnown
<1>16. Shown(t)'
  <2>1. SUFFICES ASSUME tab[t].page = "library"
                 PROVE  known \subseteq ToSet(view)
    BY <1>9 DEF Shown
  <2>2. QED
    BY <1>5, <2>1
<1>17. TabInv(t)'
  BY <1>10, <1>11, <1>14, <1>15, <1>16 DEF TabInv
<1>18. Others(t)
  BY <1>7, OthersStay
<1>19. QED
  BY <1>4, <1>9, <1>17, <1>18, StepKeeps DEF TypeInv

\* Somebody is signed in.
LEMMA RefreshMeKeeps ==
    ASSUME TypeInv, PagesInv, NEW k \in Slots, call[k] # NoRow, call[k].do = "me", refreshMe(k),
           UNCHANGED <<db, live, jar, clicks, trouble>>
    PROVE  TypeInv' /\ PagesInv'
<1>1. PICK t \in Tabs : t = call[k].t
  BY CallThere
<1>2. /\ k \in Mine(t) /\ TabOK(tab[t]) /\ Belongs(t) /\ OneLoad(t) /\ Entering(t)
      /\ tab[t].page \in Pages /\ tab[t].token \in Token
  BY <1>1, CallThere, TabThere
<1>3. (\A j \in Mine(t) : j = k) /\ tab[t].view = NoRow
  BY <1>2 DEF Entering, Enters
<1>4. PICK c : c = IF tab[t].page = "left" THEN NoRow ELSE Query(t, tab[t].page, tab[t].token)
  OBVIOUS
<1>5. c # NoRow => /\ CallOK(c) /\ c.t = t /\ c.page = tab[t].page /\ c.do = "load" /\ Asked(c)
  BY <1>2, <1>4, QueryOK
<1>6. tab[t].page # "left" => c # NoRow
  BY <1>2, <1>4, QueryOK, NotNoRow
<1>7. Owns(t, k, c) /\ Puts(k, c) /\ Moved(t, k, c)
  BY <1>1, <1>4, <1>5, OwnCall DEF refreshMe
<1>8. /\ DOMAIN tab' = Tabs /\ \A u \in Tabs \ {t} : tab'[u] = tab[u]
      /\ tab'[t] = [tab[t] EXCEPT !.user = TRUE]
  BY <1>1 DEF refreshMe, TypeInv
<1>9. /\ TabOK(tab'[t]) /\ tab'[t].page = tab[t].page /\ tab'[t].view = NoRow
  BY <1>2, <1>3, <1>8 DEF TabOK, TabRow
<1>10. Belongs(t)' /\ OneLoad(t)'
  BY <1>2, <1>5, <1>7, <1>9, BelongsKept, OneLoadKept
<1>11. Entering(t)'
  BY <1>2, <1>5, <1>7, InsideKept DEF Enters
<1>12. Shown(t)'
  BY <1>9 DEF Shown
<1>13. Current(t)' /\ GoneKnown(t)'
  <2>1. CASE tab[t].page = "left"
    BY <1>9, <2>1, Excused
  <2>2. CASE tab[t].page # "left"
    <3>1. Current(t)'
      BY <1>5, <1>6, <1>7, <2>2, CurrentTold
    <3>2. \A j \in Mine(t)' : ~Brings(call'[j])
      BY <1>3, <1>5, <1>6, <1>7, <2>2 DEF Moved, Asked, Brings
    <3>3. QED
      BY <1>9, <3>1, <3>2 DEF GoneKnown
  <2>3. QED
    BY <2>1, <2>2
<1>14. TabInv(t)'
  BY <1>10, <1>11, <1>12, <1>13 DEF TabInv
<1>15. Others(t)
  BY <1>8, OthersStay
<1>16. QED
  BY <1>7, <1>9, <1>14, <1>15, StepKeeps DEF TypeInv

\* The library's removal is done.
LEMMA TakenKeeps ==
    ASSUME TypeInv, PagesInv, NEW k \in Slots, call[k] # NoRow, call[k].do = "take", End(k),
           tab' = [tab EXCEPT ![call[k].t].seen = @ \ {call[k].arg.item}],
           UNCHANGED <<db, live, jar, clicks, trouble>>
    PROVE  TypeInv' /\ PagesInv'
<1>1. PICK t \in Tabs : t = call[k].t
  BY CallThere
<1>2. /\ CallOK(call[k]) /\ k \in Mine(t) /\ TabOK(tab[t]) /\ Belongs(t) /\ OneLoad(t)
      /\ Entering(t) /\ Shown(t) /\ call[k].page = "library"
  BY <1>1, CallThere, TabThere, LibraryCalls
<1>3. PICK c : c = NoRow
  OBVIOUS
<1>4. Owns(t, k, c) /\ Puts(k, c) /\ Moved(t, k, c)
  BY <1>1, <1>3, OwnCall DEF End
<1>5. PICK known : known = tab[t].seen \ {call[k].arg.item}
  OBVIOUS
<1>6. /\ DOMAIN tab' = Tabs /\ \A u \in Tabs \ {t} : tab'[u] = tab[u]
      /\ tab'[t] = [tab[t] EXCEPT !.seen = known]
  BY <1>1, <1>5 DEF TypeInv
<1>7. /\ TabOK(tab'[t]) /\ tab'[t].page = tab[t].page /\ tab'[t].view = tab[t].view
      /\ tab'[t].seen = known
  BY <1>2, <1>5, <1>6 DEF TabOK, TabRow
<1>8. tab[t].page \in {"left", "library"}
  BY <1>2 DEF Belongs
<1>9. Belongs(t)' /\ OneLoad(t)'
  BY <1>2, <1>3, <1>4, <1>7, BelongsKept, OneLoadKept
<1>10. Entering(t)'
  BY <1>2, <1>3, <1>4, InsideKept
<1>11. Current(t)' /\ GoneKnown(t)'
  BY <1>7, <1>8, Excused
<1>12. Shown(t)'
  <2>1. SUFFICES ASSUME tab[t].page = "library", tab[t].view # NoRow, NEW e \in known
                 PROVE  e \in ToSet(tab[t].view) \/ \E j \in Mine(t)' : Takes(call'[j], e)
    BY <1>7 DEF Shown
  <2>2. ~Takes(call[k], e) /\ e \in tab[t].seen
    BY <1>5, <2>1 DEF Takes
  <2>3. QED
    BY <1>2, <1>3, <1>4, <2>1, <2>2 DEF Shown, Moved
<1>13. TabInv(t)'
  BY <1>9, <1>10, <1>11, <1>12 DEF TabInv
<1>14. Others(t)
  BY <1>6, OthersStay
<1>15. QED
  BY <1>4, <1>7, <1>13, <1>14, StepKeeps DEF TypeInv

\* The tab goes on to another page.
LEMMA LeaveKeeps ==
    ASSUME TypeInv, PagesInv, NEW k \in Slots, call[k] # NoRow, NEW page \in {"left", "library"},
           NEW c, c = NoRow \/ (CallOK(c) /\ c.t = call[k].t /\ ~Enters(c)),
           call' = Put(k, c), tab' = [tab EXCEPT ![call[k].t].page = page, ![call[k].t].view = NoRow],
           UNCHANGED <<db, live, jar, clicks, trouble>>
    PROVE  TypeInv' /\ PagesInv'
<1>1. PICK t \in Tabs : t = call[k].t
  BY CallThere
<1>2. k \in Mine(t) /\ Owns(t, k, c) /\ Puts(k, c) /\ Moved(t, k, c)
  BY <1>1, OwnCall
<1>3. /\ DOMAIN tab' = Tabs /\ \A u \in Tabs \ {t} : tab'[u] = tab[u]
      /\ tab'[t] = [tab[t] EXCEPT !.page = page, !.view = NoRow]
  BY <1>1 DEF TypeInv
<1>4. page \in Pages
  BY DEF Pages
<1>5. TabOK(tab'[t]) /\ tab'[t].page = page /\ tab'[t].view = NoRow
  <2>1. tab[t] \in TabRow(tab[t].page)
    BY TabThere DEF TabOK
  <2>2. PICK w : w = [tab[t] EXCEPT !.page = page, !.view = NoRow]
    OBVIOUS
  <2>3. w \in TabRow(page) /\ w.page = page /\ w.view = NoRow
    BY <2>1, <2>2 DEF TabRow
  <2>4. QED
    BY <1>3, <1>4, <2>2, <2>3 DEF TabOK
<1>6. TabInv(t)'
  BY <1>2, <1>5, BlankStep
<1>7. Others(t)
  BY <1>3, OthersStay
<1>8. QED
  BY <1>2, <1>5, <1>6, <1>7, StepKeeps DEF TypeInv

\* A change that was made, after which the page asks for its data again.
LEMMA InvalidateKeeps ==
    ASSUME TypeInv, PagesInv, NEW k \in Slots, call[k] # NoRow, Written(call[k]),
           Invalidates(call[k].page, call[k].do), call[k].do # "take", call[k].do # "finish",
           call' = Put(k, Query(call[k].t, call[k].page, tab[call[k].t].token)),
           UNCHANGED <<db, live, jar, tab, clicks, trouble>>
    PROVE  TypeInv' /\ PagesInv'
<1>1. PICK t \in Tabs : t = call[k].t
  BY CallThere
<1>2. CallOK(call[k]) /\ call[k].page \in Pages /\ k \in Mine(t) /\ tab[t].token \in Token
  BY <1>1, CallThere, TabThere
<1>3. PICK c : c = Query(t, call[k].page, tab[t].token)
  OBVIOUS
<1>4. /\ CallOK(c) /\ c.t = t /\ c.page = call[k].page /\ c.do = "load" /\ Asked(c) /\ c # NoRow
  BY <1>2, <1>3, QueryOK, NotNoRow
<1>5. Owns(t, k, c) /\ Puts(k, c) /\ Moved(t, k, c)
  BY <1>1, <1>3, <1>4, OwnCall
<1>6. Entering(t)'
  BY <1>2, <1>4, <1>5, TabThere, InsideKept DEF Enters
<1>7. ~Deleted(call[k])
  BY DEF Deleted, Invalidates, ProjectMutations, ReleaseMutations, LinkMutations,
         ReportMutations, TriageVerdicts
<1>8. TabInv(t)'
  <2>1. CASE c.page = tab[t].page
    BY <1>2, <1>4, <1>5, <1>6, <1>7, <2>1, SameTab, AskStep
  <2>2. CASE c.page # tab[t].page
    <3>1. tab[t].page \in {"left", "library"}
      BY <1>2, <1>4, <2>2, TabThere DEF Belongs
    <3>2. Belongs(t)' /\ OneLoad(t)'
      BY <1>5, <3>1, TabThere, BelongsKept, OneLoadKept
    <3>3. Current(t)' /\ GoneKnown(t)'
      BY <3>1, Excused
    <3>4. Shown(t)'
      BY <1>2, <1>5, TabThere, ShownKept
    <3>5. QED
      BY <1>6, <3>2, <3>3, <3>4 DEF TabInv
  <2>3. QED
    BY <2>1, <2>2
<1>9. QED
  BY <1>5, <1>8, SameTab, StepKeeps DEF TypeInv

\* A call that ends with nothing to follow it, at a page that has no use for its answer.
LEMMA EndKeeps ==
    ASSUME TypeInv, PagesInv, NEW k \in Slots, call[k] # NoRow, End(k), call[k].do # "take",
           \/ ~tab[call[k].t].user \/ tab[call[k].t].page \in {"left", "library"},
           UNCHANGED <<db, live, jar, tab, clicks, trouble>>
    PROVE  TypeInv' /\ PagesInv'
<1>1. PICK t \in Tabs : t = call[k].t
  BY CallThere
<1>2. PICK c : c = NoRow
  OBVIOUS
<1>3. k \in Mine(t) /\ Owns(t, k, c) /\ Puts(k, c) /\ Moved(t, k, c)
  BY <1>1, <1>2, OwnCall DEF End
<1>4. Belongs(t)' /\ OneLoad(t)'
  BY <1>2, <1>3, TabThere, BelongsKept, OneLoadKept
<1>5. Entering(t)'
  BY <1>2, <1>3, TabThere, InsideKept
<1>6. Current(t)' /\ GoneKnown(t)'
  BY <1>1, Excused
<1>7. Shown(t)'
  BY <1>3, TabThere, ShownKept
<1>8. TabInv(t)'
  BY <1>4, <1>5, <1>6, <1>7 DEF TabInv
<1>9. QED
  BY <1>3, <1>8, SameTab, StepKeeps DEF TypeInv

\* An answer that is accepted, whichever call's.
LEMMA AcceptKeeps ==
    ASSUME TypeInv, PagesInv, NEW k \in Slots, call[k] # NoRow, call[k].step = "back",
           call[k].code = "ok", call[k].do \notin {"login", "logout"}, Accept(k),
           UNCHANGED <<db, live, jar, clicks, trouble>>
    PROVE  TypeInv' /\ PagesInv'
<1>1. CallOK(call[k]) /\ call[k].t \in Tabs /\ call[k].page \in Pages /\ k \in Mine(call[k].t)
  BY CallThere
<1>2. CASE call[k].do = "load"
  <2>1. Loaded(k) /\ Brings(call[k])
    BY <1>2 DEF Accept, Brings
  <2>2. QED
    BY <2>1, LoadedKeeps
<1>3. CASE call[k].do = "me"
  <2>1. refreshMe(k)
    BY <1>3 DEF Accept
  <2>2. QED
    BY <1>3, <2>1, RefreshMeKeeps
<1>4. CASE call[k].do = "finish"
  <2>1. PICK c : c = Query(call[k].t, "library", tab[call[k].t].token)
    OBVIOUS
  <2>2. call' = Put(k, c) /\ tab' = [tab EXCEPT ![call[k].t].page = "library", ![call[k].t].view = NoRow]
    BY <1>4, <2>1 DEF Accept, finish
  <2>3. "library" \in Pages /\ tab[call[k].t].token \in Token
    BY <1>1, TabThere DEF Pages
  <2>4. CallOK(c) /\ c.t = call[k].t /\ ~Enters(c)
    BY <1>1, <2>1, <2>3, QueryOK DEF Enters
  <2>5. QED
    BY <2>2, <2>4, LeaveKeeps
<1>5. CASE call[k].do = "take"
  <2>1. End(k) /\ tab' = [tab EXCEPT ![call[k].t].seen = @ \ {call[k].arg.item}]
    BY <1>5 DEF Accept
  <2>2. QED
    BY <1>5, <2>1, TakenKeeps
<1>6. CASE call[k].do \notin {"load", "me", "finish", "take"} /\ Leaves(call[k].page, call[k].do)
  <2>1. call' = Put(k, NoRow) /\ tab' = [tab EXCEPT ![call[k].t].page = "left", ![call[k].t].view = NoRow]
    BY <1>6 DEF Accept, End
  <2>2. QED
    BY <2>1, LeaveKeeps
<1>7. CASE /\ call[k].do \notin {"load", "me", "finish", "take"} /\ ~Leaves(call[k].page, call[k].do)
           /\ Invalidates(call[k].page, call[k].do) /\ tab[call[k].t].user
  <2>1. /\ call' = Put(k, Query(call[k].t, call[k].page, tab[call[k].t].token))
        /\ UNCHANGED tab
    BY <1>7 DEF Accept
  <2>2. Written(call[k])
    BY <1>7 DEF Written, Session, Invalidates, ProjectMutations, ReleaseMutations, LinkMutations,
                ReportMutations, TriageVerdicts
  <2>3. QED
    BY <1>7, <2>1, <2>2, InvalidateKeeps
<1>8. CASE /\ call[k].do \notin {"load", "me", "finish", "take"} /\ ~Leaves(call[k].page, call[k].do)
           /\ ~(Invalidates(call[k].page, call[k].do) /\ tab[call[k].t].user)
  <2>1. End(k) /\ UNCHANGED tab
    BY <1>8 DEF Accept
  <2>2. ~tab[call[k].t].user \/ tab[call[k].t].page \in {"left", "library"}
    <3>1. CASE call[k].do = "restore"
      BY <1>1, <3>1, TabThere DEF Entering, Enters
    <3>2. CASE call[k].do # "restore"
      <4>1. Asks(call[k].page, call[k].do, call[k].arg)
        BY <1>1, <1>8, <3>2, LibraryCalls DEF Session
      <4>2. call[k].page = "library" \/ ~tab[call[k].t].user
        BY <1>8, <4>1 DEF Asks, Leaves, Invalidates, ProjectMutations, LinkMutations,
                          ReportMutations, ReleaseMutations, Verdicts, ListingVerdicts
      <4>3. QED
        BY <1>1, <4>2, TabThere DEF Belongs
    <3>3. QED
      BY <3>1, <3>2
  <2>3. QED
    BY <1>8, <2>1, <2>2, EndKeeps
<1>9. QED
  BY <1>2, <1>3, <1>4, <1>5, <1>6, <1>7, <1>8

\* The answer to a sign-in or a sign-out.
LEMMA SignedKeeps ==
    ASSUME TypeInv, PagesInv, NEW k \in Slots, call[k] # NoRow, call[k].step = "back",
           call[k].code = "ok", call[k].do \in {"login", "logout"}, Signed(k),
           UNCHANGED <<db, live, clicks, trouble>>
    PROVE  TypeInv' /\ PagesInv'
<1>1. PICK t \in Tabs : t = call[k].t
  BY CallThere
<1>2. /\ CallOK(call[k]) /\ k \in Mine(t) /\ TabOK(tab[t]) /\ Belongs(t) /\ OneLoad(t)
      /\ Entering(t) /\ call[k].sess \in Token /\ 0 \in Token /\ tab[t].page \in Pages
  BY <1>1, CallThere, TabThere, ConsoleAssumption DEF CallOK, Call, Token
<1>3. CASE call[k].do = "logout"
  <2>1. jar' = 0 /\ Failed(k, FALSE)
    BY <1>3 DEF Signed
  <2>2. ~Written(call[k]) /\ ~Asked(call[k]) /\ ~Brings(call[k])
    BY <1>3 DEF Written, Asked, Brings, Session
  <2>3. jar' \in Token /\ trouble' \in 0..MaxTrouble
    BY <1>2, <2>1 DEF TypeInv
  <2>4. QED
    BY <2>1, <2>2, <2>3, FailedKeeps
<1>4. CASE call[k].do = "login"
  <2>1. PICK sess : sess = call[k].sess
    OBVIOUS
  <2>2. PICK c : c = [call[k] EXCEPT !.do = "me", !.step = "ask", !.again = FALSE, !.code = "none",
                                     !.token = sess, !.cookie = sess, !.sess = 0]
    OBVIOUS
  <2>3. PICK w : w = [FreshTab(tab[t].page) EXCEPT !.user = FALSE, !.token = sess]
    OBVIOUS
  <2>4. /\ jar' = sess /\ tab' = [tab EXCEPT ![t] = w]
        /\ call' = [call EXCEPT ![k].do = "me", ![k].step = "ask", ![k].again = FALSE,
                       ![k].code = "none", ![k].token = sess, ![k].cookie = sess, ![k].sess = 0]
    <3>1. call' = [call EXCEPT ![k].do = "me", ![k].step = "ask", ![k].again = FALSE,
                       ![k].code = "none", ![k].token = sess, ![k].cookie = sess, ![k].sess = 0]
      BY <1>4, <2>1 DEF Signed
    <3>2. jar' = sess /\ tab' = [tab EXCEPT ![t] = w]
      BY <1>1, <1>4, <2>1, <2>3 DEF Signed
    <3>3. QED
      BY <3>1, <3>2
  <2>5. DOMAIN call' = Slots /\ call'[k] = c /\ \A j \in Slots \ {k} : call'[j] = call[j]
    BY <2>2, <2>4 DEF TypeInv
  <2>6. call[k].arg = NoRow /\ NoRow \in Carried("me")
    BY <1>2, <1>4 DEF CallOK, Session, Carried, LinkMutations, Verdicts
  <2>7. CallOK(c) /\ c.t = t /\ c.page = call[k].page /\ c.do = "me"
    BY <1>1, <1>2, <2>1, <2>2, <2>6 DEF CallOK, Call, Session
  <2>8. c # NoRow /\ Puts(k, c) /\ Owns(t, k, c) /\ Moved(t, k, c)
    BY <1>1, <2>5, <2>7, NotNoRow, StaysPuts, PutsMoved DEF Owns
  <2>9. DOMAIN tab' = Tabs /\ tab'[t] = w /\ \A u \in Tabs \ {t} : tab'[u] = tab[u]
    BY <2>4 DEF TypeInv
  <2>10. w = [page |-> tab[t].page, user |-> FALSE, token |-> sess, view |-> NoRow,
              shown |-> NoRow, seen |-> {}, badge |-> NoRow, latest |-> NoRow, behind |-> FALSE]
    BY <2>3 DEF FreshTab
  <2>11. TabOK(w) /\ w.page = tab[t].page /\ ~w.user /\ w.view = NoRow
    BY <1>2, <2>1, <2>10 DEF TabOK, TabRow
  <2>12. Belongs(t)' /\ OneLoad(t)'
    BY <1>2, <2>7, <2>8, <2>9, <2>11, BelongsKept, OneLoadKept DEF Belongs
  <2>13. Entering(t)'
    BY <1>2, <1>4, <2>7, <2>8, <2>9, <2>11, EntersKept DEF Enters
  <2>14. Current(t)' /\ GoneKnown(t)' /\ Shown(t)'
    BY <2>9, <2>11, Excused DEF Shown
  <2>15. TabInv(t)'
    BY <2>12, <2>13, <2>14 DEF TabInv
  <2>16. Others(t)
    BY <2>9, OthersStay
  <2>17. QED
    BY <1>2, <2>1, <2>4, <2>8, <2>9, <2>11, <2>15, <2>16, StepKeeps DEF TypeInv
<1>5. QED
  BY <1>3, <1>4

\* Any answer.
LEMMA HearKeeps ==
    ASSUME TypeInv, PagesInv, NEW k \in Slots, Hear(k)
    PROVE  TypeInv' /\ PagesInv'
<1>1. PICK t : t = call[k].t
  OBVIOUS
<1>2. /\ call[k] # NoRow /\ call[k].step = "back" /\ CallOK(call[k]) /\ t \in Tabs
      /\ call[k].code \in {"ok", "401", "refused"}
      /\ UNCHANGED <<db, live, clicks, trouble>>
  <2>1. call[k] # NoRow /\ call[k].step = "back" /\ UNCHANGED <<db, live, clicks, trouble>>
    BY DEF Hear
  <2>2. QED
    BY <1>1, <2>1, CallThere DEF CallOK, Call
<1>3. trouble' \in 0..MaxTrouble /\ jar \in Token /\ live \subseteq 1..Sessions /\ clicks \in 0..MaxClicks
  BY <1>2 DEF TypeInv
<1>4. CASE call[k].code = "401" /\ ~call[k].again
  <2>1. /\ call' = [call EXCEPT ![k].step = "refresh", ![k].code = "none", ![k].cookie = jar]
        /\ UNCHANGED <<jar, tab>>
    BY <1>4 DEF Hear
  <2>2. PICK c : c = [call[k] EXCEPT !.step = "refresh", !.code = "none", !.cookie = jar]
    OBVIOUS
  <2>3. /\ CallOK(c) /\ c.t = t /\ c.page = call[k].page /\ c.do = call[k].do /\ c.arg = call[k].arg
        /\ c.step = "refresh"
    BY <1>1, <1>2, <1>3, <2>2 DEF CallOK, Call
  <2>4. ~Written(call[k]) /\ ~Written(c) /\ (c.do = "load" => Asked(call[k]) /\ Asked(c))
    BY <1>2, <1>4, <2>3 DEF Written, Asked
  <2>5. DOMAIN call' = Slots /\ call'[k] = c /\ \A j \in Slots \ {k} : call'[j] = call[j]
    BY <2>1, <2>2 DEF TypeInv
  <2>6. SamePage(t) /\ tab'[t].seen = tab[t].seen /\ TabOK(tab'[t]) /\ Others(t)
    BY <1>2, <2>1, SameTab
  <2>7. QED
    BY <1>1, <1>2, <1>3, <2>1, <2>3, <2>4, <2>5, <2>6, GoOnKeeps
<1>5. CASE ~(call[k].code = "401" /\ ~call[k].again) /\ call[k].code # "ok"
  <2>1. PICK lost \in BOOLEAN : lost = (call[k].code = "401")
    OBVIOUS
  <2>2. Failed(k, lost) /\ UNCHANGED jar
    BY <1>5, <2>1 DEF Hear
  <2>3. lost \/ (~Written(call[k]) /\ ~Asked(call[k]) /\ ~Brings(call[k]))
    BY <1>2, <1>5, <2>1 DEF Written, Asked, Brings
  <2>4. QED
    BY <1>2, <1>3, <2>2, <2>3, FailedKeeps
<1>6. CASE call[k].code = "ok" /\ call[k].do \in {"login", "logout"}
  <2>1. Signed(k)
    BY <1>6 DEF Hear
  <2>2. QED
    BY <1>2, <1>6, <2>1, SignedKeeps
<1>7. CASE call[k].code = "ok" /\ call[k].do \notin {"login", "logout"}
  <2>1. Accept(k) /\ UNCHANGED jar
    BY <1>7 DEF Hear
  <2>2. QED
    BY <1>2, <1>7, <2>1, AcceptKeeps
<1>8. QED
  BY <1>4, <1>5, <1>6, <1>7

-----------------------------------------------------------------------------
(* The invariant, and what it says of what a tab shows. *)

\* Initially nothing is shown and nothing is under way.
LEMMA PagesInit == ConsoleInit => TypeInv /\ PagesInv
<1> SUFFICES ASSUME ConsoleInit PROVE TypeInv /\ PagesInv
  OBVIOUS
<1>1. PICK scene \in Scenes :
        LET copy == [text |-> "old", icon |-> FALSE, shots |-> MaxShots - 1] IN
        /\ db = [gone |-> FALSE, public |-> TRUE,
                 stage |-> IF scene.status \in {"absent", "ready"} THEN "draft" ELSE "active",
                 copy |-> copy,
                 snapshot |-> IF scene.listing = "approved" THEN copy ELSE NoRow,
                 listing |-> scene.listing, status |-> scene.status, review |-> scene.review,
                 links |-> [l \in Links |-> "none"], safe |-> FALSE, report |-> "open",
                 rows |-> [r \in Rows |-> [plan |-> scene.plans[r], state |-> "prepared"]],
                 lib |-> Catalog]
        /\ tab = [t \in Tabs |-> FreshTab(scene.pages[t])]
  BY DEF ConsoleInit
<1>2. /\ live = {1} /\ jar = 1 /\ call = [k \in Slots |-> NoRow] /\ clicks = 0 /\ trouble = 0
  BY DEF ConsoleInit
<1>3. /\ scene.pages \in [Tabs -> Pages] /\ scene.plans \in [Rows -> Plan]
      /\ scene.listing \in {"approved", "legacy_pending"}
      /\ scene.review \in {"pending", "legacy_pending"}
      /\ scene.status \in {"absent", "ready", "published", "superseded"}
      /\ Catalog \in Seq(Items)
      /\ MaxShots \in Nat \ {0} /\ MaxClicks \in Nat /\ MaxTrouble \in Nat /\ Sessions \in Nat \ {0}
  BY ConsoleAssumption
<1>4. db \in Server
  <2>1. PICK copy : copy = [text |-> "old", icon |-> FALSE, shots |-> MaxShots - 1]
    OBVIOUS
  <2>2. copy \in Listing
    BY <1>3, <2>1 DEF Listing
  <2>3. [r \in Rows |-> [plan |-> scene.plans[r], state |-> "prepared"]] \in [Rows -> Prepared]
    BY <1>3 DEF Prepared
  <2>4. [l \in Links |-> "none"] \in [Links -> {"none", "on", "off"}]
    OBVIOUS
  <2>5. QED
    BY <1>1, <1>3, <2>1, <2>2, <2>3, <2>4 DEF Server, Reviews, Statuses, Stages
<1>5. DOMAIN tab = Tabs /\ \A t \in Tabs : TabOK(tab[t]) /\ tab[t].view = NoRow
  <2>1. DOMAIN tab = Tabs
    BY <1>1
  <2>2. ASSUME NEW t \in Tabs PROVE TabOK(tab[t]) /\ tab[t].view = NoRow
    <3>1. scene.pages[t] \in Pages
      BY <1>3
    <3>2. tab[t] = [page |-> scene.pages[t], user |-> TRUE, token |-> 1, view |-> NoRow,
                    shown |-> NoRow, seen |-> {}, badge |-> NoRow, latest |-> NoRow,
                    behind |-> FALSE]
      BY <1>1 DEF FreshTab
    <3>3. 1 \in Token
      BY <1>3 DEF Token
    <3>4. QED
      BY <3>1, <3>2, <3>3 DEF TabOK, TabRow
  <2>3. QED
    BY <2>1, <2>2
<1>6. TypeInv
  BY <1>2, <1>3, <1>4, <1>5 DEF TypeInv, Token
<1>7. ASSUME NEW t \in Tabs PROVE TabInv(t)
  <2>1. Mine(t) = {}
    BY <1>2 DEF Mine
  <2>2. QED
    BY <1>5, <2>1 DEF TabInv, Belongs, OneLoad, Entering, Current, GoneKnown, Shown
<1>8. QED
  BY <1>6, <1>7 DEF PagesInv

\* A tab's own steps.
LEMMA TabSteps ==
    ASSUME TypeInv, PagesInv, NEW t \in Tabs,
           \/ Open(t) \/ Press(t) \/ Render(t) \/ Reload(t) \/ login(t) \/ logout(t) \/ Expire(t) \/ Poll(t)
    PROVE  TypeInv' /\ PagesInv'
<1>1. CASE Open(t)
  BY <1>1, OpenKeeps
<1>2. CASE Press(t)
  BY <1>2, PressKeeps
<1>3. CASE Reload(t)
  BY <1>3, ReloadKeeps
<1>4. CASE login(t)
  BY <1>4, SignKeeps DEF login
<1>5. CASE logout(t)
  BY <1>5, SignKeeps DEF logout
<1>6. CASE Expire(t)
  BY <1>6, ExpireKeeps
<1>7. CASE Poll(t)
  BY <1>7, PollKeeps
<1>8. CASE Render(t)
  BY <1>8, RenderKeeps
<1>9. QED
  BY <1>1, <1>2, <1>3, <1>4, <1>5, <1>6, <1>7, <1>8

\* The steps of a call in flight.
LEMMA CallSteps ==
    ASSUME TypeInv, PagesInv, NEW k \in Slots,
           \/ ServeLoad(k) \/ Serve(k) \/ ServeLogin(k) \/ ServeLogout(k) \/ Hear(k)
           \/ ServeRefresh(k) \/ HearRefresh(k) \/ Lose(k)
    PROVE  TypeInv' /\ PagesInv'
<1>1. CASE ServeLoad(k)
  BY <1>1, ServeLoadKeeps
<1>2. CASE Serve(k)
  BY <1>2, ServeKeeps
<1>3. CASE ServeLogin(k)
  BY <1>3, ServeLoginKeeps
<1>4. CASE ServeLogout(k)
  BY <1>4, ServeLogoutKeeps
<1>5. CASE Hear(k)
  BY <1>5, HearKeeps
<1>6. CASE ServeRefresh(k)
  BY <1>6, ServeRefreshKeeps
<1>7. CASE HearRefresh(k)
  BY <1>7, HearRefreshKeeps
<1>8. CASE Lose(k)
  BY <1>8, LoseKeeps
<1>9. QED
  BY <1>1, <1>2, <1>3, <1>4, <1>5, <1>6, <1>7, <1>8

\* Every step keeps what the tabs and the calls say of each other.
LEMMA PagesNext == TypeInv /\ PagesInv /\ [ConsoleNext]_consoleVars => TypeInv' /\ PagesInv'
<1> SUFFICES ASSUME TypeInv, PagesInv, [ConsoleNext]_consoleVars PROVE TypeInv' /\ PagesInv'
  OBVIOUS
<1>1. CASE ConsoleNext
  BY <1>1, TabSteps, CallSteps, ValidatedKeeps DEF ConsoleNext
<1>2. CASE UNCHANGED consoleVars
  <2>1. UNCHANGED <<db, live, jar, tab, call, clicks, trouble>>
    BY <1>2 DEF consoleVars
  <2>2. TypeInv'
    BY <2>1 DEF TypeInv
  <2>3. ASSUME NEW t \in Tabs PROVE TabInv(t)'
    <3>1. TabInv(t) /\ TabOK(tab[t])
      BY DEF PagesInv, TypeInv
    <3>2. /\ TabOK(tab'[t]) /\ tab'[t] = tab[t] /\ SameView(t)
          /\ Mine(t)' = Mine(t) /\ \A j \in Mine(t) : call'[j] = call[j]
      BY <2>1, <3>1, CallsStay DEF SameView
    <3>3. QED
      BY <3>1, <3>2, ApartKept
  <2>4. QED
    BY <2>2, <2>3 DEF PagesInv
<1>3. QED
  BY <1>1, <1>2

\* In every state that can be reached, whatever the tabs, the calls in flight and the rows:
\* rows, calls and pages have their types, and every tab's page and calls say of each other
\* what TabInv names (the callbacks of the pages' useQuery and useMutation).
THEOREM PagesInvariant == ConsoleSpec => [](TypeInv /\ PagesInv)
  BY PagesInit, PagesNext, PTL DEF ConsoleSpec

\* Every row, session, tab and call in flight has its type, for any tabs, calls, install
\* links, decisions and store extensions.
THEOREM ConsoleTypeOKHolds == ConsoleSpec => []ConsoleTypeOK
<1>1. TypeInv => ConsoleTypeOK
  <2> SUFFICES ASSUME TypeInv PROVE ConsoleTypeOK
    OBVIOUS
  <2>1. ASSUME NEW t \in Tabs
        PROVE  /\ tab[t].page \in Pages /\ tab[t].user \in BOOLEAN
               /\ tab[t].token \in Token /\ tab[t].behind \in BOOLEAN
               /\ tab[t].badge \in Stages \cup {NoRow}
    BY DEF TypeInv, TabOK, TabRow
  <2>2. ASSUME NEW k \in Slots, call[k] # NoRow
        PROVE  /\ call[k].t \in Tabs /\ call[k].page \in Pages
               /\ call[k].step \in {"ask", "back", "refresh", "refreshed"}
               /\ call[k].code \in {"none", "ok", "401", "refused"}
               /\ {call[k].token, call[k].cookie, call[k].sess} \subseteq Token
    BY <2>2 DEF TypeInv, CallOK, Call
  <2>3. QED
    BY <2>1, <2>2 DEF TypeInv, ConsoleTypeOK
<1>2. QED
  BY <1>1, PagesInvariant, PTL

\* What a signed-in page with no call in flight has of its own query is what the query would
\* return now, unless another tab or the worker changed it since it asked or the network
\* failed it.  Each mutation's onSuccess invalidates the page's query after the server has
\* made the change, the load that follows takes the place of one that may have read the rows
\* before it, and nothing else of the tab's changes the query's data.  The badge in the
\* header of the versions and the links page is of another query, and does go stale:
\* BadgeIsCurrent.
THEOREM AtRestIsCurrentHolds == ConsoleSpec => []AtRestIsCurrent
<1>1. TypeInv /\ PagesInv => AtRestIsCurrent
  <2> SUFFICES ASSUME TypeInv, PagesInv, NEW t \in Tabs, tab[t].user, tab[t].view # NoRow, Mine(t) = {},
                      ~tab[t].behind, tab[t].page # "library"
               PROVE  tab[t].view = View(db, tab[t].page)
    BY DEF AtRestIsCurrent
  <2>1. tab[t].page # "left"
    BY TabThere DEF TabOK, TabRow, PageView
  <2>2. ~Told(t)
    BY DEF Told
  <2>3. QED
    BY <2>1, <2>2, TabThere DEF Current
<1>2. QED
  BY <1>1, PagesInvariant, PTL

\* What the library page loaded and the server still keeps is on its list or being removed,
\* what a click on a list not yet redrawn overwrote left aside: a removal that failed or was
\* lost puts its item back, and one that was answered takes it off the rows the page is
\* answerable for.
THEOREM NothingHiddenHolds == ConsoleSpec => []NothingHidden
<1>1. TypeInv /\ PagesInv => NothingHidden
  <2> SUFFICES ASSUME TypeInv, PagesInv, NEW t \in Tabs, tab[t].page = "library", tab[t].view # NoRow,
                      NEW e \in tab[t].seen \cap ToSet(db.lib)
               PROVE  \/ e \in ToSet(tab[t].view)
                      \/ \E k \in Mine(t) : call[k].do = "take" /\ call[k].arg.item = e
    BY DEF NothingHidden
  <2>1. Shown(t)
    BY TabThere
  <2>2. QED
    BY <2>1 DEF Shown, Takes
<1>2. QED
  BY <1>1, PagesInvariant, PTL
=============================================================================
