--------------------------- MODULE ModerationBytes ---------------------------
(***************************************************************************)
(* One release's rows and its objects in storage under overlapping         *)
(* requests.  ReleaseLifecycle takes a moderator's handler as one step;    *)
(* here it is what it is: rows read, objects copied or deleted at once,    *)
(* rows written by a commit that the release's version column may refuse.  *)
(* A rollback undoes rows, never objects.                                  *)
(***************************************************************************)
EXTENDS Naturals

CONSTANTS
    Request,      \* handlers of the API that may run at the same time
    Decisions,    \* which of "approve", "reject" and "delete" are asked for
    MaxDecisions  \* bound on the decisions asked for in one behaviour

ASSUME BytesAssumption ==
    /\ Decisions \subseteq {"approve", "reject", "delete"}
    /\ MaxDecisions \in Nat

VARIABLES
    exists, review, version,   \* the releases row: its existence, review_status, version_lock
    pubRow, stagedRow,         \* its artifact rows in the public and the private bucket
    pubObj, stagedObj,         \* the objects in the two buckets
    pc, decision,              \* where each handler is, and what it does
    seen,                      \* the version each handler loaded
    copied,                    \* whether it has copied, and so adds an artifact row
    asked,                     \* decisions asked for so far
    erased                     \* history: delete_release has erased objects

rows == <<exists, review, version, pubRow, stagedRow>>
objects == <<pubObj, stagedObj>>
vars == <<rows, objects, pc, decision, seen, copied, asked, erased>>

-----------------------------------------------------------------------------
PUBLIC_REVIEW_STATES == {"approved", "legacy_pending"}

Cleared == exists /\ review \in PUBLIC_REVIEW_STATES

Goto(t, p) == pc' = [pc EXCEPT ![t] = p]

\* get_release loads the row.  Whether a release being deleted is live is for
\* ReleaseLifecycle; here it may also be a cleared one that was paused.
Load(t, d) ==
    /\ pc[t] = "idle"
    /\ asked < MaxDecisions
    /\ exists
    /\ asked' = asked + 1
    /\ decision' = [decision EXCEPT ![t] = d]
    /\ seen' = [seen EXCEPT ![t] = version]
    /\ copied' = [copied EXCEPT ![t] = FALSE]
    /\ Goto(t, "reading")
    /\ UNCHANGED <<rows, objects, erased>>

NeverArchives == FALSE

OnlyCopyIsPublic == pubRow /\ ~stagedRow

\* publish_artifact_public and withdraw_artifact_public read the artifact rows.
Read(t) ==
    /\ pc[t] = "reading"
    /\ \/ decision[t] = "approve" /\ pubRow /\ Goto(t, "writing")
       \/ decision[t] = "approve" /\ ~pubRow /\ stagedRow /\ Goto(t, "copying")
       \/ decision[t] = "approve" /\ ~pubRow /\ ~stagedRow /\ Goto(t, "idle")
       \/ decision[t] = "reject" /\ ~pubRow /\ Goto(t, "writing")
       \/ decision[t] = "reject" /\ OnlyCopyIsPublic /\ Goto(t, "archiving")
       \/ decision[t] = "reject" /\ pubRow /\ ~OnlyCopyIsPublic /\ Goto(t, "deleting")
       \/ decision[t] = "delete" /\ Goto(t, "erasing")
    /\ UNCHANGED <<rows, objects, decision, seen, copied, asked, erased>>

\* A copy of an object that is gone, or that storage refuses, ends the request.
CopyOut(t) ==
    /\ pc[t] = "copying"
    /\ \/ /\ stagedObj
          /\ pubObj' = TRUE
          /\ copied' = [copied EXCEPT ![t] = TRUE]
          /\ Goto(t, "writing")
       \/ /\ Goto(t, "idle")
          /\ UNCHANGED <<pubObj, copied>>
    /\ UNCHANGED <<rows, stagedObj, decision, seen, asked, erased>>

Archive(t) ==
    /\ pc[t] = "archiving"
    /\ \/ /\ pubObj
          /\ stagedObj' = TRUE
          /\ copied' = [copied EXCEPT ![t] = TRUE]
          /\ Goto(t, "deleting")
       \/ /\ Goto(t, "idle")
          /\ UNCHANGED <<stagedObj, copied>>
    /\ UNCHANGED <<rows, pubObj, decision, seen, asked, erased>>

\* A delete that storage refuses is logged and forgotten.
DeletePublic(t) ==
    /\ pc[t] = "deleting"
    /\ pubObj' \in {pubObj, FALSE}
    /\ Goto(t, "writing")
    /\ UNCHANGED <<rows, stagedObj, decision, seen, copied, asked, erased>>

\* delete_release erases the object of every artifact row it sees.
Erase(t) ==
    /\ pc[t] = "erasing"
    /\ pubObj' \in {pubObj, pubObj /\ ~pubRow}
    /\ stagedObj' \in {stagedObj, stagedObj /\ ~stagedRow}
    /\ erased' = TRUE
    /\ Goto(t, "writing")
    /\ UNCHANGED <<rows, decision, seen, copied, asked>>

AlwaysFresh(t) == TRUE

\* version_id_col: the write matches only the version that was loaded.
Fresh(t) == exists /\ version = seen[t]

WriteApproval(t) ==
    /\ review' = "approved"
    /\ pubRow' = (pubRow \/ copied[t])
    /\ UNCHANGED <<exists, stagedRow>>

WriteRejectionAsRevoked(t) ==
    /\ review' = "revoked"
    /\ pubRow' = FALSE
    /\ stagedRow' = (stagedRow \/ copied[t])
    /\ UNCHANGED exists

WriteRejection(t) ==
    /\ review' = "rejected"
    /\ pubRow' = FALSE
    /\ stagedRow' = (stagedRow \/ copied[t])
    /\ UNCHANGED exists

WriteDeletion ==
    /\ exists' = FALSE
    /\ pubRow' = FALSE
    /\ stagedRow' = FALSE
    /\ UNCHANGED review

Commit(t) ==
    /\ pc[t] = "writing"
    /\ Fresh(t)
    /\ \/ decision[t] = "approve" /\ WriteApproval(t)
       \/ decision[t] = "reject" /\ WriteRejection(t)
       \/ decision[t] = "delete" /\ WriteDeletion
    /\ version' = version + 1
    /\ Goto(t, "idle")
    /\ UNCHANGED <<objects, decision, seen, copied, asked, erased>>

\* The commit finds another version, or the process dies: get_session rolls back.
Rollback(t) ==
    /\ pc[t] # "idle"
    /\ Goto(t, "idle")
    /\ UNCHANGED <<rows, objects, decision, seen, copied, asked, erased>>

\* A release that predates moderation is public only; any other is staged only.
Init ==
    /\ exists = TRUE
    /\ version = 0
    /\ \/ /\ review = "legacy_pending"
          /\ pubRow = TRUE /\ stagedRow = FALSE
          /\ pubObj = TRUE /\ stagedObj = FALSE
       \/ /\ review = "pending"
          /\ pubRow = FALSE /\ stagedRow = TRUE
          /\ pubObj = FALSE /\ stagedObj = TRUE
    /\ pc = [t \in Request |-> "idle"]
    /\ decision = [t \in Request |-> "approve"]
    /\ seen = [t \in Request |-> 0]
    /\ copied = [t \in Request |-> FALSE]
    /\ asked = 0
    /\ erased = FALSE

Next == \E t \in Request :
    \/ \E d \in Decisions : Load(t, d)
    \/ Read(t) \/ CopyOut(t) \/ Archive(t) \/ DeletePublic(t) \/ Erase(t)
    \/ Commit(t) \/ Rollback(t)

Spec == Init /\ [][Next]_vars

-----------------------------------------------------------------------------
(* Properties *)

\* Every variable keeps its type.
TypeOK ==
    /\ exists \in BOOLEAN /\ erased \in BOOLEAN
    /\ pubRow \in BOOLEAN /\ stagedRow \in BOOLEAN
    /\ pubObj \in BOOLEAN /\ stagedObj \in BOOLEAN
    /\ review \in {"pending", "legacy_pending", "approved", "rejected"}
    /\ version \in Nat
    /\ pc \in [Request -> {"idle", "reading", "copying", "archiving", "deleting", "erasing", "writing"}]
    /\ decision \in [Request -> {"approve", "reject", "delete"}]
    /\ seen \in [Request -> Nat]
    /\ copied \in [Request -> BOOLEAN]
    /\ asked \in 0..MaxDecisions

\* However approvals, rejections and a deletion overlap, the tables agree: there
\* is a public artifact row exactly while the release is there and cleared.
RowsAgree == pubRow <=> Cleared

\* withdraw_artifact_public archives before it deletes, so that no moderator's
\* decision, retried, overlapping or interrupted, destroys the only copy of a
\* build; only delete_release may.
BuildSurvives == pubObj \/ stagedObj \/ erased

\* moderation.py: "The two layers must never disagree."  Between requests, bytes at
\* the public address mean a release that is cleared.
LayersAgree == (\A t \in Request : pc[t] = "idle") => (pubObj => Cleared)
=============================================================================
