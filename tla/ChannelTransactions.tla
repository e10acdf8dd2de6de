------------------------- MODULE ChannelTransactions -------------------------
(***************************************************************************)
(* Handlers of the API that work on one channel at the same time.          *)
(* ReleaseLifecycle takes a handler as one step; here it reads the release *)
(* it was called for, the channel's row and the row of the release it      *)
(* replaces or falls back to, one after the other, and writes at its       *)
(* commit.  A release's row carries version_lock, the channel's row does   *)
(* not, and SQLAlchemy writes only the columns a handler has changed.      *)
(*                                                                         *)
(* All releases are validated and have a build; their bytes, the rollout   *)
(* percentage and the signed metadata are left out.                        *)
(***************************************************************************)
EXTENDS Naturals

CONSTANTS
    Release,
    Transaction,      \* requests that may run at the same time
    Operations,       \* the handlers this instance explores
    MaxTransactions,  \* bound on the handlers begun in one behaviour
    MaxSeq,           \* bound on sequence numbers
    None

Operation == {"publish", "approve", "pause", "stop", "revoke", "reject",
              "request_changes", "rollback", "delete"}

ASSUME TransactionsAssumption ==
    /\ None \notin Release
    /\ Operations \subseteq Operation
    /\ MaxSeq \in Nat
    /\ MaxTransactions \in Nat

VARIABLES
    releases,  \* the releases table
    active,    \* channels.active_release_id
    paused,    \* channels.is_paused
    tx,        \* each transaction: its handler, where it is and what it has read
    begun      \* handlers begun so far

vars == <<releases, active, paused, tx, begun>>

-----------------------------------------------------------------------------
Row == [status : {"ready", "published", "paused", "superseded", "revoked", "deleted"},
        review : {"pending", "approved", "rejected", "changes_requested"},
        seq : 0..MaxSeq,          \* 0 for NULL
        version : Nat]            \* version_lock

Place == {"idle", "loaded", "numbered", "channel", "peer", "writing"}

Transactions == [pc : Place, op : Operation,
                 rel : Release \cup {None},     \* the release the handler is called for
                 mine : Row,                    \* its row, as read
                 active : Release \cup {None},  \* the channel's row, as read
                 paused : BOOLEAN,
                 peer : Release \cup {None},    \* the release replaced or fallen back to
                 other : Row,                   \* its row, as read
                 next : 0..MaxSeq]              \* the sequence number to write

NoRow == [status |-> "deleted", review |-> "pending", seq |-> 0, version |-> 0]

Idle == [pc |-> "idle", op |-> "pause", rel |-> None, mine |-> NoRow, active |-> None,
         paused |-> FALSE, peer |-> None, other |-> NoRow, next |-> 0]

Exists(w) == w.status # "deleted"

Cleared(w) == Exists(w) /\ w.review = "approved"

Live(w) == w.status = "published" /\ w.review = "approved"

\* What each handler asks of the row it was given.
Accepts(o, w) ==
    /\ Exists(w)
    /\ o = "publish" => w.status \in {"ready", "paused"} /\ w.review \in {"pending", "approved"}
    /\ o \in {"pause", "stop"} => w.status = "published"
    /\ o = "revoke" => w.status # "revoked"
    /\ o = "rollback" => Cleared(w)
    /\ o = "delete" => ~Live(w)

-----------------------------------------------------------------------------
(* Reading *)

Begin(t, o, r) ==
    /\ tx[t].pc = "idle"
    /\ begun < MaxTransactions
    /\ Accepts(o, releases[r])
    /\ tx' = [tx EXCEPT ![t] = [Idle EXCEPT !.pc = "loaded", !.op = o, !.rel = r,
                                            !.mine = releases[r], !.next = releases[r].seq]]
    /\ begun' = begun + 1
    /\ UNCHANGED <<releases, active, paused>>

NextSequences == {n \in 1..MaxSeq :
    /\ \A x \in Release : releases[x].seq < n
    /\ n = 1 \/ \E x \in Release : releases[x].seq = n - 1}

\* _next_sequence: publish asks for a first number, rollback for a new one.
ReadSequence(t) ==
    /\ \/ /\ tx[t].op = "publish" /\ tx[t].pc = "loaded"
          /\ tx[t].mine.seq = 0
          /\ \E n \in NextSequences :
                tx' = [tx EXCEPT ![t].next = n, ![t].pc = "numbered"]
       \/ /\ tx[t].op = "publish" /\ tx[t].pc = "loaded"
          /\ tx[t].mine.seq # 0
          /\ tx' = [tx EXCEPT ![t].pc = "numbered"]
       \/ /\ tx[t].op = "rollback" /\ tx[t].pc = "peer"
          /\ \E n \in NextSequences :
                tx' = [tx EXCEPT ![t].next = n, ![t].pc = "writing"]
    /\ UNCHANGED <<releases, active, paused, begun>>

\* An uncleared publication and the approval of a release that is not published
\* leave the channel alone.
UsesChannel(t) ==
    /\ tx[t].op = "publish" => Cleared(tx[t].mine)
    /\ tx[t].op = "approve" => tx[t].mine.status = "published"

\* The automatic stop has nothing to do unless the failing release is served.
ReadChannel(t) ==
    /\ tx[t].pc = IF tx[t].op = "publish" THEN "numbered" ELSE "loaded"
    /\ \/ /\ ~UsesChannel(t)
          /\ tx' = [tx EXCEPT ![t].pc = "writing"]
       \/ /\ UsesChannel(t)
          /\ tx[t].op = "stop" => active = tx[t].rel /\ ~paused
          /\ tx' = [tx EXCEPT ![t].active = active, ![t].paused = paused, ![t].pc = "channel"]
       \/ /\ tx[t].op = "stop"
          /\ active # tx[t].rel \/ paused
          /\ tx' = [tx EXCEPT ![t] = Idle]
    /\ UNCHANGED <<releases, active, paused, begun>>

GoesLive(t) == tx[t].op \in {"publish", "approve", "rollback"}

Leaves(t) == tx[t].op \in {"revoke", "reject", "request_changes"} /\ tx[t].active = tx[t].rel

Fallbacks(t) == {p \in Release \ {tx[t].rel} :
    releases[p].status = "superseded" /\ Cleared(releases[p])}

\* The release that the channel serves, or the newest one to fall back to.
Peers(t) ==
    IF GoesLive(t)
    THEN {p \in {tx[t].active} \ {None, tx[t].rel} : Exists(releases[p])}
    ELSE {p \in Fallbacks(t) : Leaves(t) /\ \A q \in Fallbacks(t) : releases[q].seq <= releases[p].seq}

ReadPeer(t) ==
    /\ tx[t].pc = "channel"
    /\ LET place == IF tx[t].op = "rollback" THEN "peer" ELSE "writing"
       IN  \/ /\ Peers(t) = {}
              /\ tx' = [tx EXCEPT ![t].pc = place]
           \/ \E p \in Peers(t) :
                tx' = [tx EXCEPT ![t].peer = p, ![t].other = releases[p], ![t].pc = place]
    /\ UNCHANGED <<releases, active, paused, begun>>

-----------------------------------------------------------------------------
(* Writing *)

\* activate_channel refuses to demote a newer live release.
Demotes(t) ==
    /\ tx[t].op = "approve"
    /\ tx[t].peer # None
    /\ Live(tx[t].other)
    /\ tx[t].other.seq > tx[t].mine.seq

\* The handler ends in _set_channel_active.
Moves(t) == GoesLive(t) /\ UsesChannel(t) /\ ~Demotes(t)

Written(t) ==
    LET o == tx[t].op
        w == tx[t].mine
    IN  [status |->
            CASE o \in {"publish", "rollback"} -> "published"
              [] o \in {"pause", "stop"} -> "paused"
              [] o \in {"revoke", "reject"} -> "revoked"
              [] o = "delete" -> "deleted"
              [] OTHER -> w.status,
         review |->
            CASE o = "approve" -> "approved"
              [] o = "reject" -> "rejected"
              [] o = "request_changes" -> "changes_requested"
              [] OTHER -> w.review,
         seq |-> IF o = "delete" THEN 0 ELSE tx[t].next,
         version |-> w.version + 1]

\* The peer is superseded, or comes back; a paused one is not written at all.
WritesPeer(t) ==
    /\ tx[t].peer # None
    /\ \/ Leaves(t)
       \/ Moves(t) /\ tx[t].other.status = "published"

WrittenPeer(t) ==
    [tx[t].other EXCEPT !.status = IF Leaves(t) THEN "published" ELSE "superseded", !.version = @ + 1]

AlwaysFresh(t) == TRUE

\* version_id_col: an UPDATE matches only the version that was read.
Fresh(t) ==
    /\ releases[tx[t].rel].version = tx[t].mine.version
    /\ WritesPeer(t) => releases[tx[t].peer].version = tx[t].other.version

NewActive(t) ==
    CASE Moves(t) -> tx[t].rel
      [] Leaves(t) -> tx[t].peer
      [] tx[t].op = "delete" /\ tx[t].active = tx[t].rel -> None
      [] OTHER -> tx[t].active

NewPausedMixedUp(t) ==
    CASE Moves(t) -> FALSE
      [] tx[t].op \in {"pause", "stop"} /\ tx[t].active = tx[t].rel -> TRUE
      [] OTHER -> tx[t].active

NewPaused(t) ==
    CASE Moves(t) -> FALSE
      [] tx[t].op \in {"pause", "stop"} /\ tx[t].active = tx[t].rel -> TRUE
      [] tx[t].op = "delete" /\ tx[t].active = tx[t].rel -> FALSE
      [] OTHER -> tx[t].paused

\* A column goes into the UPDATE only if the handler changed what it had read.
Column(new, read, now) == IF new # read THEN new ELSE now

\* uq_release_project_sequence
SequenceFree(t) ==
    Written(t).seq # 0 => \A x \in Release \ {tx[t].rel} : releases[x].seq # Written(t).seq

Commit(t) ==
    /\ tx[t].pc = "writing"
    /\ Fresh(t)
    /\ SequenceFree(t)
    /\ releases' = [x \in Release |->
            IF x = tx[t].rel THEN Written(t)
            ELSE IF x = tx[t].peer /\ WritesPeer(t) THEN WrittenPeer(t)
            ELSE releases[x]]
    /\ active' = Column(NewActive(t), tx[t].active, active)
    /\ paused' = Column(NewPaused(t), tx[t].paused, paused)
    /\ tx' = [tx EXCEPT ![t] = Idle]
    /\ UNCHANGED begun

\* A stale version, a sequence taken meanwhile, a refusal or the process's end.
Abort(t) ==
    /\ tx[t].pc # "idle"
    /\ tx' = [tx EXCEPT ![t] = Idle]
    /\ UNCHANGED <<releases, active, paused, begun>>

-----------------------------------------------------------------------------
\* Between requests: numbered releases, at most one of them served.
Init ==
    /\ releases \in [Release ->
            [status : {"ready", "superseded", "published"}, review : {"pending", "approved"},
             seq : 0..MaxSeq, version : {1}]]
    /\ \A r \in Release :
        /\ releases[r].status = "ready" <=> releases[r].seq = 0
        /\ releases[r].status = "superseded" => Cleared(releases[r])
        /\ releases[r].status = "ready" => ~Cleared(releases[r])
        /\ \A q \in Release \ {r} : releases[q].seq = releases[r].seq => releases[r].seq = 0
        /\ releases[r].seq < 2 \/ \E q \in Release : releases[q].seq = releases[r].seq - 1
    /\ active \in Release \cup {None}
    /\ \A r \in Release : active = r <=> Live(releases[r])
    /\ paused = FALSE
    /\ tx = [t \in Transaction |-> Idle]
    /\ begun = 0

Next == \E t \in Transaction :
    \/ \E o \in Operations, r \in Release : Begin(t, o, r)
    \/ ReadSequence(t) \/ ReadChannel(t) \/ ReadPeer(t)
    \/ Commit(t) \/ Abort(t)

Spec == Init /\ [][Next]_vars

-----------------------------------------------------------------------------
(* Properties *)

\* Every variable keeps its type.
TypeOK ==
    /\ releases \in [Release -> Row]
    /\ active \in Release \cup {None}
    /\ paused \in BOOLEAN
    /\ tx \in [Transaction -> Transactions]
    /\ begun \in 0..MaxTransactions

\* However handlers of the same channel overlap, and although the channel's row has
\* no version, the channel points at a cleared release that is published or paused.
PointerSound ==
    active # None => /\ releases[active].status \in {"published", "paused"}
                     /\ Cleared(releases[active])

\* release_service.py: "approving an old pending version must not pull the channel
\* backwards."  An approval never replaces a newer live release by an older one.
ApprovalKeepsNewer ==
    [][\A t \in Transaction : \A q \in Release :
        (/\ tx[t].op = "approve" /\ tx[t].pc = "writing"
         /\ active = q /\ Live(releases[q])
         /\ releases[q].seq > tx[t].mine.seq) => active' # tx[t].rel]_vars
=============================================================================
