---------------------- MODULE ChannelTransactionsProofs ----------------------
(***************************************************************************)
(* Proof that any number of overlapping handlers leave the channel's       *)
(* pointer sound, although the channel's row carries no version.  The      *)
(* reason is in what a handler may still believe when it commits: every    *)
(* commit that moves the channel to a release writes that release's row,   *)
(* so a handler whose own release is unchanged and that saw the channel    *)
(* elsewhere knows that the channel is elsewhere still.                    *)
(***************************************************************************)
EXTENDS ChannelTransactions, TLAPS

\* A row that was read is the row that is there, or an older version of it.
Snapshot(w, x) ==
    /\ w.version <= releases[x].version
    /\ w.version = releases[x].version => releases[x] = w

\* What a handler under way has read and may rely on.
Reads(t) ==
    /\ tx[t].rel \in Release
    /\ Snapshot(tx[t].mine, tx[t].rel)
    /\ Accepts(tx[t].op, tx[t].mine)
    /\ tx[t].peer # None =>
        /\ tx[t].pc \in {"peer", "writing"}
        /\ tx[t].peer # tx[t].rel
        /\ Snapshot(tx[t].other, tx[t].peer)
        /\ GoesLive(t) => tx[t].peer = tx[t].active
        /\ ~GoesLive(t) => Leaves(t) /\ Cleared(tx[t].other)

\* A handler whose release has not changed and that read the channel elsewhere.
Elsewhere(t) ==
    /\ tx[t].pc \in {"channel", "peer", "writing"}
    /\ UsesChannel(t)
    /\ tx[t].active # tx[t].rel
    /\ tx[t].mine.version = releases[tx[t].rel].version

IInv ==
    /\ TypeOK
    /\ PointerSound
    /\ \A t \in Transaction : tx[t].pc # "idle" => Reads(t)
    /\ \A t \in Transaction : Elsewhere(t) => active # tx[t].rel

-----------------------------------------------------------------------------
LEMMA IdleType == NoRow \in Row /\ Idle \in Transactions
BY TransactionsAssumption DEF NoRow, Idle, Row, Transactions, Place, Operation

LEMMA InitInv == Init => IInv
<1> SUFFICES ASSUME Init PROVE IInv
  OBVIOUS
<1>1. TypeOK
  <2>1. releases \in [Release -> Row]
    BY DEF Init, Row
  <2>2. tx \in [Transaction -> Transactions]
    BY IdleType DEF Init
  <2>3. active \in Release \cup {None} /\ begun \in 0..MaxTransactions
    BY TransactionsAssumption DEF Init
  <2>4. paused \in BOOLEAN
    BY DEF Init
  <2>5. QED
    BY <2>1, <2>2, <2>3, <2>4 DEF TypeOK
<1>2. PointerSound
  BY DEF Init, PointerSound, Live, Cleared, Exists
<1>3. \A t \in Transaction : tx[t].pc = "idle"
  BY DEF Init, Idle
<1>4. QED
  BY <1>1, <1>2, <1>3 DEF IInv, Elsewhere

-----------------------------------------------------------------------------
\* A step of t that writes no table disturbs nobody else.
LEMMA ReadingInv ==
    ASSUME IInv, NEW t \in Transaction,
           tx' \in [Transaction -> Transactions],
           \A u \in Transaction \ {t} : tx'[u] = tx[u],
           begun' \in 0..MaxTransactions,
           UNCHANGED <<releases, active, paused>>,
           tx'[t].pc # "idle" => Reads(t)',
           Elsewhere(t)' => active # tx'[t].rel
    PROVE  IInv'
<1>1. TypeOK' /\ PointerSound'
  BY DEF IInv, TypeOK, PointerSound
<1>2. ASSUME NEW u \in Transaction \ {t}
      PROVE  /\ Reads(u)' <=> Reads(u)
             /\ Elsewhere(u)' <=> Elsewhere(u)
  BY <1>2 DEF Reads, Elsewhere, Snapshot, UsesChannel, GoesLive, Leaves
<1>3. QED
  BY <1>1, <1>2 DEF IInv

LEMMA BeginInv ==
    ASSUME IInv, NEW t \in Transaction, NEW o \in Operations, NEW r \in Release, Begin(t, o, r)
    PROVE  IInv'
<1> DEFINE new == [Idle EXCEPT !.pc = "loaded", !.op = o, !.rel = r,
                               !.mine = releases[r], !.next = releases[r].seq]
<1>1. /\ new \in Transactions
      /\ new.pc = "loaded" /\ new.op = o /\ new.rel = r /\ new.mine = releases[r] /\ new.peer = None
  BY IdleType, TransactionsAssumption
  DEF IInv, TypeOK, Begin, Idle, Transactions, Row, Place, Operation
<1>2. tx' = [tx EXCEPT ![t] = new] /\ Accepts(o, releases[r])
  BY DEF Begin
<1> HIDE DEF new
<1>3. /\ tx' \in [Transaction -> Transactions]
      /\ tx'[t] = new /\ \A u \in Transaction \ {t} : tx'[u] = tx[u]
  BY <1>1, <1>2 DEF IInv, TypeOK
<1>4. begun' \in 0..MaxTransactions /\ UNCHANGED <<releases, active, paused>>
  BY TransactionsAssumption DEF Begin, IInv, TypeOK
<1>5. Snapshot(releases[r], r)'
  BY <1>4 DEF Snapshot, IInv, TypeOK, Row
<1>6. Reads(t)' /\ ~Elsewhere(t)'
  BY <1>1, <1>2, <1>3, <1>4, <1>5 DEF Reads, Elsewhere, Snapshot
<1>7. QED
  BY <1>3, <1>4, <1>6, ReadingInv

\* A handler that ends without writing, by Abort or an automatic stop not needed.
LEMMA EndInv ==
    ASSUME IInv, NEW t \in Transaction, tx' = [tx EXCEPT ![t] = Idle],
           UNCHANGED <<releases, active, paused, begun>>
    PROVE  IInv'
<1>1. /\ tx' \in [Transaction -> Transactions]
      /\ tx'[t].pc = "idle" /\ \A u \in Transaction \ {t} : tx'[u] = tx[u]
  BY IdleType DEF IInv, TypeOK, Idle
<1>2. begun' \in 0..MaxTransactions
  BY DEF IInv, TypeOK
<1>3. QED
  BY <1>1, <1>2, ReadingInv DEF Elsewhere

LEMMA ReadSequenceInv ==
    ASSUME IInv, NEW t \in Transaction, ReadSequence(t) PROVE IInv'
<1>1. PICK n \in 0..MaxSeq, p \in {"numbered", "writing"} :
        /\ tx' = [tx EXCEPT ![t].next = n, ![t].pc = p]
        /\ \/ p = "numbered" /\ tx[t].pc = "loaded"
           \/ p = "writing" /\ tx[t].pc = "peer"
  <2>1. CASE tx[t].op = "publish" /\ tx[t].pc = "loaded" /\ tx' = [tx EXCEPT ![t].pc = "numbered"]
    <3>1. tx[t] \in Transactions
      BY DEF IInv, TypeOK
    <3>2. tx[t].next \in 0..MaxSeq /\ tx' = [tx EXCEPT ![t].next = tx[t].next, ![t].pc = "numbered"]
      BY <2>1, <3>1 DEF Transactions, IInv, TypeOK
    <3>3. QED
      BY <2>1, <3>2
  <2>2. NextSequences \subseteq 0..MaxSeq
    BY TransactionsAssumption DEF NextSequences
  <2>3. QED
    BY <2>1, <2>2 DEF ReadSequence
<1>2. tx[t] \in Transactions
  BY DEF IInv, TypeOK
<1>3. /\ tx' \in [Transaction -> Transactions]
      /\ \A u \in Transaction \ {t} : tx'[u] = tx[u]
      /\ tx'[t].pc = p /\ tx'[t].op = tx[t].op /\ tx'[t].rel = tx[t].rel /\ tx'[t].mine = tx[t].mine
      /\ tx'[t].active = tx[t].active /\ tx'[t].peer = tx[t].peer /\ tx'[t].other = tx[t].other
  BY <1>1, <1>2 DEF IInv, TypeOK, Transactions, Place
<1>4. UNCHANGED <<releases, active, paused, begun>>
  BY DEF ReadSequence
<1>5. Reads(t)
  BY <1>1 DEF IInv
<1>6. Reads(t)'
  BY <1>1, <1>3, <1>4, <1>5 DEF Reads, Snapshot, GoesLive, Leaves
<1>7. Elsewhere(t)' => active # tx'[t].rel
  BY <1>1, <1>3, <1>4 DEF IInv, Elsewhere, UsesChannel
<1>8. begun' \in 0..MaxTransactions
  BY <1>4 DEF IInv, TypeOK
<1>9. QED
  BY <1>3, <1>4, <1>6, <1>7, <1>8, ReadingInv

LEMMA ReadChannelInv ==
    ASSUME IInv, NEW t \in Transaction, ReadChannel(t) PROVE IInv'
<1>1. tx[t] \in Transactions /\ Reads(t) /\ tx[t].pc \in {"loaded", "numbered"} /\ tx[t].peer = None
  BY DEF IInv, TypeOK, ReadChannel, Reads
<1>2. UNCHANGED <<releases, active, paused, begun>> /\ begun' \in 0..MaxTransactions
  BY DEF ReadChannel, IInv, TypeOK
<1>3. CASE ~UsesChannel(t) /\ tx' = [tx EXCEPT ![t].pc = "writing"]
  <2>1. /\ tx' \in [Transaction -> Transactions]
        /\ \A u \in Transaction \ {t} : tx'[u] = tx[u]
        /\ tx'[t].op = tx[t].op /\ tx'[t].rel = tx[t].rel
        /\ tx'[t].mine = tx[t].mine /\ tx'[t].peer = None
    BY <1>1, <1>3 DEF IInv, TypeOK, Transactions, Place
  <2>2. Reads(t)' /\ ~Elsewhere(t)'
    BY <1>1, <1>2, <1>3, <2>1 DEF Reads, Snapshot, Elsewhere, UsesChannel
  <2>3. QED
    BY <1>2, <2>1, <2>2, ReadingInv
<1>4. CASE tx' = [tx EXCEPT ![t].active = active, ![t].paused = paused, ![t].pc = "channel"]
  <2>1. /\ tx' \in [Transaction -> Transactions]
        /\ \A u \in Transaction \ {t} : tx'[u] = tx[u]
        /\ tx'[t].op = tx[t].op /\ tx'[t].rel = tx[t].rel /\ tx'[t].active = active
        /\ tx'[t].mine = tx[t].mine /\ tx'[t].peer = None
    BY <1>1, <1>4 DEF IInv, TypeOK, Transactions, Place
  <2>2. Reads(t)'
    BY <1>1, <1>2, <2>1 DEF Reads, Snapshot
  <2>3. Elsewhere(t)' => active # tx'[t].rel
    BY <2>1 DEF Elsewhere
  <2>4. QED
    BY <1>2, <2>1, <2>2, <2>3, ReadingInv
<1>5. CASE tx' = [tx EXCEPT ![t] = Idle]
  BY <1>2, <1>5, EndInv
<1>6. QED
  BY <1>3, <1>4, <1>5 DEF ReadChannel

LEMMA ReadPeerInv ==
    ASSUME IInv, NEW t \in Transaction, ReadPeer(t) PROVE IInv'
<1> DEFINE place == IF tx[t].op = "rollback" THEN "peer" ELSE "writing"
<1>1. tx[t] \in Transactions /\ Reads(t) /\ tx[t].pc = "channel" /\ tx[t].peer = None
  BY DEF IInv, TypeOK, ReadPeer, Reads
<1>2. UNCHANGED <<releases, active, paused, begun>> /\ begun' \in 0..MaxTransactions
  BY DEF ReadPeer, IInv, TypeOK
<1>3. place \in {"peer", "writing"}
  OBVIOUS
<1> HIDE DEF place
<1>4. CASE tx' = [tx EXCEPT ![t].pc = place]
  <2>1. /\ tx' \in [Transaction -> Transactions]
        /\ \A u \in Transaction \ {t} : tx'[u] = tx[u]
        /\ tx'[t].op = tx[t].op /\ tx'[t].rel = tx[t].rel /\ tx'[t].active = tx[t].active
        /\ tx'[t].mine = tx[t].mine /\ tx'[t].peer = None
    BY <1>1, <1>3, <1>4 DEF IInv, TypeOK, Transactions, Place
  <2>2. Reads(t)'
    BY <1>1, <1>2, <2>1 DEF Reads, Snapshot
  <2>3. Elsewhere(t)' => active # tx'[t].rel
    BY <1>1, <1>2, <2>1 DEF IInv, Elsewhere, UsesChannel
  <2>4. QED
    BY <1>2, <2>1, <2>2, <2>3, ReadingInv
<1>5. ASSUME NEW p \in Peers(t),
             tx' = [tx EXCEPT ![t].peer = p, ![t].other = releases[p], ![t].pc = place]
      PROVE  IInv'
  <2>1. /\ p \in Release /\ p # tx[t].rel /\ p # None
        /\ GoesLive(t) => p = tx[t].active
        /\ ~GoesLive(t) => Leaves(t) /\ Cleared(releases[p])
    <3>1. CASE GoesLive(t)
      BY <1>1, <1>5, <3>1 DEF Peers, Transactions
    <3>2. CASE ~GoesLive(t)
      BY <1>5, <3>2, TransactionsAssumption DEF Peers, Fallbacks
    <3>3. QED
      BY <3>1, <3>2
  <2>2. /\ tx' \in [Transaction -> Transactions]
        /\ \A u \in Transaction \ {t} : tx'[u] = tx[u]
        /\ tx'[t].op = tx[t].op /\ tx'[t].rel = tx[t].rel /\ tx'[t].active = tx[t].active
        /\ tx'[t].mine = tx[t].mine /\ tx'[t].peer = p /\ tx'[t].other = releases[p]
        /\ tx'[t].pc \in {"peer", "writing"}
    BY <1>1, <1>3, <1>5, <2>1 DEF IInv, TypeOK, Transactions, Place
  <2>3. Snapshot(releases[p], p)
    BY <2>1 DEF Snapshot, IInv, TypeOK, Row
  <2>4. Reads(t)'
    BY <1>1, <1>2, <2>1, <2>2, <2>3 DEF Reads, Snapshot, GoesLive, Leaves
  <2>5. Elsewhere(t)' => active # tx'[t].rel
    BY <1>1, <1>2, <2>2 DEF IInv, Elsewhere, UsesChannel
  <2>6. QED
    BY <1>2, <2>2, <2>4, <2>5, ReadingInv
<1>6. QED
  BY <1>4, <1>5 DEF ReadPeer, place

-----------------------------------------------------------------------------
(* The commit *)

LEMMA WrittenRow ==
    ASSUME NEW t, tx[t] \in Transactions
    PROVE  /\ Written(t) \in Row /\ Written(t).version = tx[t].mine.version + 1
           /\ WrittenPeer(t) \in Row /\ WrittenPeer(t).version = tx[t].other.version + 1
<1>1. tx[t].mine \in Row /\ tx[t].other \in Row /\ tx[t].next \in 0..MaxSeq
  BY DEF Transactions
<1>2. Written(t).status \in {"ready", "published", "paused", "superseded", "revoked", "deleted"}
  BY <1>1 DEF Written, Row
<1>3. Written(t).review \in {"pending", "approved", "rejected", "changes_requested"}
  BY <1>1 DEF Written, Row
<1>4. Written(t).seq \in 0..MaxSeq
  BY <1>1, TransactionsAssumption DEF Written
<1>5. Written(t).version \in Nat /\ Written(t).version = tx[t].mine.version + 1
  BY <1>1 DEF Written, Row
<1>6. Written(t) \in Row
  <2>1. Written(t) = [status |-> Written(t).status, review |-> Written(t).review,
                      seq |-> Written(t).seq, version |-> Written(t).version]
    BY DEF Written
  <2> HIDE DEF Written
  <2>2. QED
    BY <1>2, <1>3, <1>4, <1>5, <2>1 DEF Row
<1>7. ASSUME NEW w \in Row, NEW s \in {"published", "superseded"}
      PROVE  /\ [w EXCEPT !.status = s, !.version = @ + 1] \in Row
             /\ [w EXCEPT !.status = s, !.version = @ + 1].version = w.version + 1
  <2>1. w.version + 1 \in Nat
    BY DEF Row
  <2>2. QED
    BY <2>1 DEF Row
<1>8. WrittenPeer(t) \in Row /\ WrittenPeer(t).version = tx[t].other.version + 1
  <2>1. CASE Leaves(t)
    BY <1>1, <1>7, <2>1 DEF WrittenPeer
  <2>2. CASE ~Leaves(t)
    BY <1>1, <1>7, <2>2 DEF WrittenPeer
  <2>3. QED
    BY <2>1, <2>2
<1>9. QED
  BY <1>5, <1>6, <1>8

\* Its rows are well formed, and come one version after those they replace.
LEMMA CommitRows ==
    ASSUME IInv, NEW t \in Transaction, Commit(t)
    PROVE  /\ tx[t].rel \in Release /\ releases[tx[t].rel] = tx[t].mine
           /\ releases' \in [Release -> Row]
           /\ releases'[tx[t].rel] = Written(t)
           /\ WritesPeer(t) => /\ tx[t].peer \in Release \ {tx[t].rel}
                               /\ releases[tx[t].peer] = tx[t].other
                               /\ releases'[tx[t].peer] = WrittenPeer(t)
           /\ \A x \in Release :
                \/ releases'[x] = releases[x]
                \/ /\ x = tx[t].rel \/ (x = tx[t].peer /\ WritesPeer(t))
                   /\ releases'[x].version = releases[x].version + 1
<1>1. tx[t] \in Transactions /\ Reads(t) /\ Fresh(t)
  <2>1. tx[t].pc = "writing" /\ Fresh(t)
    BY DEF Commit
  <2>2. tx[t] \in Transactions
    BY DEF IInv, TypeOK
  <2>3. Reads(t)
    BY <2>1 DEF IInv
  <2>4. QED
    BY <2>1, <2>2, <2>3
<1>2. tx[t].rel \in Release /\ releases[tx[t].rel] = tx[t].mine
  BY <1>1 DEF Fresh, Reads, Snapshot
<1>3. WritesPeer(t) => tx[t].peer \in Release \ {tx[t].rel} /\ releases[tx[t].peer] = tx[t].other
  <2> SUFFICES ASSUME WritesPeer(t)
               PROVE  tx[t].peer \in Release \ {tx[t].rel} /\ releases[tx[t].peer] = tx[t].other
    OBVIOUS
  <2>1. tx[t].peer # None /\ tx[t].peer \in Release
    BY <1>1 DEF WritesPeer, Transactions
  <2>2. tx[t].peer # tx[t].rel /\ Snapshot(tx[t].other, tx[t].peer)
    BY <1>1, <2>1 DEF Reads
  <2>3. QED
    BY <1>1, <2>1, <2>2 DEF Fresh, Snapshot
<1>4. /\ Written(t) \in Row /\ Written(t).version = tx[t].mine.version + 1
      /\ WrittenPeer(t) \in Row /\ WrittenPeer(t).version = tx[t].other.version + 1
  BY <1>1, WrittenRow
<1>5. releases' = [x \in Release |->
            IF x = tx[t].rel THEN Written(t)
            ELSE IF x = tx[t].peer /\ WritesPeer(t) THEN WrittenPeer(t)
            ELSE releases[x]]
  BY DEF Commit
<1>6. releases' \in [Release -> Row]
  <2>1. releases \in [Release -> Row]
    BY DEF IInv, TypeOK
  <2>2. QED
    BY <1>4, <1>5, <2>1
<1>7. /\ releases'[tx[t].rel] = Written(t)
      /\ WritesPeer(t) => releases'[tx[t].peer] = WrittenPeer(t)
      /\ \A x \in Release : \/ releases'[x] = releases[x]
                            \/ x = tx[t].rel
                            \/ x = tx[t].peer /\ WritesPeer(t)
  BY <1>2, <1>3, <1>5
<1>8. ASSUME NEW x \in Release
      PROVE  \/ releases'[x] = releases[x]
             \/ /\ x = tx[t].rel \/ (x = tx[t].peer /\ WritesPeer(t))
                /\ releases'[x].version = releases[x].version + 1
  <2>1. CASE x = tx[t].rel
    BY <1>2, <1>4, <1>7, <2>1
  <2>2. CASE x = tx[t].peer /\ WritesPeer(t)
    BY <1>3, <1>4, <1>7, <2>2
  <2>3. QED
    BY <1>7, <2>1, <2>2
<1>9. QED
  BY <1>2, <1>3, <1>6, <1>7, <1>8

\* Where a commit leaves the pointer: where it was, on a row it wrote, or nowhere.
LEMMA CommitPointer ==
    ASSUME IInv, NEW t \in Transaction, Commit(t)
    PROVE  \/ active' = None
           \/ active' = active /\ active # tx[t].rel /\ ~(active = tx[t].peer /\ WritesPeer(t))
           \/ /\ active' = tx[t].rel
              /\ Cleared(Written(t)) /\ Written(t).status \in {"published", "paused"}
           \/ /\ WritesPeer(t) /\ active' = tx[t].peer
              /\ Cleared(WrittenPeer(t)) /\ WrittenPeer(t).status \in {"published", "paused"}
<1>1. tx[t] \in Transactions /\ Reads(t) /\ tx[t].pc = "writing"
  BY DEF IInv, TypeOK, Commit
<1>2. /\ tx[t].rel \in Release /\ tx[t].rel # None
      /\ releases[tx[t].rel] = tx[t].mine
  BY CommitRows, TransactionsAssumption
<1>3. active' = Column(NewActive(t), tx[t].active, active)
  BY DEF Commit
<1>4. UsesChannel(t) /\ tx[t].active # tx[t].rel => active # tx[t].rel
  BY <1>1, <1>2 DEF IInv, Elsewhere
<1>5. active = tx[t].rel => Cleared(tx[t].mine) /\ tx[t].mine.status \in {"published", "paused"}
  BY <1>2 DEF IInv, PointerSound
<1>6. CASE Moves(t)
  <2>0. ~Leaves(t) /\ tx[t].op # "delete"
    BY <1>6 DEF Moves, GoesLive, Leaves
  <2>1. Cleared(Written(t)) /\ Written(t).status = "published"
    BY <1>1, <1>6 DEF Moves, GoesLive, UsesChannel, Written, Cleared, Exists, Reads, Accepts
  <2>2. CASE tx[t].active # tx[t].rel
    BY <1>3, <1>6, <2>0, <2>1, <2>2 DEF NewActive, Column
  <2>3. CASE tx[t].active = tx[t].rel
    <3>1. ~WritesPeer(t)
      BY <1>1, <1>6, <2>3 DEF Moves, WritesPeer, Reads
    <3>2. active' = active
      BY <1>3, <1>6, <2>0, <2>3 DEF NewActive, Column
    <3>3. QED
      BY <2>1, <3>1, <3>2
  <2>4. QED
    BY <2>2, <2>3
<1>7. CASE Leaves(t)
  <2>1. ~Moves(t) /\ ~GoesLive(t)
    BY <1>7 DEF Moves, GoesLive, Leaves
  <2>2. active' = tx[t].peer
    BY <1>1, <1>2, <1>3, <1>7, <2>1 DEF NewActive, Column, Leaves, Reads
  <2>3. CASE tx[t].peer # None
    <3>1. WritesPeer(t) /\ Cleared(tx[t].other)
      BY <1>1, <1>7, <2>1, <2>3 DEF WritesPeer, Reads
    <3>2. tx[t].other \in Row
      BY <1>1 DEF Transactions
    <3>3. WrittenPeer(t).status = "published" /\ WrittenPeer(t).review = tx[t].other.review
      BY <1>7, <3>2 DEF WrittenPeer, Row
    <3>4. QED
      BY <2>2, <3>1, <3>3 DEF Cleared, Exists
  <2>4. QED
    BY <2>2, <2>3
<1>8. CASE ~Moves(t) /\ ~Leaves(t)
  <2>1. ~WritesPeer(t)
    BY <1>8 DEF WritesPeer
  <2>2. CASE tx[t].op = "delete" /\ tx[t].active = tx[t].rel
    BY <1>2, <1>3, <1>8, <2>2 DEF NewActive, Column
  <2>3. CASE ~(tx[t].op = "delete" /\ tx[t].active = tx[t].rel)
    <3>1. active' = active
      BY <1>3, <1>8, <2>3 DEF NewActive, Column
    <3>2. ASSUME active = tx[t].rel
          PROVE  Cleared(Written(t)) /\ Written(t).status \in {"published", "paused"}
      <4>1. UsesChannel(t) => tx[t].active = tx[t].rel
        BY <1>4, <3>2
      <4>2. tx[t].op \in {"publish", "approve", "pause", "stop", "rollback"}
        <5>1. tx[t].op \notin {"publish", "approve"} => UsesChannel(t)
          BY DEF UsesChannel
        <5>2. tx[t].op \in Operation
          BY <1>1 DEF Transactions
        <5>3. QED
          BY <1>8, <2>3, <4>1, <5>1, <5>2 DEF Leaves, Operation
      <4>3. tx[t].op # "publish"
        BY <1>5, <1>8, <3>2 DEF Moves, UsesChannel, GoesLive, Demotes
      <4>4. QED
        BY <1>5, <3>2, <4>2, <4>3 DEF Written, Cleared, Exists
    <3>3. QED
      BY <2>1, <3>1, <3>2
  <2>4. QED
    BY <2>2, <2>3
<1>9. QED
  BY <1>6, <1>7, <1>8

\* Nobody else's view is made wrong: what it read has aged, or is still so.
LEMMA CommitInv ==
    ASSUME IInv, NEW t \in Transaction, Commit(t) PROVE IInv'
<1>1. /\ tx' = [tx EXCEPT ![t] = Idle]
      /\ paused' = Column(NewPaused(t), tx[t].paused, paused)
      /\ begun' = begun
  BY DEF Commit
<1>2. /\ tx' \in [Transaction -> Transactions]
      /\ tx'[t].pc = "idle" /\ \A u \in Transaction \ {t} : tx'[u] = tx[u]
  BY <1>1, IdleType DEF IInv, TypeOK, Idle
<1>3. tx[t] \in Transactions
  BY DEF IInv, TypeOK
<1>4. \A x \in Release : \/ releases'[x] = releases[x]
                         \/ releases'[x].version = releases[x].version + 1
  BY CommitRows
<1>5. releases' \in [Release -> Row] /\ tx[t].rel \in Release
  BY CommitRows
<1>6. TypeOK'
  <2>1. active' \in Release \cup {None}
    BY <1>3, <1>5, CommitPointer DEF IInv, TypeOK, Transactions
  <2>2. paused' \in BOOLEAN
    BY <1>1, <1>3 DEF IInv, TypeOK, Column, NewPaused, Transactions
  <2>3. begun' \in 0..MaxTransactions
    BY <1>1 DEF IInv, TypeOK
  <2>4. QED
    BY <1>2, <1>5, <2>1, <2>2, <2>3 DEF TypeOK
<1>7. PointerSound'
  <2>1. releases'[tx[t].rel] = Written(t) /\ WritesPeer(t) => releases'[tx[t].peer] = WrittenPeer(t)
    BY CommitRows
  <2>2. CASE active' = active /\ active # tx[t].rel /\ ~(active = tx[t].peer /\ WritesPeer(t))
    <3>1. active # None => releases'[active] = releases[active]
      BY <2>2, CommitRows DEF IInv, TypeOK
    <3>2. QED
      BY <2>2, <3>1 DEF IInv, PointerSound, Cleared, Exists
  <2>3. QED
    BY <2>1, <2>2, CommitRows, CommitPointer DEF PointerSound, Cleared, Exists
<1>8. ASSUME NEW u \in Transaction, tx'[u].pc # "idle" PROVE Reads(u)'
  <2>1. u # t /\ tx'[u] = tx[u] /\ Reads(u) /\ tx[u] \in Transactions
    BY <1>2, <1>8 DEF IInv, TypeOK
  <2>2. ASSUME NEW w \in Row, NEW x \in Release, Snapshot(w, x)
        PROVE  w.version <= releases'[x].version /\ (w.version = releases'[x].version => releases'[x] = w)
    <3>1. w.version \in Nat /\ releases[x].version \in Nat
      BY DEF IInv, TypeOK, Row
    <3>2. CASE releases'[x] = releases[x]
      BY <2>2, <3>2 DEF Snapshot
    <3>3. CASE releases'[x].version = releases[x].version + 1
      BY <2>2, <3>1, <3>3 DEF Snapshot
    <3>4. QED
      BY <1>4, <3>2, <3>3
  <2>3. tx[u].mine \in Row /\ tx[u].other \in Row /\ tx[u].peer \in Release \cup {None}
    BY <2>1 DEF Transactions
  <2>4. QED
    BY <2>1, <2>2, <2>3 DEF Reads, Snapshot, GoesLive, Leaves
<1>9. ASSUME NEW u \in Transaction, Elsewhere(u)' PROVE active' # tx'[u].rel
  <2>1. u # t /\ tx'[u] = tx[u]
    BY <1>2, <1>9 DEF Elsewhere
  <2>2. /\ tx[u].pc \in {"channel", "peer", "writing"}
        /\ UsesChannel(u) /\ tx[u].active # tx[u].rel
        /\ tx[u].mine.version = releases'[tx[u].rel].version
    BY <1>9, <2>1 DEF Elsewhere, UsesChannel
  <2>3. Reads(u) /\ tx[u] \in Transactions
    BY <2>2 DEF IInv, TypeOK
  <2>4. tx[u].rel \in Release /\ tx[u].mine \in Row /\ tx[u].mine.version <= releases[tx[u].rel].version
    BY <2>3 DEF Reads, Snapshot, Transactions
  <2>5. /\ tx[u].mine.version \in Nat /\ releases[tx[u].rel].version \in Nat
    BY <2>4 DEF IInv, TypeOK, Row
  <2>6. releases'[tx[u].rel].version # releases[tx[u].rel].version + 1
    BY <2>2, <2>4, <2>5
  <2>7. releases'[tx[u].rel] = releases[tx[u].rel]
    BY <1>4, <2>4, <2>6
  <2>8. active # tx[u].rel
    BY <2>2, <2>7 DEF IInv, Elsewhere
  <2>9. tx[u].rel # tx[t].rel /\ (WritesPeer(t) => tx[u].rel # tx[t].peer)
    <3>1. /\ releases[tx[t].rel] = tx[t].mine /\ releases'[tx[t].rel] = Written(t)
          /\ WritesPeer(t) => /\ releases[tx[t].peer] = tx[t].other
                              /\ releases'[tx[t].peer] = WrittenPeer(t)
      BY CommitRows
    <3>2. Written(t).version = tx[t].mine.version + 1 /\ WrittenPeer(t).version = tx[t].other.version + 1
      BY <1>3, WrittenRow
    <3>3. QED
      BY <2>6, <3>1, <3>2
  <2>10. tx[u].rel # None
    BY <2>4, TransactionsAssumption
  <2>11. QED
    BY <2>1, <2>8, <2>9, <2>10, CommitPointer
<1>10. QED
  BY <1>6, <1>7, <1>8, <1>9 DEF IInv

-----------------------------------------------------------------------------
LEMMA NextInv == IInv /\ [Next]_vars => IInv'
<1> SUFFICES ASSUME IInv, [Next]_vars PROVE IInv'
  OBVIOUS
<1>1. ASSUME NEW t \in Transaction, NEW o \in Operations, NEW r \in Release, Begin(t, o, r)
      PROVE  IInv'
  BY <1>1, BeginInv
<1>2. ASSUME NEW t \in Transaction, ReadSequence(t) PROVE IInv'
  BY <1>2, ReadSequenceInv
<1>3. ASSUME NEW t \in Transaction, ReadChannel(t) PROVE IInv'
  BY <1>3, ReadChannelInv
<1>4. ASSUME NEW t \in Transaction, ReadPeer(t) PROVE IInv'
  BY <1>4, ReadPeerInv
<1>5. ASSUME NEW t \in Transaction, Commit(t) PROVE IInv'
  BY <1>5, CommitInv
<1>6. ASSUME NEW t \in Transaction, Abort(t) PROVE IInv'
  BY <1>6, EndInv DEF Abort
<1>7. CASE UNCHANGED vars
  BY <1>7 DEF vars, IInv, TypeOK, PointerSound, Reads, Snapshot, Elsewhere,
              UsesChannel, GoesLive, Leaves
<1>8. QED
  BY <1>1, <1>2, <1>3, <1>4, <1>5, <1>6, <1>7 DEF Next

\* The invariant holds whatever the number of releases and of overlapping requests.
THEOREM InvariantHolds == Spec => []IInv
BY InitInv, NextInv, PTL DEF Spec

\* Tables and handlers under way keep their types.
THEOREM TypeCorrect == Spec => []TypeOK
<1>1. IInv => TypeOK
  BY DEF IInv
<1>2. QED
  BY <1>1, InvariantHolds, PTL

\* Overlapping handlers never leave the channel at a release that was revoked, deleted
\* or sent back, although nothing orders their writes to the channel's row.
THEOREM PointersAreSound == Spec => []PointerSound
<1>1. IInv => PointerSound
  BY DEF IInv
<1>2. QED
  BY <1>1, InvariantHolds, PTL
===============================================================================
