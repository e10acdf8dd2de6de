---------------------------- MODULE GuessAdapters ----------------------------
(***************************************************************************)
(* The two implementations of the game's unit of work side by side: each   *)
(* call is made of both, at the same time of day, one call after another.  *)
(* The tests see only the in-memory one; the question is what of the game  *)
(* they show holds of the Postgres one, which they never run, and what     *)
(* does not: the texts a player is sent, a round whose time is up, a game  *)
(* that is over.  The names differ from GuessGame's, so that one module    *)
(* can prove about both.                                                   *)
(***************************************************************************)
EXTENDS GuessRules

CONSTANTS
    MaxTime,      \* bound on the time of day
    MaxTokens     \* bound on the share tokens the in-memory game hands out

ASSUME AdaptersAssumption == MaxTime \in Nat /\ MaxTokens \in Nat \ {0}

VARIABLES
    time,
    pg, mem,      \* the two stores, each in Stores
    pgSaid, memSaid, \* the code each answered the last call with
    pgSent, memSent  \* and the round it sent with it, if any: a set of at most one

sides == <<time, pg, mem, pgSaid, memSaid, pgSent, memSent>>

BothInit ==
    /\ time = 0
    /\ pg = EmptyStore /\ mem = EmptyStore
    /\ pgSaid = "ok" /\ memSaid = "ok"
    /\ pgSent = {} /\ memSent = {}

Sent(answer, g, o, content) ==
    IF answer.code = "ok" /\ o \in Orders
    THEN LET r == answer.st.rounds[<<g, o>>]
         IN  {[view |-> toRoundView(r), content |-> content, late |-> time >= r.expires]}
    ELSE {}

\* advanceToNextRound sends the round it opens, and none once the game is completed.
NextRound(answer, g, content) ==
    IF answer.code = "ok" /\ answer.st.games[g].status # "completed"
    THEN Sent(answer, g, answer.st.games[g].cur + 1, content)
    ELSE {}

Both(ofPg, ofMem) ==
    /\ pg' = ofPg.st /\ pgSaid' = ofPg.code
    /\ mem' = ofMem.st /\ memSaid' = ofMem.code
    /\ UNCHANGED time

\* Calls that send a round: o of the one store's game, q of the other's.
BothSend(ofPg, ofMem, g, o, q) ==
    \E p \in {ofPg}, m \in {ofMem} :
        /\ Both(p, m)
        /\ pgSent' = Sent(p, g, o, PgContent)
        /\ memSent' = Sent(m, g, q, MemContent)

Create(g, s) ==
    /\ \/ /\ pg.games[g] = NoRow \/ g \in DailyOf(pg, s)
          /\ Both(createOrResumeDailyGame(pg, g, s, time),
                  createOrResumeDailyGame(mem, g, s, time))
       \/ /\ pg.games[g] = NoRow
          /\ Both(createFreeplayGame(pg, g, s, time), createFreeplayGame(mem, g, s, time))
    /\ pgSent' = {} /\ memSent' = {}

GetRound(g, s) ==
    BothSend(PgCurrentRound(pg, g, s, time), MemCurrentRound(mem, g, s, time),
             g, pg.games[g].cur + 1, mem.games[g].cur + 1)

Hint(g, o, s) ==
    BothSend(PgHint(pg, g, o, s, time), MemHint(mem, g, o, s, time), g, o, o)

Guess(g, o, c, s) ==
    BothSend(PgGuess(pg, g, o, c, s, time), MemGuess(mem, g, o, c, s, time), g, o, o)

Advance(g, s) ==
    /\ mem.games[g] # NoRow => mem.games[g].token < MaxTokens
    /\ \E p \in {PgAdvance(pg, g, s, time)}, m \in {MemAdvance(mem, g, s, time)} :
        /\ Both(p, m)
        /\ pgSent' = NextRound(p, g, PgContent)
        /\ memSent' = NextRound(m, g, MemContent)

Passes ==
    /\ time < MaxTime
    /\ time' = time + 1
    /\ UNCHANGED <<pg, mem, pgSaid, memSaid, pgSent, memSent>>

\* A call about one game.
Call(g, s) ==
    \/ Create(g, s) \/ GetRound(g, s) \/ Advance(g, s)
    \/ \E o \in Orders : Hint(g, o, s) \/ \E c \in Choices : Guess(g, o, c, s)

BothNext == (\E g \in Games, s \in Players : Call(g, s)) \/ Passes

BothSpec == BothInit /\ [][BothNext]_sides

-----------------------------------------------------------------------------
(* Properties. *)

\* The same round.  A round whose time is up may be marked expired in Memory alone: Postgres
\* has nothing that keeps such a mark.
SameRound(r, q) ==
    \/ r = NoRow /\ q = NoRow
    \/ /\ r # NoRow /\ q # NoRow
       /\ r.hints = q.hints /\ r.wrong = q.wrong /\ r.score = q.score /\ r.expires = q.expires
       /\ \/ r.status = q.status
          \/ r.status = "active" /\ q.status = "expired" /\ time >= r.expires

\* The same game, completed or not.  Memory's may have been abandoned by a call that leaves
\* Postgres' in progress, and advanced past its last round once it is completed.
SameGame(g) ==
    \/ pg.games[g] = NoRow /\ mem.games[g] = NoRow
    \/ LET a == pg.games[g]  b == mem.games[g] IN
       /\ a # NoRow /\ b # NoRow
       /\ a.owner = b.owner /\ a.mode = b.mode /\ a.score = b.score
       /\ (a.status = "completed") = (b.status = "completed")
       /\ (a.token > 0) = (b.token > 0)
       /\ \/ a.cur = b.cur
          \/ a.status = "completed" /\ a.cur < b.cur

\* The tests' implementation and production's keep the same game for calls made one
\* after another: the same rounds with the same points, hints and errors, the same
\* guesses on record, the same completion, however long the rounds are left alone.  What
\* is compared is what they keep; for what they send, see AnswersAgree.
SameGameKept ==
    /\ pg.guesses = mem.guesses
    /\ \A g \in Games : SameGame(g)
    /\ \A g \in Games, o \in Orders : SameRound(pg.rounds[<<g, o>>], mem.rounds[<<g, o>>])

Completed(g) == pg.games[g] # NoRow /\ pg.games[g].status = "completed"

\* The same round sent, but for its texts and names.  Of a round whose time is up Memory may
\* send that it is expired, with the answer, and Postgres that it is active, without it.
SentAlike(ofPg, ofMem) ==
    /\ ofPg = {} <=> ofMem = {}
    /\ \A a \in ofPg, b \in ofMem :
        /\ a.late = b.late
        /\ \/ a.view = b.view
           \/ /\ a.late
              /\ a.view.status = "active" /\ b.view.status = "expired"
              /\ a.view.hints = b.view.hints /\ a.view.wrong = b.view.wrong

\* They answer a call about a game that is not completed alike: with the same code, and with
\* the same round as far as SentAlike goes, which leaves out every text a player is shown and
\* what is said of a round whose time is up.
AnswersAgree ==
    [][\A g \in Games, s \in Players :
        Call(g, s) /\ ~Completed(g) => pgSaid' = memSaid' /\ SentAlike(pgSent', memSent')]_sides

\* game/unit-of-work.ts calls the in-memory implementation "a faithful implementation used by
\* every domain test": a player would be sent what the tests see.
SentAsTested == pgSaid = memSaid => pgSent = memSent
=============================================================================
