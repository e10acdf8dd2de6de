--------------------------- MODULE GuessGameProofs ---------------------------
(***************************************************************************)
(* What the guessing game promises for any number of players, games,       *)
(* rounds, choices, keys and overlapping requests.  A transaction takes    *)
(* one of five steps on the store (StoreStep); the invariant says that the *)
(* rows agree with one another, that a key runs once, and what a request   *)
(* at work may rely on.  The last part is about the two implementations    *)
(* of GuessAdapters: a call keeps their stores alike.                      *)
(***************************************************************************)
EXTENDS GuessGame, GuessAdapters, FiniteSetTheorems, WellFoundedInduction, TLAPS

FreshRound(now) ==
    [status |-> "active", hints |-> 1, wrong |-> 0, score |-> 0, expires |-> now + RoundExpiry]

\* The rows agree: a round is a game's, shows at least one post and was never marked
\* expired, a guess is on a round, and a completed game stands at its last round.
StoreSound(st) ==
    /\ \A g \in Games, o \in Orders : HasRound(st, g, o) =>
          /\ st.games[g] # NoRow
          /\ st.rounds[<<g, o>>].hints \in 1..Posts
          /\ st.rounds[<<g, o>>].status # "expired"
    /\ \A row \in st.guesses : HasRound(st, row.game, row.order)
    /\ \A g \in Games : st.games[g] # NoRow =>
          /\ st.games[g].cur <= Total(st, g)
          /\ st.games[g].status = "completed" => st.games[g].cur = Total(st, g)

-----------------------------------------------------------------------------
(* The steps a transaction takes on the store *)

Fields(st) == st = [games |-> st.games, rounds |-> st.rounds, guesses |-> st.guesses]

Created(st, new, g, now) ==
    /\ Fields(new)
    /\ st.games[g] = NoRow
    /\ \E s \in Players, mode \in Modes :
          new.games = [st.games EXCEPT ![g] = NewGame(s, mode, now)]
    /\ new.rounds = st.rounds
    /\ new.guesses = st.guesses

\* What a read and an advance may change of a game's row.
Moves(st, g, row, now) ==
    LET w == st.games[g]
    IN  /\ row \in GameRow
        /\ row.owner = w.owner /\ row.mode = w.mode /\ row.score = w.score
        /\ row.cur <= RoundsIn[w.mode]
        /\ w.status = "completed" => row.status = "completed" /\ row.token = w.token
        /\ row.status = "completed" => row.cur = RoundsIn[w.mode]
        /\ \/ row.cur = w.cur
           \/ /\ row.cur = w.cur + 1
              /\ HasRound(st, g, row.cur) => ~PgOpen(st, g, row.cur, now)

Moved(st, new, g, now) ==
    /\ Fields(new)
    /\ st.games[g] # NoRow
    /\ \E row \in GameRow :
          /\ Moves(st, g, row, now)
          /\ new.games = [st.games EXCEPT ![g] = row]
          /\ \/ new.rounds = st.rounds
             \/ \E o \in Orders :
                   /\ o > row.cur
                   /\ ~HasRound(st, g, o)
                   /\ new.rounds = [st.rounds EXCEPT ![<<g, o>>] = FreshRound(now)]
    /\ new.guesses = st.guesses

Played(st, new, g, now) ==
    \E o \in Orders :
       /\ st.games[g] # NoRow
       /\ HasRound(st, g, o)
       /\ PgOpen(st, g, o, now)
       /\ \/ new = Reveal(st, g, o)
          \/ \E c \in Choices : Graded(g, o, c) \notin st.guesses /\ new = Grade(st, g, o, c)

StoreStep(st, new, g, now) ==
    \/ new = st
    \/ Created(st, new, g, now)
    \/ Moved(st, new, g, now)
    \/ Played(st, new, g, now)

LEMMA Rows == NoRow \notin GameRow /\ NoRow \notin RoundRow
BY NoRowAssumption

LEMMA OrdersOf ==
    ASSUME NEW m \in Modes
    PROVE  RoundsIn[m] \in Nat \ {0} /\ 1..RoundsIn[m] \subseteq Orders
BY GuessAssumption DEF Modes, Orders

LEMMA FreshRoundRow == ASSUME NEW now \in Nat PROVE FreshRound(now) \in RoundRow
BY GuessAssumption DEF FreshRound, RoundRow, RoundStatus

\* A round is opened from its plan, once.
LEMMA materializeRoundIs ==
    ASSUME NEW st \in Stores, NEW g \in Games, NEW o \in Orders, NEW now \in Nat
    PROVE  /\ Fields(materializeRound(st, g, o, now))
           /\ materializeRound(st, g, o, now).games = st.games
           /\ materializeRound(st, g, o, now).guesses = st.guesses
           /\ \/ materializeRound(st, g, o, now).rounds = st.rounds
              \/ /\ ~HasRound(st, g, o)
                 /\ materializeRound(st, g, o, now).rounds =
                       [st.rounds EXCEPT ![<<g, o>>] = FreshRound(now)]
BY DEF materializeRound, Stores, FreshRound, Fields

\* Reading the round a game stands at.
LEMMA ReadStep ==
    ASSUME NEW st \in Stores, StoreSound(st), NEW g \in Games, NEW s, NEW now \in Nat
    PROVE  StoreStep(st, PgCurrentRound(st, g, s, now).st, g, now)
<1> DEFINE w == st.games[g]
           o == w.cur + 1
           aged == PgExpire(st, g, now)
           new == materializeRound(aged, g, o, now)
<1>1. CASE ~Owned(st, g, s) \/ o > Total(st, g)
  BY <1>1 DEF PgCurrentRound, Refuse, StoreStep
<1>2. CASE Owned(st, g, s) /\ ~(o > Total(st, g))
  <2>1. w # NoRow /\ w \in GameRow /\ o \in Nat /\ Total(st, g) \in Nat /\ o \in Orders
        /\ w.mode \in Modes
    BY <1>2, OrdersOf DEF Owned, Stores, GameRow, Total, Modes
  <2> DEFINE row == [w EXCEPT !.status = IF w.status = "in_progress" /\ now >= w.expires
                                         THEN "abandoned" ELSE w.status]
  <2>2. row \in GameRow
    BY <2>1 DEF GameRow, GameStatus
  <2>3. aged = [games |-> [st.games EXCEPT ![g] = row], rounds |-> st.rounds,
                guesses |-> st.guesses]
    BY <2>1 DEF PgExpire, Stores
  <2>4. aged \in Stores
    BY <2>2, <2>3 DEF Stores
  <2>5. Moves(st, g, row, now)
    BY <1>2, <2>1, <2>2 DEF Moves, StoreSound, Total, GameRow
  <2>6. o > row.cur
    BY <2>1 DEF GameRow
  <2>7. PgCurrentRound(st, g, s, now).st = new
    BY <1>2 DEF PgCurrentRound, Ok
  <2> HIDE DEF row, aged
  <2>8. /\ Fields(new) /\ new.games = aged.games /\ new.guesses = aged.guesses
        /\ \/ new.rounds = aged.rounds
           \/ /\ ~HasRound(aged, g, o)
              /\ new.rounds = [aged.rounds EXCEPT ![<<g, o>>] = FreshRound(now)]
    BY <2>1, <2>4, materializeRoundIs
  <2> HIDE DEF new, o
  <2>9. /\ new.games = [st.games EXCEPT ![g] = row] /\ new.guesses = st.guesses
        /\ \/ new.rounds = st.rounds
           \/ /\ ~HasRound(st, g, o)
              /\ new.rounds = [st.rounds EXCEPT ![<<g, o>>] = FreshRound(now)]
    BY <2>3, <2>8 DEF HasRound
  <2>10. QED
    BY <2>1, <2>2, <2>5, <2>6, <2>7, <2>8, <2>9 DEF StoreStep, Moved
<1>3. QED
  BY <1>1, <1>2

\* Moving on to the next round.
LEMMA AdvanceStep ==
    ASSUME NEW st \in Stores, StoreSound(st), NEW g \in Games, NEW s, NEW now \in Nat
    PROVE  StoreStep(st, PgAdvance(st, g, s, now).st, g, now)
<1> DEFINE w == st.games[g]
           o == w.cur + 1
           row == [w EXCEPT !.cur = o, !.status = "completed", !.token = w.token + 1]
           next == [w EXCEPT !.cur = o]
           last == [st EXCEPT !.games[g] = row]
           kept == [st EXCEPT !.games[g].cur = o]
           new == materializeRound(kept, g, o + 1, now)
<1>1. CASE ~Owned(st, g, s) \/ o > Total(st, g) \/ (HasRound(st, g, o) /\ PgOpen(st, g, o, now))
  BY <1>1 DEF PgAdvance, Refuse, StoreStep
<1>2. CASE /\ Owned(st, g, s) /\ ~(o > Total(st, g))
           /\ ~(HasRound(st, g, o) /\ PgOpen(st, g, o, now))
  <2>1. w # NoRow /\ w \in GameRow /\ o \in Nat /\ Total(st, g) \in Nat
        /\ w.mode \in Modes /\ Total(st, g) = RoundsIn[w.mode]
    BY <1>2, OrdersOf DEF Owned, Stores, GameRow, Total
  <2>2. /\ w.status # "completed" /\ w.cur \in Nat /\ w.cur < Total(st, g)
    BY <1>2, <2>1 DEF StoreSound, GameRow
  <2>3. CASE o = Total(st, g)
    <3>0. row \in GameRow
      <4> DEFINE done == [next EXCEPT !.status = "completed"]
                 t == w.token + 1
      <4>1. next \in GameRow /\ t \in Nat
        BY <2>1 DEF GameRow
      <4> HIDE DEF next
      <4>2. done \in GameRow
        BY <4>1 DEF GameRow, GameStatus
      <4> HIDE DEF done, t
      <4>3. [done EXCEPT !.token = t] \in GameRow
        BY <4>1, <4>2 DEF GameRow
      <4>4. QED
        BY <4>3 DEF done, next, t
    <3>1. /\ last.games = [st.games EXCEPT ![g] = row]
          /\ last.rounds = st.rounds /\ last.guesses = st.guesses /\ Fields(last)
      <4> HIDE DEF row
      <4>1. QED
        BY <2>1 DEF Stores, Fields
    <3>2. Moves(st, g, row, now)
      BY <1>2, <2>1, <2>2, <2>3, <3>0 DEF Moves, GameRow
    <3>3. PgAdvance(st, g, s, now).st = last
      BY <1>2, <2>3 DEF PgAdvance, Ok
    <3> HIDE DEF row, last
    <3>4. QED
      BY <2>1, <3>0, <3>1, <3>2, <3>3 DEF StoreStep, Moved
  <2>4. CASE o # Total(st, g)
    <3>1. next \in GameRow
      BY <2>1 DEF GameRow
    <3>2. kept = [games |-> [st.games EXCEPT ![g] = next], rounds |-> st.rounds,
                  guesses |-> st.guesses]
      BY <2>1 DEF Stores
    <3>3. kept \in Stores
      BY <3>1, <3>2 DEF Stores
    <3>4. Moves(st, g, next, now) /\ next.cur = o
      BY <1>2, <2>1, <2>2, <2>4, <3>1 DEF Moves, GameRow
    <3>5. PgAdvance(st, g, s, now).st = new
      BY <1>2, <2>4 DEF PgAdvance, Ok
    <3>6. o + 1 \in Orders /\ o + 1 > next.cur
      BY <1>2, <2>1, <2>4, <3>4, OrdersOf
    <3> HIDE DEF next, kept
    <3>7. /\ Fields(new) /\ new.games = kept.games /\ new.guesses = kept.guesses
          /\ \/ new.rounds = kept.rounds
             \/ /\ ~HasRound(kept, g, o + 1)
                /\ new.rounds = [kept.rounds EXCEPT ![<<g, o + 1>>] = FreshRound(now)]
      BY <3>3, <3>6, materializeRoundIs
    <3> HIDE DEF new, o
    <3>8. /\ new.games = [st.games EXCEPT ![g] = next] /\ new.guesses = st.guesses
          /\ \/ new.rounds = st.rounds
             \/ /\ ~HasRound(st, g, o + 1)
                /\ new.rounds = [st.rounds EXCEPT ![<<g, o + 1>>] = FreshRound(now)]
      BY <3>2, <3>7 DEF HasRound
    <3>9. QED
      BY <2>1, <3>1, <3>4, <3>5, <3>6, <3>7, <3>8 DEF StoreStep, Moved
  <2>5. QED
    BY <2>3, <2>4
<1>3. QED
  BY <1>1, <1>2

\* A transaction takes one of those steps, on the rows of its own game.
LEMMA TransactionStep ==
    ASSUME NEW st \in Stores, StoreSound(st), NEW call \in Calls, NEW now \in Nat,
           call.kind \in {"daily", "freeplay"} =>
              \/ st.games[call.g] = NoRow
              \/ call.kind = "daily" /\ call.g \in DailyOf(st, call.s)
    PROVE  StoreStep(st, Transaction(st, call, now).st, call.g, now)
<1>1. call.g \in Games /\ call.s \in Players
  BY DEF Calls
<1>2. CASE call.kind = "daily"
  <2>1. CASE DailyOf(st, call.s) # {}
    BY <1>2, <2>1 DEF Transaction, gamesDaily, createOrResumeDailyGame, Ok, StoreStep
  <2>2. CASE DailyOf(st, call.s) = {}
    <3> DEFINE row == NewGame(call.s, "daily", now)
    <3>1. Transaction(st, call, now).st = [st EXCEPT !.games[call.g] = row]
      BY <1>2, <2>2 DEF Transaction, gamesDaily, createOrResumeDailyGame, Ok
    <3>2. Created(st, Transaction(st, call, now).st, call.g, now)
      BY <1>1, <1>2, <2>2, <3>1 DEF Created, Stores, Modes, Fields
    <3>3. QED
      BY <3>2 DEF StoreStep
  <2>3. QED
    BY <2>1, <2>2
<1>3. CASE call.kind = "freeplay"
  <2> DEFINE row == NewGame(call.s, "freeplay", now)
  <2>1. Transaction(st, call, now).st = [st EXCEPT !.games[call.g] = row]
    BY <1>3 DEF Transaction, gamesFreeplay, createFreeplayGame, Ok
  <2>2. Created(st, Transaction(st, call, now).st, call.g, now)
    BY <1>1, <1>3, <2>1 DEF Created, Stores, Modes, Fields
  <2>3. QED
    BY <2>2 DEF StoreStep
<1>4. CASE call.kind = "round"
  BY <1>1, <1>4, ReadStep DEF Transaction, round
<1>5. CASE call.kind = "advance"
  BY <1>1, <1>5, AdvanceStep DEF Transaction, advance
<1>6. CASE call.kind = "hint"
  <2>1. call.o \in Orders /\ Transaction(st, call, now) = PgHint(st, call.g, call.o, call.s, now)
    BY <1>6 DEF Transaction, hint, Calls
  <2>2. QED
    BY <2>1 DEF PgHint, Refuse, Ok, StoreStep, Played, Owned
<1>7. CASE call.kind = "guess"
  <2>1. /\ call.o \in Orders /\ call.c \in Choices
        /\ Transaction(st, call, now) = PgGuess(st, call.g, call.o, call.c, call.s, now)
    BY <1>7 DEF Transaction, guess, Calls
  <2>2. QED
    BY <2>1 DEF PgGuess, Refuse, Ok, StoreStep, Played, Owned
<1>8. QED
  BY <1>2, <1>3, <1>4, <1>5, <1>6, <1>7 DEF Calls

-----------------------------------------------------------------------------
(* The rows agree after every step *)

LEMMA NetScore ==
    ASSUME NEW hints \in 1..Posts, NEW wrong \in Nat
    PROVE  netScoreForRound(hints, wrong) \in Nat
<1>1. hints \in {1, 2, 3, 4, 5}
  BY GuessAssumption
<1>2. SCORE_CURVE[hints] \in Nat
  BY <1>1 DEF SCORE_CURVE
<1>3. QED
  BY <1>2 DEF netScoreForRound, WRONG_GUESS_PENALTY

\* A hint: one more post of the same round.
Revealed(st, new, g, o) ==
    /\ Fields(new)
    /\ new.games = st.games
    /\ new.guesses = st.guesses
    /\ \E n \in 1..Posts :
          new.rounds = [st.rounds EXCEPT ![<<g, o>>] = [st.rounds[<<g, o>>] EXCEPT !.hints = n]]

LEMMA RevealIs ==
    ASSUME NEW st \in Stores, StoreSound(st), NEW g \in Games, NEW o \in Orders,
           HasRound(st, g, o)
    PROVE  Revealed(st, Reveal(st, g, o), g, o)
<1> DEFINE r == st.rounds[<<g, o>>]
           n == IF r.hints < Posts THEN r.hints + 1 ELSE r.hints
<1>1. n \in 1..Posts
  BY GuessAssumption DEF StoreSound
<1>2. Reveal(st, g, o) =
        [games |-> st.games, rounds |-> [st.rounds EXCEPT ![<<g, o>>] = [r EXCEPT !.hints = n]],
         guesses |-> st.guesses]
  BY DEF Reveal, Stores
<1> HIDE DEF n
<1>3. QED
  BY <1>1, <1>2 DEF Revealed, Fields

\* A guess: recorded, and its round won, charged, or charged and lost.
GradedRow(r, q, c) ==
    /\ c = Target => q = [r EXCEPT !.status = "resolved_correct",
                                   !.score = netScoreForRound(r.hints, r.wrong)]
    /\ c # Target => \E s \in RoundStatus :
          /\ s = IF r.wrong + 1 >= MaxWrong THEN "resolved_incorrect" ELSE r.status
          /\ q = [r EXCEPT !.wrong = r.wrong + 1, !.status = s]

Guessed(st, new, g, o, c) ==
    LET r == st.rounds[<<g, o>>]
        won == netScoreForRound(r.hints, r.wrong)
    IN  /\ Fields(new)
        /\ new.guesses = st.guesses \cup {Graded(g, o, c)}
        /\ new.games = IF c = Target
                       THEN [st.games EXCEPT ![g] =
                               [st.games[g] EXCEPT !.score = st.games[g].score + won]]
                       ELSE st.games
        /\ \E q : GradedRow(r, q, c) /\ new.rounds = [st.rounds EXCEPT ![<<g, o>>] = q]

LEMMA GradeIs ==
    ASSUME NEW st \in Stores, NEW g \in Games, NEW o \in Orders, NEW c \in Choices,
           HasRound(st, g, o), st.games[g] # NoRow
    PROVE  Guessed(st, Grade(st, g, o, c), g, o, c)
<1> DEFINE r == st.rounds[<<g, o>>]
           won == netScoreForRound(r.hints, r.wrong)
           new == Grade(st, g, o, c)
<1>1. r \in RoundRow /\ st.games[g] \in GameRow
  BY DEF Stores, HasRound
<1>2. Fields(new) /\ new.guesses = st.guesses \cup {Graded(g, o, c)}
  BY DEF Grade, Fields
<1>3. CASE c = Target
  <2> DEFINE q == [r EXCEPT !.status = "resolved_correct", !.score = won]
  <2>1. /\ new.games = [st.games EXCEPT ![g] =
                          [st.games[g] EXCEPT !.score = st.games[g].score + won]]
        /\ new.rounds = [st.rounds EXCEPT ![<<g, o>>] = q]
    BY <1>1, <1>3 DEF Grade, Stores
  <2>2. GradedRow(r, q, c)
    BY <1>3 DEF GradedRow
  <2> HIDE DEF q
  <2>3. QED
    BY <1>2, <1>3, <2>1, <2>2 DEF Guessed
<1>4. CASE c # Target
  <2> DEFINE s == IF r.wrong + 1 >= MaxWrong THEN "resolved_incorrect" ELSE r.status
             q == [r EXCEPT !.wrong = r.wrong + 1, !.status = s]
  <2>1. new.games = st.games /\ new.rounds = [st.rounds EXCEPT ![<<g, o>>] = q]
    BY <1>1, <1>4 DEF Grade, Stores, isRoundExhausted
  <2>2. s \in RoundStatus
    BY <1>1 DEF RoundRow, RoundStatus
  <2>3. GradedRow(r, q, c)
    BY <1>4, <2>2 DEF GradedRow
  <2> HIDE DEF q
  <2>4. QED
    BY <1>2, <1>4, <2>1, <2>3 DEF Guessed
<1>5. QED
  BY <1>3, <1>4

\* What any step leaves of the rounds and guesses, wherever it took place.
RoundMoves(st, new, g, o, now) ==
    LET r == st.rounds[<<g, o>>]
        q == new.rounds[<<g, o>>]
        SameGuesses == \A c \in Choices :
                          Graded(g, o, c) \in new.guesses <=> Graded(g, o, c) \in st.guesses
    IN  \/ q = r /\ SameGuesses
        \/ /\ ~HasRound(st, g, o) /\ q = FreshRound(now) /\ SameGuesses
           /\ new.games[g] # NoRow /\ o > new.games[g].cur
        \/ /\ HasRound(st, g, o) /\ PgOpen(st, g, o, now) /\ SameGuesses
           /\ \E n \in 1..Posts : q = [r EXCEPT !.hints = n]
        \/ /\ HasRound(st, g, o) /\ PgOpen(st, g, o, now)
           /\ \E c \in Choices :
                 /\ Graded(g, o, c) \notin st.guesses
                 /\ \A d \in Choices : Graded(g, o, d) \in new.guesses <=>
                                          Graded(g, o, d) \in st.guesses \/ d = c
                 /\ GradedRow(r, q, c)

LEMMA StepMovesRounds ==
    ASSUME NEW st \in Stores, StoreSound(st), NEW new, NEW g \in Games, NEW now \in Nat,
           StoreStep(st, new, g, now)
    PROVE  \A h \in Games, o \in Orders : RoundMoves(st, new, h, o, now)
<1> SUFFICES ASSUME NEW h \in Games, NEW o \in Orders PROVE RoundMoves(st, new, h, o, now)
  OBVIOUS
<1>1. CASE new = st \/ Created(st, new, g, now)
  BY <1>1 DEF Created, RoundMoves
<1>2. CASE Moved(st, new, g, now)
  BY <1>2, Rows DEF Moved, RoundMoves, Stores, HasRound
<1>3. CASE Played(st, new, g, now)
  <2>1. PICK p \in Orders :
           /\ st.games[g] # NoRow /\ HasRound(st, g, p) /\ PgOpen(st, g, p, now)
           /\ \/ new = Reveal(st, g, p)
              \/ \E c \in Choices : Graded(g, p, c) \notin st.guesses /\ new = Grade(st, g, p, c)
    BY <1>3 DEF Played
  <2>2. CASE new = Reveal(st, g, p)
    <3>1. Revealed(st, new, g, p)
      BY <2>1, <2>2, RevealIs
    <3>2. QED
      BY <2>1, <3>1 DEF Revealed, RoundMoves, Stores
  <2>3. ASSUME NEW c \in Choices, Graded(g, p, c) \notin st.guesses, new = Grade(st, g, p, c)
        PROVE  RoundMoves(st, new, h, o, now)
    <3> DEFINE r == st.rounds[<<g, p>>]
    <3>0. Guessed(st, new, g, p, c)
      BY <2>1, <2>3, GradeIs
    <3>1. /\ new.guesses = st.guesses \cup {Graded(g, p, c)}
          /\ \E q : GradedRow(r, q, c) /\ new.rounds = [st.rounds EXCEPT ![<<g, p>>] = q]
      BY <3>0 DEF Guessed
    <3>2. \A d \in Choices : Graded(h, o, d) = Graded(g, p, c) <=> h = g /\ o = p /\ d = c
      BY DEF Graded
    <3>3. CASE <<h, o>> # <<g, p>>
      <4>1. new.rounds[<<h, o>>] = st.rounds[<<h, o>>]
        BY <3>1, <3>3 DEF Stores
      <4>2. QED
        BY <3>1, <3>2, <3>3, <4>1 DEF RoundMoves
    <3>4. CASE h = g /\ o = p
      <4>1. GradedRow(r, new.rounds[<<g, p>>], c)
        BY <3>1 DEF Stores
      <4>2. \A d \in Choices : Graded(g, p, d) \in new.guesses <=>
                                  Graded(g, p, d) \in st.guesses \/ d = c
        BY <3>1, <3>2, <3>4
      <4>3. QED
        BY <2>1, <2>3, <3>4, <4>1, <4>2 DEF RoundMoves
    <3>5. QED
      BY <3>3, <3>4
  <2>4. QED
    BY <2>1, <2>2, <2>3
<1>4. QED
  BY <1>1, <1>2, <1>3 DEF StoreStep

\* What any step leaves of the games' rows.
GameMoves(st, new, g, now) ==
    LET w == st.games[g]
        v == new.games[g]
    IN  \/ v = w
        \/ w = NoRow /\ \E s \in Players, mode \in Modes : v = NewGame(s, mode, now)
        \/ w # NoRow /\ Moves(st, g, v, now)
        \/ w # NoRow /\ \E n \in Nat : v = [w EXCEPT !.score = w.score + n]

LEMMA StepMovesGames ==
    ASSUME NEW st \in Stores, StoreSound(st), NEW new, NEW g \in Games, NEW now \in Nat,
           StoreStep(st, new, g, now)
    PROVE  \A h \in Games : /\ GameMoves(st, new, h, now)
                            /\ h # g => new.games[h] = st.games[h]
<1> SUFFICES ASSUME NEW h \in Games
             PROVE  GameMoves(st, new, h, now) /\ (h # g => new.games[h] = st.games[h])
  OBVIOUS
<1>1. CASE new = st
  BY <1>1 DEF GameMoves
<1>2. CASE Created(st, new, g, now)
  BY <1>2 DEF Created, GameMoves, Stores
<1>3. CASE Moved(st, new, g, now)
  <2>1. PICK row \in GameRow : Moves(st, g, row, now) /\ new.games = [st.games EXCEPT ![g] = row]
    BY <1>3 DEF Moved
  <2>2. new.games[h] = IF h = g THEN row ELSE st.games[h]
    BY <2>1 DEF Stores
  <2>3. st.games[g] # NoRow
    BY <1>3 DEF Moved
  <2>4. QED
    BY <2>1, <2>2, <2>3 DEF GameMoves
<1>4. CASE Played(st, new, g, now)
  <2>1. PICK p \in Orders :
           /\ st.games[g] # NoRow /\ HasRound(st, g, p)
           /\ \/ new = Reveal(st, g, p)
              \/ \E c \in Choices : new = Grade(st, g, p, c)
    BY <1>4 DEF Played
  <2>2. CASE new = Reveal(st, g, p)
    <3>1. Revealed(st, new, g, p)
      BY <2>1, <2>2, RevealIs
    <3>2. QED
      BY <3>1 DEF Revealed, GameMoves
  <2>3. ASSUME NEW c \in Choices, new = Grade(st, g, p, c)
        PROVE  GameMoves(st, new, h, now) /\ (h # g => new.games[h] = st.games[h])
    <3> DEFINE r == st.rounds[<<g, p>>]
               won == netScoreForRound(r.hints, r.wrong)
    <3>1. Guessed(st, new, g, p, c)
      BY <2>1, <2>3, GradeIs
    <3>2. won \in Nat
      BY <2>1, NetScore DEF StoreSound, HasRound, Stores, RoundRow
    <3>3. new.games = IF c = Target
                      THEN [st.games EXCEPT ![g] =
                              [st.games[g] EXCEPT !.score = st.games[g].score + won]]
                      ELSE st.games
      BY <3>1 DEF Guessed
    <3> HIDE DEF won
    <3>4. QED
      BY <2>1, <3>2, <3>3 DEF GameMoves, Stores
  <2>4. QED
    BY <2>1, <2>2, <2>3
<1>5. QED
  BY <1>1, <1>2, <1>3, <1>4 DEF StoreStep

LEMMA NewGameRow ==
    ASSUME NEW s \in Players, NEW mode \in Modes, NEW now \in Nat
    PROVE  NewGame(s, mode, now) \in GameRow
BY GuessAssumption DEF NewGame, GameRow, GameStatus

LEMMA GameStays ==
    ASSUME NEW st \in Stores, NEW new, NEW g \in Games, NEW now \in Nat, GameMoves(st, new, g, now)
    PROVE  /\ new.games[g] \in GameRow \cup {NoRow}
           /\ st.games[g] # NoRow =>
                 /\ new.games[g] \in GameRow
                 /\ new.games[g].owner = st.games[g].owner
                 /\ new.games[g].mode = st.games[g].mode
<1>1. st.games[g] \in GameRow \cup {NoRow}
  BY DEF Stores
<1>2. CASE st.games[g] = NoRow
  BY <1>1, <1>2, NewGameRow DEF GameMoves
<1>3. CASE st.games[g] # NoRow /\ Moves(st, g, new.games[g], now)
  BY <1>3 DEF Moves
<1>4. ASSUME st.games[g] # NoRow, NEW n \in Nat,
             new.games[g] = [st.games[g] EXCEPT !.score = st.games[g].score + n]
      PROVE  /\ new.games[g] \in GameRow
             /\ new.games[g].owner = st.games[g].owner
             /\ new.games[g].mode = st.games[g].mode
  BY <1>1, <1>4 DEF GameRow
<1>5. QED
  BY <1>1, <1>2, <1>3, <1>4 DEF GameMoves

LEMMA RoundStays ==
    ASSUME NEW st \in Stores, StoreSound(st), NEW new, NEW g \in Games, NEW o \in Orders,
           NEW now \in Nat, RoundMoves(st, new, g, o, now)
    PROVE  /\ new.rounds[<<g, o>>] \in RoundRow \cup {NoRow}
           /\ HasRound(st, g, o) => new.rounds[<<g, o>>] \in RoundRow
           /\ new.rounds[<<g, o>>] \in RoundRow =>
                 /\ new.rounds[<<g, o>>].hints \in 1..Posts
                 /\ new.rounds[<<g, o>>].status # "expired"
<1> DEFINE r == st.rounds[<<g, o>>]
           q == new.rounds[<<g, o>>]
<1>1. r \in RoundRow \cup {NoRow}
  BY DEF Stores
<1>2. HasRound(st, g, o) => r \in RoundRow /\ r.hints \in 1..Posts /\ r.status # "expired"
  BY <1>1 DEF HasRound, StoreSound
<1> HIDE DEF r
<1>3. CASE q = r
  BY <1>1, <1>2, <1>3, Rows DEF HasRound, r
<1>4. CASE q = FreshRound(now)
  <2>1. q.hints \in 1..Posts /\ q.status # "expired" /\ q \in RoundRow
    BY <1>4, FreshRoundRow, GuessAssumption DEF FreshRound
  <2>2. QED
    BY <2>1
<1>5. ASSUME HasRound(st, g, o), NEW n \in 1..Posts, q = [r EXCEPT !.hints = n]
      PROVE  q \in RoundRow /\ q.hints \in 1..Posts /\ q.status # "expired"
  <2>1. n \in Nat
    BY GuessAssumption
  <2>2. QED
    BY <1>2, <1>5, <2>1 DEF RoundRow
<1>6. ASSUME HasRound(st, g, o), NEW c \in Choices, GradedRow(r, q, c)
      PROVE  q \in RoundRow /\ q.hints \in 1..Posts /\ q.status # "expired"
  <2> DEFINE won == netScoreForRound(r.hints, r.wrong)
  <2>1. won \in Nat /\ r \in RoundRow /\ r.hints \in 1..Posts
    BY <1>2, <1>6, NetScore DEF RoundRow
  <2>2. CASE c = Target
    <3>1. q = [r EXCEPT !.status = "resolved_correct", !.score = won]
      BY <1>6, <2>2 DEF GradedRow
    <3> HIDE DEF won
    <3>2. QED
      BY <2>1, <3>1 DEF RoundRow, RoundStatus
  <2>3. CASE c # Target
    <3>1. PICK s \in RoundStatus :
             /\ s = IF r.wrong + 1 >= MaxWrong THEN "resolved_incorrect" ELSE r.status
             /\ q = [r EXCEPT !.wrong = r.wrong + 1, !.status = s]
      BY <1>6, <2>3 DEF GradedRow
    <3> DEFINE n == r.wrong + 1
    <3>2. s # "expired" /\ n \in Nat /\ q = [r EXCEPT !.wrong = n, !.status = s]
      BY <1>2, <1>6, <2>1, <3>1 DEF RoundRow
    <3> HIDE DEF n
    <3>3. QED
      BY <2>1, <3>2 DEF RoundRow
  <2>4. QED
    BY <2>2, <2>3
<1>7. QED
  BY <1>3, <1>4, <1>5, <1>6 DEF RoundMoves, r

\* What a step leaves is a store: its rows have their types and agree.
LEMMA StepKeepsStore ==
    ASSUME NEW st \in Stores, StoreSound(st), NEW new, NEW g \in Games, NEW now \in Nat,
           StoreStep(st, new, g, now)
    PROVE  new \in Stores /\ StoreSound(new)
<1> DEFINE NoNewGuess == new.guesses = st.guesses
           OneGuess(o, c) == HasRound(st, g, o) /\ new.guesses = st.guesses \cup {Graded(g, o, c)}
<1>1. /\ Fields(new)
      /\ \E w : new.games = st.games \/ new.games = [st.games EXCEPT ![g] = w]
      /\ \E o \in Orders : \E r : \/ new.rounds = st.rounds
                                   \/ new.rounds = [st.rounds EXCEPT ![<<g, o>>] = r]
      /\ NoNewGuess \/ \E o \in Orders, c \in Choices : OneGuess(o, c)
  <2>0. 1 \in Orders
    BY OrdersOf DEF Modes
  <2>1. CASE new = st
    BY <2>0, <2>1 DEF Stores, Fields
  <2>2. CASE Created(st, new, g, now)
    BY <2>0, <2>2 DEF Created
  <2>3. CASE Moved(st, new, g, now)
    BY <2>0, <2>3 DEF Moved
  <2>4. CASE Played(st, new, g, now)
    <3>1. PICK o \in Orders :
             /\ st.games[g] # NoRow /\ HasRound(st, g, o)
             /\ \/ new = Reveal(st, g, o)
                \/ \E c \in Choices : new = Grade(st, g, o, c)
      BY <2>4 DEF Played
    <3>2. Revealed(st, new, g, o) \/ \E c \in Choices : Guessed(st, new, g, o, c)
      BY <3>1, RevealIs, GradeIs
    <3>3. QED
      BY <3>1, <3>2 DEF Revealed, Guessed
  <2>5. QED
    BY <2>1, <2>2, <2>3, <2>4 DEF StoreStep
<1>2. /\ new.games = [h \in Games |-> new.games[h]]
      /\ new.rounds = [x \in Games \X Orders |-> new.rounds[x]]
  BY <1>1 DEF Stores
<1>3. \A h \in Games : GameMoves(st, new, h, now)
  BY StepMovesGames
<1>4. \A h \in Games, o \in Orders : RoundMoves(st, new, h, o, now)
  BY StepMovesRounds
<1>5. \A h \in Games : new.games[h] \in GameRow \cup {NoRow}
  BY <1>3, GameStays
<1>6. \A h \in Games, o \in Orders : new.rounds[<<h, o>>] \in RoundRow \cup {NoRow}
  BY <1>4, RoundStays
<1>7. new.games \in [Games -> GameRow \cup {NoRow}]
  BY <1>2, <1>5
<1>8. new.rounds \in [Games \X Orders -> RoundRow \cup {NoRow}]
  <2>1. \A x \in Games \X Orders : new.rounds[x] \in RoundRow \cup {NoRow}
    BY <1>6
  <2>2. QED
    BY <1>2, <2>1
<1>9. st.guesses \subseteq GuessRow
  BY DEF Stores
<1>10. new.guesses \subseteq GuessRow
  BY <1>1, <1>9 DEF Graded, GuessRow
<1>11. new \in Stores
  BY <1>1, <1>7, <1>8, <1>10 DEF Stores, Fields
<1>12. ASSUME NEW h \in Games, NEW o \in Orders, HasRound(new, h, o)
       PROVE  /\ new.games[h] # NoRow
              /\ new.rounds[<<h, o>>].hints \in 1..Posts
              /\ new.rounds[<<h, o>>].status # "expired"
  <2>1. new.rounds[<<h, o>>] \in RoundRow
    BY <1>6, <1>12 DEF HasRound
  <2>2. CASE HasRound(st, h, o)
    <3>1. st.games[h] # NoRow
      BY <2>2 DEF StoreSound
    <3>2. QED
      BY <1>3, <1>4, <2>1, <3>1, GameStays, RoundStays, Rows
  <2>3. CASE ~HasRound(st, h, o)
    <3>1. new.games[h] # NoRow
      BY <1>4, <1>12, <2>3 DEF RoundMoves, HasRound
    <3>2. QED
      BY <1>4, <2>1, <3>1, RoundStays
  <2>4. QED
    BY <2>2, <2>3
<1>13. ASSUME NEW h \in Games, NEW o \in Orders, HasRound(st, h, o) PROVE HasRound(new, h, o)
  BY <1>4, <1>13, RoundStays, Rows DEF HasRound
<1>14. \A row \in new.guesses : HasRound(new, row.game, row.order)
  <2>1. SUFFICES ASSUME NEW row \in new.guesses PROVE HasRound(st, row.game, row.order)
    BY <1>10, <1>13 DEF GuessRow
  <2>2. QED
    BY <1>1, <2>1 DEF StoreSound, Graded
<1>15. ASSUME NEW h \in Games, new.games[h] # NoRow
       PROVE  /\ new.games[h].cur <= Total(new, h)
              /\ new.games[h].status = "completed" => new.games[h].cur = Total(new, h)
  <2> DEFINE w == st.games[h]
             v == new.games[h]
  <2>1. w \in GameRow \cup {NoRow} /\ v \in GameRow
    BY <1>5, <1>15 DEF Stores
  <2>2. w # NoRow => /\ w \in GameRow
                     /\ w.cur <= RoundsIn[w.mode]
                     /\ w.status = "completed" => w.cur = RoundsIn[w.mode]
    BY <2>1 DEF StoreSound, Total
  <2>3. CASE v = w
    BY <1>15, <2>2, <2>3 DEF Total
  <2>4. ASSUME NEW s \in Players, NEW mode \in Modes, v = NewGame(s, mode, now)
        PROVE  v.cur <= RoundsIn[v.mode] /\ v.status # "completed"
    <3>1. v.cur = 0 /\ v.mode = mode /\ v.status = "in_progress" /\ RoundsIn[mode] \in Nat
      BY <2>4, OrdersOf DEF NewGame
    <3>2. QED
      BY <3>1
  <2>5. CASE w # NoRow /\ Moves(st, h, v, now)
    BY <2>5 DEF Moves, Total
  <2>6. ASSUME w # NoRow, NEW n \in Nat, v = [w EXCEPT !.score = w.score + n]
        PROVE  v.cur = w.cur /\ v.mode = w.mode /\ v.status = w.status
    BY <2>2, <2>6 DEF GameRow
  <2>7. QED
    BY <1>3, <2>2, <2>3, <2>4, <2>5, <2>6 DEF GameMoves, Total
<1>16. QED
  BY <1>11, <1>12, <1>14, <1>15 DEF StoreSound

-----------------------------------------------------------------------------
(* Each round's row and the guesses on record *)

WrongIn(st, g, o) == {c \in Choices \ {Target} : Graded(g, o, c) \in st.guesses}

Fair(st, g, o) ==
    LET r == st.rounds[<<g, o>>]
    IN  /\ IsFiniteSet(WrongIn(st, g, o))
        /\ r.wrong = Cardinality(WrongIn(st, g, o))
        /\ r.status = "resolved_correct" <=> Graded(g, o, Target) \in st.guesses
        /\ r.status = "resolved_incorrect" <=> r.wrong >= MaxWrong
        /\ r.score = IF r.status = "resolved_correct"
                     THEN netScoreForRound(r.hints, r.wrong) ELSE 0

Ledger(st) == \A g \in Games, o \in Orders : HasRound(st, g, o) => Fair(st, g, o)

\* A step keeps the story a round's row and its guesses tell.
LEMMA StepKeepsLedger ==
    ASSUME NEW st \in Stores, StoreSound(st), Ledger(st), NEW new, NEW g \in Games,
           NEW now \in Nat, StoreStep(st, new, g, now)
    PROVE  Ledger(new)
<1> SUFFICES ASSUME NEW h \in Games, NEW o \in Orders, HasRound(new, h, o) PROVE Fair(new, h, o)
  BY DEF Ledger
<1> DEFINE r == st.rounds[<<h, o>>]
           q == new.rounds[<<h, o>>]
           W == WrongIn(st, h, o)
           V == WrongIn(new, h, o)
<1>1. RoundMoves(st, new, h, o, now) /\ new \in Stores
  BY StepMovesRounds, StepKeepsStore
<1>2. HasRound(st, h, o) => r \in RoundRow /\ Fair(st, h, o) /\ r.hints \in 1..Posts
  BY DEF Ledger, Stores, HasRound, StoreSound
<1>3. Target \in Choices /\ MaxWrong \in Nat \ {0}
  BY GuessAssumption
<1>4. ASSUME \A c \in Choices : Graded(h, o, c) \in new.guesses <=> Graded(h, o, c) \in st.guesses
      PROVE  V = W
  BY <1>4 DEF WrongIn
<1>5. CASE /\ q = r
           /\ \A c \in Choices : Graded(h, o, c) \in new.guesses <=> Graded(h, o, c) \in st.guesses
  <2>1. HasRound(st, h, o) /\ V = W
    BY <1>4, <1>5 DEF HasRound
  <2>2. QED
    BY <1>2, <1>3, <1>5, <2>1 DEF Fair
<1>6. CASE /\ ~HasRound(st, h, o) /\ q = FreshRound(now)
           /\ \A c \in Choices : Graded(h, o, c) \in new.guesses <=> Graded(h, o, c) \in st.guesses
  <2>1. \A c \in Choices : Graded(h, o, c) \notin new.guesses
    BY <1>6 DEF StoreSound, Graded
  <2>2. V = {}
    BY <2>1 DEF WrongIn
  <2>3. Cardinality(V) = 0 /\ IsFiniteSet(V)
    BY <2>2, FS_EmptySet
  <2>4. QED
    BY <1>3, <1>6, <2>1, <2>3 DEF Fair, FreshRound
<1>7. ASSUME HasRound(st, h, o), PgOpen(st, h, o, now), NEW n \in 1..Posts,
             q = [r EXCEPT !.hints = n],
             \A c \in Choices : Graded(h, o, c) \in new.guesses <=> Graded(h, o, c) \in st.guesses
      PROVE  Fair(new, h, o)
  <2>1. V = W
    BY <1>4, <1>7
  <2>2. q.status = "active" /\ q.wrong = r.wrong /\ q.score = r.score /\ r.status = "active"
    BY <1>2, <1>7 DEF RoundRow, PgOpen
  <2>3. QED
    BY <1>2, <1>3, <1>7, <2>1, <2>2 DEF Fair
<1>8. ASSUME HasRound(st, h, o), PgOpen(st, h, o, now), NEW c \in Choices,
             Graded(h, o, c) \notin st.guesses, GradedRow(r, q, c),
             \A d \in Choices : Graded(h, o, d) \in new.guesses <=>
                                   Graded(h, o, d) \in st.guesses \/ d = c
      PROVE  Fair(new, h, o)
  <2>1. /\ r.status = "active" /\ r \in RoundRow /\ IsFiniteSet(W) /\ r.wrong = Cardinality(W)
        /\ r.score = 0 /\ ~(r.wrong >= MaxWrong) /\ Graded(h, o, Target) \notin st.guesses
    BY <1>2, <1>8 DEF Fair, PgOpen
  <2>2. CASE c = Target
    <3> DEFINE won == netScoreForRound(r.hints, r.wrong)
    <3>1. V = W
      BY <1>8, <2>2 DEF WrongIn
    <3>2. q = [r EXCEPT !.status = "resolved_correct", !.score = won]
      BY <1>8, <2>2 DEF GradedRow
    <3> HIDE DEF won
    <3>3. /\ q.status = "resolved_correct" /\ q.wrong = r.wrong /\ q.hints = r.hints
          /\ q.score = won
      BY <2>1, <3>2 DEF RoundRow
    <3>4. QED
      BY <1>3, <1>8, <2>1, <2>2, <3>1, <3>3 DEF Fair, won
  <2>3. CASE c # Target
    <3> DEFINE n == r.wrong + 1
    <3>1. V = W \cup {c} /\ c \notin W
      BY <1>8, <2>3 DEF WrongIn
    <3>2. IsFiniteSet(V) /\ Cardinality(V) = Cardinality(W) + 1
      BY <2>1, <3>1, FS_AddElement
    <3>3. PICK s \in RoundStatus :
             /\ s = IF n >= MaxWrong THEN "resolved_incorrect" ELSE "active"
             /\ q = [r EXCEPT !.wrong = n, !.status = s]
      BY <1>8, <2>1, <2>3 DEF GradedRow
    <3>4. n \in Nat /\ n = Cardinality(V)
      BY <2>1, <3>2 DEF RoundRow
    <3> HIDE DEF n
    <3>5. q.status = s /\ q.wrong = n /\ q.score = 0
      BY <2>1, <3>3, <3>4 DEF RoundRow
    <3>6. Graded(h, o, Target) \notin new.guesses
      BY <1>3, <1>8, <2>1, <2>3
    <3>7. QED
      BY <1>3, <3>2, <3>3, <3>4, <3>5, <3>6 DEF Fair
  <2>4. QED
    BY <2>2, <2>3
<1>9. QED
  BY <1>1, <1>5, <1>6, <1>7, <1>8 DEF RoundMoves

-----------------------------------------------------------------------------
(* A game's total *)

\* A set of naturals that has a member has a least one.
LEMMA LeastNatural ==
    ASSUME NEW T \in SUBSET Nat, T # {}
    PROVE  \E n \in T : \A m \in T : n <= m
<1>1. PICK n \in T : \A m \in T : <<m, n>> \notin OpToRel(<, Nat)
  BY NatLessThanWellFounded, WFMin
<1>2. ASSUME NEW m \in T PROVE n <= m
  <2>1. OpToRel(<, Nat) = {pair \in Nat \X Nat : pair[1] < pair[2]}
    BY Zenon DEF OpToRel
  <2>2. <<m, n>> \notin {pair \in Nat \X Nat : pair[1] < pair[2]}
    BY <1>1, <2>1
  <2>3. QED
    BY <2>2
<1>3. QED
  BY <1>2

\* f holds the sums of the first i terms of s, for i up to n.
Sums(f, s, n) ==
    /\ f \in [0..n -> Nat]
    /\ f[0] = 0
    /\ \A i \in 1..n : f[i] = f[i - 1] + s[i]

Recursion(f, s, n) == f = [i \in 0..n |-> IF i = 0 THEN 0 ELSE f[i - 1] + s[i]]

LEMMA SumsRecursion ==
    ASSUME NEW n \in Nat, NEW f, NEW s, Sums(f, s, n)
    PROVE  Recursion(f, s, n)
<1>1. /\ f = [i \in 0..n |-> f[i]] /\ f[0] = 0 /\ \A i \in 1..n : f[i] = f[i - 1] + s[i]
  BY DEF Sums
<1>2. \A i \in 0..n : i = 0 \/ i \in 1..n
  OBVIOUS
<1>3. \A i \in 0..n : f[i] = IF i = 0 THEN 0 ELSE f[i - 1] + s[i]
  BY <1>1, <1>2
<1>4. QED
  BY <1>1, <1>3 DEF Recursion

LEMMA SumsExist ==
    ASSUME NEW N \in Nat, NEW s \in [1..N -> Nat]
    PROVE  \E f : Sums(f, s, N)
<1> DEFINE Bad == {n \in 0..N : ~\E f : Sums(f, s, n)}
<1>0. N \in 0..N /\ Bad \in SUBSET Nat
  OBVIOUS
<1>1. SUFFICES ASSUME Bad # {} PROVE FALSE
  <2>1. Bad = {} => \E f : Sums(f, s, N)
    BY <1>0
  <2>2. QED
    BY <2>1
<1>2. PICK n \in Bad : \A m \in Bad : n <= m
  <2> HIDE DEF Bad
  <2>1. QED
    BY <1>0, <1>1, LeastNatural
<1>3. n \in 0..N
  OBVIOUS
<1>4. CASE n = 0
  <2> DEFINE f == [i \in 0..0 |-> 0]
  <2>1. Sums(f, s, 0)
    BY DEF Sums
  <2>2. QED
    BY <1>4, <2>1
<1>5. CASE n # 0
  <2>1. n - 1 \in 0..N /\ n - 1 \notin Bad /\ n - 1 \in Nat
    BY <1>2, <1>3, <1>5
  <2>2. PICK f : Sums(f, s, n - 1)
    BY <2>1
  <2> DEFINE h == [i \in 0..n |-> IF i = n THEN f[n - 1] + s[n] ELSE f[i]]
  <2>3. f \in [0..(n - 1) -> Nat] /\ s[n] \in Nat /\ f[n - 1] \in Nat
    BY <1>3, <1>5, <2>1, <2>2 DEF Sums
  <2>4. h \in [0..n -> Nat]
    <3>1. \A i \in 0..n : i = n \/ i \in 0..(n - 1)
      BY <1>3
    <3>2. QED
      BY <2>3, <3>1
  <2>5. h[0] = 0
    BY <1>3, <1>5, <2>2 DEF Sums
  <2>6. ASSUME NEW i \in 1..n PROVE h[i] = h[i - 1] + s[i]
    <3>1. i \in 0..n /\ i - 1 \in 0..n /\ i - 1 # n /\ h[i - 1] = f[i - 1]
      BY <1>3
    <3>2. CASE i = n
      BY <3>1, <3>2
    <3>3. CASE i # n
      <4>1. i \in 1..(n - 1)
        BY <1>3, <3>3
      <4>2. f[i] = f[i - 1] + s[i]
        BY <2>2, <4>1 DEF Sums
      <4>3. QED
        BY <3>1, <3>3, <4>2
    <3>4. QED
      BY <3>2, <3>3
  <2>7. Sums(h, s, n)
    BY <2>4, <2>5, <2>6 DEF Sums
  <2>8. QED
    BY <2>7
<1>6. QED
  BY <1>4, <1>5

LEMMA RecursionSums ==
    ASSUME NEW n \in Nat, NEW s \in [1..n -> Nat], NEW f, Recursion(f, s, n)
    PROVE  Sums(f, s, n)
<1> DEFINE Bad == {i \in 0..n : f[i] \notin Nat}
<1>1. /\ \A i \in 0..n : f[i] = IF i = 0 THEN 0 ELSE f[i - 1] + s[i]
      /\ DOMAIN f = 0..n
  BY DEF Recursion
<1>2. Bad = {}
  <2> SUFFICES ASSUME Bad # {} PROVE FALSE
    OBVIOUS
  <2>0. Bad \in SUBSET Nat
    OBVIOUS
  <2>1. PICK i \in Bad : \A m \in Bad : i <= m
    <3> HIDE DEF Bad
    <3>1. QED
      BY <2>0, LeastNatural
  <2>2. i \in 0..n /\ i # 0
    BY <1>1, <2>1
  <2>3. i - 1 \in 0..n /\ i - 1 \notin Bad /\ s[i] \in Nat
    BY <2>1, <2>2
  <2>4. f[i] = f[i - 1] + s[i]
    BY <1>1, <2>2
  <2>5. QED
    BY <2>1, <2>3, <2>4
<1>3. f \in [0..n -> Nat]
  BY <1>2 DEF Recursion
<1>4. f[0] = 0
  BY <1>1
<1>5. ASSUME NEW i \in 1..n PROVE f[i] = f[i - 1] + s[i]
  BY <1>1
<1>6. QED
  BY <1>3, <1>4, <1>5 DEF Sums

Scores(st, g, n) == [i \in 1..n |-> ScoreOf(st, g, i)]

\* The recursive sum of a game's scores is one.
LEMMA ScoreUpToIs ==
    ASSUME NEW st, NEW g, NEW n \in Nat, \A i \in 1..n : ScoreOf(st, g, i) \in Nat
    PROVE  \E f : Sums(f, Scores(st, g, n), n) /\ ScoreUpTo(st, g, n) = f[n]
<1> DEFINE s == Scores(st, g, n)
           F == CHOOSE f : Recursion(f, s, n)
<1>1. s \in [1..n -> Nat]
  BY DEF Scores
<1>2. \E f : Recursion(f, s, n)
  BY <1>1, SumsExist, SumsRecursion
<1>3. Recursion(F, s, n)
  BY <1>2
<1>4. Sums(F, s, n)
  BY <1>1, <1>3, RecursionSums
<1>5. ASSUME NEW f PROVE Recursion(f, s, n) <=>
            f = [i \in 0..n |-> IF i = 0 THEN 0 ELSE f[i - 1] + ScoreOf(st, g, i)]
  <2>1. \A i \in 0..n : i = 0 \/ s[i] = ScoreOf(st, g, i)
    BY DEF Scores
  <2>2. QED
    BY <2>1 DEF Recursion
<1>6. ScoreUpTo(st, g, n) = F[n]
  <2>1. ScoreUpTo(st, g, n) =
          (CHOOSE f : f = [i \in 0..n |-> IF i = 0 THEN 0 ELSE f[i - 1] + ScoreOf(st, g, i)])[n]
    BY DEF ScoreUpTo
  <2>2. QED
    BY ZenonT(30), <1>5, <2>1
<1>7. QED
  BY <1>4, <1>6

\* Two sums whose terms differ in one place differ by as much.
Differ(s, t, n, o, d) ==
    /\ n \in Nat /\ o \in 1..n /\ d \in Nat
    /\ s \in [1..n -> Nat] /\ t \in [1..n -> Nat]
    /\ t[o] = s[o] + d
    /\ \A i \in (1..n) \ {o} : t[i] = s[i]

LEMMA SumsDiffer ==
    ASSUME NEW n, NEW s, NEW t, NEW o, NEW d, Differ(s, t, n, o, d),
           NEW f, NEW h, Sums(f, s, n), Sums(h, t, n)
    PROVE  h[n] = f[n] + d
<1>0. /\ n \in Nat /\ o \in 1..n /\ d \in Nat
      /\ s \in [1..n -> Nat] /\ t \in [1..n -> Nat]
      /\ t[o] = s[o] + d
      /\ \A i \in (1..n) \ {o} : t[i] = s[i]
  BY DEF Differ
<1> DEFINE Bad == {i \in 0..n : h[i] # IF i >= o THEN f[i] + d ELSE f[i]}
<1>1. Bad = {}
  <2> SUFFICES ASSUME Bad # {} PROVE FALSE
    OBVIOUS
  <2>0. Bad \in SUBSET Nat
    BY <1>0
  <2>1. PICK i \in Bad : \A m \in Bad : i <= m
    <3> HIDE DEF Bad
    <3>1. QED
      BY <2>0, LeastNatural
  <2>2. i \in 0..n /\ i # 0
    BY <1>0, <2>1 DEF Sums
  <2>3. i \in 1..n /\ i - 1 \in 0..n /\ i - 1 \notin Bad
    BY <1>0, <2>1, <2>2
  <2>4. f[i] = f[i - 1] + s[i] /\ h[i] = h[i - 1] + t[i] /\ s[i] \in Nat /\ t[i] \in Nat
        /\ f[i - 1] \in Nat /\ h[i - 1] \in Nat
    BY <1>0, <2>3 DEF Sums
  <2>5. h[i - 1] = IF i - 1 >= o THEN f[i - 1] + d ELSE f[i - 1]
    BY <1>0, <2>3
  <2>6. h[i] = IF i >= o THEN f[i] + d ELSE f[i]
    <3>1. CASE i = o
      BY <1>0, <2>4, <2>5, <3>1
    <3>2. CASE i # o
      <4>1. t[i] = s[i]
        BY <1>0, <2>3, <3>2
      <4>2. QED
        BY SMTT(30), <1>0, <2>3, <2>4, <2>5, <3>2, <4>1
    <3>3. QED
      BY <3>1, <3>2
  <2>7. QED
    BY <2>1, <2>6
<1>2. n \in 0..n /\ n >= o
  BY <1>0
<1>3. QED
  BY <1>1, <1>2

LEMMA OrdersCount ==
    \E n \in Nat \ {0} : Orders = 1..n /\ Cardinality(Orders) = n
<1> DEFINE n == IF RoundsIn["daily"] > RoundsIn["freeplay"]
                THEN RoundsIn["daily"] ELSE RoundsIn["freeplay"]
<1>1. n \in Nat \ {0} /\ Orders = 1..n
  BY OrdersOf DEF Modes, Orders
<1> HIDE DEF n
<1>2. Cardinality(1..n) = n
  BY <1>1, FS_Interval
<1>3. QED
  BY <1>1, <1>2

SumOf(st, g) == ScoreUpTo(st, g, Cardinality(Orders))

LEMMA ScoresAreNat ==
    ASSUME NEW st \in Stores, NEW g \in Games
    PROVE  \A o \in Orders : ScoreOf(st, g, o) \in Nat
BY DEF ScoreOf, HasRound, Stores, RoundRow

LEMMA SumIs ==
    ASSUME NEW st \in Stores, NEW g \in Games, NEW n \in Nat \ {0},
           Orders = 1..n, Cardinality(Orders) = n
    PROVE  \E f : Sums(f, Scores(st, g, n), n) /\ SumOf(st, g) = f[n]
<1>1. \A i \in 1..n : ScoreOf(st, g, i) \in Nat
  BY ScoresAreNat
<1>2. n \in Nat
  OBVIOUS
<1>3. QED
  BY <1>1, <1>2, ScoreUpToIs DEF SumOf

LEMMA SumMoves ==
    ASSUME NEW st \in Stores, NEW new \in Stores, NEW g \in Games, NEW o \in Orders, NEW d \in Nat,
           ScoreOf(new, g, o) = ScoreOf(st, g, o) + d,
           \A i \in Orders \ {o} : ScoreOf(new, g, i) = ScoreOf(st, g, i)
    PROVE  SumOf(new, g) = SumOf(st, g) + d
<1>1. PICK n \in Nat \ {0} : Orders = 1..n /\ Cardinality(Orders) = n
  BY OrdersCount
<1>2. PICK f : Sums(f, Scores(st, g, n), n) /\ SumOf(st, g) = f[n]
  BY <1>1, SumIs
<1>3. PICK h : Sums(h, Scores(new, g, n), n) /\ SumOf(new, g) = h[n]
  BY <1>1, SumIs
<1>4. Scores(st, g, n) \in [1..n -> Nat] /\ Scores(new, g, n) \in [1..n -> Nat]
  BY <1>1, ScoresAreNat DEF Scores
<1>5. Differ(Scores(st, g, n), Scores(new, g, n), n, o, d)
  BY <1>1, <1>4 DEF Scores, Differ
<1>6. h[n] = f[n] + d
  BY <1>2, <1>3, <1>5, SumsDiffer
<1>7. QED
  BY <1>2, <1>3, <1>6

LEMMA SumIsNat == ASSUME NEW st \in Stores, NEW g \in Games PROVE SumOf(st, g) \in Nat
<1>1. PICK n \in Nat \ {0} : Orders = 1..n /\ Cardinality(Orders) = n
  BY OrdersCount
<1>2. PICK f : Sums(f, Scores(st, g, n), n) /\ SumOf(st, g) = f[n]
  BY <1>1, SumIs
<1>3. QED
  BY <1>1, <1>2 DEF Sums

LEMMA SumStays ==
    ASSUME NEW st \in Stores, NEW new \in Stores, NEW g \in Games,
           \A i \in Orders : ScoreOf(new, g, i) = ScoreOf(st, g, i)
    PROVE  SumOf(new, g) = SumOf(st, g)
<1>1. 1 \in Orders
  BY OrdersCount
<1>2. ScoreOf(new, g, 1) = ScoreOf(st, g, 1) + 0
  BY <1>1, ScoresAreNat
<1>3. SumOf(new, g) = SumOf(st, g) + 0
  BY <1>1, <1>2, SumMoves
<1>4. QED
  BY <1>3, SumIsNat

LEMMA SumOfNothing ==
    ASSUME NEW st \in Stores, NEW g \in Games, \A i \in Orders : ScoreOf(st, g, i) = 0
    PROVE  SumOf(st, g) = 0
<1>1. PICK n \in Nat \ {0} : Orders = 1..n /\ Cardinality(Orders) = n
  BY OrdersCount
<1>2. PICK f : Sums(f, Scores(st, g, n), n) /\ SumOf(st, g) = f[n]
  BY <1>1, SumIs
<1> DEFINE zero == [i \in 0..n |-> 0]
           t == [i \in 1..n |-> 0]
<1>3. Sums(zero, t, n)
  BY <1>1 DEF Sums
<1>4. Scores(st, g, n) = t
  BY <1>1 DEF Scores
<1>5. Differ(t, t, n, 1, 0)
  BY <1>1 DEF Differ
<1>6. zero[n] = 0
  BY <1>1
<1> HIDE DEF zero, t
<1>7. f[n] = zero[n] + 0
  BY <1>2, <1>3, <1>4, <1>5, SumsDiffer
<1>8. QED
  BY <1>2, <1>6, <1>7

Totals(st) == \A g \in Games : st.games[g] # NoRow => st.games[g].score = SumOf(st, g)

\* A step credits a game with what it awards one of its rounds, or moves neither.
LEMMA StepKeepsTotals ==
    ASSUME NEW st \in Stores, StoreSound(st), Ledger(st), Totals(st), NEW new, NEW g \in Games,
           NEW now \in Nat, StoreStep(st, new, g, now)
    PROVE  Totals(new)
<1>1. new \in Stores /\ StoreSound(new)
  BY StepKeepsStore
<1> SUFFICES ASSUME NEW h \in Games, new.games[h] # NoRow
             PROVE  new.games[h].score = SumOf(new, h)
  BY DEF Totals
<1>2. ASSUME st.games[h] # NoRow, new.games[h].score = st.games[h].score,
             \A i \in Orders : ScoreOf(new, h, i) = ScoreOf(st, h, i)
      PROVE  new.games[h].score = SumOf(new, h)
  BY <1>1, <1>2, SumStays DEF Totals
<1>3. CASE new = st
  BY <1>3 DEF Totals
<1>4. CASE Created(st, new, g, now)
  <2>1. \A i \in Orders : ScoreOf(new, h, i) = ScoreOf(st, h, i)
    BY <1>4 DEF Created, ScoreOf, HasRound
  <2>2. CASE h # g
    BY <1>2, <1>4, <2>1, <2>2 DEF Created, Stores
  <2>3. CASE h = g
    <3>1. \A i \in Orders : ScoreOf(new, h, i) = 0
      BY <1>4, <2>1, <2>3 DEF Created, ScoreOf, StoreSound
    <3>2. new.games[h].score = 0
      BY <1>4, <2>3 DEF Created, NewGame, Stores
    <3>3. QED
      BY <1>1, <3>1, <3>2, SumOfNothing
  <2>4. QED
    BY <2>2, <2>3
<1>5. CASE Moved(st, new, g, now)
  <2>1. st.games[g] # NoRow
        /\ \E row \in GameRow :
              row.score = st.games[g].score /\ new.games = [st.games EXCEPT ![g] = row]
    BY <1>5 DEF Moved, Moves
  <2>2. st.games[h] # NoRow /\ new.games[h].score = st.games[h].score
    BY <2>1 DEF Stores
  <2>3. \A i \in Orders : ScoreOf(new, h, i) = ScoreOf(st, h, i)
    <3>1. CASE new.rounds = st.rounds
      BY <3>1 DEF ScoreOf, HasRound
    <3>2. ASSUME NEW o \in Orders, ~HasRound(st, g, o),
                 new.rounds = [st.rounds EXCEPT ![<<g, o>>] = FreshRound(now)]
          PROVE  \A i \in Orders : ScoreOf(new, h, i) = ScoreOf(st, h, i)
      <4>1. FreshRound(now).score = 0
        BY DEF FreshRound
      <4>2. FreshRound(now) # NoRow
        BY FreshRoundRow, Rows
      <4>3. ASSUME NEW i \in Orders PROVE ScoreOf(new, h, i) = ScoreOf(st, h, i)
        BY <3>2, <4>1, <4>2 DEF ScoreOf, HasRound, Stores
      <4>4. QED
        BY <4>3
    <3>3. QED
      BY <1>5, <3>1, <3>2 DEF Moved
  <2>4. QED
    BY <1>2, <2>2, <2>3
<1>6. CASE Played(st, new, g, now)
  <2>1. PICK o \in Orders :
           /\ st.games[g] # NoRow /\ HasRound(st, g, o) /\ PgOpen(st, g, o, now)
           /\ \/ new = Reveal(st, g, o)
              \/ \E c \in Choices : new = Grade(st, g, o, c)
    BY <1>6 DEF Played
  <2> DEFINE r == st.rounds[<<g, o>>]
             q == new.rounds[<<g, o>>]
             won == netScoreForRound(r.hints, r.wrong)
  <2>2. r \in RoundRow /\ r.score = 0 /\ won \in Nat /\ HasRound(new, g, o)
    <3>1. r \in RoundRow /\ r.hints \in 1..Posts /\ r.wrong \in Nat
      BY <2>1 DEF StoreSound, HasRound, Stores, RoundRow
    <3>2. r.score = 0
      BY <2>1 DEF Ledger, Fair, PgOpen
    <3>3. HasRound(new, g, o)
      BY <2>1, StepMovesRounds, RoundStays, Rows DEF HasRound
    <3>4. QED
      BY <3>1, <3>2, <3>3, NetScore
  <2>3. ASSUME NEW x, new.rounds = [st.rounds EXCEPT ![<<g, o>>] = x]
        PROVE  /\ q = x
               /\ \A k \in Games, i \in Orders :
                     k # g \/ i # o => ScoreOf(new, k, i) = ScoreOf(st, k, i)
    BY <2>3 DEF ScoreOf, HasRound, Stores
  <2>4. ScoreOf(st, g, o) = 0 /\ ScoreOf(new, g, o) = q.score
    BY <2>1, <2>2 DEF ScoreOf
  <2>5. CASE new = Reveal(st, g, o)
    <3>1. Revealed(st, new, g, o)
      BY <2>1, <2>5, RevealIs
    <3>2. PICK n \in 1..Posts : new.rounds = [st.rounds EXCEPT ![<<g, o>>] = [r EXCEPT !.hints = n]]
      BY <3>1 DEF Revealed
    <3>3. q.score = 0
      BY <2>2, <2>3, <3>2 DEF RoundRow
    <3>4. \A i \in Orders : ScoreOf(new, h, i) = ScoreOf(st, h, i)
      BY <2>3, <2>4, <3>2, <3>3
    <3>5. QED
      BY <1>2, <3>1, <3>4 DEF Revealed
  <2>6. ASSUME NEW c \in Choices, new = Grade(st, g, o, c)
        PROVE  new.games[h].score = SumOf(new, h)
    <3>1. Guessed(st, new, g, o, c)
      BY <2>1, <2>6, GradeIs
    <3>2. PICK x : GradedRow(r, x, c) /\ new.rounds = [st.rounds EXCEPT ![<<g, o>>] = x]
      BY <3>1 DEF Guessed
    <3>3. q = x /\ GradedRow(r, q, c)
      BY <2>3, <3>2
    <3>4. CASE c # Target
      <4>1. q.score = 0 /\ new.games = st.games
        BY <2>2, <3>1, <3>3, <3>4 DEF GradedRow, RoundRow, Guessed
      <4>2. \A i \in Orders : ScoreOf(new, h, i) = ScoreOf(st, h, i)
        BY <2>3, <2>4, <3>2, <4>1
      <4>3. QED
        BY <1>2, <4>1, <4>2
    <3>5. CASE c = Target
      <4>1. q = [r EXCEPT !.status = "resolved_correct", !.score = won]
        BY <3>3, <3>5 DEF GradedRow
      <4>2. new.games = [st.games EXCEPT ![g] =
                           [st.games[g] EXCEPT !.score = st.games[g].score + won]]
        BY <3>1, <3>5 DEF Guessed
      <4> HIDE DEF won
      <4>3. q.score = won
        BY <2>2, <4>1 DEF RoundRow
      <4>4. st.games[g] \in GameRow
        BY <2>1 DEF Stores
      <4>5. CASE h # g
        <5>1. \A i \in Orders : ScoreOf(new, h, i) = ScoreOf(st, h, i)
          BY <2>3, <3>2, <4>5
        <5>2. new.games[h] = st.games[h]
          BY <4>2, <4>5 DEF Stores
        <5>3. QED
          BY <1>2, <5>1, <5>2
      <4>6. CASE h = g
        <5>1. new.games[g].score = st.games[g].score + won
          BY <4>2, <4>4 DEF Stores, GameRow
        <5>2. ScoreOf(new, g, o) = ScoreOf(st, g, o) + won
          BY <2>2, <2>4, <4>3
        <5>3. \A i \in Orders \ {o} : ScoreOf(new, g, i) = ScoreOf(st, g, i)
          BY <2>3, <3>2
        <5>4. SumOf(new, g) = SumOf(st, g) + won
          BY <1>1, <2>2, <5>2, <5>3, SumMoves
        <5>5. st.games[g].score = SumOf(st, g)
          BY <2>1 DEF Totals
        <5>6. QED
          BY <4>6, <5>1, <5>4, <5>5
      <4>7. QED
        BY <4>5, <4>6
    <3>6. QED
      BY <3>4, <3>5
  <2>7. QED
    BY <2>1, <2>5, <2>6
<1>7. QED
  BY <1>3, <1>4, <1>5, <1>6 DEF StoreStep

-----------------------------------------------------------------------------
(* Rounds left behind, and rounds that are settled *)

Closed(st, upto) ==
    \A g \in Games : st.games[g] # NoRow =>
        \A o \in Orders : o <= st.games[g].cur /\ HasRound(st, g, o) =>
            st.rounds[<<g, o>>].status # "active" \/ upto >= st.rounds[<<g, o>>].expires

\* No step leaves a playable round behind a game's index.
LEMMA StepKeepsClosed ==
    ASSUME NEW st \in Stores, StoreSound(st), NEW upto \in Nat, Closed(st, upto), NEW new,
           NEW g \in Games, NEW now \in Nat, now <= upto, StoreStep(st, new, g, now)
    PROVE  Closed(new, upto)
<1>0. new \in Stores /\ StoreSound(new)
  BY StepKeepsStore
<1> SUFFICES ASSUME NEW h \in Games, new.games[h] # NoRow, NEW o \in Orders,
                    o <= new.games[h].cur, HasRound(new, h, o)
             PROVE  \/ new.rounds[<<h, o>>].status # "active"
                    \/ upto >= new.rounds[<<h, o>>].expires
  BY DEF Closed
<1> DEFINE r == st.rounds[<<h, o>>]
           q == new.rounds[<<h, o>>]
<1>1. /\ GameMoves(st, new, h, now) /\ RoundMoves(st, new, h, o, now)
      /\ new.games[h] \in GameRow /\ o \in Nat
  <2>1. GameMoves(st, new, h, now) /\ RoundMoves(st, new, h, o, now)
    BY StepMovesGames, StepMovesRounds
  <2>2. new.games[h] \in GameRow
    BY <1>0 DEF Stores
  <2>3. o \in Nat
    BY OrdersCount
  <2>4. QED
    BY <2>1, <2>2, <2>3
<1>2. HasRound(st, h, o)
  <2>1. ~(o > new.games[h].cur)
    BY <1>1 DEF GameRow
  <2>2. QED
    BY <1>1, <2>1 DEF RoundMoves, HasRound
<1>3. r \in RoundRow /\ st.games[h] # NoRow /\ st.games[h] \in GameRow
  BY <1>2 DEF StoreSound, Stores, HasRound
<1>4. r.status # "active" \/ upto >= r.expires
  <2>1. CASE o <= st.games[h].cur
    BY <1>2, <1>3, <2>1 DEF Closed
  <2>2. CASE o > st.games[h].cur
    <3>1. new.games[h].cur # st.games[h].cur
      BY <1>1, <1>3, <2>2 DEF GameRow
    <3>2. \A n \in Nat : [st.games[h] EXCEPT !.score = st.games[h].score + n].cur = st.games[h].cur
      BY <1>3 DEF GameRow
    <3>3. Moves(st, h, new.games[h], now)
      BY <1>1, <1>3, <3>1, <3>2 DEF GameMoves
    <3>4. o = new.games[h].cur /\ ~PgOpen(st, h, o, now)
      BY <1>1, <1>2, <1>3, <2>2, <3>1, <3>3 DEF Moves, GameRow
    <3>5. QED
      BY <1>3, <3>4 DEF PgOpen, RoundRow
  <2>3. QED
    BY <1>1, <1>3, <2>1, <2>2 DEF GameRow
<1>5. CASE q = r
  BY <1>4, <1>5
<1>6. ASSUME NEW n, q = [r EXCEPT !.hints = n] PROVE q.status = r.status /\ q.expires = r.expires
  BY <1>3, <1>6 DEF RoundRow
<1>7. ASSUME NEW c \in Choices, GradedRow(r, q, c), r.status = "active"
      PROVE  q.expires = r.expires
  BY <1>3, <1>7 DEF GradedRow, RoundRow
<1>8. QED
  BY <1>1, <1>2, <1>4, <1>5, <1>6, <1>7 DEF RoundMoves, PgOpen

\* What a step leaves of settled rounds and completed games.
Stands(st, new) ==
    \A g \in Games :
      /\ \A o \in Orders :
            HasRound(st, g, o) /\ st.rounds[<<g, o>>].status # "active" =>
                new.rounds[<<g, o>>] = st.rounds[<<g, o>>]
      /\ st.games[g] # NoRow /\ st.games[g].status = "completed" =>
            /\ new.games[g].status = "completed"
            /\ new.games[g].token = st.games[g].token

LEMMA StepStands ==
    ASSUME NEW st \in Stores, StoreSound(st), NEW new, NEW g \in Games, NEW now \in Nat,
           StoreStep(st, new, g, now)
    PROVE  Stands(st, new)
<1> SUFFICES ASSUME NEW h \in Games
             PROVE  /\ \A o \in Orders :
                          HasRound(st, h, o) /\ st.rounds[<<h, o>>].status # "active" =>
                              new.rounds[<<h, o>>] = st.rounds[<<h, o>>]
                    /\ st.games[h] # NoRow /\ st.games[h].status = "completed" =>
                          /\ new.games[h].status = "completed"
                          /\ new.games[h].token = st.games[h].token
  BY DEF Stands
<1>1. GameMoves(st, new, h, now) /\ \A o \in Orders : RoundMoves(st, new, h, o, now)
  BY StepMovesGames, StepMovesRounds
<1>2. ASSUME NEW o \in Orders, HasRound(st, h, o), st.rounds[<<h, o>>].status # "active"
      PROVE  new.rounds[<<h, o>>] = st.rounds[<<h, o>>]
  BY <1>1, <1>2 DEF RoundMoves, PgOpen
<1>3. ASSUME st.games[h] # NoRow, st.games[h].status = "completed"
      PROVE  new.games[h].status = "completed" /\ new.games[h].token = st.games[h].token
  <2>1. st.games[h] \in GameRow
    BY <1>3 DEF Stores
  <2>2. ASSUME NEW n \in Nat, new.games[h] = [st.games[h] EXCEPT !.score = st.games[h].score + n]
        PROVE  new.games[h].status = "completed" /\ new.games[h].token = st.games[h].token
    BY <1>3, <2>1, <2>2 DEF GameRow
  <2>3. QED
    BY <1>1, <1>3, <2>2 DEF GameMoves, Moves
<1>4. QED
  BY <1>2, <1>3

-----------------------------------------------------------------------------
(* The inductive invariant *)

\* A key whose mutation ran has its row, and a key that is reserved is reserved by one
\* request and has not run.
KeySound ==
    \A k \in Keys :
       /\ runs[k] = 0 \/ (runs[k] = 1 /\ idem[k] # Unused)
       /\ \A p \in Slots : slot[p].phase = "reserved" /\ slot[p].key = k =>
             /\ runs[k] = 0 /\ idem[k] # Unused
             /\ \A q \in Slots \ {p} : slot[q].phase = "reserved" => slot[q].key # k

\* A request works with a time that has been, and the game it is to create is nobody's
\* else, or its player's daily game.
Working(p) ==
    /\ slot[p].now <= clock
    /\ slot[p].phase = "reserved" => slot[p].key # Fresh
    /\ slot[p].phase # "ran" /\ slot[p].call.kind \in {"daily", "freeplay"} =>
          \/ /\ db.games[slot[p].call.g] = NoRow
             /\ \A q \in Slots \ {p} : slot[q] # Idle => slot[q].call.g # slot[p].call.g
          \/ slot[p].call.kind = "daily" /\ slot[p].call.g \in DailyOf(db, slot[p].call.s)

SlotSound == \A p \in Slots : slot[p] # Idle => Working(p)

IInv ==
    /\ TypeOK
    /\ StoreSound(db)
    /\ Ledger(db)
    /\ Totals(db)
    /\ Closed(db, clock)
    /\ KeySound
    /\ SlotSound

LEMMA Phases ==
    /\ Idle.phase = "idle"
    /\ \A x \in Busy : /\ x.phase \in {"arrived", "reserved"} /\ x.call \in Calls
                       /\ x.key \in Keys \cup {Fresh} /\ x.now \in Nat /\ x # Idle
    /\ \A x \in Done : /\ x.phase = "ran" /\ x.call \in Calls /\ x.key \in Keys
                       /\ x.now \in Nat /\ x # Idle
BY DEF Idle, Busy, Done

LEMMA RowStates ==
    ASSUME NEW call
    PROVE  Pending(call) # Unused /\ Stored(call) # Unused
BY DEF Pending, Stored, Unused

LEMMA InitInv == Init => IInv
<1> SUFFICES ASSUME Init PROVE IInv
  OBVIOUS
<1>1. /\ db = EmptyStore /\ clock = 0 /\ clock \in 0..MaxClock
      /\ slot = [p \in Slots |-> Idle] /\ idem = [k \in Keys |-> Unused]
      /\ runs = [k \in Keys |-> 0]
  BY SlotAssumption DEF Init
<1>2. EmptyStore \in Stores
  BY DEF EmptyStore, Stores
<1>3. TypeOK
  BY <1>1, <1>2 DEF TypeOK, IdemRow
<1>4. \A g \in Games : db.games[g] = NoRow /\ \A o \in Orders : ~HasRound(db, g, o)
  BY <1>1 DEF EmptyStore, HasRound
<1>5. db.guesses = {}
  BY <1>1 DEF EmptyStore
<1>6. StoreSound(db) /\ Ledger(db) /\ Totals(db) /\ Closed(db, clock)
  BY <1>4, <1>5 DEF StoreSound, Ledger, Totals, Closed
<1>7. KeySound /\ SlotSound
  BY <1>1, Phases DEF KeySound, SlotSound
<1>8. QED
  BY <1>3, <1>6, <1>7 DEF IInv

\* The transaction of a request is a step of the store on its own game.
LEMMA RunStep ==
    ASSUME IInv, NEW p \in Slots, Run(p)
    PROVE  /\ slot[p] \in Busy /\ slot[p].now <= clock
           /\ StoreStep(db, db', slot[p].call.g, slot[p].now)
<1>1. slot[p] \in Busy
  BY Phases DEF IInv, TypeOK, Run
<1>2. /\ slot[p].call \in Calls /\ slot[p].now \in Nat /\ slot[p].now <= clock
      /\ db \in Stores /\ StoreSound(db) /\ slot[p].phase # "ran" /\ Working(p)
  BY <1>1, Phases DEF IInv, TypeOK, SlotSound, Working
<1>3. db' = Transaction(db, slot[p].call, slot[p].now).st
  BY DEF Run
<1>4. slot[p].call.kind \in {"daily", "freeplay"} =>
         \/ db.games[slot[p].call.g] = NoRow
         \/ slot[p].call.kind = "daily" /\ slot[p].call.g \in DailyOf(db, slot[p].call.s)
  BY <1>2 DEF Working
<1>5. StoreStep(db, Transaction(db, slot[p].call, slot[p].now).st, slot[p].call.g, slot[p].now)
  BY <1>2, <1>4, TransactionStep
<1>6. QED
  BY <1>1, <1>2, <1>3, <1>5

LEMMA RunKeeps ==
    ASSUME IInv, NEW p \in Slots, Run(p)
    PROVE  IInv'
<1> DEFINE g == slot[p].call.g
           now == slot[p].now
           call == slot[p].call
           k == slot[p].key
<1>1. /\ slot[p] \in Busy /\ now <= clock /\ StoreStep(db, db', g, now)
      /\ call \in Calls /\ g \in Games /\ now \in Nat /\ k \in Keys \cup {Fresh}
      /\ slot[p] # Idle
  BY RunStep, Phases DEF Calls
<1>2. db \in Stores /\ StoreSound(db) /\ Ledger(db) /\ Totals(db) /\ Closed(db, clock)
      /\ clock \in Nat
  BY SlotAssumption DEF IInv, TypeOK
<1>3. db' \in Stores /\ StoreSound(db') /\ Ledger(db') /\ Totals(db') /\ Closed(db', clock)
  BY <1>1, <1>2, StepKeepsStore, StepKeepsLedger, StepKeepsTotals, StepKeepsClosed
<1>4. /\ clock' = clock /\ idem' = idem
      /\ \/ /\ k \in Keys /\ slot' = [slot EXCEPT ![p] = [slot[p] EXCEPT !.phase = "ran"]]
            /\ runs' = [runs EXCEPT ![k] = runs[k] + 1]
         \/ slot' = [slot EXCEPT ![p] = Idle] /\ runs' = runs
  BY <1>1 DEF Run
<1>5. [slot[p] EXCEPT !.phase = "ran"] \in [phase : {"ran"}, call : Calls, key : {k}, now : Nat]
  BY <1>1 DEF Busy
<1>6. slot[p].phase = "reserved" \/ (slot[p].phase = "arrived" /\ k = Fresh)
  BY DEF Run
<1>7. /\ slot'[p] = Idle \/ slot'[p] \in Done
      /\ \A q \in Slots \ {p} : slot'[q] = slot[q]
      /\ slot' \in [Slots -> {Idle} \cup Busy \cup Done]
  <2>1. slot \in [Slots -> {Idle} \cup Busy \cup Done]
    BY DEF IInv, TypeOK
  <2>2. k \in Keys => [slot[p] EXCEPT !.phase = "ran"] \in Done
    BY <1>5 DEF Done
  <2>3. QED
    BY <1>4, <2>1, <2>2
<1>8. runs' \in [Keys -> Nat]
  BY <1>4 DEF IInv, TypeOK
<1>9. TypeOK'
  BY <1>3, <1>4, <1>7, <1>8 DEF IInv, TypeOK
<1>10. KeySound'
  <2>1. ASSUME NEW j \in Keys
        PROVE  /\ runs'[j] = 0 \/ (runs'[j] = 1 /\ idem'[j] # Unused)
               /\ \A x \in Slots : slot'[x].phase = "reserved" /\ slot'[x].key = j =>
                     /\ runs'[j] = 0 /\ idem'[j] # Unused
                     /\ \A q \in Slots \ {x} : slot'[q].phase = "reserved" => slot'[q].key # j
    <3>1. slot'[p].phase # "reserved"
      BY <1>7, Phases
    <3>2. CASE runs'[j] = runs[j]
      BY <1>4, <1>7, <3>1, <3>2 DEF IInv, KeySound
    <3>3. CASE runs'[j] # runs[j]
      <4>1. j = k /\ runs'[j] = runs[j] + 1 /\ runs \in [Keys -> Nat]
        BY <1>4, <3>3 DEF IInv, TypeOK
      <4>2. slot[p].phase = "reserved" /\ slot[p].key = j
        BY <1>6, <4>1, SlotAssumption
      <4>3. runs[j] = 0 /\ idem[j] # Unused
            /\ \A q \in Slots \ {p} : slot[q].phase = "reserved" => slot[q].key # j
        BY <4>2 DEF IInv, KeySound
      <4>4. QED
        BY <1>4, <1>7, <3>1, <4>1, <4>3
    <3>4. QED
      BY <3>2, <3>3
  <2>2. QED
    BY <2>1 DEF KeySound
<1>11. SlotSound'
  <2>1. SUFFICES ASSUME NEW q \in Slots, slot'[q] # Idle PROVE Working(q)'
    BY DEF SlotSound
  <2>2. CASE q = p
    <3>1. slot'[p] \in Done /\ slot'[p].now = now
      BY <1>1, <1>4, <1>5, <1>7, <2>1, <2>2 DEF Busy, IInv, TypeOK
    <3>2. QED
      BY <1>1, <1>4, <2>2, <3>1, Phases DEF Working
  <2>3. CASE q # p
    <3>1. slot'[q] = slot[q] /\ slot[q] # Idle /\ Working(q)
      BY <1>7, <2>1, <2>3 DEF IInv, SlotSound
    <3>2. slot[q].call \in Calls
      BY <3>1, Phases DEF IInv, TypeOK
    <3>3. slot[q].call.g \in Games /\ slot[q].call.s \in Players
      BY <3>2 DEF Calls
    <3>4. slot[q].call.g # g => db'.games[slot[q].call.g] = db.games[slot[q].call.g]
      BY <1>1, <1>2, <3>3, StepMovesGames
    <3>5. DailyOf(db, slot[q].call.s) \subseteq DailyOf(db', slot[q].call.s)
      <4>1. ASSUME NEW h \in Games, Owned(db, h, slot[q].call.s), db.games[h].mode = "daily"
            PROVE  Owned(db', h, slot[q].call.s) /\ db'.games[h].mode = "daily"
        <5>1. GameMoves(db, db', h, now)
          BY <1>1, <1>2, StepMovesGames
        <5>2. /\ db'.games[h] \in GameRow /\ db'.games[h].owner = db.games[h].owner
              /\ db'.games[h].mode = db.games[h].mode
          BY <1>1, <1>2, <4>1, <5>1, GameStays DEF Owned
        <5>3. QED
          BY <4>1, <5>2, Rows DEF Owned
      <4>2. QED
        BY <4>1 DEF DailyOf
    <3>6. \A x \in Slots \ {q} : slot'[x] # Idle => slot[x] # Idle /\ slot'[x].call = slot[x].call
      <4>1. slot'[p] # Idle => slot'[p].call = slot[p].call
        BY <1>1, <1>4 DEF Busy, IInv, TypeOK
      <4>2. QED
        BY <1>1, <1>7, <4>1
    <3>7. CASE slot[q].phase # "ran" /\ slot[q].call.kind \in {"daily", "freeplay"}
      <4>1. \/ /\ db'.games[slot[q].call.g] = NoRow
               /\ \A x \in Slots \ {q} : slot'[x] # Idle => slot'[x].call.g # slot[q].call.g
            \/ slot[q].call.kind = "daily" /\ slot[q].call.g \in DailyOf(db', slot[q].call.s)
        BY <1>1, <2>3, <3>1, <3>4, <3>5, <3>6, <3>7 DEF Working
      <4>2. QED
        BY <1>4, <3>1, <4>1 DEF Working
    <3>8. CASE ~(slot[q].phase # "ran" /\ slot[q].call.kind \in {"daily", "freeplay"})
      BY <1>4, <3>1, <3>8 DEF Working
    <3>9. QED
      BY <3>7, <3>8
  <2>4. QED
    BY <2>2, <2>3
<1>12. StoreSound(db)' /\ Ledger(db)' /\ Totals(db)' /\ Closed(db, clock)'
  BY <1>3, <1>4 DEF StoreSound, Ledger, Totals, Closed, Fair, WrongIn, SumOf, ScoreUpTo,
                    ScoreOf, HasRound, Total
<1>13. QED
  BY <1>9, <1>10, <1>11, <1>12 DEF IInv

\* A request that arrives, reserves, completes or dies keeps what the rows say.
LEMMA SameStore ==
    ASSUME IInv, db' = db, clock' = clock
    PROVE  /\ db' \in Stores /\ clock' \in 0..MaxClock
           /\ StoreSound(db)' /\ Ledger(db)' /\ Totals(db)' /\ Closed(db, clock)'
<1>1. StoreSound(db)'
  BY DEF IInv, StoreSound, HasRound, Total
<1>2. Ledger(db)'
  BY DEF IInv, Ledger, Fair, WrongIn, HasRound
<1>3. Totals(db)'
  BY DEF IInv, Totals, SumOf, ScoreUpTo, ScoreOf, HasRound
<1>4. Closed(db, clock)'
  BY DEF IInv, Closed, HasRound
<1>5. QED
  BY <1>1, <1>2, <1>3, <1>4 DEF IInv, TypeOK

\* A slot that becomes idle takes nothing from the others.
LEMMA IdleKeeps ==
    ASSUME IInv, NEW P \in SUBSET Slots, slot' \in [Slots -> {Idle} \cup Busy \cup Done],
           \A p \in P : slot'[p] = Idle, \A p \in Slots \ P : slot'[p] = slot[p],
           db' = db, clock' = clock, runs' = runs, idem' \in [Keys -> IdemRow],
           \A k \in Keys : idem[k] # Unused => idem'[k] # Unused
    PROVE  IInv'
<1>1. KeySound'
  <2>1. \A p \in Slots : slot'[p].phase = "reserved" => slot'[p] = slot[p]
    BY Phases
  <2>2. QED
    BY <2>1 DEF IInv, KeySound
<1>2. SlotSound'
  <2>1. SUFFICES ASSUME NEW p \in Slots, slot'[p] # Idle PROVE Working(p)'
    BY DEF SlotSound
  <2>2. /\ slot'[p] = slot[p] /\ Working(p)
        /\ \A q \in Slots : slot'[q] # Idle => slot[q] # Idle /\ slot'[q] = slot[q]
    BY <2>1 DEF IInv, SlotSound
  <2>3. QED
    BY <2>2 DEF Working, DailyOf, Owned
<1>3. QED
  BY <1>1, <1>2, SameStore DEF IInv, TypeOK

LEMMA ArriveKeeps ==
    ASSUME IInv, NEW p \in Slots, NEW key \in Keys \cup {Fresh}, NEW call \in Calls,
           Arrive(p, call, key)
    PROVE  IInv'
<1> DEFINE x == [phase |-> "arrived", call |-> call, key |-> key, now |-> clock]
<1>1. /\ slot[p] = Idle /\ Sensible(call) /\ slot' = [slot EXCEPT ![p] = x]
      /\ clock' = clock /\ db' = db /\ idem' = idem /\ runs' = runs
  BY DEF Arrive
<1>2. x \in Busy /\ x.phase = "arrived" /\ x.call = call /\ x.now = clock /\ clock \in Nat
  BY SlotAssumption DEF Busy, IInv, TypeOK
<1> HIDE DEF x
<1>3. /\ slot'[p] = x /\ \A q \in Slots \ {p} : slot'[q] = slot[q]
      /\ slot' \in [Slots -> {Idle} \cup Busy \cup Done]
  BY <1>1, <1>2 DEF IInv, TypeOK
<1>4. KeySound'
  BY <1>1, <1>2, <1>3 DEF IInv, KeySound
<1>5. SlotSound'
  <2>1. SUFFICES ASSUME NEW q \in Slots, slot'[q] # Idle PROVE Working(q)'
    BY DEF SlotSound
  <2>2. CASE q = p
    <3>1. call.kind \in {"daily", "freeplay"} =>
            \/ /\ db.games[call.g] = NoRow
               /\ \A y \in Slots \ {p} : slot'[y] # Idle => slot'[y].call.g # call.g
            \/ call.kind = "daily" /\ call.g \in DailyOf(db, call.s)
      BY <1>1, <1>3 DEF Sensible
    <3>2. QED
      BY <1>1, <1>2, <1>3, <2>2, <3>1 DEF Working, DailyOf, Owned
  <2>3. CASE q # p
    <3>1. slot'[q] = slot[q] /\ Working(q) /\ slot[q] # Idle
      BY <1>3, <2>1, <2>3 DEF IInv, SlotSound
    <3>2. ASSUME slot[q].phase # "ran", slot[q].call.kind \in {"daily", "freeplay"},
                 db.games[slot[q].call.g] = NoRow
          PROVE  slot[q].call.g # call.g
      <4>1. \A h \in DailyOf(db, call.s) : db.games[h] # NoRow
        BY DEF DailyOf, Owned
      <4>2. call.kind \in {"round", "advance"} => db.games[call.g] # NoRow
        BY <1>1 DEF Sensible
      <4>3. call.kind \in {"hint", "guess"} => db.games[call.g] # NoRow
        <5>1. call.kind \in {"hint", "guess"} => call.o \in Orders /\ call.g \in Games
          BY DEF Calls
        <5>2. QED
          BY <1>1, <5>1 DEF Sensible, IInv, StoreSound
      <4>4. call.kind \in {"daily", "freeplay"} =>
              slot[q].call.g # call.g \/ db.games[call.g] # NoRow
        BY <1>1, <3>1, <4>1 DEF Sensible
      <4>5. call.kind \in {"daily", "freeplay", "round", "advance", "hint", "guess"}
        BY DEF Calls
      <4>6. QED
        BY <3>2, <4>2, <4>3, <4>4, <4>5
    <3>3. \A y \in Slots \ {p} : slot'[y] = slot[y]
      BY <1>3
    <3>4. slot'[p].call = call
      BY <1>2, <1>3
    <3>5. CASE slot[q].phase # "ran" /\ slot[q].call.kind \in {"daily", "freeplay"}
      <4>1. \/ /\ db.games[slot[q].call.g] = NoRow
               /\ \A y \in Slots \ {q} : slot'[y] # Idle => slot'[y].call.g # slot[q].call.g
            \/ slot[q].call.kind = "daily" /\ slot[q].call.g \in DailyOf(db, slot[q].call.s)
        BY <3>1, <3>2, <3>3, <3>4, <3>5 DEF Working
      <4>2. QED
        BY <1>1, <3>1, <4>1 DEF Working, DailyOf, Owned
    <3>6. CASE ~(slot[q].phase # "ran" /\ slot[q].call.kind \in {"daily", "freeplay"})
      BY <1>1, <3>1, <3>6 DEF Working
    <3>7. QED
      BY <3>5, <3>6
  <2>4. QED
    BY <2>2, <2>3
<1>6. QED
  BY <1>1, <1>3, <1>4, <1>5, SameStore DEF IInv, TypeOK

LEMMA ReserveKeeps ==
    ASSUME IInv, NEW p \in Slots, Reserve(p)
    PROVE  IInv'
<1> DEFINE k == slot[p].key
<1>1. /\ slot[p].phase = "arrived" /\ k # Fresh /\ clock' = clock /\ db' = db /\ runs' = runs
      /\ slot \in [Slots -> {Idle} \cup Busy \cup Done] /\ idem \in [Keys -> IdemRow]
  BY DEF Reserve, IInv, TypeOK
<1>2. slot[p] \in Busy /\ k \in Keys /\ slot[p].call \in Calls /\ slot[p] # Idle
  BY <1>1, Phases
<1>3. CASE ~Wins(k)
  <2>1. slot' = [slot EXCEPT ![p] = Idle] /\ idem' = idem
    BY <1>3 DEF Reserve
  <2>2. /\ slot'[p] = Idle /\ \A q \in Slots \ {p} : slot'[q] = slot[q]
        /\ slot' \in [Slots -> {Idle} \cup Busy \cup Done]
    BY <1>1, <2>1
  <2>3. \A q \in {p} : slot'[q] = Idle
    BY <2>2
  <2>4. {p} \in SUBSET Slots
    OBVIOUS
  <2>5. QED
    BY <1>1, <2>1, <2>2, <2>3, <2>4, IdleKeeps
<1>4. CASE Wins(k)
  <2> DEFINE x == [slot[p] EXCEPT !.phase = "reserved"]
             row == Pending(slot[p].call)
  <2>1. slot' = [slot EXCEPT ![p] = x] /\ idem' = [idem EXCEPT ![k] = row] /\ idem[k] = Unused
    BY <1>4 DEF Reserve, Wins
  <2>2. /\ x \in Busy /\ x.phase = "reserved" /\ x.key = k /\ x.call = slot[p].call
        /\ x.now = slot[p].now
    BY <1>2 DEF Busy
  <2>3. row \in IdemRow /\ row # Unused
    BY <1>2, RowStates DEF Pending, IdemRow
  <2> HIDE DEF x, row
  <2>4. /\ slot'[p] = x /\ \A q \in Slots \ {p} : slot'[q] = slot[q]
        /\ slot' \in [Slots -> {Idle} \cup Busy \cup Done]
        /\ idem'[k] = row /\ \A j \in Keys \ {k} : idem'[j] = idem[j]
        /\ idem' \in [Keys -> IdemRow]
    BY <1>1, <1>2, <2>1, <2>2, <2>3
  <2>5. runs[k] = 0 /\ \A q \in Slots : ~(slot[q].phase = "reserved" /\ slot[q].key = k)
    BY <1>2, <2>1 DEF IInv, KeySound
  <2>6. KeySound'
    BY <1>1, <1>2, <2>2, <2>3, <2>4, <2>5 DEF IInv, KeySound
  <2>7. SlotSound'
    <3>1. SUFFICES ASSUME NEW q \in Slots, slot'[q] # Idle PROVE Working(q)'
      BY DEF SlotSound
    <3>2. \A y \in Slots : /\ slot'[y] # Idle => slot[y] # Idle
                           /\ slot'[y].call = slot[y].call /\ slot'[y].now = slot[y].now
      BY <1>2, <2>2, <2>4
    <3>3. slot'[q].phase = slot[q].phase \/ (q = p /\ slot[q].phase = "arrived")
      BY <1>1, <2>4
    <3>4. Working(q)
      BY <3>1, <3>2 DEF IInv, SlotSound
    <3>5. slot'[q].phase = "reserved" => slot'[q].key # Fresh
      BY <1>1, <2>2, <2>4, <3>4 DEF Working
    <3>6. slot'[q].phase # "ran" => slot[q].phase # "ran"
      BY <3>3, <1>1
    <3>7. QED
      BY <1>1, <3>2, <3>4, <3>5, <3>6 DEF Working, DailyOf, Owned
  <2>8. QED
    BY <1>1, <2>4, <2>6, <2>7, SameStore DEF IInv, TypeOK
<1>5. QED
  BY <1>3, <1>4

LEMMA CompleteKeeps ==
    ASSUME IInv, NEW p \in Slots, Complete(p)
    PROVE  IInv'
<1> DEFINE k == slot[p].key
           row == Stored(slot[p].call)
<1>1. /\ slot[p].phase = "ran" /\ clock' = clock /\ db' = db /\ runs' = runs
      /\ idem' = [idem EXCEPT ![k] = row] /\ slot' = [slot EXCEPT ![p] = Idle]
      /\ slot \in [Slots -> {Idle} \cup Busy \cup Done] /\ idem \in [Keys -> IdemRow]
  BY DEF Complete, IInv, TypeOK
<1>2. slot[p] \in Done /\ k \in Keys /\ slot[p].call \in Calls
  BY <1>1, Phases
<1>3. row \in IdemRow /\ row # Unused
  BY <1>2, RowStates DEF Stored, IdemRow
<1> HIDE DEF row
<1>4. /\ \A q \in {p} : slot'[q] = Idle
      /\ \A q \in Slots \ {p} : slot'[q] = slot[q]
      /\ slot' \in [Slots -> {Idle} \cup Busy \cup Done]
      /\ idem' \in [Keys -> IdemRow] /\ {p} \in SUBSET Slots
      /\ \A j \in Keys : idem[j] # Unused => idem'[j] # Unused
  BY <1>1, <1>2, <1>3
<1>5. QED
  BY <1>1, <1>4, IdleKeeps

LEMMA CrashKeeps == ASSUME IInv, Crash PROVE IInv'
<1>1. /\ slot' = [p \in Slots |-> Idle] /\ idem' = idem
      /\ clock' = clock /\ db' = db /\ runs' = runs
      /\ idem \in [Keys -> IdemRow]
  BY DEF Crash, IInv, TypeOK
<1>2. /\ \A p \in Slots : slot'[p] = Idle
      /\ \A p \in Slots \ Slots : slot'[p] = slot[p]
      /\ slot' \in [Slots -> {Idle} \cup Busy \cup Done] /\ Slots \in SUBSET Slots
  BY <1>1
<1>3. QED
  BY <1>1, <1>2, IdleKeeps

LEMMA TickKeeps == ASSUME IInv, Tick PROVE IInv'
<1>1. /\ clock' = clock + 1 /\ clock' \in 0..MaxClock /\ clock \in Nat /\ clock <= clock'
      /\ db' = db /\ idem' = idem /\ slot' = slot /\ runs' = runs
  BY SlotAssumption DEF Tick, IInv, TypeOK
<1>2. StoreSound(db)' /\ Ledger(db)' /\ Totals(db)'
  <2>1. StoreSound(db)'
    BY <1>1 DEF IInv, StoreSound, HasRound, Total
  <2>2. Ledger(db)'
    BY <1>1 DEF IInv, Ledger, Fair, WrongIn, HasRound
  <2>3. Totals(db)'
    BY <1>1 DEF IInv, Totals, SumOf, ScoreUpTo, ScoreOf, HasRound
  <2>4. QED
    BY <2>1, <2>2, <2>3
<1>3. Closed(db, clock)'
  <2>1. SUFFICES ASSUME NEW g \in Games, db.games[g] # NoRow, NEW o \in Orders,
                        o <= db.games[g].cur, HasRound(db, g, o)
                 PROVE  \/ db.rounds[<<g, o>>].status # "active"
                        \/ clock' >= db.rounds[<<g, o>>].expires
    BY <1>1 DEF Closed, HasRound
  <2>2. db.rounds[<<g, o>>].expires \in Nat
    BY <2>1 DEF IInv, TypeOK, Stores, HasRound, RoundRow
  <2>3. QED
    BY <1>1, <2>1, <2>2 DEF IInv, Closed
<1>4. KeySound'
  BY <1>1 DEF IInv, KeySound
<1>5. SlotSound'
  <2>1. SUFFICES ASSUME NEW p \in Slots, slot[p] # Idle PROVE Working(p)'
    BY <1>1 DEF SlotSound
  <2>2. slot[p].now \in Nat /\ Working(p)
    BY <2>1, Phases DEF IInv, TypeOK, SlotSound
  <2>3. slot[p].now <= clock'
    BY <1>1, <2>2 DEF Working
  <2>4. QED
    BY <1>1, <2>2, <2>3 DEF Working, DailyOf, Owned
<1>6. QED
  BY <1>1, <1>2, <1>3, <1>4, <1>5 DEF IInv, TypeOK

LEMMA NextInv == IInv /\ [Next]_vars => IInv'
<1> SUFFICES ASSUME IInv, [Next]_vars PROVE IInv'
  OBVIOUS
<1>1. CASE UNCHANGED vars
  <2>1. db' = db /\ clock' = clock /\ idem' = idem /\ slot' = slot /\ runs' = runs
    BY <1>1 DEF vars
  <2>2. /\ \A p \in {} : slot'[p] = Idle
        /\ \A p \in Slots \ {} : slot'[p] = slot[p]
        /\ slot' \in [Slots -> {Idle} \cup Busy \cup Done] /\ {} \in SUBSET Slots
        /\ idem' \in [Keys -> IdemRow]
    BY <2>1 DEF IInv, TypeOK
  <2>3. QED
    BY <2>1, <2>2, IdleKeeps
<1>2. CASE Next
  BY <1>2, ArriveKeeps, ReserveKeeps, RunKeeps, CompleteKeeps, CrashKeeps, TickKeeps DEF Next
<1>3. QED
  BY <1>1, <1>2

-----------------------------------------------------------------------------
(* The theorems *)

\* The invariant holds for any players, games, rounds, choices, keys and requests.
THEOREM InvariantHolds == Spec => []IInv
BY InitInv, NextInv, PTL DEF Spec

\* Every variable keeps its type.
THEOREM TypeCorrect == Spec => []TypeOK
<1>1. IInv => TypeOK
  BY DEF IInv
<1>2. QED
  BY <1>1, InvariantHolds, PTL

\* A key's mutation is applied at most once, however often it is sent, wherever it was
\* interrupted.
THEOREM RunOnceHolds == Spec => []RunOnce
<1>1. IInv => RunOnce
  BY DEF IInv, TypeOK, KeySound, RunOnce
<1>2. QED
  BY <1>1, InvariantHolds, PTL

\* A round's row and the guesses on record tell one story, for any number of choices.
THEOREM RoundLedgerHolds == Spec => []RoundLedger
<1>1. IInv => RoundLedger
  BY DEF IInv, Ledger, Fair, WrongIn, RoundLedger, WrongGuesses
<1>2. QED
  BY <1>1, InvariantHolds, PTL

\* A game's total is the sum of its rounds', for any number of rounds.
THEOREM ScoreIsSumHolds == Spec => []ScoreIsSum
<1>1. IInv => ScoreIsSum
  BY DEF IInv, Totals, SumOf, ScoreIsSum
<1>2. QED
  BY <1>1, InvariantHolds, PTL

\* A game never leaves a round that could still be played.
THEOREM NothingLeftOpenHolds == Spec => []NothingLeftOpen
<1>1. IInv => NothingLeftOpen
  BY DEF IInv, Closed, NothingLeftOpen
<1>2. QED
  BY <1>1, InvariantHolds, PTL

\* A settled round and a completed game stay as they are.
THEOREM SettledStandsHolds == Spec => SettledStands
<1>1. IInv /\ [Next]_vars => Stands(db, db')
  <2> SUFFICES ASSUME IInv, [Next]_vars PROVE Stands(db, db')
    OBVIOUS
  <2>1. CASE db' = db
    BY <2>1 DEF Stands
  <2>2. ASSUME NEW p \in Slots, Run(p) PROVE Stands(db, db')
    <3>1. slot[p] \in Busy /\ StoreStep(db, db', slot[p].call.g, slot[p].now)
      BY <2>2, RunStep
    <3>2. slot[p].call.g \in Games /\ slot[p].now \in Nat /\ db \in Stores /\ StoreSound(db)
      BY <3>1, Phases DEF Calls, IInv, TypeOK
    <3>3. QED
      BY <3>1, <3>2, StepStands
  <2>3. QED
    BY <2>1, <2>2 DEF Next, Arrive, Reserve, Complete, Crash, Tick, vars
<1>2. Stands(db, db') =>
        \A g \in Games :
          /\ \A o \in Orders :
               HasRound(db, g, o) /\ db.rounds[<<g, o>>].status # "active" =>
                   db'.rounds[<<g, o>>] = db.rounds[<<g, o>>]
          /\ db.games[g] # NoRow /\ db.games[g].status = "completed" =>
               /\ db'.games[g].status = "completed"
               /\ db'.games[g].token = db.games[g].token
  BY DEF Stands
<1>3. QED
  BY <1>1, <1>2, InvariantHolds, PTL DEF Spec, SettledStands

-----------------------------------------------------------------------------
(* The two implementations side by side, call by call *)

\* The same round on both: the in-memory store may have marked it expired already.
RoundAlike(r, q, now) ==
    \/ r = NoRow /\ q = NoRow
    \/ /\ r \in RoundRow /\ q \in RoundRow /\ r.hints \in 1..Posts
       /\ r.hints = q.hints /\ r.wrong = q.wrong /\ r.score = q.score /\ r.expires = q.expires
       /\ r.status = "active" => r.score = 0
       /\ \/ r.status = q.status
          \/ r.status = "active" /\ q.status = "expired" /\ now >= r.expires

\* The same game: completed on both, when the in-memory one may have advanced again, or
\* at the same round, which is one of its rounds.
GameAlike(a, b) ==
    \/ a = NoRow /\ b = NoRow
    \/ /\ a \in GameRow /\ b \in GameRow
       /\ a.owner = b.owner /\ a.mode = b.mode /\ a.score = b.score
       /\ \/ /\ a.status = "completed" /\ b.status = "completed"
             /\ a.token > 0 /\ b.token > 0
             /\ a.cur = RoundsIn[a.mode] /\ a.cur <= b.cur
          \/ /\ a.status # "completed" /\ b.status # "completed"
             /\ a.token = 0 /\ b.token = 0
             /\ a.cur < RoundsIn[a.mode] /\ a.cur = b.cur

Shaped(st) ==
    /\ st = [games |-> st.games, rounds |-> st.rounds, guesses |-> st.guesses]
    /\ st.games = [g \in Games |-> st.games[g]]
    /\ st.rounds = [r \in Games \X Orders |-> st.rounds[r]]

Alike(p, m, now) ==
    /\ Shaped(p) /\ Shaped(m)
    /\ p.guesses = m.guesses
    /\ \A g \in Games : GameAlike(p.games[g], m.games[g])
    /\ \A g \in Games, o \in Orders : RoundAlike(p.rounds[<<g, o>>], m.rounds[<<g, o>>], now)

\* A store with one game's row, or one round's row, replaced.
PutGame(st, g, row) ==
    [games |-> [st.games EXCEPT ![g] = row], rounds |-> st.rounds, guesses |-> st.guesses]
PutRound(st, g, o, row) ==
    [games |-> st.games, rounds |-> [st.rounds EXCEPT ![<<g, o>>] = row], guesses |-> st.guesses]

\* What both answer alike, and leave alike.
Agree(x, y, now) == Alike(x.st, y.st, now) /\ x.code = y.code

LEMMA AlikeRows ==
    ASSUME NEW p, NEW m, NEW now, Alike(p, m, now), NEW g \in Games
    PROVE  /\ p.games[g] = NoRow <=> m.games[g] = NoRow
           /\ \A s : Owned(p, g, s) <=> Owned(m, g, s)
           /\ p.games[g] # NoRow =>
                /\ p.games[g] \in GameRow /\ m.games[g] \in GameRow
                /\ GameAlike(p.games[g], m.games[g])
                /\ Total(p, g) = Total(m, g) /\ Total(p, g) \in Nat \ {0}
                /\ 1..Total(p, g) \subseteq Orders
           /\ \A o \in Orders : HasRound(p, g, o) <=> HasRound(m, g, o)
<1>1. GameAlike(p.games[g], m.games[g])
  BY DEF Alike
<1>2. p.games[g] # NoRow => p.games[g].mode \in Modes /\ p.games[g].mode = m.games[g].mode
  BY <1>1 DEF GameAlike, GameRow
<1>3. \A o \in Orders : HasRound(p, g, o) <=> HasRound(m, g, o)
  BY NoRowAssumption DEF Alike, RoundAlike, HasRound
<1>4. QED
  BY <1>1, <1>2, <1>3, OrdersOf, NoRowAssumption DEF GameAlike, Owned, Total

\* Time that passes leaves the stores alike.
LEMMA AlikeLater ==
    ASSUME NEW p, NEW m, NEW now \in Nat, Alike(p, m, now)
    PROVE  Alike(p, m, now + 1)
<1>1. ASSUME NEW g \in Games, NEW o \in Orders
      PROVE  RoundAlike(p.rounds[<<g, o>>], m.rounds[<<g, o>>], now + 1)
  <2>1. PICK r, q : r = p.rounds[<<g, o>>] /\ q = m.rounds[<<g, o>>] /\ RoundAlike(r, q, now)
    BY DEF Alike
  <2>2. r \in RoundRow => r.expires \in Nat
    BY DEF RoundRow
  <2>3. QED
    BY <2>1, <2>2 DEF RoundAlike
<1>2. QED
  BY <1>1 DEF Alike

\* What the code writes as an update of a field.
LEMMA PutsGame ==
    ASSUME NEW p, Shaped(p), NEW g, NEW row
    PROVE  [p EXCEPT !.games = [p.games EXCEPT ![g] = row]] = PutGame(p, g, row)
<1>1. PICK G, R, S : p.games = G /\ p.rounds = R /\ p.guesses = S
  OBVIOUS
<1>2. p = [games |-> G, rounds |-> R, guesses |-> S]
  BY <1>1 DEF Shaped
<1>3. PICK games : games = [p.games EXCEPT ![g] = row]
  OBVIOUS
<1>4. [p EXCEPT !.games = games] = [games |-> games, rounds |-> R, guesses |-> S]
  BY <1>2
<1>5. QED
  BY <1>1, <1>3, <1>4 DEF PutGame

LEMMA PutsRound ==
    ASSUME NEW p, Shaped(p), NEW g, NEW o, NEW row
    PROVE  [p EXCEPT !.rounds = [p.rounds EXCEPT ![<<g, o>>] = row]] = PutRound(p, g, o, row)
<1>1. PICK G, R, S : p.games = G /\ p.rounds = R /\ p.guesses = S
  OBVIOUS
<1>2. p = [games |-> G, rounds |-> R, guesses |-> S]
  BY <1>1 DEF Shaped
<1>3. PICK rounds : rounds = [p.rounds EXCEPT ![<<g, o>>] = row]
  OBVIOUS
<1>4. [p EXCEPT !.rounds = rounds] = [games |-> G, rounds |-> rounds, guesses |-> S]
  BY <1>2
<1>5. QED
  BY <1>1, <1>3, <1>4 DEF PutRound

\* Rows that are put where they are.
LEMMA PutSame ==
    ASSUME NEW p, Shaped(p), NEW g \in Games
    PROVE  /\ PutGame(p, g, p.games[g]) = p
           /\ \A o \in Orders : PutRound(p, g, o, p.rounds[<<g, o>>]) = p
BY DEF PutGame, PutRound, Shaped

LEMMA PutGameIs ==
    ASSUME NEW p, Shaped(p), NEW g \in Games, NEW a, NEW p1, p1 = PutGame(p, g, a)
    PROVE  /\ Shaped(p1) /\ p1.rounds = p.rounds /\ p1.guesses = p.guesses
           /\ \A h \in Games : p1.games[h] = IF h = g THEN a ELSE p.games[h]
<1>1. p1 = [games |-> [p.games EXCEPT ![g] = a], rounds |-> p.rounds, guesses |-> p.guesses]
  BY DEF Shaped, PutGame
<1>2. p1.games = [p.games EXCEPT ![g] = a] /\ p1.rounds = p.rounds /\ p1.guesses = p.guesses
  BY <1>1
<1>3. QED
  BY <1>1, <1>2 DEF Shaped

LEMMA PutRoundIs ==
    ASSUME NEW p, Shaped(p), NEW g \in Games, NEW o \in Orders, NEW a, NEW p1,
           p1 = PutRound(p, g, o, a)
    PROVE  /\ Shaped(p1) /\ p1.games = p.games /\ p1.guesses = p.guesses
           /\ \A h \in Games, n \in Orders :
                p1.rounds[<<h, n>>] = IF h = g /\ n = o THEN a ELSE p.rounds[<<h, n>>]
<1>1. p1 = [games |-> p.games, rounds |-> [p.rounds EXCEPT ![<<g, o>>] = a], guesses |-> p.guesses]
  BY DEF Shaped, PutRound
<1>2. p1.rounds = [p.rounds EXCEPT ![<<g, o>>] = a] /\ p1.games = p.games /\ p1.guesses = p.guesses
  BY <1>1
<1>3. <<g, o>> \in Games \X Orders
  OBVIOUS
<1>4. QED
  BY <1>1, <1>2, <1>3 DEF Shaped

\* One game's row on both.
LEMMA GamesPut ==
    ASSUME NEW p, NEW m, NEW now, Alike(p, m, now), NEW g \in Games, NEW a, NEW b,
           GameAlike(a, b), NEW p1, NEW m1, p1 = PutGame(p, g, a), m1 = PutGame(m, g, b)
    PROVE  /\ Alike(p1, m1, now) /\ p1.rounds = p.rounds /\ m1.rounds = m.rounds
           /\ p1.games[g] = a /\ m1.games[g] = b
<1>1. Shaped(p) /\ Shaped(m)
  BY DEF Alike
<1>2. /\ Shaped(p1) /\ p1.rounds = p.rounds /\ p1.guesses = p.guesses
      /\ \A h \in Games : p1.games[h] = IF h = g THEN a ELSE p.games[h]
  BY <1>1, PutGameIs
<1>3. /\ Shaped(m1) /\ m1.rounds = m.rounds /\ m1.guesses = m.guesses
      /\ \A h \in Games : m1.games[h] = IF h = g THEN b ELSE m.games[h]
  BY <1>1, PutGameIs
<1>4. QED
  BY <1>2, <1>3 DEF Alike

\* One round's row on both.
LEMMA RoundsPut ==
    ASSUME NEW p, NEW m, NEW now, Alike(p, m, now), NEW g \in Games, NEW o \in Orders,
           NEW r, NEW q, RoundAlike(r, q, now), NEW p1, NEW m1,
           p1 = PutRound(p, g, o, r), m1 = PutRound(m, g, o, q)
    PROVE  /\ Alike(p1, m1, now) /\ p1.games = p.games /\ m1.games = m.games
           /\ p1.rounds[<<g, o>>] = r /\ m1.rounds[<<g, o>>] = q
<1>1. Shaped(p) /\ Shaped(m)
  BY DEF Alike
<1>2. /\ Shaped(p1) /\ p1.games = p.games /\ p1.guesses = p.guesses
      /\ \A h \in Games, n \in Orders :
            p1.rounds[<<h, n>>] = IF h = g /\ n = o THEN r ELSE p.rounds[<<h, n>>]
  BY <1>1, PutRoundIs
<1>3. /\ Shaped(m1) /\ m1.games = m.games /\ m1.guesses = m.guesses
      /\ \A h \in Games, n \in Orders :
            m1.rounds[<<h, n>>] = IF h = g /\ n = o THEN q ELSE m.rounds[<<h, n>>]
  BY <1>1, PutRoundIs
<1>4. QED
  BY <1>2, <1>3 DEF Alike

\* The refusals and the answers.
LEMMA Refusals ==
    ASSUME NEW p, NEW m, NEW now, Alike(p, m, now), NEW code
    PROVE  Agree(Refuse(p, code), Refuse(m, code), now)
  BY DEF Agree, Refuse

LEMMA Answers ==
    ASSUME NEW p, NEW m, NEW now, Alike(p, m, now), NEW v, NEW w
    PROVE  Agree(Ok(p, v), Ok(m, w), now)
  BY DEF Agree, Ok

\* The game's row expires on one of them: nothing the stores are compared by.
LEMMA Aging ==
    ASSUME NEW p, NEW m, NEW now, Alike(p, m, now), NEW g \in Games, p.games[g] # NoRow
    PROVE  /\ Alike(PgExpire(p, g, now), m, now) /\ PgExpire(p, g, now).rounds = p.rounds
           /\ Alike(p, PgExpire(m, g, now), now) /\ PgExpire(m, g, now).rounds = m.rounds
<1> DEFINE aged(w) == [w EXCEPT !.status = IF w.status = "in_progress" /\ now >= w.expires
                                           THEN "abandoned" ELSE w.status]
<1>1. PICK a, b : a = p.games[g] /\ b = m.games[g] /\ a \in GameRow /\ b \in GameRow /\ GameAlike(a, b)
  BY AlikeRows
<1>2. \A w \in GameRow : /\ aged(w) \in GameRow /\ aged(w).owner = w.owner /\ aged(w).mode = w.mode
                         /\ aged(w).score = w.score /\ aged(w).token = w.token
                         /\ aged(w).cur = w.cur
                         /\ aged(w).status = "completed" <=> w.status = "completed"
  BY DEF GameRow, GameStatus
<1>3. PgExpire(p, g, now) = PutGame(p, g, aged(a)) /\ PgExpire(m, g, now) = PutGame(m, g, aged(b))
  <2>1. /\ PgExpire(p, g, now) = [p EXCEPT !.games = [p.games EXCEPT ![g] = aged(a)]]
        /\ PgExpire(m, g, now) = [m EXCEPT !.games = [m.games EXCEPT ![g] = aged(b)]]
    BY <1>1 DEF PgExpire, Alike, Shaped
  <2>2. PICK a1, b1 : a1 = aged(a) /\ b1 = aged(b)
    OBVIOUS
  <2> HIDE DEF aged
  <2>3. QED
    BY <2>1, <2>2, PutsGame DEF Alike
<1>4. p = PutGame(p, g, a) /\ m = PutGame(m, g, b)
  BY <1>1, PutSame DEF Alike
<1> HIDE DEF aged
<1>5. GameAlike(aged(a), b) /\ GameAlike(a, aged(b))
  BY <1>1, <1>2, NoRowAssumption DEF GameAlike
<1>6. QED
  BY <1>3, <1>4, <1>5, GamesPut

\* The in-memory store marks the round as expired; it is open there exactly if Postgres
\* would still take a hint or a guess on it.
LEMMA MemAging ==
    ASSUME NEW p, NEW m, NEW now \in Nat, Alike(p, m, now), NEW g \in Games, p.games[g] # NoRow,
           NEW o \in Orders, NEW aged, aged = MemExpire(m, g, o, now)
    PROVE  /\ Alike(p, aged, now)
           /\ HasRound(p, g, o) =>
                (aged.rounds[<<g, o>>].status = "active" <=> PgOpen(p, g, o, now))
<1> DEFINE mid == PgExpire(m, g, now)
<1>1. PICK r, q : /\ r = p.rounds[<<g, o>>] /\ q = m.rounds[<<g, o>>] /\ RoundAlike(r, q, now)
                  /\ (HasRound(p, g, o) <=> r # NoRow) /\ (HasRound(m, g, o) <=> q # NoRow)
  BY DEF Alike, HasRound
<1>2. Alike(p, mid, now) /\ mid.rounds = m.rounds
  BY Aging
<1>3. r # NoRow => r.expires \in Nat /\ r.expires = q.expires /\ q # NoRow
  BY <1>1, NoRowAssumption DEF RoundAlike, RoundRow
<1>4. CASE q # NoRow /\ q.status = "active" /\ now >= q.expires
  <2> DEFINE x == [q EXCEPT !.status = "expired", !.score = 0]
  <2>1. aged = PutRound(mid, g, o, x)
    <3>1. aged = [mid EXCEPT !.rounds[<<g, o>>].status = "expired", !.rounds[<<g, o>>].score = 0]
      BY <1>1, <1>4 DEF MemExpire
    <3>2. mid.rounds[<<g, o>>] = q /\ Shaped(mid) /\ <<g, o>> \in Games \X Orders
      BY <1>1, <1>2 DEF Alike
    <3> HIDE DEF mid
    <3>3. aged = [mid EXCEPT !.rounds = [mid.rounds EXCEPT ![<<g, o>>] = x]]
      BY <3>1, <3>2 DEF Shaped
    <3> HIDE DEF x
    <3>4. QED
      BY <3>2, <3>3, PutsRound
  <2>2. RoundAlike(r, x, now) /\ x.status = "expired"
    <3>1. q \in RoundRow
      BY <1>1, <1>4 DEF RoundAlike
    <3>2. x \in RoundRow /\ x.hints = q.hints /\ x.wrong = q.wrong /\ x.expires = q.expires
          /\ x.score = 0 /\ x.status = "expired"
      BY <3>1 DEF RoundRow, RoundStatus
    <3> HIDE DEF x
    <3>3. QED
      BY <1>1, <1>4, <3>2, NoRowAssumption DEF RoundAlike
  <2>3. p = PutRound(p, g, o, r)
    BY <1>1, PutSame DEF Alike
  <2> HIDE DEF mid, x
  <2>4. Alike(p, aged, now) /\ aged.rounds[<<g, o>>] = x
    BY <1>2, <2>1, <2>2, <2>3, RoundsPut
  <2>5. ~PgOpen(p, g, o, now)
    BY <1>1, <1>3, <1>4, NoRowAssumption DEF PgOpen, RoundAlike
  <2>6. QED
    BY <2>2, <2>4, <2>5
<1>5. CASE ~(q # NoRow /\ q.status = "active" /\ now >= q.expires)
  <2>1. aged = mid
    BY <1>1, <1>5 DEF MemExpire
  <2>2. aged.rounds[<<g, o>>] = q
    BY <1>1, <1>2, <2>1
  <2>3. r # NoRow => (q.status = "active" <=> r.status = "active" /\ now < r.expires)
    BY <1>1, <1>3, <1>5 DEF RoundAlike
  <2>4. QED
    BY <1>1, <1>2, <2>1, <2>2, <2>3 DEF PgOpen
<1>6. QED
  BY <1>4, <1>5

LEMMA FreshAlike ==
    ASSUME NEW now \in Nat
    PROVE  LET row == [status |-> "active", hints |-> 1, wrong |-> 0, score |-> 0,
                       expires |-> now + RoundExpiry]
           IN  RoundAlike(row, row, now)
BY GuessAssumption DEF RoundAlike, RoundRow, RoundStatus

LEMMA Opening ==
    ASSUME NEW p, NEW m, NEW now \in Nat, Alike(p, m, now), NEW g \in Games, NEW o \in Orders,
           NEW p1, p1 = materializeRound(p, g, o, now), NEW m1, m1 = materializeRound(m, g, o, now)
    PROVE  /\ Alike(p1, m1, now) /\ p1.games = p.games /\ m1.games = m.games
           /\ HasRound(p1, g, o)
<1>1. CASE HasRound(p, g, o)
  BY <1>1, AlikeRows DEF materializeRound
<1>2. CASE ~HasRound(p, g, o)
  <2> DEFINE row == [status |-> "active", hints |-> 1, wrong |-> 0, score |-> 0,
                     expires |-> now + RoundExpiry]
  <2>1. RoundAlike(row, row, now) /\ row \in RoundRow
    BY FreshAlike, GuessAssumption DEF RoundRow, RoundStatus
  <2>2. p1 = PutRound(p, g, o, row) /\ m1 = PutRound(m, g, o, row)
    <3>1. /\ p1 = [p EXCEPT !.rounds = [p.rounds EXCEPT ![<<g, o>>] = row]]
          /\ m1 = [m EXCEPT !.rounds = [m.rounds EXCEPT ![<<g, o>>] = row]]
      BY <1>2, AlikeRows DEF materializeRound
    <3> HIDE DEF row
    <3>2. QED
      BY <3>1, PutsRound DEF Alike
  <2> HIDE DEF row
  <2>3. /\ Alike(p1, m1, now) /\ p1.games = p.games /\ m1.games = m.games
        /\ p1.rounds[<<g, o>>] = row
    BY <2>1, <2>2, RoundsPut
  <2>4. row # NoRow
    BY <2>1, NoRowAssumption
  <2>5. QED
    BY <2>3, <2>4 DEF HasRound
<1>3. QED
  BY <1>1, <1>2

LEMMA Revealing ==
    ASSUME NEW p, NEW m, NEW now, Alike(p, m, now), NEW g \in Games, NEW o \in Orders,
           HasRound(p, g, o)
    PROVE  Alike(Reveal(p, g, o), Reveal(m, g, o), now)
<1> DEFINE n(x) == IF x.hints < Posts THEN x.hints + 1 ELSE x.hints
           more(x) == [x EXCEPT !.hints = n(x)]
<1>1. PICK r, q : /\ r = p.rounds[<<g, o>>] /\ q = m.rounds[<<g, o>>] /\ RoundAlike(r, q, now)
                  /\ r # NoRow
  BY DEF Alike, HasRound
<1>2. n(r) \in 1..Posts /\ n(q) = n(r) /\ r \in RoundRow /\ q \in RoundRow
  BY <1>1, GuessAssumption DEF RoundAlike
<1> HIDE DEF n
<1>3. /\ \A x \in {r, q} : /\ more(x) \in RoundRow /\ more(x).hints = n(r)
                           /\ more(x).wrong = x.wrong /\ more(x).score = x.score
                           /\ more(x).status = x.status /\ more(x).expires = x.expires
  BY <1>2 DEF RoundRow
<1>4. /\ Reveal(p, g, o) = PutRound(p, g, o, more(r))
      /\ Reveal(m, g, o) = PutRound(m, g, o, more(q))
  <2>1. <<g, o>> \in Games \X Orders
    OBVIOUS
  <2>2. /\ Reveal(p, g, o) = [p EXCEPT !.rounds = [p.rounds EXCEPT ![<<g, o>>] = more(r)]]
        /\ Reveal(m, g, o) = [m EXCEPT !.rounds = [m.rounds EXCEPT ![<<g, o>>] = more(q)]]
    BY <1>1, <2>1 DEF Reveal, Alike, Shaped, n
  <2>3. PICK r1, q1 : r1 = more(r) /\ q1 = more(q)
    OBVIOUS
  <2> HIDE DEF more
  <2>4. QED
    BY <2>2, <2>3, PutsRound DEF Alike
<1> HIDE DEF more
<1>5. RoundAlike(more(r), more(q), now)
  BY <1>1, <1>2, <1>3, NoRowAssumption DEF RoundAlike
<1>6. PICK p1, m1, r1, q1 :
         /\ p1 = Reveal(p, g, o) /\ m1 = Reveal(m, g, o) /\ r1 = more(r) /\ q1 = more(q)
  OBVIOUS
<1>7. RoundAlike(r1, q1, now) /\ p1 = PutRound(p, g, o, r1) /\ m1 = PutRound(m, g, o, q1)
  BY <1>4, <1>5, <1>6
<1>8. Alike(p1, m1, now)
  BY <1>7, RoundsPut
<1>9. QED
  BY <1>6, <1>8

PutGuess(st, row) ==
    [games |-> st.games, rounds |-> st.rounds, guesses |-> st.guesses \cup {row}]

LEMMA GuessPut ==
    ASSUME NEW p, NEW m, NEW now, Alike(p, m, now), NEW x, NEW p1, NEW m1,
           p1 = PutGuess(p, x), m1 = PutGuess(m, x)
    PROVE  Alike(p1, m1, now)
<1>1. /\ p1 = [games |-> p.games, rounds |-> p.rounds, guesses |-> p.guesses \cup {x}]
      /\ m1 = [games |-> m.games, rounds |-> m.rounds, guesses |-> m.guesses \cup {x}]
  BY DEF PutGuess, Alike, Shaped
<1>2. /\ p1.games = p.games /\ p1.rounds = p.rounds /\ p1.guesses = p.guesses \cup {x}
      /\ m1.games = m.games /\ m1.rounds = m.rounds /\ m1.guesses = m.guesses \cup {x}
  BY <1>1
<1>3. Shaped(p1) /\ Shaped(m1)
  BY <1>1, <1>2 DEF Alike, Shaped
<1>4. QED
  BY <1>2, <1>3 DEF Alike

\* A guess that both stores take.
LEMMA Grading ==
    ASSUME NEW p, NEW m, NEW now, Alike(p, m, now), NEW g \in Games, NEW o \in Orders,
           NEW c \in Choices, HasRound(p, g, o), p.games[g] # NoRow,
           p.rounds[<<g, o>>].status = "active", m.rounds[<<g, o>>].status = "active",
           NEW p1, p1 = Grade(p, g, o, c), NEW m1, m1 = Grade(m, g, o, c)
    PROVE  Alike(p1, m1, now)
<1> DEFINE x == Graded(g, o, c)
<1>1. PICK r, q : /\ r = p.rounds[<<g, o>>] /\ q = m.rounds[<<g, o>>] /\ RoundAlike(r, q, now)
                  /\ r \in RoundRow /\ q \in RoundRow /\ r.hints \in 1..Posts /\ r.score = 0
                  /\ r.status = "active" /\ q.status = "active"
                  /\ q.hints = r.hints /\ q.wrong = r.wrong /\ q.expires = r.expires /\ q.score = 0
  BY DEF Alike, HasRound, RoundAlike
<1>2. PICK a, b : /\ a = p.games[g] /\ b = m.games[g] /\ a \in GameRow /\ b \in GameRow
                  /\ GameAlike(a, b) /\ a.score = b.score
  BY AlikeRows, NoRowAssumption DEF GameAlike
<1>3. PICK won \in Nat : won = netScoreForRound(r.hints, r.wrong)
  BY <1>1, NetScore DEF RoundRow
<1>4. Shaped(p) /\ Shaped(m)
  BY DEF Alike
<1>5. CASE c = Target
  <2> DEFINE solved(row) == [row EXCEPT !.status = "resolved_correct", !.score = won]
             paid(row) == [row EXCEPT !.score = a.score + won]
  <2>1. \A row \in RoundRow :
           /\ solved(row) \in RoundRow /\ solved(row).hints = row.hints
           /\ solved(row).wrong = row.wrong /\ solved(row).expires = row.expires
           /\ solved(row).status = "resolved_correct" /\ solved(row).score = won
    BY <1>3 DEF RoundRow, RoundStatus
  <2>2. a.score + won \in Nat
    BY <1>2 DEF GameRow
  <2>3. \A row \in GameRow :
           /\ paid(row) \in GameRow /\ paid(row).owner = row.owner /\ paid(row).mode = row.mode
           /\ paid(row).status = row.status /\ paid(row).token = row.token
           /\ paid(row).cur = row.cur /\ paid(row).score = a.score + won
    BY <2>2 DEF GameRow
  <2>4. /\ p1 = [games |-> [p.games EXCEPT ![g] = paid(a)],
                 rounds |-> [p.rounds EXCEPT ![<<g, o>>] = solved(r)], guesses |-> p.guesses \cup {x}]
        /\ m1 = [games |-> [m.games EXCEPT ![g] = paid(b)],
                 rounds |-> [m.rounds EXCEPT ![<<g, o>>] = solved(q)], guesses |-> m.guesses \cup {x}]
    BY <1>1, <1>2, <1>3, <1>4, <1>5 DEF Grade, Shaped
  <2> HIDE DEF solved, paid
  <2>5. PICK r1, q1 : r1 = solved(r) /\ q1 = solved(q)
    OBVIOUS
  <2>6. PICK a1, b1 : a1 = paid(a) /\ b1 = paid(b)
    OBVIOUS
  <2>7. RoundAlike(r1, q1, now)
    BY <1>1, <2>1, <2>5 DEF RoundAlike
  <2>8. GameAlike(a1, b1)
    BY <1>2, <2>3, <2>6, NoRowAssumption DEF GameAlike
  <2>9. PICK p2, m2 : p2 = PutRound(p, g, o, r1) /\ m2 = PutRound(m, g, o, q1)
    OBVIOUS
  <2>10. Alike(p2, m2, now) /\ p2.games = p.games /\ m2.games = m.games
    BY <2>7, <2>9, RoundsPut
  <2>11. PICK p3, m3 : p3 = PutGame(p2, g, a1) /\ m3 = PutGame(m2, g, b1)
    OBVIOUS
  <2>12. Alike(p3, m3, now)
    BY <2>8, <2>10, <2>11, GamesPut
  <2>13. p1 = PutGuess(p3, x) /\ m1 = PutGuess(m3, x)
    <3> HIDE DEF x
    <3>1. QED
      BY <2>4, <2>5, <2>6, <2>9, <2>11 DEF PutRound, PutGame, PutGuess
  <2>14. QED
    BY <2>12, <2>13, GuessPut
<1>6. CASE c # Target
  <2> DEFINE n == r.wrong + 1
             s == IF isRoundExhausted(n) THEN "resolved_incorrect" ELSE "active"
             missed(row) == [row EXCEPT !.wrong = n, !.status = s]
  <2>1. n \in Nat /\ s \in {"resolved_incorrect", "active"}
    BY <1>1 DEF RoundRow
  <2>2. /\ p1 = [games |-> p.games, rounds |-> [p.rounds EXCEPT ![<<g, o>>] = missed(r)],
                 guesses |-> p.guesses \cup {x}]
        /\ m1 = [games |-> m.games, rounds |-> [m.rounds EXCEPT ![<<g, o>>] = missed(q)],
                 guesses |-> m.guesses \cup {x}]
    BY <1>1, <1>6 DEF Grade
  <2> HIDE DEF n, s
  <2>3. \A row \in RoundRow :
           /\ missed(row) \in RoundRow /\ missed(row).hints = row.hints
           /\ missed(row).wrong = n /\ missed(row).expires = row.expires
           /\ missed(row).status = s /\ missed(row).score = row.score
    BY <2>1 DEF RoundRow, RoundStatus
  <2> HIDE DEF missed
  <2>4. PICK r1, q1 : r1 = missed(r) /\ q1 = missed(q)
    OBVIOUS
  <2>5. RoundAlike(r1, q1, now)
    BY <1>1, <2>3, <2>4 DEF RoundAlike
  <2>6. PICK p2, m2 : p2 = PutRound(p, g, o, r1) /\ m2 = PutRound(m, g, o, q1)
    OBVIOUS
  <2>7. Alike(p2, m2, now)
    BY <2>5, <2>6, RoundsPut
  <2>8. p1 = PutGuess(p2, x) /\ m1 = PutGuess(m2, x)
    <3> HIDE DEF x
    <3>1. QED
      BY <2>2, <2>4, <2>6 DEF PutRound, PutGuess
  <2>9. QED
    BY <2>7, <2>8, GuessPut
<1>7. QED
  BY <1>5, <1>6

LEMMA GuessAgrees ==
    ASSUME NEW p, NEW m, NEW now \in Nat, Alike(p, m, now), NEW g \in Games, NEW o \in Orders,
           NEW c \in Choices, NEW s
    PROVE  Agree(PgGuess(p, g, o, c, s, now), MemGuess(m, g, o, c, s, now), now)
<1>1. /\ Owned(p, g, s) <=> Owned(m, g, s)
      /\ HasRound(p, g, o) <=> HasRound(m, g, o)
  BY AlikeRows
<1>2. CASE ~Owned(p, g, s) \/ ~HasRound(p, g, o)
  BY <1>1, <1>2, Refusals DEF PgGuess, MemGuess
<1>3. CASE Owned(p, g, s) /\ HasRound(p, g, o) /\ Graded(g, o, c) \in p.guesses
  <2>1. Graded(g, o, c) \in m.guesses
    BY <1>3 DEF Alike
  <2>2. /\ PgGuess(p, g, o, c, s, now) = Ok(p, toRoundView(p.rounds[<<g, o>>]))
        /\ MemGuess(m, g, o, c, s, now) = Ok(m, toRoundView(m.rounds[<<g, o>>]))
    BY <1>1, <1>3, <2>1 DEF PgGuess, MemGuess
  <2>3. QED
    BY <2>2, Answers
<1>4. CASE Owned(p, g, s) /\ HasRound(p, g, o) /\ Graded(g, o, c) \notin p.guesses
  <2>1. Graded(g, o, c) \notin m.guesses
    BY <1>4 DEF Alike
  <2>2. p.games[g] # NoRow
    BY <1>4 DEF Owned
  <2>3. PICK aged : aged = MemExpire(m, g, o, now)
    OBVIOUS
  <2>4. /\ Alike(p, aged, now)
        /\ aged.rounds[<<g, o>>].status = "active" <=> PgOpen(p, g, o, now)
    BY <1>4, <2>2, <2>3, MemAging
  <2>5. CASE ~PgOpen(p, g, o, now)
    <3>1. /\ PgGuess(p, g, o, c, s, now) = Refuse(p, "round_not_active")
          /\ MemGuess(m, g, o, c, s, now) = Refuse(aged, "round_not_active")
      BY <1>1, <1>4, <2>1, <2>3, <2>4, <2>5 DEF PgGuess, MemGuess
    <3>2. QED
      BY <2>4, <3>1, Refusals
  <2>6. CASE PgOpen(p, g, o, now)
    <3>1. PICK p1, m1 : p1 = Grade(p, g, o, c) /\ m1 = Grade(aged, g, o, c)
      OBVIOUS
    <3>2. /\ PgGuess(p, g, o, c, s, now) = Ok(p1, toRoundView(p1.rounds[<<g, o>>]))
          /\ MemGuess(m, g, o, c, s, now) = Ok(m1, toRoundView(m1.rounds[<<g, o>>]))
      BY <1>1, <1>4, <2>1, <2>3, <2>4, <2>6, <3>1 DEF PgGuess, MemGuess
    <3>3. Alike(p1, m1, now)
      BY <1>4, <2>2, <2>4, <2>6, <3>1, Grading DEF PgOpen
    <3>4. QED
      BY <3>2, <3>3, Answers
  <2>7. QED
    BY <2>5, <2>6
<1>5. QED
  BY <1>2, <1>3, <1>4

LEMMA HintAgrees ==
    ASSUME NEW p, NEW m, NEW now \in Nat, Alike(p, m, now), NEW g \in Games, NEW o \in Orders, NEW s
    PROVE  Agree(PgHint(p, g, o, s, now), MemHint(m, g, o, s, now), now)
<1>1. /\ Owned(p, g, s) <=> Owned(m, g, s)
      /\ HasRound(p, g, o) <=> HasRound(m, g, o)
  BY AlikeRows
<1>2. CASE ~Owned(p, g, s) \/ ~HasRound(p, g, o)
  BY <1>1, <1>2, Refusals DEF PgHint, MemHint
<1>3. CASE Owned(p, g, s) /\ HasRound(p, g, o)
  <2>1. p.games[g] # NoRow
    BY <1>3 DEF Owned
  <2>2. PICK aged : aged = MemExpire(m, g, o, now)
    OBVIOUS
  <2>3. /\ Alike(p, aged, now)
        /\ aged.rounds[<<g, o>>].status = "active" <=> PgOpen(p, g, o, now)
    BY <1>3, <2>1, <2>2, MemAging
  <2>4. CASE ~PgOpen(p, g, o, now)
    <3>1. /\ PgHint(p, g, o, s, now) = Refuse(p, "round_not_active")
          /\ MemHint(m, g, o, s, now) = Refuse(aged, "round_not_active")
      BY <1>1, <1>3, <2>2, <2>3, <2>4 DEF PgHint, MemHint
    <3>2. QED
      BY <2>3, <3>1, Refusals
  <2>5. CASE PgOpen(p, g, o, now)
    <3>1. PICK p1, m1 : p1 = Reveal(p, g, o) /\ m1 = Reveal(aged, g, o)
      OBVIOUS
    <3>2. /\ PgHint(p, g, o, s, now) = Ok(p1, toRoundView(p1.rounds[<<g, o>>]))
          /\ MemHint(m, g, o, s, now) = Ok(m1, toRoundView(m1.rounds[<<g, o>>]))
      BY <1>1, <1>3, <2>2, <2>3, <2>5, <3>1 DEF PgHint, MemHint
    <3>3. Alike(p1, m1, now)
      BY <1>3, <2>3, <3>1, Revealing
    <3>4. QED
      BY <3>2, <3>3, Answers
  <2>6. QED
    BY <2>4, <2>5
<1>4. QED
  BY <1>2, <1>3

\* The round both stores are at, unless the game is completed.
LEMMA AtRound ==
    ASSUME NEW p, NEW m, NEW now, Alike(p, m, now), NEW g \in Games, p.games[g] # NoRow
    PROVE  /\ p.games[g].cur \in Nat /\ m.games[g].cur \in Nat
           /\ p.games[g].status = "completed" <=> m.games[g].status = "completed"
           /\ p.games[g].status = "completed" =>
                /\ p.games[g].cur + 1 > Total(p, g) /\ m.games[g].cur + 1 > Total(m, g)
           /\ p.games[g].status # "completed" =>
                /\ p.games[g].cur = m.games[g].cur
                /\ p.games[g].cur + 1 \in Orders /\ p.games[g].cur + 1 <= Total(p, g)
<1>1. PICK a, b : a = p.games[g] /\ b = m.games[g] /\ a \in GameRow /\ b \in GameRow /\ GameAlike(a, b)
  BY AlikeRows
<1>2. a.cur \in Nat /\ b.cur \in Nat
  BY <1>1 DEF GameRow
<1>3. /\ Total(p, g) = RoundsIn[a.mode] /\ Total(p, g) = Total(m, g) /\ Total(p, g) \in Nat
      /\ 1..Total(p, g) \subseteq Orders
  BY <1>1, AlikeRows DEF Total
<1>4. QED
  BY <1>1, <1>2, <1>3, NoRowAssumption DEF GameAlike

LEMMA RoundAgrees ==
    ASSUME NEW p, NEW m, NEW now \in Nat, Alike(p, m, now), NEW g \in Games, NEW s
    PROVE  Agree(PgCurrentRound(p, g, s, now), MemCurrentRound(m, g, s, now), now)
<1>1. /\ Owned(p, g, s) <=> Owned(m, g, s)
  BY AlikeRows
<1>2. CASE ~Owned(p, g, s)
  BY <1>1, <1>2, Refusals DEF PgCurrentRound, MemCurrentRound
<1>3. CASE Owned(p, g, s)
  <2>1. p.games[g] # NoRow
    BY <1>3 DEF Owned
  <2>2. Total(p, g) \in Nat
    BY <2>1, AlikeRows
  <2>3. CASE p.games[g].status = "completed"
    <3>1. /\ PgCurrentRound(p, g, s, now) = Refuse(p, "not_found")
          /\ MemCurrentRound(m, g, s, now) = Refuse(m, "not_found")
      BY <1>1, <1>3, <2>1, <2>3, AtRound DEF PgCurrentRound, MemCurrentRound
    <3>2. QED
      BY <3>1, Refusals
  <2>4. CASE p.games[g].status # "completed"
    <3>1. PICK o \in Orders : o = p.games[g].cur + 1 /\ o = m.games[g].cur + 1 /\ o <= Total(p, g)
      BY <2>1, <2>4, AtRound
    <3>2. ~(o > Total(p, g)) /\ ~(o > Total(m, g))
      BY <2>1, <2>2, <3>1, AlikeRows DEF Orders
    <3>3. PICK p1 : p1 = PgExpire(p, g, now)
      OBVIOUS
    <3>4. Alike(p1, m, now)
      BY <2>1, <3>3, Aging
    <3>5. PICK p2, m2 : p2 = materializeRound(p1, g, o, now) /\ m2 = materializeRound(m, g, o, now)
      OBVIOUS
    <3>6. Alike(p2, m2, now) /\ p2.games = p1.games
      BY <3>4, <3>5, Opening
    <3>7. p2.games[g] # NoRow
      BY <2>1, <3>4, <3>6, AlikeRows
    <3>8. PICK m3 : m3 = MemExpire(m2, g, o, now)
      OBVIOUS
    <3>9. Alike(p2, m3, now)
      BY <3>6, <3>7, <3>8, MemAging
    <3>10. /\ PgCurrentRound(p, g, s, now) = Ok(p2, toRoundView(p2.rounds[<<g, o>>]))
           /\ MemCurrentRound(m, g, s, now) = Ok(m3, toRoundView(m3.rounds[<<g, o>>]))
      BY <1>1, <1>3, <3>1, <3>2, <3>3, <3>5, <3>8 DEF PgCurrentRound, MemCurrentRound
    <3>11. QED
      BY <3>9, <3>10, Answers
  <2>5. QED
    BY <2>3, <2>4
<1>4. QED
  BY <1>2, <1>3

\* A game's row as its last round leaves it, and as an earlier one does.
Finished(row, o) == [row EXCEPT !.cur = o, !.status = "completed", !.token = row.token + 1]
Advanced(row, o) == [row EXCEPT !.cur = o]

LEMMA RowsMove ==
    ASSUME NEW row \in GameRow, NEW o \in Nat
    PROVE  /\ Finished(row, o) \in GameRow /\ Finished(row, o).owner = row.owner
           /\ Finished(row, o).mode = row.mode /\ Finished(row, o).score = row.score
           /\ Finished(row, o).status = "completed" /\ Finished(row, o).cur = o
           /\ Finished(row, o).token \in Nat \ {0}
           /\ Advanced(row, o) \in GameRow /\ Advanced(row, o).owner = row.owner
           /\ Advanced(row, o).mode = row.mode /\ Advanced(row, o).score = row.score
           /\ Advanced(row, o).status = row.status /\ Advanced(row, o).token = row.token
           /\ Advanced(row, o).cur = o
<1>1. PICK t \in Nat \ {0} : t = row.token + 1
  BY DEF GameRow
<1>2. Finished(row, o) = [row EXCEPT !.cur = o, !.status = "completed", !.token = t]
  BY <1>1 DEF Finished
<1>3. QED
  BY <1>2 DEF Advanced, GameRow, GameStatus

\* A completed game: Postgres refuses the call, the in-memory store advances it again.
LEMMA AdvanceAgain ==
    ASSUME NEW p, NEW m, NEW now \in Nat, Alike(p, m, now), NEW g \in Games, NEW s,
           Owned(p, g, s), p.games[g].status = "completed"
    PROVE  Alike(PgAdvance(p, g, s, now).st, MemAdvance(m, g, s, now).st, now)
<1>1. p.games[g] # NoRow /\ Owned(m, g, s)
  BY AlikeRows DEF Owned
<1>2. PICK a, b : a = p.games[g] /\ b = m.games[g] /\ a \in GameRow /\ b \in GameRow /\ GameAlike(a, b)
  BY <1>1, AlikeRows
<1>3. PICK o \in Nat : o = b.cur + 1
  BY <1>2 DEF GameRow
<1>4. o > Total(m, g) /\ Total(m, g) \in Nat /\ a.cur + 1 > Total(p, g)
  BY <1>1, <1>2, <1>3, AtRound, AlikeRows
<1>5. PgAdvance(p, g, s, now).st = p
  BY <1>2, <1>4 DEF PgAdvance, Refuse
<1>6. PICK b1, m1 : b1 = Finished(b, o) /\ m1 = PutGame(m, g, b1)
  OBVIOUS
<1>7. Shaped(m) /\ Shaped(p)
  BY DEF Alike
<1>8. MemAdvance(m, g, s, now).st = m1
  <2>1. [m EXCEPT !.games[g] = [m.games[g] EXCEPT !.cur = o, !.status = "completed",
                                                  !.token = @ + 1]]
          = [m EXCEPT !.games = [m.games EXCEPT ![g] = Finished(b, o)]]
    BY <1>2 DEF Finished
  <2>2. m1 = [m EXCEPT !.games = [m.games EXCEPT ![g] = b1]]
    BY <1>6, <1>7, PutsGame
  <2>3. MemAdvance(m, g, s, now).st
          = [m EXCEPT !.games[g] = [m.games[g] EXCEPT !.cur = o, !.status = "completed",
                                                      !.token = @ + 1]]
    <3>1. ~(o <= Total(m, g)) /\ o >= Total(m, g) /\ o = m.games[g].cur + 1
      BY <1>2, <1>3, <1>4
    <3>2. QED
      BY <1>1, <3>1 DEF MemAdvance, Ok
  <2>4. QED
    BY <1>6, <2>1, <2>2, <2>3
<1>9. GameAlike(a, b1)
  <2>1. a.status = "completed"
    BY <1>2
  <2>2. b.cur \in Nat /\ a.cur \in Nat /\ b.cur < o
    BY <1>2, <1>3 DEF GameRow
  <2>3. /\ b1 \in GameRow /\ b1.owner = b.owner /\ b1.mode = b.mode /\ b1.score = b.score
        /\ b1.status = "completed" /\ b1.cur = o /\ b1.token \in Nat \ {0}
    <3>1. b1 = Finished(b, o)
      BY <1>6
    <3>2. QED
      BY ZenonT(30), <1>2, <3>1, RowsMove
  <2>4. QED
    BY <1>2, <2>1, <2>2, <2>3, NoRowAssumption DEF GameAlike
<1>10. p = PutGame(p, g, a)
  BY <1>2, <1>7, PutSame
<1>11. QED
  BY <1>5, <1>6, <1>8, <1>9, <1>10, GamesPut

LEMMA AdvanceOpen ==
    ASSUME NEW p, NEW m, NEW now \in Nat, Alike(p, m, now), NEW g \in Games, NEW s,
           Owned(p, g, s), p.games[g].status # "completed"
    PROVE  Agree(PgAdvance(p, g, s, now), MemAdvance(m, g, s, now), now)
<1>1. p.games[g] # NoRow /\ Owned(m, g, s)
  BY AlikeRows DEF Owned
<1>2. PICK o \in Orders : o = p.games[g].cur + 1 /\ o = m.games[g].cur + 1 /\ o <= Total(p, g)
  BY <1>1, AtRound
<1>3. /\ Total(m, g) = Total(p, g) /\ Total(p, g) \in Nat \ {0} /\ o \in Nat /\ o <= Total(m, g)
      /\ ~(o > Total(p, g)) /\ 1..Total(p, g) \subseteq Orders
  BY <1>1, <1>2, AlikeRows DEF Orders
<1>4. HasRound(p, g, o) <=> HasRound(m, g, o)
  BY AlikeRows
<1>5. PICK aged : aged = IF HasRound(m, g, o) THEN MemExpire(m, g, o, now) ELSE m
  OBVIOUS
<1>6. /\ Alike(p, aged, now)
      /\ HasRound(p, g, o) =>
            (aged.rounds[<<g, o>>].status = "active" <=> PgOpen(p, g, o, now))
  <2>1. CASE HasRound(m, g, o)
    <3>1. aged = MemExpire(m, g, o, now)
      BY <1>5, <2>1
    <3>2. QED
      BY <1>1, <3>1, MemAging
  <2>2. CASE ~HasRound(m, g, o)
    BY <1>4, <1>5, <2>2
  <2>3. QED
    BY <2>1, <2>2
<1>7. CASE HasRound(p, g, o) /\ PgOpen(p, g, o, now)
  <2>1. PgAdvance(p, g, s, now) = Refuse(p, "round_not_active")
    BY <1>2, <1>3, <1>7 DEF PgAdvance
  <2>2. MemAdvance(m, g, s, now) = Refuse(aged, "round_not_active")
    BY <1>1, <1>2, <1>3, <1>4, <1>5, <1>6, <1>7 DEF MemAdvance
  <2>3. QED
    BY <1>6, <2>1, <2>2, Refusals
<1>8. CASE ~(HasRound(p, g, o) /\ PgOpen(p, g, o, now))
  <2>1. PICK a, b : /\ a = p.games[g] /\ b = aged.games[g] /\ a \in GameRow /\ b \in GameRow
                    /\ GameAlike(a, b) /\ a.status # "completed" /\ b.status # "completed"
                    /\ a.cur = b.cur /\ a.token = 0 /\ b.token = 0
    BY <1>1, <1>6, AlikeRows, NoRowAssumption DEF GameAlike
  <2>2. Total(p, g) = RoundsIn[a.mode] /\ a.mode = b.mode /\ a.owner = b.owner /\ a.score = b.score
    BY <1>1, <2>1, NoRowAssumption DEF Total, GameAlike
  <2>3. Shaped(p) /\ Shaped(aged)
    BY <1>6 DEF Alike
  <2>4. CASE o = Total(p, g)
    <3>1. PICK a1, b1 : a1 = Finished(a, o) /\ b1 = Finished(b, o)
      OBVIOUS
    <3>2. PICK p1, m1 : p1 = PutGame(p, g, a1) /\ m1 = PutGame(aged, g, b1)
      OBVIOUS
    <3>3. /\ p1 = [p EXCEPT !.games = [p.games EXCEPT ![g] = a1]]
          /\ m1 = [aged EXCEPT !.games = [aged.games EXCEPT ![g] = b1]]
      BY <2>3, <3>2, PutsGame
    <3>4. /\ a1 = [p.games[g] EXCEPT !.cur = o, !.status = "completed", !.token = @ + 1]
          /\ b1 = [aged.games[g] EXCEPT !.cur = o, !.status = "completed", !.token = @ + 1]
      BY <2>1, <3>1 DEF Finished
    <3>5. PgAdvance(p, g, s, now) = Ok(p1, toGameView(p1.games[g]))
      BY <1>2, <1>3, <1>8, <2>4, <3>3, <3>4 DEF PgAdvance
    <3>6. MemAdvance(m, g, s, now) = Ok(m1, toGameView(m1.games[g]))
      BY <1>1, <1>2, <1>3, <1>4, <1>5, <1>6, <1>8, <2>4, <3>3, <3>4 DEF MemAdvance
    <3>7. GameAlike(a1, b1)
      <4>1. /\ a1 \in GameRow /\ a1.owner = a.owner /\ a1.mode = a.mode /\ a1.score = a.score
            /\ a1.status = "completed" /\ a1.cur = o /\ a1.token \in Nat \ {0}
        BY ZenonT(30), <1>3, <2>1, <3>1, RowsMove
      <4>2. /\ b1 \in GameRow /\ b1.owner = b.owner /\ b1.mode = b.mode /\ b1.score = b.score
            /\ b1.status = "completed" /\ b1.cur = o /\ b1.token \in Nat \ {0}
        BY ZenonT(30), <1>3, <2>1, <3>1, RowsMove
      <4>3. QED
        BY <1>3, <2>2, <2>4, <4>1, <4>2 DEF GameAlike
    <3>8. Alike(p1, m1, now)
      BY <1>6, <3>2, <3>7, GamesPut
    <3>9. QED
      BY <3>5, <3>6, <3>8, Answers
  <2>5. CASE o # Total(p, g)
    <3>1. PICK a1, b1 : a1 = Advanced(a, o) /\ b1 = Advanced(b, o)
      OBVIOUS
    <3>2. PICK p1, m1 : p1 = PutGame(p, g, a1) /\ m1 = PutGame(aged, g, b1)
      OBVIOUS
    <3>3. /\ p1 = [p EXCEPT !.games = [p.games EXCEPT ![g] = a1]]
          /\ m1 = [aged EXCEPT !.games = [aged.games EXCEPT ![g] = b1]]
      BY <2>3, <3>2, PutsGame
    <3>4. p1 = [p EXCEPT !.games[g].cur = o] /\ m1 = [aged EXCEPT !.games[g].cur = o]
      <4>1. a1 = [p.games[g] EXCEPT !.cur = o] /\ b1 = [aged.games[g] EXCEPT !.cur = o]
        BY <2>1, <3>1 DEF Advanced
      <4>2. QED
        BY <3>3, <4>1
    <3>5. PICK p2, m2 : p2 = materializeRound(p1, g, o + 1, now) /\ m2 = materializeRound(m1, g, o + 1, now)
      OBVIOUS
    <3>6. PgAdvance(p, g, s, now) = Ok(p2, toGameView(p2.games[g]))
      BY <1>2, <1>3, <1>8, <2>5, <3>4, <3>5 DEF PgAdvance
    <3>7. MemAdvance(m, g, s, now) = Ok(m2, toGameView(m2.games[g]))
      <4>1. ~(o >= Total(m, g))
        BY <1>3, <2>5
      <4>2. QED
        BY <1>1, <1>2, <1>3, <1>4, <1>5, <1>6, <1>8, <3>4, <3>5, <4>1 DEF MemAdvance
    <3>8. GameAlike(a1, b1)
      <4>1. /\ a1 \in GameRow /\ a1.owner = a.owner /\ a1.mode = a.mode /\ a1.score = a.score
            /\ a1.status = a.status /\ a1.cur = o /\ a1.token = 0
        BY ZenonT(30), <1>3, <2>1, <3>1, RowsMove
      <4>2. /\ b1 \in GameRow /\ b1.owner = b.owner /\ b1.mode = b.mode /\ b1.score = b.score
            /\ b1.status = b.status /\ b1.cur = o /\ b1.token = 0
        BY ZenonT(30), <1>3, <2>1, <3>1, RowsMove
      <4>3. QED
        BY <1>3, <2>1, <2>2, <2>5, <4>1, <4>2 DEF GameAlike
    <3>9. Alike(p1, m1, now)
      BY <1>6, <3>2, <3>8, GamesPut
    <3>10. o + 1 \in Orders
      BY <1>3, <2>5
    <3>11. Alike(p2, m2, now)
      BY <3>5, <3>9, <3>10, Opening
    <3>12. QED
      BY <3>6, <3>7, <3>11, Answers
  <2>6. QED
    BY <2>4, <2>5
<1>9. QED
  BY <1>7, <1>8

LEMMA AdvanceAgrees ==
    ASSUME NEW p, NEW m, NEW now \in Nat, Alike(p, m, now), NEW g \in Games, NEW s
    PROVE  /\ Alike(PgAdvance(p, g, s, now).st, MemAdvance(m, g, s, now).st, now)
           /\ (~Owned(p, g, s) \/ p.games[g].status # "completed") =>
                 PgAdvance(p, g, s, now).code = MemAdvance(m, g, s, now).code
<1>1. CASE ~Owned(p, g, s)
  <2>1. ~Owned(m, g, s)
    BY <1>1, AlikeRows
  <2>2. PgAdvance(p, g, s, now) = Refuse(p, "not_found")
    BY <1>1 DEF PgAdvance
  <2>3. MemAdvance(m, g, s, now) = Refuse(m, "not_found")
    BY <2>1 DEF MemAdvance
  <2>4. Agree(Refuse(p, "not_found"), Refuse(m, "not_found"), now)
    BY Refusals
  <2>5. QED
    BY <2>2, <2>3, <2>4 DEF Agree
<1>2. CASE Owned(p, g, s) /\ p.games[g].status = "completed"
  BY <1>2, AdvanceAgain
<1>3. CASE Owned(p, g, s) /\ p.games[g].status # "completed"
  BY <1>3, AdvanceOpen DEF Agree
<1>4. QED
  BY <1>1, <1>2, <1>3

LEMMA NewAlike ==
    ASSUME NEW s \in Players, NEW mode \in Modes, NEW now \in Nat
    PROVE  GameAlike(NewGame(s, mode, now), NewGame(s, mode, now))
<1>1. NewGame(s, mode, now) \in GameRow
  BY GuessAssumption DEF NewGame, GameRow, GameStatus
<1>2. RoundsIn[mode] \in Nat \ {0}
  BY OrdersOf
<1>3. /\ NewGame(s, mode, now).cur = 0 /\ NewGame(s, mode, now).token = 0
      /\ NewGame(s, mode, now).status = "in_progress" /\ NewGame(s, mode, now).mode = mode
  BY DEF NewGame
<1>4. QED
  BY <1>1, <1>2, <1>3 DEF GameAlike

LEMMA CreateAgrees ==
    ASSUME NEW p, NEW m, NEW now \in Nat, Alike(p, m, now), NEW g \in Games, NEW s \in Players
    PROVE  /\ Agree(createOrResumeDailyGame(p, g, s, now), createOrResumeDailyGame(m, g, s, now), now)
           /\ Agree(createFreeplayGame(p, g, s, now), createFreeplayGame(m, g, s, now), now)
<1>1. ASSUME NEW mode \in Modes, NEW row, row = NewGame(s, mode, now)
      PROVE  Alike([p EXCEPT !.games[g] = row], [m EXCEPT !.games[g] = row], now)
  <2>1. GameAlike(row, row)
    BY <1>1, NewAlike
  <2>2. PICK p1, m1 : p1 = PutGame(p, g, row) /\ m1 = PutGame(m, g, row)
    OBVIOUS
  <2>3. Alike(p1, m1, now)
    BY <2>1, <2>2, GamesPut
  <2>4. /\ p1 = [p EXCEPT !.games = [p.games EXCEPT ![g] = row]]
        /\ m1 = [m EXCEPT !.games = [m.games EXCEPT ![g] = row]]
    BY <2>2, PutsGame DEF Alike
  <2>5. QED
    BY <2>3, <2>4
<1>2. DailyOf(p, s) = DailyOf(m, s)
  <2>1. \A h \in Games : Owned(p, h, s) /\ p.games[h].mode = "daily"
                           <=> Owned(m, h, s) /\ m.games[h].mode = "daily"
    BY NoRowAssumption DEF Alike, GameAlike, Owned
  <2>2. QED
    BY <2>1 DEF DailyOf
<1>3. Agree(createFreeplayGame(p, g, s, now), createFreeplayGame(m, g, s, now), now)
  <2>1. PICK row : row = NewGame(s, "freeplay", now)
    OBVIOUS
  <2>2. "freeplay" \in Modes
    BY DEF Modes
  <2>3. Alike([p EXCEPT !.games[g] = row], [m EXCEPT !.games[g] = row], now)
    BY <1>1, <2>1, <2>2
  <2>4. QED
    BY <2>1, <2>3, Answers DEF createFreeplayGame
<1>4. Agree(createOrResumeDailyGame(p, g, s, now), createOrResumeDailyGame(m, g, s, now), now)
  <2>1. CASE DailyOf(p, s) # {}
    BY <1>2, <2>1, Answers DEF createOrResumeDailyGame
  <2>2. CASE DailyOf(p, s) = {}
    <3>1. PICK row : row = NewGame(s, "daily", now)
      OBVIOUS
    <3>2. "daily" \in Modes
      BY DEF Modes
    <3>3. Alike([p EXCEPT !.games[g] = row], [m EXCEPT !.games[g] = row], now)
      BY <1>1, <3>1, <3>2
    <3>4. QED
      BY <1>2, <2>2, <3>1, <3>3, Answers DEF createOrResumeDailyGame
  <2>3. QED
    BY <2>1, <2>2
<1>5. QED
  BY <1>3, <1>4

-----------------------------------------------------------------------------
(* The invariant of the two stores, and what follows from it *)

BothInv == time \in Nat /\ Alike(pg, mem, time)

LEMMA BothStart ==
    ASSUME BothInit
    PROVE  BothInv
<1>1. PICK st : st = EmptyStore
  OBVIOUS
<1>2. Shaped(st) /\ \A g \in Games : st.games[g] = NoRow
  BY <1>1 DEF EmptyStore, Shaped
<1>3. \A g \in Games, o \in Orders : st.rounds[<<g, o>>] = NoRow
  BY <1>1 DEF EmptyStore
<1>4. QED
  BY <1>1, <1>2, <1>3 DEF BothInit, BothInv, Alike, GameAlike, RoundAlike

\* What two stores that are alike send of one round: the same, if they answered alike.
LEMMA SendsAlike ==
    ASSUME NEW x, NEW y, NEW g \in Games, NEW o, Alike(x.st, y.st, time), x.code = y.code
    PROVE  SentAlike(Sent(x, g, o, PgContent), Sent(y, g, o, MemContent))
<1>1. CASE ~(x.code = "ok" /\ o \in Orders)
  BY <1>1 DEF Sent, SentAlike
<1>2. CASE x.code = "ok" /\ o \in Orders
  <2>1. PICK r, q : r = x.st.rounds[<<g, o>>] /\ q = y.st.rounds[<<g, o>>]
    OBVIOUS
  <2>2. RoundAlike(r, q, time)
    BY <1>2, <2>1 DEF Alike
  <2>3. PICK v, w : v = toRoundView(r) /\ w = toRoundView(q)
    OBVIOUS
  <2>4. \/ v = w
        \/ /\ time >= r.expires
           /\ v.status = "active" /\ w.status = "expired"
           /\ v.hints = w.hints /\ v.wrong = w.wrong
    <3>1. CASE r = q
      BY <2>3, <3>1
    <3>2. CASE r.status = q.status /\ r \in RoundRow /\ q \in RoundRow
      BY <2>2, <2>3, <3>2, NoRowAssumption DEF RoundAlike, toRoundView
    <3>3. CASE r.status = "active" /\ q.status = "expired" /\ time >= r.expires
               /\ r.hints = q.hints /\ r.wrong = q.wrong
      BY <2>3, <3>3 DEF toRoundView
    <3>4. QED
      BY <2>2, <3>1, <3>2, <3>3 DEF RoundAlike
  <2>5. r.expires = q.expires
    BY <2>2 DEF RoundAlike
  <2>6. PICK e, f : /\ e = [view |-> v, content |-> PgContent, late |-> time >= r.expires]
                    /\ f = [view |-> w, content |-> MemContent, late |-> time >= r.expires]
    OBVIOUS
  <2>7. Sent(x, g, o, PgContent) = {e} /\ Sent(y, g, o, MemContent) = {f}
    BY <1>2, <2>1, <2>3, <2>5, <2>6 DEF Sent
  <2>8. e.view = v /\ f.view = w /\ e.late = f.late /\ (time >= r.expires => e.late)
    BY <2>6
  <2>9. SentAlike({e}, {f})
    BY <2>4, <2>8 DEF SentAlike
  <2>10. QED
    BY <2>7, <2>9
<1>3. QED
  BY <1>1, <1>2

\* A call leaves the stores alike; if its game was not completed, its two answers and the
\* rounds sent with them are alike too.
LEMMA CallAgrees ==
    ASSUME BothInv, NEW g \in Games, NEW s \in Players, Call(g, s)
    PROVE  BothInv' /\ (~Completed(g) => pgSaid' = memSaid' /\ SentAlike(pgSent', memSent'))
<1>1. time \in Nat /\ Alike(pg, mem, time)
  BY DEF BothInv
<1>2. ASSUME NEW x, NEW y, Both(x, y), Agree(x, y, time)
      PROVE  BothInv' /\ pgSaid' = memSaid'
  BY <1>1, <1>2 DEF Both, Agree, BothInv
<1>3. ASSUME NEW x, NEW y, NEW o, NEW q, BothSend(x, y, g, o, q), Agree(x, y, time),
             ~Completed(g) /\ x.code = "ok" => o = q
      PROVE  BothInv' /\ (~Completed(g) => pgSaid' = memSaid' /\ SentAlike(pgSent', memSent'))
  <2>1. /\ Both(x, y)
        /\ pgSent' = Sent(x, g, o, PgContent)
        /\ memSent' = Sent(y, g, q, MemContent)
    BY <1>3 DEF BothSend
  <2>2. BothInv' /\ pgSaid' = memSaid'
    BY <1>2, <1>3, <2>1
  <2>3. Alike(x.st, y.st, time) /\ x.code = y.code
    BY <1>3 DEF Agree
  <2>4. CASE x.code = "ok"
    BY <1>3, <2>1, <2>2, <2>3, <2>4, SendsAlike
  <2>5. CASE x.code # "ok"
    <3>1. pgSent' = {} /\ memSent' = {}
      BY <2>1, <2>3, <2>5 DEF Sent
    <3>2. QED
      BY <2>2, <3>1 DEF SentAlike
  <2>6. QED
    BY <2>4, <2>5
<1>4. CASE Create(g, s)
  <2>1. BothInv' /\ pgSaid' = memSaid'
    BY <1>1, <1>2, <1>4, CreateAgrees DEF Create
  <2>2. SentAlike(pgSent', memSent')
    BY <1>4 DEF Create, SentAlike
  <2>3. QED
    BY <2>1, <2>2
<1>5. CASE GetRound(g, s)
  <2>1. PICK x, y : x = PgCurrentRound(pg, g, s, time) /\ y = MemCurrentRound(mem, g, s, time)
    OBVIOUS
  <2>2. BothSend(x, y, g, pg.games[g].cur + 1, mem.games[g].cur + 1) /\ Agree(x, y, time)
    BY <1>1, <1>5, <2>1, RoundAgrees DEF GetRound
  <2>3. x.code = "ok" => pg.games[g] # NoRow
    BY <2>1 DEF PgCurrentRound, Refuse, Owned
  <2>4. ~Completed(g) /\ x.code = "ok" => pg.games[g].cur = mem.games[g].cur
    BY <1>1, <2>3 DEF Alike, GameAlike, Completed
  <2>5. QED
    BY <1>3, <2>2, <2>4
<1>6. CASE \E o \in Orders : Hint(g, o, s)
  BY <1>1, <1>3, <1>6, HintAgrees DEF Hint
<1>7. CASE \E o \in Orders, c \in Choices : Guess(g, o, c, s)
  BY <1>1, <1>3, <1>7, GuessAgrees DEF Guess
<1>8. CASE Advance(g, s)
  <2>1. PICK x, y : /\ x = PgAdvance(pg, g, s, time) /\ y = MemAdvance(mem, g, s, time)
                    /\ Both(x, y)
                    /\ pgSent' = NextRound(x, g, PgContent)
                    /\ memSent' = NextRound(y, g, MemContent)
    BY <1>8 DEF Advance
  <2>2. /\ Alike(x.st, y.st, time)
        /\ (~Owned(pg, g, s) \/ pg.games[g].status # "completed") => x.code = y.code
    BY <1>1, <2>1, AdvanceAgrees
  <2>3. ~Completed(g) => x.code = y.code
    BY <2>2 DEF Completed, Owned
  <2>4. BothInv' /\ (~Completed(g) => pgSaid' = memSaid')
    BY <1>1, <2>1, <2>2, <2>3 DEF Both, BothInv
  <2>5. ASSUME x.code = y.code
        PROVE  SentAlike(pgSent', memSent')
    <3>1. PICK a, b : a = x.st.games[g] /\ b = y.st.games[g] /\ GameAlike(a, b)
      BY <2>2 DEF Alike
    <3>2. (a.status = "completed") = (b.status = "completed")
          /\ (a.status # "completed" => a.cur = b.cur)
      BY <3>1 DEF GameAlike
    <3>3. CASE x.code = "ok" /\ a.status # "completed"
      <4>1. /\ pgSent' = Sent(x, g, a.cur + 1, PgContent)
            /\ memSent' = Sent(y, g, a.cur + 1, MemContent)
        BY <2>1, <2>5, <3>1, <3>2, <3>3 DEF NextRound
      <4>2. QED
        BY <2>2, <2>5, <4>1, SendsAlike
    <3>4. CASE ~(x.code = "ok" /\ a.status # "completed")
      <4>1. pgSent' = {} /\ memSent' = {}
        BY <2>1, <2>5, <3>1, <3>2, <3>4 DEF NextRound
      <4>2. QED
        BY <4>1 DEF SentAlike
    <3>5. QED
      BY <3>3, <3>4
  <2>6. QED
    BY <2>3, <2>4, <2>5
<1>9. QED
  BY <1>4, <1>5, <1>6, <1>7, <1>8 DEF Call

LEMMA BothSteps ==
    ASSUME BothInv, [BothNext]_sides
    PROVE  BothInv'
<1>1. CASE \E g \in Games, s \in Players : Call(g, s)
  BY <1>1, CallAgrees
<1>2. CASE Passes
  BY <1>2, AlikeLater DEF Passes, BothInv
<1>3. CASE UNCHANGED sides
  BY <1>3 DEF sides, BothInv
<1>4. QED
  BY <1>1, <1>2, <1>3 DEF BothNext

\* Whatever the calls and however long the pauses between them, what the two stores keep of
\* games, rounds and guesses differs by at most an expiry only one of them wrote down and by
\* the rounds a completed game was advanced past.
THEOREM StoresStayAlike == BothSpec => []BothInv
  BY BothStart, BothSteps, PTL DEF BothSpec

\* The in-memory unit of work, which the tests run, and the Postgres one, which no test runs,
\* keep the same points, hints, errors, guesses and completions.
THEOREM SameGameKeptHolds == BothSpec => []SameGameKept
<1>1. ASSUME BothInv
      PROVE  SameGameKept
  <2>1. pg.guesses = mem.guesses
    BY <1>1 DEF BothInv, Alike
  <2>2. ASSUME NEW g \in Games
        PROVE  SameGame(g)
    <3>1. PICK a, b : a = pg.games[g] /\ b = mem.games[g] /\ GameAlike(a, b)
      BY <1>1 DEF BothInv, Alike
    <3>2. (a \in GameRow => a # NoRow /\ a.cur \in Nat) /\ (b \in GameRow => b # NoRow /\ b.cur \in Nat)
      BY NoRowAssumption DEF GameRow
    <3>3. QED
      BY <3>1, <3>2 DEF SameGame, GameAlike
  <2>3. ASSUME NEW g \in Games, NEW o \in Orders
        PROVE  SameRound(pg.rounds[<<g, o>>], mem.rounds[<<g, o>>])
    <3>1. PICK r, q : /\ r = pg.rounds[<<g, o>>] /\ q = mem.rounds[<<g, o>>]
                      /\ RoundAlike(r, q, time)
      BY <1>1 DEF BothInv, Alike
    <3>2. QED
      BY <3>1, NoRowAssumption DEF SameRound, RoundAlike
  <2>4. QED
    BY <2>1, <2>2, <2>3 DEF SameGameKept
<1>2. QED
  BY <1>1, StoresStayAlike, PTL

\* A call about a game that is not completed gets the same code from both, and the same round
\* but for its texts, its names and what is said of a round whose time is up.
THEOREM AnswersAgreeHolds == BothSpec => AnswersAgree
<1>1. ASSUME BothInv, NEW g \in Games, NEW s \in Players, Call(g, s), ~Completed(g)
      PROVE  pgSaid' = memSaid' /\ SentAlike(pgSent', memSent')
  BY <1>1, CallAgrees
<1>2. BothInv => [\A g \in Games, s \in Players :
                     Call(g, s) /\ ~Completed(g)
                       => pgSaid' = memSaid' /\ SentAlike(pgSent', memSent')]_sides
  BY <1>1
<1>3. QED
  BY <1>2, StoresStayAlike, PTL DEF AnswersAgree
=============================================================================
