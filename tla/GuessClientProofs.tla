--------------------------- MODULE GuessClientProofs ---------------------------
(***************************************************************************)
(* What a player's browser shows and does, for any number of tabs,         *)
(* identities, games, rounds and lost messages: a click changes the game   *)
(* at most once, what a tab shows as settled is on record, and the answer  *)
(* reaches no tab before its round is settled.                             *)
(*                                                                         *)
(* The score of a round does not matter here, so the store is only known   *)
(* by its shape (Board); GuessGameProofs proves what its numbers mean.     *)
(***************************************************************************)
EXTENDS GuessClient, TLAPS

-----------------------------------------------------------------------------
(* The store *)

\* The rows have their types, and a round shows at least one post.
Store(st) ==
    /\ st \in Stores
    /\ \A g \in Games, o \in Orders :
         HasRound(st, g, o) => st.rounds[<<g, o>>].hints \in 1..Posts

Settled(st, o) == HasRound(st, Game, o) /\ st.rounds[<<Game, o>>].status # "active"

\* A settled round of the tabs' game stays as it was settled.
Stands(st, new) ==
    \A o \in Orders : Settled(st, o) => new.rounds[<<Game, o>>] = st.rounds[<<Game, o>>]

\* What a tab may have been told of a round: a settled one is on record, and an open one
\* hides its target.
Told(x, st) ==
    /\ x.o \in Orders
    /\ x.view.correct # NoRow => x.view.status # "active"
    /\ x.view.status # "active" =>
         Settled(st, x.o) /\ toRoundView(st.rounds[<<Game, x.o>>]) = x.view

\* A transaction of the tabs' game: what it leaves, and what it tells.
Sound(st, click, made) ==
    /\ Store(made.st)
    /\ Stands(st, made.st)
    /\ RoundOf(click, made) # NoRow => Told(RoundOf(click, made), made.st)

LEMMA GameIs == Game \in Games
  BY ClientAssumption DEF Game

\* A round that a transaction leaves may be told.
LEMMA RowIsTold ==
    ASSUME NEW st, NEW o \in Orders, HasRound(st, Game, o)
    PROVE  Told([o |-> o, view |-> toRoundView(st.rounds[<<Game, o>>])], st)
  BY DEF Told, Settled, toRoundView

\* What was told stays true while settled rounds stand.
LEMMA ToldStays ==
    ASSUME NEW st, NEW new, Stands(st, new), NEW x, Told(x, st)
    PROVE  Told(x, new)
<1>1. CASE x.view.status = "active"
  BY <1>1 DEF Told
<1>2. CASE x.view.status # "active"
  <2>1. /\ x.o \in Orders /\ Settled(st, x.o) /\ toRoundView(st.rounds[<<Game, x.o>>]) = x.view
        /\ new.rounds[<<Game, x.o>>] = st.rounds[<<Game, x.o>>]
    BY <1>2 DEF Told, Stands
  <2>2. QED
    BY <1>2, <2>1 DEF Told, Settled, HasRound
<1>3. QED
  BY <1>1, <1>2

\* A refusal leaves the store and tells nothing.
LEMMA RefusalIsSound ==
    ASSUME NEW st, Store(st), NEW click, NEW code, code # "ok"
    PROVE  Sound(st, click, Refuse(st, code))
  BY DEF Sound, Refuse, RoundOf, Stands

LEMMA OrdersOf ==
    ASSUME NEW m \in Modes
    PROVE  RoundsIn[m] \in Nat \ {0} /\ 1..RoundsIn[m] \subseteq Orders
  BY GuessAssumption DEF Modes, Orders

LEMMA NetScore ==
    ASSUME NEW hints \in 1..Posts, NEW wrong \in Nat
    PROVE  netScoreForRound(hints, wrong) \in Nat
<1>1. hints \in {1, 2, 3, 4, 5}
  BY GuessAssumption
<1>2. SCORE_CURVE[hints] \in Nat
  BY <1>1 DEF SCORE_CURVE
<1>3. QED
  BY <1>2 DEF netScoreForRound, WRONG_GUESS_PENALTY

With(games, rounds, guesses) == [games |-> games, rounds |-> rounds, guesses |-> guesses]

\* A transaction that writes one round, and perhaps the game's row and a guess.
LEMMA RoundWritten ==
    ASSUME NEW st, Store(st), NEW o \in Orders, ~Settled(st, o),
           NEW row \in RoundRow, row.hints \in 1..Posts,
           NEW games \in [Games -> GameRow \cup {NoRow}], NEW guesses \in SUBSET GuessRow,
           NEW new, new = With(games, [st.rounds EXCEPT ![<<Game, o>>] = row], guesses)
    PROVE  /\ Store(new) /\ Stands(st, new)
           /\ HasRound(new, Game, o) /\ new.rounds[<<Game, o>>] = row /\ new.games = games
<1>1. /\ new.games = games /\ new.guesses = guesses
      /\ new.rounds = [st.rounds EXCEPT ![<<Game, o>>] = row]
  BY DEF With
<1>2. new.rounds \in [Games \X Orders -> RoundRow \cup {NoRow}]
  BY <1>1 DEF Store, Stores
<1>3. new \in Stores
  BY <1>1, <1>2 DEF Stores, With
<1>4. \A g \in Games, p \in Orders :
         new.rounds[<<g, p>>] = IF g = Game /\ p = o THEN row ELSE st.rounds[<<g, p>>]
  BY <1>1 DEF Store, Stores
<1>5. Store(new)
  BY <1>3, <1>4 DEF Store, HasRound
<1>6. Stands(st, new)
  BY <1>4, GameIs DEF Stands
<1>7. QED
  BY <1>1, <1>4, <1>5, <1>6, GameIs, NoRowAssumption DEF HasRound

\* A transaction that writes games' rows only.
LEMMA GamesWritten ==
    ASSUME NEW st, Store(st), NEW games \in [Games -> GameRow \cup {NoRow}],
           NEW new, new = With(games, st.rounds, st.guesses)
    PROVE  /\ Store(new) /\ Stands(st, new) /\ new.games = games /\ new.rounds = st.rounds
  BY DEF Store, Stores, Stands, HasRound, With

\* A round is opened from its plan, once.
LEMMA Opened ==
    ASSUME NEW st, Store(st), NEW o \in Orders, NEW now \in Nat,
           NEW new, new = materializeRound(st, Game, o, now)
    PROVE  Store(new) /\ Stands(st, new) /\ HasRound(new, Game, o) /\ new.games = st.games
<1> DEFINE row == [status |-> "active", hints |-> 1, wrong |-> 0, score |-> 0,
                   expires |-> now + RoundExpiry]
<1>1. CASE HasRound(st, Game, o)
  BY <1>1 DEF materializeRound, Stands
<1>2. CASE ~HasRound(st, Game, o)
  <2>1. row \in RoundRow /\ row.hints \in 1..Posts
    BY GuessAssumption DEF RoundRow, RoundStatus
  <2>2. new = With(st.games, [st.rounds EXCEPT ![<<Game, o>>] = row], st.guesses)
    BY <1>2 DEF materializeRound, With, Store, Stores
  <2>3. st.games \in [Games -> GameRow \cup {NoRow}] /\ st.guesses \in SUBSET GuessRow
    BY DEF Store, Stores
  <2> HIDE DEF row
  <2>4. QED
    BY <1>2, <2>1, <2>2, <2>3, RoundWritten DEF Settled
<1>3. QED
  BY <1>1, <1>2

\* Stands is transitive.
LEMMA StandsOn ==
    ASSUME NEW st, NEW mid, NEW new, Stands(st, mid), Stands(mid, new),
           \A o \in Orders : Settled(st, o) => HasRound(mid, Game, o)
    PROVE  Stands(st, new)
  BY DEF Stands, Settled

-----------------------------------------------------------------------------
(* The transactions *)

\* Reading the round a game stands at.
LEMMA ReadSound ==
    ASSUME NEW st, Store(st), NEW s, NEW now \in Nat, NEW click \in Click, click.kind = "round"
    PROVE  Sound(st, click, PgCurrentRound(st, Game, s, now))
<1> DEFINE w == st.games[Game]
           o == w.cur + 1
           row == [w EXCEPT !.status = IF w.status = "in_progress" /\ now >= w.expires
                                       THEN "abandoned" ELSE w.status]
           aged == PgExpire(st, Game, now)
           new == materializeRound(aged, Game, o, now)
<1>1. CASE ~Owned(st, Game, s) \/ o > Total(st, Game)
  BY <1>1, RefusalIsSound DEF PgCurrentRound
<1>2. CASE Owned(st, Game, s) /\ ~(o > Total(st, Game))
  <2>1. w \in GameRow /\ o \in Orders
    <3>1. w \in GameRow /\ o \in Nat \ {0} /\ w.mode \in Modes
      BY <1>2, GameIs DEF Owned, Store, Stores, GameRow
    <3>2. QED
      BY <1>2, <3>1, OrdersOf DEF Total
  <2>2. row \in GameRow /\ row.cur = w.cur
    BY <2>1 DEF GameRow, GameStatus
  <2>3. aged = With([st.games EXCEPT ![Game] = row], st.rounds, st.guesses)
    BY <2>1, GameIs DEF PgExpire, Store, Stores, With
  <2>4. [st.games EXCEPT ![Game] = row] \in [Games -> GameRow \cup {NoRow}]
    BY <2>2 DEF Store, Stores
  <2> HIDE DEF row
  <2>5. /\ Store(aged) /\ Stands(st, aged) /\ aged.rounds = st.rounds
        /\ aged.games = [st.games EXCEPT ![Game] = row]
    BY <2>3, <2>4, GamesWritten
  <2> HIDE DEF aged
  <2>6. Store(new) /\ Stands(aged, new) /\ HasRound(new, Game, o) /\ new.games = aged.games
    BY <2>1, <2>5, Opened
  <2>7. Stands(st, new)
    BY <2>5, <2>6, StandsOn DEF Settled, HasRound
  <2>8. new.games[Game].cur + 1 = o
    BY <2>2, <2>5, <2>6, GameIs DEF Store, Stores
  <2>9. PgCurrentRound(st, Game, s, now) = Ok(new, toRoundView(new.rounds[<<Game, o>>]))
    BY <1>2 DEF PgCurrentRound, aged
  <2> HIDE DEF new, o
  <2>10. RoundOf(click, Ok(new, toRoundView(new.rounds[<<Game, o>>])))
            = [o |-> o, view |-> toRoundView(new.rounds[<<Game, o>>])]
    BY <2>8 DEF RoundOf, Ok
  <2>11. QED
    BY <2>1, <2>6, <2>7, <2>9, <2>10, RowIsTold DEF Sound, Ok
<1>3. QED
  BY <1>1, <1>2

\* Moving on to the next round, or to the results.
LEMMA AdvanceSound ==
    ASSUME NEW st, Store(st), NEW s, NEW now \in Nat, NEW click \in Click, click.kind = "advance"
    PROVE  Sound(st, click, PgAdvance(st, Game, s, now))
<1> DEFINE w == st.games[Game]
           o == w.cur + 1
<1>1. CASE \/ ~Owned(st, Game, s) \/ o > Total(st, Game)
           \/ (HasRound(st, Game, o) /\ PgOpen(st, Game, o, now))
  BY <1>1, RefusalIsSound DEF PgAdvance
<1>2. CASE /\ Owned(st, Game, s) /\ ~(o > Total(st, Game))
           /\ ~(HasRound(st, Game, o) /\ PgOpen(st, Game, o, now))
  <2>1. w \in GameRow /\ w.mode \in Modes /\ o \in Nat \ {0} /\ Total(st, Game) \in Nat
        /\ 1..Total(st, Game) \subseteq Orders
    BY <1>2, GameIs, OrdersOf DEF Owned, Store, Stores, GameRow, Total
  <2>2. CASE o = Total(st, Game)
    <3> DEFINE row == [w EXCEPT !.cur = o, !.status = "completed", !.token = w.token + 1]
               new == [st EXCEPT !.games[Game] = row]
    <3>1. row \in GameRow /\ row.status = "completed"
      <4> DEFINE at == [w EXCEPT !.cur = o]
                 done == [at EXCEPT !.status = "completed"]
                 k == w.token + 1
      <4>1. at \in GameRow /\ k \in Nat
        BY <2>1 DEF GameRow
      <4> HIDE DEF at
      <4>2. done \in GameRow /\ done.status = "completed"
        BY <4>1 DEF GameRow, GameStatus
      <4> HIDE DEF done, k
      <4>3. [done EXCEPT !.token = k] \in GameRow /\ [done EXCEPT !.token = k].status = "completed"
        BY <4>1, <4>2 DEF GameRow
      <4>4. QED
        BY <4>3 DEF done, at, k
    <3>2. new = With([st.games EXCEPT ![Game] = row], st.rounds, st.guesses)
      <4> HIDE DEF row
      <4>1. QED
        BY GameIs DEF Store, Stores, With
    <3>3. [st.games EXCEPT ![Game] = row] \in [Games -> GameRow \cup {NoRow}]
      BY <3>1 DEF Store, Stores
    <3>4. PgAdvance(st, Game, s, now) = Ok(new, toGameView(new.games[Game]))
      BY <1>2, <2>2 DEF PgAdvance
    <3> HIDE DEF row, new
    <3>5. Store(new) /\ Stands(st, new) /\ new.games[Game].status = "completed"
      <4>1. Store(new) /\ Stands(st, new) /\ new.games = [st.games EXCEPT ![Game] = row]
        BY <3>2, <3>3, GamesWritten
      <4>2. QED
        BY <3>1, <4>1, GameIs DEF Store, Stores
    <3>6. RoundOf(click, Ok(new, toGameView(new.games[Game]))) = NoRow
      BY <3>5 DEF RoundOf, Ok, toGameView
    <3>7. QED
      BY <3>4, <3>5, <3>6 DEF Sound, Ok
  <2>3. CASE o # Total(st, Game)
    <3> DEFINE row == [w EXCEPT !.cur = o]
               kept == [st EXCEPT !.games[Game].cur = o]
               new == materializeRound(kept, Game, o + 1, now)
    <3>1. row \in GameRow /\ row.cur = o
      BY <2>1 DEF GameRow
    <3>2. kept = With([st.games EXCEPT ![Game] = row], st.rounds, st.guesses)
      BY GameIs DEF Store, Stores, With
    <3>3. [st.games EXCEPT ![Game] = row] \in [Games -> GameRow \cup {NoRow}]
      BY <3>1 DEF Store, Stores
    <3>4. PgAdvance(st, Game, s, now) = Ok(new, toGameView(new.games[Game]))
      BY <1>2, <2>3 DEF PgAdvance
    <3>5. o + 1 \in Orders
      BY <1>2, <2>1, <2>3
    <3> HIDE DEF row, kept
    <3>6. /\ Store(kept) /\ Stands(st, kept) /\ kept.rounds = st.rounds
          /\ kept.games = [st.games EXCEPT ![Game] = row]
      BY <3>2, <3>3, GamesWritten
    <3>7. Store(new) /\ Stands(kept, new) /\ HasRound(new, Game, o + 1) /\ new.games = kept.games
      BY <3>5, <3>6, Opened
    <3>8. Stands(st, new)
      BY <3>6, <3>7, StandsOn DEF Settled, HasRound
    <3>9. new.games[Game].cur = o
      BY <3>1, <3>6, <3>7, GameIs DEF Store, Stores
    <3> DEFINE made == Ok(new, toGameView(new.games[Game]))
    <3>10. made.st = new /\ made.code = "ok"
      BY DEF Ok
    <3>11. \/ RoundOf(click, made) = NoRow
           \/ RoundOf(click, made)
                = [o |-> o + 1, view |-> toRoundView(new.rounds[<<Game, o + 1>>])]
      <4> HIDE DEF made, new, o
      <4>1. QED
        BY <3>9, <3>10 DEF RoundOf
    <3> HIDE DEF made, new, o
    <3>12. Told([o |-> o + 1, view |-> toRoundView(new.rounds[<<Game, o + 1>>])], new)
      BY <3>5, <3>7, RowIsTold
    <3>13. QED
      BY <3>4, <3>7, <3>8, <3>10, <3>11, <3>12 DEF Sound, made
  <2>4. QED
    BY <2>2, <2>3
<1>3. QED
  BY <1>1, <1>2

\* A hint or a guess on a round tells that round.
LEMMA PlayTells ==
    ASSUME NEW st, NEW new, Store(new), Stands(st, new), NEW click \in Click,
           click.kind \in {"hint", "guess"}, HasRound(new, Game, click.o), click.o \in Orders
    PROVE  Sound(st, click, Ok(new, toRoundView(new.rounds[<<Game, click.o>>])))
<1> DEFINE v == toRoundView(new.rounds[<<Game, click.o>>])
<1>1. RoundOf(click, Ok(new, v)) = [o |-> click.o, view |-> v]
  BY DEF RoundOf, Ok
<1>2. QED
  BY <1>1, RowIsTold DEF Sound, Ok

LEMMA HintSound ==
    ASSUME NEW st, Store(st), NEW s, NEW now \in Nat, NEW click \in Click, click.kind = "hint"
    PROVE  Sound(st, click, PgHint(st, Game, click.o, s, now))
<1>1. PICK o \in Orders : o = click.o
  BY DEF Click
<1>2. CASE ~Owned(st, Game, s) \/ ~HasRound(st, Game, o) \/ ~PgOpen(st, Game, o, now)
  BY <1>1, <1>2, RefusalIsSound DEF PgHint
<1>3. CASE Owned(st, Game, s) /\ HasRound(st, Game, o) /\ PgOpen(st, Game, o, now)
  <2> DEFINE r == st.rounds[<<Game, o>>]
             n == IF r.hints < Posts THEN r.hints + 1 ELSE r.hints
             row == [r EXCEPT !.hints = n]
             new == Reveal(st, Game, o)
  <2>1. r \in RoundRow /\ n \in 1..Posts
    BY <1>3, GameIs, GuessAssumption DEF Store, Stores, HasRound
  <2>2. row \in RoundRow /\ row.hints = n
    <3> HIDE DEF n
    <3>1. QED
      BY <2>1 DEF RoundRow
  <2>3. new = With(st.games, [st.rounds EXCEPT ![<<Game, o>>] = row], st.guesses)
    <3>1. st \in Stores /\ <<Game, o>> \in Games \X Orders
      BY GameIs DEF Store
    <3>2. QED
      BY SMTT(30), <3>1 DEF Reveal, Stores, With
  <2>4. /\ ~Settled(st, o)
        /\ st.games \in [Games -> GameRow \cup {NoRow}] /\ st.guesses \in SUBSET GuessRow
    BY <1>3 DEF Settled, PgOpen, Store, Stores
  <2>5. PgHint(st, Game, o, s, now) = Ok(new, toRoundView(new.rounds[<<Game, o>>]))
    BY <1>3 DEF PgHint
  <2> HIDE DEF row, new, n
  <2>6. Store(new) /\ Stands(st, new) /\ HasRound(new, Game, o)
    BY SMTT(30), <2>1, <2>2, <2>3, <2>4, RoundWritten
  <2>7. QED
    BY <1>1, <2>5, <2>6, PlayTells
<1>4. QED
  BY <1>2, <1>3

\* A transaction that writes the round o, and perhaps the game's row and a guess.
Writes(st, o, new) ==
    \E row \in RoundRow, games \in [Games -> GameRow \cup {NoRow}], guesses \in SUBSET GuessRow :
       /\ row.hints \in 1..Posts
       /\ new = With(games, [st.rounds EXCEPT ![<<Game, o>>] = row], guesses)

\* A guess is recorded, and its round won, charged, or charged and lost.
LEMMA GradeWrites ==
    ASSUME NEW st, Store(st), NEW o \in Orders, HasRound(st, Game, o), st.games[Game] # NoRow,
           NEW c \in Choices
    PROVE  Writes(st, o, Grade(st, Game, o, c))
<1> DEFINE r == st.rounds[<<Game, o>>]
           w == st.games[Game]
           won == netScoreForRound(r.hints, r.wrong)
           guesses == st.guesses \cup {Graded(Game, o, c)}
<1>1. r \in RoundRow /\ r.hints \in 1..Posts /\ w \in GameRow
  BY GameIs DEF Store, Stores, HasRound
<1>2. won \in Nat
  BY <1>1, NetScore DEF RoundRow
<1>3. guesses \in SUBSET GuessRow
  BY GameIs DEF Store, Stores, Graded, GuessRow
<1> HIDE DEF won, guesses
<1>4. CASE c = Target
  <2> DEFINE at == [r EXCEPT !.status = "resolved_correct"]
             row == [at EXCEPT !.score = won]
             p == w.score + won
             v == [w EXCEPT !.score = p]
             games == [st.games EXCEPT ![Game] = v]
  <2>1. at \in RoundRow /\ at.hints = r.hints
    BY <1>1 DEF RoundRow, RoundStatus
  <2> HIDE DEF at
  <2>2. row \in RoundRow /\ row.hints = r.hints
    BY <1>2, <2>1 DEF RoundRow
  <2>3. p \in Nat
    BY <1>1, <1>2 DEF GameRow
  <2> HIDE DEF p
  <2>4. v \in GameRow
    BY <1>1, <2>3 DEF GameRow
  <2> HIDE DEF v
  <2>5. games \in [Games -> GameRow \cup {NoRow}]
    BY <2>4 DEF Store, Stores
  <2>6. Grade(st, Game, o, c) = With(games, [st.rounds EXCEPT ![<<Game, o>>] = row], guesses)
    BY <1>4, GameIs DEF Grade, With, won, guesses, at, v, p, Store, Stores
  <2>7. QED
    BY <1>1, <1>3, <2>2, <2>5, <2>6 DEF Writes
<1>5. CASE c # Target
  <2> DEFINE k == r.wrong + 1
             m == IF isRoundExhausted(k) THEN "resolved_incorrect" ELSE r.status
             at == [r EXCEPT !.wrong = k]
             row == [at EXCEPT !.status = m]
  <2>1. k \in Nat /\ m \in RoundStatus
    BY <1>1 DEF RoundRow, RoundStatus
  <2>2. Grade(st, Game, o, c) = With(st.games, [st.rounds EXCEPT ![<<Game, o>>] = row], guesses)
    BY <1>5 DEF Grade, With, guesses
  <2> HIDE DEF k, m
  <2>3. at \in RoundRow /\ at.hints = r.hints
    BY <1>1, <2>1 DEF RoundRow
  <2> HIDE DEF at
  <2>4. row \in RoundRow /\ row.hints = r.hints
    BY <2>1, <2>3 DEF RoundRow
  <2>5. st.games \in [Games -> GameRow \cup {NoRow}]
    BY DEF Store, Stores
  <2>6. QED
    BY <1>1, <1>3, <2>2, <2>4, <2>5 DEF Writes
<1>6. QED
  BY <1>4, <1>5

LEMMA GuessSound ==
    ASSUME NEW st, Store(st), NEW s, NEW now \in Nat, NEW click \in Click, click.kind = "guess"
    PROVE  Sound(st, click, PgGuess(st, Game, click.o, click.c, s, now))
<1>1. PICK o \in Orders, c \in Choices : o = click.o /\ c = click.c
  BY DEF Click
<1>2. CASE ~Owned(st, Game, s) \/ ~HasRound(st, Game, o)
  BY <1>1, <1>2, RefusalIsSound DEF PgGuess
<1>3. CASE Owned(st, Game, s) /\ HasRound(st, Game, o) /\ Graded(Game, o, c) \in st.guesses
  <2>1. Stands(st, st)
    BY DEF Stands
  <2>2. PgGuess(st, Game, o, c, s, now) = Ok(st, toRoundView(st.rounds[<<Game, o>>]))
    BY <1>3 DEF PgGuess
  <2>3. QED
    BY <1>1, <1>3, <2>1, <2>2, PlayTells
<1>4. CASE /\ Owned(st, Game, s) /\ HasRound(st, Game, o) /\ Graded(Game, o, c) \notin st.guesses
           /\ ~PgOpen(st, Game, o, now)
  BY <1>1, <1>4, RefusalIsSound DEF PgGuess
<1>5. CASE /\ Owned(st, Game, s) /\ HasRound(st, Game, o) /\ Graded(Game, o, c) \notin st.guesses
           /\ PgOpen(st, Game, o, now)
  <2> DEFINE new == Grade(st, Game, o, c)
  <2>1. PICK row \in RoundRow, games \in [Games -> GameRow \cup {NoRow}],
             guesses \in SUBSET GuessRow :
              /\ row.hints \in 1..Posts
              /\ new = With(games, [st.rounds EXCEPT ![<<Game, o>>] = row], guesses)
    <3>1. st.games[Game] # NoRow /\ HasRound(st, Game, o)
      BY <1>5 DEF Owned
    <3>2. Writes(st, o, new)
      BY <3>1, GradeWrites
    <3> HIDE DEF new
    <3>3. QED
      BY <3>2 DEF Writes
  <2>2. PgGuess(st, Game, o, c, s, now) = Ok(new, toRoundView(new.rounds[<<Game, o>>]))
    BY <1>5 DEF PgGuess
  <2> HIDE DEF new
  <2>3. Store(new) /\ Stands(st, new) /\ HasRound(new, Game, o)
    BY <1>5, <2>1, RoundWritten DEF Settled, PgOpen
  <2>4. QED
    BY <1>1, <2>2, <2>3, PlayTells
<1>6. QED
  BY <1>2, <1>3, <1>4, <1>5

\* Every call at the server: what it leaves is a store, settled rounds stand, and what it tells
\* is on record.
LEMMA EffectSound ==
    ASSUME Store(db), clock \in Nat, NEW s \in Players, NEW click \in Click
    PROVE  Sound(db, click, Effect(s, click))
<1>1. CASE click.kind = "daily"
  <2>1. \A st, view : Store(st) /\ Stands(db, st) => Sound(db, click, Ok(st, view))
    BY <1>1 DEF Sound, Ok, RoundOf
  <2>2. Stands(db, db)
    BY DEF Stands
  <2>3. CASE db.games[Game] # NoRow /\ ~Owned(db, Game, s)
    BY <1>1, <2>1, <2>2, <2>3 DEF Effect
  <2>4. CASE ~(db.games[Game] # NoRow /\ ~Owned(db, Game, s)) /\ DailyOf(db, s) # {}
    BY <1>1, <2>1, <2>2, <2>4 DEF Effect, createOrResumeDailyGame
  <2>5. CASE ~(db.games[Game] # NoRow /\ ~Owned(db, Game, s)) /\ DailyOf(db, s) = {}
    <3> DEFINE row == NewGame(s, "daily", clock)
               new == [db EXCEPT !.games[Game] = row]
    <3>1. row \in GameRow
      BY GuessAssumption DEF NewGame, GameRow, Modes, GameStatus
    <3>2. Effect(s, click) = Ok(new, toGameView(row))
      BY <1>1, <2>5 DEF Effect, createOrResumeDailyGame
    <3> HIDE DEF row
    <3>3. new = With([db.games EXCEPT ![Game] = row], db.rounds, db.guesses)
      BY GameIs DEF Store, Stores, With
    <3>4. [db.games EXCEPT ![Game] = row] \in [Games -> GameRow \cup {NoRow}]
      BY <3>1 DEF Store, Stores
    <3> HIDE DEF new
    <3>5. Store(new) /\ Stands(db, new)
      BY <3>3, <3>4, GamesWritten
    <3>6. QED
      BY <2>1, <3>2, <3>5
  <2>6. QED
    BY <2>3, <2>4, <2>5
<1>2. CASE click.kind = "results"
  <2>1. Stands(db, db)
    BY DEF Stands
  <2>2. \A view : Sound(db, click, Ok(db, view))
    BY <1>2, <2>1 DEF Sound, Ok, RoundOf
  <2>3. QED
    BY <1>2, <2>2, RefusalIsSound DEF Effect
<1>3. CASE click.kind = "round"
  BY <1>3, ReadSound DEF Effect
<1>4. CASE click.kind = "hint"
  BY <1>4, HintSound DEF Effect
<1>5. CASE click.kind = "guess"
  BY <1>5, GuessSound DEF Effect
<1>6. CASE click.kind = "advance"
  BY <1>6, AdvanceSound DEF Effect
<1>7. QED
  BY <1>1, <1>2, <1>3, <1>4, <1>5, <1>6 DEF Click

-----------------------------------------------------------------------------
(* The inductive invariant *)

CallFields == {"click", "step", "again", "code", "view", "cookie", "round", "effects", "sent"}

\* A call has had an effect only if it is on its way back with success, and what it brings
\* back of a round is on record.
CallOK(c, st) ==
    /\ DOMAIN c = CallFields
    /\ c.click \in Click
    /\ c.effects \in {0, 1}
    /\ c.step # "back" \/ c.code # "ok" => c.effects = 0
    /\ c.cookie # NoRow => c.cookie.s \in Players
    /\ c.round # NoRow => Told(c.round, st)

CallsOK == DOMAIN call = Tabs /\ \A t \in Tabs : call[t] # NoRow => CallOK(call[t], db)

\* What a tab shows of a round is on record.
TabsOK ==
    /\ tab = [t \in Tabs |-> tab[t]]
    /\ \A t \in Tabs : /\ DOMAIN tab[t] = {"csrf", "page", "shown"}
                       /\ tab[t].shown # NoRow => Told(tab[t].shown, db)

JarOK == jar # NoRow => jar.s \in Players

IInv == clock \in Nat /\ Store(db) /\ JarOK /\ TabsOK /\ CallsOK

-----------------------------------------------------------------------------
(* Every step keeps the invariant *)

LEMMA NewCallOK ==
    ASSUME NEW click \in Click, NEW st
    PROVE  CallOK(NewCall(click), st)
  BY DEF CallOK, NewCall, CallFields

\* A step of one tab that leaves the store alone.
LEMMA TabMoves ==
    ASSUME IInv, UNCHANGED <<clock, db>>, JarOK', NEW t \in Tabs, NEW p, NEW c,
           DOMAIN p = {"csrf", "page", "shown"}, p.shown # NoRow => Told(p.shown, db),
           tab' = [tab EXCEPT ![t] = p],
           c # NoRow => CallOK(c, db), call' = [call EXCEPT ![t] = c]
    PROVE  IInv'
<1>1. TabsOK'
  BY DEF IInv, TabsOK
<1>2. CallsOK'
  BY DEF IInv, CallsOK
<1>3. QED
  BY <1>1, <1>2 DEF IInv

\* What a tab is, and the call it waits for.
LEMMA Standing ==
    ASSUME IInv, NEW t \in Tabs
    PROVE  /\ DOMAIN tab[t] = {"csrf", "page", "shown"}
           /\ tab[t].shown # NoRow => Told(tab[t].shown, db)
           /\ tab = [tab EXCEPT ![t] = tab[t]]
           /\ call[t] # NoRow => CallOK(call[t], db)
  BY DEF IInv, TabsOK, CallsOK

\* A failed call leaves nothing on the page.
LEMMA FailsInv ==
    ASSUME IInv, UNCHANGED <<clock, db>>, JarOK', NEW t \in Tabs, Fails(t)
    PROVE  IInv'
<1>1. PICK x, y : tab' = [tab EXCEPT ![t] = [page |-> x, shown |-> NoRow, csrf |-> y]]
  BY DEF Fails
<1> DEFINE p == [page |-> x, shown |-> NoRow, csrf |-> y]
<1>2. DOMAIN p = {"csrf", "page", "shown"} /\ p.shown = NoRow /\ tab' = [tab EXCEPT ![t] = p]
  BY <1>1
<1> HIDE DEF p
<1>3. call' = [call EXCEPT ![t] = NoRow]
  BY DEF Fails
<1>4. QED
  BY <1>2, <1>3, TabMoves

LEMMA PressInv ==
    ASSUME IInv, NEW t \in Tabs, NEW click \in Click, Press(t, click)
    PROVE  IInv'
<1>1. UNCHANGED <<clock, db, sess, jar, trouble>> /\ JarOK'
  BY DEF Press, IInv, JarOK
<1>2. CASE Fails(t)
  BY <1>1, <1>2, FailsInv
<1>3. CASE \E st : /\ call' = [call EXCEPT ![t] = [NewCall(click) EXCEPT !.step = st]]
                   /\ st \in {"boot", "ask"}
                   /\ tab' = [tab EXCEPT ![t].page = IF tab[t].page = "error"
                                                     THEN "loading" ELSE tab[t].page]
  <2>1. PICK st \in {"boot", "ask"} :
           call' = [call EXCEPT ![t] = [NewCall(click) EXCEPT !.step = st]]
    BY <1>3
  <2>2. PICK n : n = NewCall(click) /\ CallOK(n, db) /\ n.effects = 0
    <3>1. CallOK(NewCall(click), db)
      BY NewCallOK
    <3>2. NewCall(click).effects = 0
      BY DEF NewCall
    <3>3. QED
      BY <3>1, <3>2
  <2>3. CallOK([n EXCEPT !.step = st], db)
    BY <2>2 DEF CallOK, CallFields
  <2>4. PICK p : /\ p = [tab[t] EXCEPT !.page = IF tab[t].page = "error"
                                                THEN "loading" ELSE tab[t].page]
                 /\ tab' = [tab EXCEPT ![t] = p]
    BY <1>3
  <2>5. DOMAIN p = {"csrf", "page", "shown"} /\ p.shown = tab[t].shown
    BY <2>4, Standing
  <2>6. QED
    BY <1>1, <2>1, <2>2, <2>3, <2>4, <2>5, Standing, TabMoves
<1>4. QED
  BY <1>2, <1>3 DEF Press

LEMMA ServeBootstrapInv ==
    ASSUME IInv, NEW t \in Tabs, ServeBootstrap(t)
    PROVE  IInv'
<1>1. UNCHANGED <<clock, db, jar, tab>> /\ JarOK' /\ call[t] # NoRow /\ call[t].step = "boot"
  BY DEF ServeBootstrap, IInv, JarOK
<1>2. PICK c : c = call[t] /\ CallOK(c, db) /\ c.effects = 0
  BY <1>1, Standing DEF CallOK
<1>3. \E d : CallOK(d, db) /\ call' = [call EXCEPT ![t] = d]
  <2>1. CASE call' = [call EXCEPT ![t].step = "booted", ![t].code = "refused", ![t].sent = @ + 1]
    <3> DEFINE d == [c EXCEPT !.step = "booted", !.code = "refused", !.sent = c.sent + 1]
    <3>1. CallOK(d, db)
      BY <1>2 DEF CallOK, CallFields
    <3>2. call' = [call EXCEPT ![t] = d]
      BY <1>2, <2>1 DEF IInv, CallsOK, CallOK, CallFields
    <3>3. QED
      BY <3>1, <3>2
  <2>2. CASE ~(call' = [call EXCEPT ![t].step = "booted", ![t].code = "refused", ![t].sent = @ + 1])
    <3> DEFINE s == CHOOSE p \in Identities : TRUE
               k == [s |-> s, token |-> bootstrapSession(s, t).token]
               d == [c EXCEPT !.step = "booted", !.code = "ok", !.sent = c.sent + 1, !.cookie = k]
    <3>1. Identities # {}
      BY <2>2 DEF ServeBootstrap
    <3>2. s \in Players
      <4>1. Identities \subseteq Players
        BY DEF Identities, requireSession, IInv, JarOK
      <4>2. QED
        BY <3>1, <4>1
    <3>3. call' = [call EXCEPT ![t].step = "booted", ![t].code = "ok", ![t].sent = @ + 1,
                               ![t].cookie = k]
      BY <2>2 DEF ServeBootstrap
    <3>4. k.s \in Players
      BY <3>2
    <3> HIDE DEF s, k
    <3>5. CallOK(d, db)
      BY <1>2, <3>4 DEF CallOK, CallFields
    <3>6. call' = [call EXCEPT ![t] = d]
      BY <1>2, <3>3 DEF IInv, CallsOK, CallOK, CallFields
    <3>7. QED
      BY <3>5, <3>6
  <2>3. QED
    BY <2>1, <2>2
<1>4. PICK d : CallOK(d, db) /\ call' = [call EXCEPT ![t] = d]
  BY <1>3
<1>5. tab' = [tab EXCEPT ![t] = tab[t]]
  BY <1>1, Standing
<1>6. QED
  BY <1>1, <1>4, <1>5, Standing, TabMoves

LEMMA HearBootstrapInv ==
    ASSUME IInv, NEW t \in Tabs, HearBootstrap(t)
    PROVE  IInv'
<1>1. UNCHANGED <<clock, db>> /\ call[t] # NoRow /\ call[t].step = "booted"
  BY DEF HearBootstrap
<1>2. PICK c : c = call[t] /\ CallOK(c, db) /\ c.effects = 0
  BY <1>1, Standing DEF CallOK
<1>3. CASE call[t].code = "ok"
  <2>1. JarOK'
    BY <1>2, <1>3 DEF HearBootstrap, JarOK, CallOK
  <2>2. PICK p : p = [tab[t] EXCEPT !.csrf = "held"] /\ tab' = [tab EXCEPT ![t] = p]
    BY <1>3 DEF HearBootstrap
  <2>3. DOMAIN p = {"csrf", "page", "shown"} /\ p.shown = tab[t].shown
    BY <2>2, Standing
  <2>4. PICK d : d = [c EXCEPT !.step = "ask", !.cookie = NoRow] /\ call' = [call EXCEPT ![t] = d]
    BY <1>2, <1>3 DEF HearBootstrap
  <2>5. CallOK(d, db)
    BY <1>2, <2>4 DEF CallOK, CallFields
  <2>6. QED
    BY <1>1, <2>1, <2>2, <2>3, <2>4, <2>5, Standing, TabMoves
<1>4. CASE call[t].code # "ok"
  <2>1. Fails(t) /\ JarOK'
    BY <1>4 DEF HearBootstrap, IInv, JarOK
  <2>2. QED
    BY <1>1, <2>1, FailsInv
<1>5. QED
  BY <1>3, <1>4

LEMMA LoseInv ==
    ASSUME IInv, NEW t \in Tabs, Lose(t)
    PROVE  IInv'
  BY FailsInv DEF Lose, IInv, JarOK

LEMMA ReloadInv ==
    ASSUME IInv, NEW t \in Tabs, Reload(t)
    PROVE  IInv'
<1>1. UNCHANGED <<clock, db, sess, jar, trouble>> /\ JarOK'
  BY DEF Reload, IInv, JarOK
<1>2. PICK p : p = FreshTab("loading") /\ tab' = [tab EXCEPT ![t] = p]
  BY DEF Reload
<1>3. DOMAIN p = {"csrf", "page", "shown"} /\ p.shown = NoRow
  BY <1>2 DEF FreshTab
<1>4. PICK n : CallOK(n, db) /\ call' = [call EXCEPT ![t] = n]
  BY NewCallOK DEF Reload, Click
<1>5. QED
  BY <1>1, <1>2, <1>3, <1>4, TabMoves
LEMMA AnswerSound ==
    ASSUME IInv, NEW t \in Tabs, NEW click \in Click, NEW over
    PROVE  Sound(db, click, Answer(t, click, over))
<1>1. CASE /\ requireSession # NoRow
           /\ ~(click.kind \in Posted /\ ~requireCsrf(requireSession, t))
           /\ ~(click.kind \in Posted /\ over)
  <2>1. requireSession \in Players
    BY <1>1 DEF requireSession, IInv, JarOK
  <2>2. Sound(db, click, Effect(requireSession, click))
    BY <2>1, EffectSound DEF IInv
  <2>3. QED
    BY <1>1, <2>2 DEF Answer
<1>2. CASE ~(/\ requireSession # NoRow
             /\ ~(click.kind \in Posted /\ ~requireCsrf(requireSession, t))
             /\ ~(click.kind \in Posted /\ over))
  BY <1>2, RefusalIsSound DEF Answer, IInv
<1>3. QED
  BY <1>1, <1>2

\* A call served: the other tabs' rounds stand, and this one's is as the store has it.
LEMMA StoreMoves ==
    ASSUME IInv, UNCHANGED <<clock, jar, tab>>, NEW t \in Tabs, NEW c,
           Store(db'), Stands(db, db'), CallOK(c, db'), call' = [call EXCEPT ![t] = c]
    PROVE  IInv'
<1>1. \A x : Told(x, db) => Told(x, db')
  BY ToldStays
<1>2. TabsOK'
  BY <1>1 DEF IInv, TabsOK
<1>3. CallsOK'
  <2>1. DOMAIN call' = Tabs /\ \A u \in Tabs : call'[u] = IF u = t THEN c ELSE call[u]
    BY DEF IInv, CallsOK
  <2>2. \A u \in Tabs : call[u] # NoRow => CallOK(call[u], db')
    BY <1>1 DEF IInv, CallsOK, CallOK
  <2>3. QED
    BY <2>1, <2>2 DEF CallsOK
<1>4. QED
  BY <1>2, <1>3 DEF IInv, JarOK

LEMMA ServeInv ==
    ASSUME IInv, NEW t \in Tabs, Serve(t)
    PROVE  IInv'
<1>1. UNCHANGED <<clock, sess, jar, tab>> /\ call[t] # NoRow /\ call[t].step = "ask"
  BY DEF Serve
<1>2. PICK c : c = call[t] /\ CallOK(c, db) /\ c.effects = 0 /\ c.click \in Click
  BY <1>1, Standing DEF CallOK
<1>3. PICK over \in BOOLEAN : LET made == Answer(t, call[t].click, over) IN
         /\ db' = made.st
         /\ call' = [call EXCEPT ![t].step = "back", ![t].sent = @ + 1, ![t].code =
                           IF made.code \in {"ok", "unauthenticated"} THEN made.code ELSE "refused",
                       ![t].view = made.view, ![t].round = RoundOf(call[t].click, made),
                       ![t].effects = IF call[t].click.kind \in Posted /\ made.code = "ok"
                                      THEN @ + 1 ELSE @]
  BY DEF Serve
<1>4. PICK made : made = Answer(t, c.click, over)
  OBVIOUS
<1>5. Sound(db, c.click, made)
  BY <1>2, <1>4, AnswerSound
<1>6. PICK r : r = RoundOf(c.click, made) /\ (r # NoRow => Told(r, made.st))
  BY <1>5 DEF Sound
<1>7. PICK code : code = IF made.code \in {"ok", "unauthenticated"} THEN made.code ELSE "refused"
  OBVIOUS
<1>8. PICK n : n = IF c.click.kind \in Posted /\ made.code = "ok" THEN c.effects + 1 ELSE c.effects
  OBVIOUS
<1>9. n \in {0, 1} /\ (code # "ok" => n = 0)
  BY <1>2, <1>7, <1>8
<1>10. PICK d : d = [c EXCEPT !.step = "back", !.sent = c.sent + 1, !.code = code,
                              !.view = made.view, !.round = r, !.effects = n]
  OBVIOUS
<1>11. CallOK(d, made.st)
  BY <1>2, <1>6, <1>9, <1>10 DEF CallOK, CallFields
<1>12. call' = [call EXCEPT ![t] = d]
  BY ZenonT(30), <1>2, <1>3, <1>4, <1>6, <1>7, <1>8, <1>10 DEF IInv, CallsOK, CallOK, CallFields
<1>13. db' = made.st
  BY <1>2, <1>3, <1>4
<1>14. Store(db') /\ Stands(db, db') /\ CallOK(d, db')
  BY <1>5, <1>11, <1>13 DEF Sound
<1>15. QED
  BY <1>1, <1>12, <1>14, StoreMoves

\* A page that is shown shows the round the answer brought.
LEMMA ShowInv ==
    ASSUME IInv, UNCHANGED <<clock, db, jar>>, NEW t \in Tabs, NEW page,
           call[t] # NoRow, show(t, page)
    PROVE  IInv'
<1>1. PICK p : p = [csrf |-> tab[t].csrf, page |-> page, shown |-> call[t].round]
  OBVIOUS
<1>2. DOMAIN p = {"csrf", "page", "shown"} /\ p.shown = call[t].round
  BY <1>1
<1>3. p.shown # NoRow => Told(p.shown, db)
  BY <1>2, Standing DEF CallOK
<1>4. tab' = [tab EXCEPT ![t] = p] /\ call' = [call EXCEPT ![t] = NoRow]
  BY <1>1 DEF show
<1>5. QED
  BY <1>2, <1>3, <1>4, TabMoves DEF IInv, JarOK

\* An answer that is followed by another call, on a page that shows what it showed.
LEMMA AskInv ==
    ASSUME IInv, UNCHANGED <<clock, db, jar>>, NEW t \in Tabs, NEW p, NEW c, CallOK(c, db),
           DOMAIN p = {"csrf", "page", "shown"}, p.shown = tab[t].shown,
           tab' = [tab EXCEPT ![t] = p], call' = [call EXCEPT ![t] = c]
    PROVE  IInv'
  BY Standing, TabMoves DEF IInv, JarOK

LEMMA AcceptInv ==
    ASSUME IInv, UNCHANGED <<clock, db, jar>>, NEW t \in Tabs, call[t] # NoRow, Accept(t)
    PROVE  IInv'
<1>1. CASE \E page : show(t, page)
  BY <1>1, ShowInv
<1>2. CASE ask(t, "results") /\ tab' = [tab EXCEPT ![t].page = "loading"]
  <2>1. PICK p : p = [tab[t] EXCEPT !.page = "loading"] /\ tab' = [tab EXCEPT ![t] = p]
    BY <1>2
  <2>2. DOMAIN p = {"csrf", "page", "shown"} /\ p.shown = tab[t].shown
    BY <2>1, Standing
  <2>3. PICK c : CallOK(c, db) /\ call' = [call EXCEPT ![t] = c]
    BY <1>2, NewCallOK DEF ask, Click
  <2>4. QED
    BY <2>1, <2>2, <2>3, AskInv
<1>3. CASE ask(t, "round") /\ UNCHANGED tab
  <2>1. PICK c : CallOK(c, db) /\ call' = [call EXCEPT ![t] = c]
    BY <1>3, NewCallOK DEF ask, Click
  <2>2. tab' = [tab EXCEPT ![t] = tab[t]] /\ DOMAIN tab[t] = {"csrf", "page", "shown"}
    BY <1>3, Standing
  <2>3. QED
    BY <2>1, <2>2, AskInv
<1>4. QED
  BY <1>1, <1>2, <1>3 DEF Accept, started, loadGame, handleAdvance

LEMMA HearInv ==
    ASSUME IInv, NEW t \in Tabs, Hear(t)
    PROVE  IInv'
<1>1. UNCHANGED <<clock, db, jar>> /\ call[t] # NoRow
  BY DEF Hear
<1>2. CASE call[t].code = "ok"
  BY <1>1, <1>2, AcceptInv DEF Hear
<1>3. CASE call[t].code = "unauthenticated" /\ ~call[t].again
  <2>1. PICK p : p = [tab[t] EXCEPT !.csrf = "none"] /\ tab' = [tab EXCEPT ![t] = p]
    BY <1>3 DEF Hear
  <2>2. DOMAIN p = {"csrf", "page", "shown"} /\ p.shown = tab[t].shown
    BY <2>1, Standing
  <2>3. PICK c : c = call[t] /\ CallOK(c, db) /\ c.effects = 0
    BY <1>1, <1>3, Standing DEF CallOK
  <2>4. PICK d : d = [c EXCEPT !.step = "boot", !.again = TRUE, !.code = "ok"]
    OBVIOUS
  <2>5. CallOK(d, db)
    BY <2>3, <2>4 DEF CallOK, CallFields
  <2>6. call' = [call EXCEPT ![t] = d]
    BY <1>3, <2>3, <2>4 DEF Hear, IInv, CallsOK, CallOK, CallFields
  <2>7. QED
    BY <1>1, <2>1, <2>2, <2>5, <2>6, AskInv
<1>4. CASE call[t].code # "ok" /\ ~(call[t].code = "unauthenticated" /\ ~call[t].again)
  BY <1>1, <1>4, FailsInv DEF Hear, IInv, JarOK
<1>5. QED
  BY <1>2, <1>3, <1>4

LEMMA InitInv == Init => IInv
<1> SUFFICES ASSUME Init PROVE IInv
  OBVIOUS
<1>1. Store(db)
  <2>1. db = [games |-> [g \in Games |-> NoRow], rounds |-> [r \in Games \X Orders |-> NoRow],
              guesses |-> {}]
    BY DEF Init, EmptyStore
  <2>2. db \in Stores
    BY <2>1 DEF Stores
  <2>3. \A g \in Games, o \in Orders : db.rounds[<<g, o>>] = NoRow
    BY <2>1
  <2>4. QED
    BY <2>2, <2>3 DEF Store, HasRound
<1>2. TabsOK
  BY DEF Init, TabsOK, FreshTab
<1>3. CallsOK /\ JarOK /\ clock \in Nat
  BY DEF Init, CallsOK, JarOK
<1>4. QED
  BY <1>1, <1>2, <1>3 DEF IInv

LEMMA StepInv == IInv /\ [Next]_vars => IInv'
<1> SUFFICES ASSUME IInv, [Next]_vars PROVE IInv'
  OBVIOUS
<1>1. CASE \E t \in Tabs : \E click \in Click : Press(t, click)
  BY <1>1, PressInv
<1>2. CASE \E t \in Tabs : ServeBootstrap(t)
  BY <1>2, ServeBootstrapInv
<1>3. CASE \E t \in Tabs : HearBootstrap(t)
  BY <1>3, HearBootstrapInv
<1>4. CASE \E t \in Tabs : Serve(t)
  BY <1>4, ServeInv
<1>5. CASE \E t \in Tabs : Hear(t)
  BY <1>5, HearInv
<1>6. CASE \E t \in Tabs : Lose(t)
  BY <1>6, LoseInv
<1>7. CASE \E t \in Tabs : Reload(t)
  BY <1>7, ReloadInv
<1>8. CASE Tick
  BY <1>8 DEF Tick, IInv, JarOK, TabsOK, CallsOK
<1>9. CASE UNCHANGED vars
  BY <1>9 DEF vars, IInv, JarOK, TabsOK, CallsOK
<1>10. QED
  BY <1>1, <1>2, <1>3, <1>4, <1>5, <1>6, <1>7, <1>8, <1>9 DEF Next

-----------------------------------------------------------------------------
(* The theorems *)

\* Every reachable state has the inductive invariant.
THEOREM InvariantHolds == Spec => []IInv
  BY InitInv, StepInv, PTL DEF Spec

\* However the session expires under a call and the client module asks again, a click changes
\* the game at most once, although its calls carry no common idempotency key.
THEOREM OneClickOneEffectHolds == Spec => []OneClickOneEffect
<1>1. IInv => OneClickOneEffect
  BY DEF IInv, CallsOK, CallOK, OneClickOneEffect
<1>2. QED
  BY <1>1, InvariantHolds, PTL

\* A tab that shows a settled round shows the result the server has on record, whatever the
\* other tabs have done since.
THEOREM ShownSettledHolds == Spec => []ShownSettledIsSettled
<1>1. IInv => ShownSettledIsSettled
  BY DEF IInv, TabsOK, Told, ShownSettledIsSettled
<1>2. QED
  BY <1>1, InvariantHolds, PTL

\* No tab is given a round's target before the round is settled.
THEOREM AnswerStaysHiddenHolds == Spec => []AnswerStaysHidden
<1>1. IInv => AnswerStaysHidden
  BY DEF IInv, TabsOK, Told, Settled, AnswerStaysHidden
<1>2. QED
  BY <1>1, InvariantHolds, PTL
=============================================================================
