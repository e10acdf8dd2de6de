------------------------------ MODULE GuessRules ------------------------------
(***************************************************************************)
(* The guessing game's unit of work, as operators from a store and a call  *)
(* to the store and the answer the call leaves.  There are two             *)
(* implementations of one interface: Postgres (game/drizzle-unit-of-work), *)
(* which production runs and no test does, and Memory (game/unit-of-work), *)
(* which every test runs.  A refused Postgres call rolls its transaction   *)
(* back; a refused Memory call keeps what it had already changed.          *)
(***************************************************************************)
EXTENDS Integers, Sequences

CONSTANTS
    Games,        \* identifiers of games
    Players,      \* player sessions
    RoundsIn,     \* rounds of a game of each mode (DAILY_ROUNDS, FREEPLAY_ROUNDS)
    Posts,        \* posts of a round (MAX_POSTS_PER_ROUND)
    Choices,      \* the choices of a round
    Target,       \* the one of them that is the round's target
    MaxWrong,     \* MAX_WRONG_GUESSES
    RoundExpiry, GameExpiry,
    NoRow         \* an absent row, or an empty view

ASSUME GuessAssumption ==
    /\ RoundsIn \in [{"daily", "freeplay"} -> Nat \ {0}]
    /\ Posts \in 1..5
    /\ Target \in Choices
    /\ MaxWrong \in Nat \ {0}
    /\ RoundExpiry \in Nat \ {0}
    /\ GameExpiry \in Nat \ {0}
    /\ NoRow \notin Games \cup Players

Modes == {"daily", "freeplay"}
Orders == 1..(IF RoundsIn["daily"] > RoundsIn["freeplay"]
              THEN RoundsIn["daily"] ELSE RoundsIn["freeplay"])
GameStatus == {"in_progress", "completed", "abandoned"}
RoundStatus == {"active", "resolved_correct", "resolved_incorrect", "expired"}

GameRow == [owner : Players, mode : Modes, cur : Nat, score : Nat,
            status : GameStatus, token : Nat, expires : Nat]
RoundRow == [status : RoundStatus, hints : Nat, wrong : Nat, score : Nat, expires : Nat]

ASSUME NoRowAssumption == NoRow \notin GameRow \cup RoundRow

GuessRow == [game : Games, order : Orders, choice : Choices]

Stores == [games : [Games -> GameRow \cup {NoRow}],
           rounds : [Games \X Orders -> RoundRow \cup {NoRow}],
           guesses : SUBSET GuessRow]

EmptyStore == [games |-> [g \in Games |-> NoRow],
               rounds |-> [r \in Games \X Orders |-> NoRow],
               guesses |-> {}]

-----------------------------------------------------------------------------
SCORE_CURVE == <<100, 75, 55, 35, 20>>
WRONG_GUESS_PENALTY == 10

\* What a correct guess awards, never below zero.
netScoreForRound(hints, wrong) ==
    LET net == SCORE_CURVE[hints] - wrong * WRONG_GUESS_PENALTY
    IN  IF net < 0 THEN 0 ELSE net

isRoundExhausted(wrong) == wrong >= MaxWrong

RevealingView(r) ==
    [status |-> r.status, hints |-> r.hints, wrong |-> r.wrong,
     available |-> IF r.status = "active" THEN netScoreForRound(r.hints, r.wrong) ELSE 0,
     awarded |-> r.score, correct |-> Target]

\* What a client is told of a round, but for the posts' texts and the choices' names;
\* nobody is told the answer before it is settled.
toRoundView(r) ==
    [status |-> r.status, hints |-> r.hints, wrong |-> r.wrong,
     available |-> IF r.status = "active" THEN netScoreForRound(r.hints, r.wrong) ELSE 0,
     awarded |-> r.score,
     correct |-> IF r.status = "active" THEN NoRow ELSE Target]

\* Those texts and names: Memory looks them up when it makes a round and keeps them in it;
\* Postgres' loadRound fills a round's posts and choices with empty strings.
PgContent == "empty"
MemContent == "looked up"

toGameView(w) ==
    [status |-> w.status, cur |-> w.cur, score |-> w.score, token |-> w.token]

\* The owner's view of a game's results, with the link to share once there is one.
Results(st, g, s) ==
    IF st.games[g] # NoRow /\ st.games[g].owner = s THEN toGameView(st.games[g]) ELSE NoRow

Ok(st, view) == [st |-> st, code |-> "ok", view |-> view]
Refuse(st, code) == [st |-> st, code |-> code, view |-> NoRow]

\* An unknown game and another session's game get the same answer.
Owned(st, g, s) == st.games[g] # NoRow /\ st.games[g].owner = s

Total(st, g) == RoundsIn[st.games[g].mode]
HasRound(st, g, o) == st.rounds[<<g, o>>] # NoRow
Graded(g, o, c) == [game |-> g, order |-> o, choice |-> c]

-----------------------------------------------------------------------------
(* Calls the two implementations share. *)

NewGame(s, mode, now) ==
    [owner |-> s, mode |-> mode, cur |-> 0, score |-> 0, status |-> "in_progress",
     token |-> 0, expires |-> now + GameExpiry]

DailyOf(st, s) == {g \in Games : Owned(st, g, s) /\ st.games[g].mode = "daily"}

\* One daily game for a session: the row that is there answers a second call.
createOrResumeDailyGame(st, g, s, now) ==
    IF DailyOf(st, s) # {}
    THEN Ok(st, toGameView(st.games[CHOOSE d \in DailyOf(st, s) : TRUE]))
    ELSE LET row == NewGame(s, "daily", now)
         IN  Ok([st EXCEPT !.games[g] = row], toGameView(row))

createFreeplayGame(st, g, s, now) ==
    LET row == NewGame(s, "freeplay", now)
    IN  Ok([st EXCEPT !.games[g] = row], toGameView(row))

\* The rows of a round, from the plan the game was created with; its first post is
\* revealed at once.
materializeRound(st, g, o, now) ==
    IF HasRound(st, g, o) THEN st
    ELSE [st EXCEPT !.rounds[<<g, o>>] =
             [status |-> "active", hints |-> 1, wrong |-> 0, score |-> 0,
              expires |-> now + RoundExpiry]]

\* One more post, until all are shown.
Reveal(st, g, o) ==
    [st EXCEPT !.rounds[<<g, o>>].hints = IF @ < Posts THEN @ + 1 ELSE @]

GradeGross(st, g, o, c) ==
    LET r == st.rounds[<<g, o>>]
        won == netScoreForRound(r.hints, r.wrong)
        row == IF c = Target
               THEN [r EXCEPT !.status = "resolved_correct", !.score = won]
               ELSE [r EXCEPT !.wrong = @ + 1,
                              !.status = IF isRoundExhausted(r.wrong + 1)
                                         THEN "resolved_incorrect" ELSE @]
    IN  [games |-> IF c = Target THEN [st.games EXCEPT ![g].score = @ + SCORE_CURVE[r.hints]] ELSE st.games,
         rounds |-> [st.rounds EXCEPT ![<<g, o>>] = row],
         guesses |-> st.guesses \cup {Graded(g, o, c)}]

\* A guess is recorded and the round graded; only a correct one moves the score.
Grade(st, g, o, c) ==
    LET r == st.rounds[<<g, o>>]
        won == netScoreForRound(r.hints, r.wrong)
        row == IF c = Target
               THEN [r EXCEPT !.status = "resolved_correct", !.score = won]
               ELSE [r EXCEPT !.wrong = @ + 1,
                              !.status = IF isRoundExhausted(r.wrong + 1)
                                         THEN "resolved_incorrect" ELSE @]
    IN  [games |-> IF c = Target THEN [st.games EXCEPT ![g].score = @ + won] ELSE st.games,
         rounds |-> [st.rounds EXCEPT ![<<g, o>>] = row],
         guesses |-> st.guesses \cup {Graded(g, o, c)}]

-----------------------------------------------------------------------------
(* Postgres: the transaction locks the game's row, then reads the round. *)

ExpiresAsRound(st, g, now) ==
    [st EXCEPT !.games[g].status =
        IF @ = "in_progress" /\ now >= st.games[g].expires THEN "expired" ELSE @]

PgExpire(st, g, now) ==
    [st EXCEPT !.games[g].status =
        IF @ = "in_progress" /\ now >= st.games[g].expires THEN "abandoned" ELSE @]

\* Only the game expires on a read; the round is answered as it stands.
PgCurrentRound(st, g, s, now) ==
    IF ~Owned(st, g, s) THEN Refuse(st, "not_found")
    ELSE LET o == st.games[g].cur + 1 IN
         IF o > Total(st, g) THEN Refuse(st, "not_found")
         ELSE LET new == materializeRound(PgExpire(st, g, now), g, o, now)
              IN  Ok(new, toRoundView(new.rounds[<<g, o>>]))

OpenTillLast(st, g, o, now) ==
    st.rounds[<<g, o>>].status = "active" /\ now + 1 < st.rounds[<<g, o>>].expires
OpenWhileTime(st, g, o, now) == now < st.rounds[<<g, o>>].expires
OpenWhileActive(st, g, o, now) == st.rounds[<<g, o>>].status = "active"

PgOpen(st, g, o, now) ==
    st.rounds[<<g, o>>].status = "active" /\ now < st.rounds[<<g, o>>].expires

\* The update to "expired" is made and then rolled back by the error that follows it.
PgHint(st, g, o, s, now) ==
    IF ~Owned(st, g, s) \/ ~HasRound(st, g, o) THEN Refuse(st, "not_found")
    ELSE IF ~PgOpen(st, g, o, now) THEN Refuse(st, "round_not_active")
    ELSE LET new == Reveal(st, g, o) IN Ok(new, toRoundView(new.rounds[<<g, o>>]))

RegradingGuess(st, g, o, c, s, now) ==
    IF ~Owned(st, g, s) \/ ~HasRound(st, g, o) THEN Refuse(st, "not_found")
    ELSE IF ~PgOpen(st, g, o, now) THEN Refuse(st, "round_not_active")
    ELSE LET new == Grade(st, g, o, c) IN Ok(new, toRoundView(new.rounds[<<g, o>>]))

\* A guess already recorded is answered before the round's state is looked at.
PgGuess(st, g, o, c, s, now) ==
    IF ~Owned(st, g, s) \/ ~HasRound(st, g, o) THEN Refuse(st, "not_found")
    ELSE IF Graded(g, o, c) \in st.guesses THEN Ok(st, toRoundView(st.rounds[<<g, o>>]))
    ELSE IF ~PgOpen(st, g, o, now) THEN Refuse(st, "round_not_active")
    ELSE LET new == Grade(st, g, o, c) IN Ok(new, toRoundView(new.rounds[<<g, o>>]))

\* A round nobody opened is passed over.  A completed game's index may not move
\* again: chk_game_current_round_index_range refuses the row.
PgAdvance(st, g, s, now) ==
    IF ~Owned(st, g, s) THEN Refuse(st, "not_found")
    ELSE LET o == st.games[g].cur + 1 IN
         IF o > Total(st, g) THEN Refuse(st, "internal_error")
         ELSE IF HasRound(st, g, o) /\ PgOpen(st, g, o, now) THEN Refuse(st, "round_not_active")
         ELSE IF o = Total(st, g)
         THEN LET new == [st EXCEPT !.games[g] =
                             [st.games[g] EXCEPT !.cur = o, !.status = "completed",
                                                 !.token = @ + 1]]
              IN  Ok(new, toGameView(new.games[g]))
         ELSE LET new == materializeRound([st EXCEPT !.games[g].cur = o], g, o + 1, now)
              IN  Ok(new, toGameView(new.games[g]))

-----------------------------------------------------------------------------
(* Memory: the game and the round expire together, before anything is refused. *)

MemExpireGame(st, g, o, now) == PgExpire(st, g, now)

MemExpire(st, g, o, now) ==
    LET aged == PgExpire(st, g, now) IN
    IF HasRound(st, g, o) /\ st.rounds[<<g, o>>].status = "active"
       /\ now >= st.rounds[<<g, o>>].expires
    THEN [aged EXCEPT !.rounds[<<g, o>>].status = "expired", !.rounds[<<g, o>>].score = 0]
    ELSE aged

MemCurrentRound(st, g, s, now) ==
    IF ~Owned(st, g, s) THEN Refuse(st, "not_found")
    ELSE LET o == st.games[g].cur + 1 IN
         IF o > Total(st, g) THEN Refuse(st, "not_found")
         ELSE LET new == MemExpire(materializeRound(st, g, o, now), g, o, now)
              IN  Ok(new, toRoundView(new.rounds[<<g, o>>]))

MemHint(st, g, o, s, now) ==
    IF ~Owned(st, g, s) \/ ~HasRound(st, g, o) THEN Refuse(st, "not_found")
    ELSE LET aged == MemExpire(st, g, o, now) IN
         IF aged.rounds[<<g, o>>].status # "active" THEN Refuse(aged, "round_not_active")
         ELSE LET new == Reveal(aged, g, o) IN Ok(new, toRoundView(new.rounds[<<g, o>>]))

MemGuess(st, g, o, c, s, now) ==
    IF ~Owned(st, g, s) \/ ~HasRound(st, g, o) THEN Refuse(st, "not_found")
    ELSE IF Graded(g, o, c) \in st.guesses THEN Ok(st, toRoundView(st.rounds[<<g, o>>]))
    ELSE LET aged == MemExpire(st, g, o, now) IN
         IF aged.rounds[<<g, o>>].status # "active" THEN Refuse(aged, "round_not_active")
         ELSE LET new == Grade(aged, g, o, c) IN Ok(new, toRoundView(new.rounds[<<g, o>>]))

\* Nothing stops a completed game from advancing: it completes again, with a new
\* share token.
MemAdvance(st, g, s, now) ==
    IF ~Owned(st, g, s) THEN Refuse(st, "not_found")
    ELSE LET o == st.games[g].cur + 1
             there == o <= Total(st, g) /\ HasRound(st, g, o)
             aged == IF there THEN MemExpire(st, g, o, now) ELSE st IN
         IF there /\ aged.rounds[<<g, o>>].status = "active" THEN Refuse(aged, "round_not_active")
         ELSE IF o >= Total(st, g)
         THEN LET new == [aged EXCEPT !.games[g] =
                             [aged.games[g] EXCEPT !.cur = o, !.status = "completed",
                                                   !.token = @ + 1]]
              IN  Ok(new, toGameView(new.games[g]))
         ELSE LET new == materializeRound([aged EXCEPT !.games[g].cur = o], g, o + 1, now)
              IN  Ok(new, toGameView(new.games[g]))
=============================================================================
