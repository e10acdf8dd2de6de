------------------------------ MODULE GuessGame ------------------------------
(***************************************************************************)
(* The guessing game behind its HTTP handlers.  A handler reads the clock, *)
(* then waits: for the idempotency record, for the game's row lock, for    *)
(* the response to be stored.  Requests overlap, the clock moves between   *)
(* their steps, clients retry with the same key, and the process may stop. *)
(***************************************************************************)
EXTENDS GuessRules, FiniteSets

CONSTANTS
    Slots,        \* requests the server works on at once
    Keys,         \* idempotency keys a client may send again
    Fresh,        \* a key that is sent once
    Retried,      \* the kinds of call a client sends again
    MaxClock      \* bound on the clock

ASSUME SlotAssumption == Fresh \notin Keys /\ MaxClock \in Nat

VARIABLES
    clock,
    db,           \* the game's rows in Postgres
    idem,         \* idempotency_key rows
    slot,         \* what each request is doing
    runs          \* history: how often each key's mutation was applied

vars == <<clock, db, idem, slot, runs>>

-----------------------------------------------------------------------------
\* The calls the routes make.  Only the round's GET needs no idempotency key.
Calls ==
    [kind : {"daily", "freeplay", "round", "advance"}, s : Players, g : Games]
        \cup [kind : {"hint"}, s : Players, g : Games, o : Orders]
        \cup [kind : {"guess"}, s : Players, g : Games, o : Orders, c : Choices]

Idle == [phase |-> "idle"]
Busy == [phase : {"arrived", "reserved"}, call : Calls, key : Keys \cup {Fresh},
         now : Nat]
Done == [phase : {"ran"}, call : Calls, key : Keys, now : Nat]

Unused == [state |-> "unused"]
Pending(call) == [state |-> "pending", call |-> call]
Stored(call) == [state |-> "stored", call |-> call]
IdemRow == {Unused} \cup [state : {"pending", "stored"}, call : Calls]

TypeOK ==
    /\ clock \in 0..MaxClock
    /\ db \in Stores
    /\ idem \in [Keys -> IdemRow]
    /\ slot \in [Slots -> {Idle} \cup Busy \cup Done]
    /\ runs \in [Keys -> Nat]

Init ==
    /\ clock = 0
    /\ db = EmptyStore
    /\ idem = [k \in Keys |-> Unused]
    /\ slot = [p \in Slots |-> Idle]
    /\ runs = [k \in Keys |-> 0]

-----------------------------------------------------------------------------
\* The body of each handler, between reserving its key and storing its response.
gamesDaily(st, call, now) == createOrResumeDailyGame(st, call.g, call.s, now)
gamesFreeplay(st, call, now) == createFreeplayGame(st, call.g, call.s, now)
round(st, call, now) == PgCurrentRound(st, call.g, call.s, now)
hint(st, call, now) == PgHint(st, call.g, call.o, call.s, now)
guess(st, call, now) == PgGuess(st, call.g, call.o, call.c, call.s, now)
advance(st, call, now) == PgAdvance(st, call.g, call.s, now)

Transaction(st, call, now) ==
    CASE call.kind = "daily"    -> gamesDaily(st, call, now)
      [] call.kind = "freeplay" -> gamesFreeplay(st, call, now)
      [] call.kind = "round"    -> round(st, call, now)
      [] call.kind = "hint"     -> hint(st, call, now)
      [] call.kind = "guess"    -> guess(st, call, now)
      [] call.kind = "advance"  -> advance(st, call, now)

\* A client asks for a game it does not have yet, and plays rounds it was shown.
Sensible(call) ==
    /\ call.kind \in {"daily", "freeplay"} =>
          \/ db.games[call.g] = NoRow
             /\ \A p \in Slots : slot[p] # Idle => slot[p].call.g # call.g
          \/ call.kind = "daily" /\ call.g \in DailyOf(db, call.s)
    /\ call.kind \in {"round", "advance"} => db.games[call.g] # NoRow
    /\ call.kind \in {"hint", "guess"} => HasRound(db, call.g, call.o)

\* The handler reads the clock once, then the session, the CSRF token and the rate
\* limit, any of which may end it here without a trace.
Arrive(p, call, key) ==
    /\ slot[p] = Idle
    /\ Sensible(call)
    /\ call.kind \notin Retried => key = Fresh
    /\ slot' = [slot EXCEPT ![p] = [phase |-> "arrived", call |-> call, key |-> key,
                                    now |-> clock]]
    /\ UNCHANGED <<clock, db, idem, runs>>

WinsUnlessStored(k) == idem[k] = Unused \/ idem[k].state = "pending"

\* The insert that takes a key: it wins only if no row has it, whatever that row's
\* state.  A row is of a key and an endpoint; a click's key goes to one endpoint only.
Wins(k) == idem[k] = Unused

\* reserveOrGet.  A row that is there answers with its stored response, with a
\* conflict when it is of another request, or with "in flight".
Reserve(p) ==
    /\ slot[p].phase = "arrived"
    /\ slot[p].key # Fresh
    /\ LET k == slot[p].key IN
       IF Wins(k)
       THEN /\ idem' = [idem EXCEPT ![k] = Pending(slot[p].call)]
            /\ slot' = [slot EXCEPT ![p].phase = "reserved"]
       ELSE /\ slot' = [slot EXCEPT ![p] = Idle]
            /\ UNCHANGED idem
    /\ UNCHANGED <<clock, db, runs>>

\* The transaction, with the time the handler read when it began.  An error ends the
\* request and leaves its key's row pending.
Run(p) ==
    /\ \/ slot[p].phase = "reserved"
       \/ slot[p].phase = "arrived" /\ slot[p].key = Fresh
    /\ LET call == slot[p].call
           k == slot[p].key
           made == Transaction(db, call, slot[p].now)
       IN  /\ db' = made.st
           /\ slot' = [slot EXCEPT ![p] =
                          IF made.code = "ok" /\ k # Fresh
                          THEN [@ EXCEPT !.phase = "ran"] ELSE Idle]
           /\ runs' = IF made.code = "ok" /\ k # Fresh
                      THEN [runs EXCEPT ![k] = @ + 1] ELSE runs
    /\ UNCHANGED <<clock, idem>>

\* completeResponse, and the answer.
Complete(p) ==
    /\ slot[p].phase = "ran"
    /\ idem' = [idem EXCEPT ![slot[p].key] = Stored(slot[p].call)]
    /\ slot' = [slot EXCEPT ![p] = Idle]
    /\ UNCHANGED <<clock, db, runs>>

\* The process stops: its requests are gone, its committed rows are not.
Crash ==
    /\ \E p \in Slots : slot[p] # Idle
    /\ slot' = [p \in Slots |-> Idle]
    /\ UNCHANGED <<clock, db, idem, runs>>

Tick ==
    /\ clock < MaxClock
    /\ clock' = clock + 1
    /\ UNCHANGED <<db, idem, slot, runs>>

Next ==
    \/ \E p \in Slots, key \in Keys \cup {Fresh}, call \in Calls : Arrive(p, call, key)
    \/ \E p \in Slots : Reserve(p) \/ Run(p) \/ Complete(p)
    \/ Crash
    \/ Tick

Spec == Init /\ [][Next]_vars

-----------------------------------------------------------------------------
(* Properties. *)

\* A key's mutation is applied at most once, however often the request is sent again,
\* to whichever process, and wherever the first one was interrupted.
RunOnce == \A k \in Keys : runs[k] <= 1

WrongGuesses(g, o) == {c \in Choices \ {Target} : Graded(g, o, c) \in db.guesses}

\* The round's row and the guesses on record tell one story: every wrong guess was
\* charged once, a won round has its target on record and the price of the hints and
\* errors it took, and no guess was taken once the round was lost.
RoundLedger ==
    \A g \in Games, o \in Orders : HasRound(db, g, o) =>
        LET r == db.rounds[<<g, o>>] IN
        /\ r.wrong = Cardinality(WrongGuesses(g, o))
        /\ r.status = "resolved_correct" <=> Graded(g, o, Target) \in db.guesses
        /\ r.status = "resolved_incorrect" <=> r.wrong >= MaxWrong
        /\ r.score = IF r.status = "resolved_correct"
                     THEN netScoreForRound(r.hints, r.wrong) ELSE 0

ScoreOf(st, g, o) == IF HasRound(st, g, o) THEN st.rounds[<<g, o>>].score ELSE 0

\* The points of the first n rounds of a game.
ScoreUpTo(st, g, n) ==
    LET f[i \in 0..n] == IF i = 0 THEN 0 ELSE f[i - 1] + ScoreOf(st, g, i) IN f[n]

\* A game's total is the sum of what its rounds awarded, whichever requests awarded
\* it and in which order.
ScoreIsSum ==
    \A g \in Games : db.games[g] # NoRow =>
        db.games[g].score = ScoreUpTo(db, g, Cardinality(Orders))

\* A game never leaves a round that could still be played: a round behind its index
\* was settled, ran out, or was never opened.
NothingLeftOpen ==
    \A g \in Games : db.games[g] # NoRow =>
        \A o \in Orders : o <= db.games[g].cur /\ HasRound(db, g, o) =>
            db.rounds[<<g, o>>].status # "active" \/ clock >= db.rounds[<<g, o>>].expires

\* A settled round stays as it was settled, and a completed game stays completed
\* with the share token it was given.
SettledStands ==
    [][\A g \in Games :
         /\ \A o \in Orders :
              HasRound(db, g, o) /\ db.rounds[<<g, o>>].status # "active" =>
                  db'.rounds[<<g, o>>] = db.rounds[<<g, o>>]
         /\ db.games[g] # NoRow /\ db.games[g].status = "completed" =>
              /\ db'.games[g].status = "completed"
              /\ db'.games[g].token = db.games[g].token]_vars

=============================================================================
