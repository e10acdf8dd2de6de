------------------------------ MODULE GuessClient ------------------------------
(***************************************************************************)
(* A player's browser and the guessing game: tabs that share a cookie jar, *)
(* each with its own CSRF token and its own game page, the client module   *)
(* that bootstraps a session and retries, the session rows, the rate       *)
(* limit, and the game's transactions (GuessRules).  Answers may be lost   *)
(* before or after the server acted on the request.  A handler is one step *)
(* here; GuessGame takes it apart.                                         *)
(***************************************************************************)
EXTENDS GuessRules, FiniteSets

CONSTANTS
    Tabs,
    SessionAge,       \* SESSION_MAX_AGE_MS
    RotateAge,        \* SESSION_ROTATION_THRESHOLD_MS
    MaxClock, MaxTrouble \* bounds: clock, messages lost and calls refused by the rate limit

ASSUME ClientAssumption ==
    /\ SessionAge \in Nat \ {0} /\ RotateAge \in Nat
    /\ MaxClock \in Nat /\ MaxTrouble \in Nat
    /\ NoRow \notin Tabs /\ Games # {}

VARIABLES
    clock, db,
    sess,         \* player_session rows, one per player identity, or NoRow
    jar,          \* the guess_session cookie all tabs send: a player and a token, or NoRow
    tab,          \* each tab's client module and page
    call,         \* the call each tab waits for, or NoRow
    trouble

vars == <<clock, db, sess, jar, tab, call, trouble>>

-----------------------------------------------------------------------------
Posted == {"daily", "hint", "guess", "advance"}

\* A CSRF token is named by the tab it was issued to, which has none when it asks; a
\* session token by its rotations, the names in use again after Rotations of them.
Rotations == 4

\* What is asked, by which player's click.
Click == [kind : {"daily", "results", "round", "advance"}]
           \cup [kind : {"hint"}, o : Orders]
           \cup [kind : {"guess"}, o : Orders, c : Choices]

\* The tab's CSRF token: none yet, held, or a bootstrap that failed, whose promise the
\* client module keeps.
FreshTab(page) == [csrf |-> "none", page |-> page, shown |-> NoRow]

Init ==
    /\ clock = 0 /\ trouble = 0
    /\ db = EmptyStore
    /\ sess = [s \in Players |-> NoRow]
    /\ jar = NoRow
    /\ tab = [t \in Tabs |-> FreshTab("home")]
    /\ call = [t \in Tabs |-> NoRow]

NewCall(click) == [click |-> click, step |-> "ask", again |-> FALSE, code |-> "ok",
                   view |-> NoRow, cookie |-> NoRow, round |-> NoRow, effects |-> 0, sent |-> 0]

-----------------------------------------------------------------------------
(* The server. *)

\* The game of the tabs' address.
Game == CHOOSE g \in Games : TRUE

\* findSessionByTokenHash and requireSession.
requireSession ==
    IF jar = NoRow THEN NoRow
    ELSE IF sess[jar.s] # NoRow /\ sess[jar.s].token = jar.token /\ sess[jar.s].expires > clock
    THEN jar.s ELSE NoRow

\* The token a tab holds is the one it was issued.
requireCsrf(s, t) == tab[t].csrf = "held" /\ sess[s].csrf = t

\* The bucket that is counted is the address's, so other players spend it too: any
\* call that is counted may be the one over the limit.
enforceRateLimit(over) ==
    /\ over => trouble < MaxTrouble
    /\ trouble' = IF over THEN trouble + 1 ELSE trouble

\* The game a second identity starts has an address of its own, and is not followed.
Effect(s, click) ==
    CASE click.kind = "daily"   -> IF db.games[Game] # NoRow /\ ~Owned(db, Game, s)
                                   THEN Ok(db, NoRow)
                                   ELSE createOrResumeDailyGame(db, Game, s, clock)
      [] click.kind = "results" -> LET v == Results(db, Game, s) IN
                                   IF v = NoRow THEN Refuse(db, "not_found") ELSE Ok(db, v)
      [] click.kind = "round"   -> PgCurrentRound(db, Game, s, clock)
      [] click.kind = "hint"    -> PgHint(db, Game, click.o, s, clock)
      [] click.kind = "guess"   -> PgGuess(db, Game, click.o, click.c, s, clock)
      [] click.kind = "advance" -> PgAdvance(db, Game, s, clock)

\* Session, CSRF token, rate limit, transaction: the first that refuses answers.
Answer(t, click, over) ==
    IF requireSession = NoRow THEN Refuse(db, "unauthenticated")
    ELSE IF click.kind \in Posted /\ ~requireCsrf(requireSession, t)
    THEN Refuse(db, "csrf_failed")
    ELSE IF click.kind \in Posted /\ over THEN Refuse(db, "rate_limited")
    ELSE Effect(requireSession, click)

Counted(t, click) ==
    click.kind \in Posted /\ requireSession # NoRow /\ requireCsrf(requireSession, t)

\* bootstrapSession.  A live session gets a new CSRF token, and a new session token
\* once it is old; anything else gets a new session.
bootstrapSession(s, t) ==
    IF requireSession = NoRow
    THEN [token |-> 0, csrf |-> t, created |-> clock, expires |-> clock + SessionAge]
    ELSE LET kept == [sess[s] EXCEPT !.csrf = t]
         IN  IF clock - sess[s].created > RotateAge
             THEN [kept EXCEPT !.token = (@ + 1) % Rotations, !.expires = clock + SessionAge]
             ELSE kept

\* A session no cookie names any more can never be used, and is dropped.
Named(p) ==
    \/ jar # NoRow /\ jar.s = p
    \/ \E t \in Tabs : call[t] # NoRow /\ call[t].cookie # NoRow /\ call[t].cookie.s = p

DropUnnamed == sess' = [p \in Players |-> IF Named(p)' THEN sess[p] ELSE NoRow]

\* Whose session it is: the jar's, or one for a new identity.
Unused(p) == ~Named(p) /\ ~Owned(db, Game, p)

Identities == IF requireSession # NoRow THEN {requireSession} ELSE {p \in Players : Unused(p)}

-----------------------------------------------------------------------------
(* The client module and the pages. *)

Shown(t, kind) == tab[t].page = kind /\ call[t] = NoRow

\* What each page lets the player do: start, load again, play the round it shows.
homeOffers(t, click) == Shown(t, "home") /\ click.kind = "daily"

errorOffers(t, click) == Shown(t, "error") /\ click.kind = "results"

roundOffers(t, click) ==
    /\ Shown(t, "ready")
    /\ LET r == tab[t].shown.view IN
       \/ click.kind = "hint" /\ click.o = tab[t].shown.o
          /\ r.status = "active" /\ r.hints < Posts
       \/ click.kind = "guess" /\ click.o = tab[t].shown.o /\ r.status = "active"
       \/ click.kind = "advance" /\ r.status # "active"

mayClick(t, click) == homeOffers(t, click) \/ errorOffers(t, click) \/ roundOffers(t, click)

\* A failed call ends on the page's error state, which offers to load the game again
\* whatever the error is (classifyError chooses its wording); the home page stays.
Fails(t) ==
    /\ tab' = [tab EXCEPT ![t] =
                 [page |-> IF tab[t].page = "home" THEN "home" ELSE "error", shown |-> NoRow,
                  csrf |-> IF call[t] # NoRow /\ call[t].step \in {"boot", "booted"}
                           THEN "failed" ELSE tab[t].csrf]]
    /\ call' = [call EXCEPT ![t] = NoRow]

\* apiFetch: a mutation without a CSRF token bootstraps first, unless a bootstrap was
\* rejected before: its promise is kept, and rejects this call too.
Press(t, click) ==
    /\ mayClick(t, click)
    /\ LET needs == click.kind \in Posted /\ tab[t].csrf # "held" IN
       IF needs /\ tab[t].csrf = "failed"
       THEN Fails(t)
       ELSE /\ call' = [call EXCEPT ![t] = [NewCall(click) EXCEPT
                                               !.step = IF needs THEN "boot" ELSE "ask"]]
            /\ tab' = [tab EXCEPT ![t].page = IF @ = "error" THEN "loading" ELSE @]
    /\ UNCHANGED <<clock, db, sess, jar, trouble>>

\* POST /session at the server.
ServeBootstrap(t) ==
    /\ call[t] # NoRow /\ call[t].step = "boot"
    /\ \E over \in BOOLEAN :
       /\ enforceRateLimit(over)
       /\ over \/ Identities # {}     \* bound: players
       /\ IF over
          THEN /\ call' = [call EXCEPT ![t].step = "booted", ![t].code = "refused",
                                          ![t].sent = @ + 1]
               /\ UNCHANGED sess
          ELSE LET s == CHOOSE p \in Identities : TRUE
                   row == bootstrapSession(s, t)
               IN  /\ sess' = [sess EXCEPT ![s] = row]
                   /\ call' = [call EXCEPT ![t].step = "booted", ![t].code = "ok",
                                 ![t].sent = @ + 1, ![t].cookie = [s |-> s, token |-> row.token]]
    /\ UNCHANGED <<clock, db, jar, tab>>

\* Its answer: the cookie goes to the jar, the token to the tab.
HearBootstrap(t) ==
    /\ call[t] # NoRow /\ call[t].step = "booted"
    /\ IF call[t].code = "ok"
       THEN /\ jar' = call[t].cookie
            /\ tab' = [tab EXCEPT ![t].csrf = "held"]
            /\ call' = [call EXCEPT ![t].step = "ask", ![t].cookie = NoRow]
       ELSE /\ Fails(t)
            /\ UNCHANGED jar
    /\ DropUnnamed
    /\ UNCHANGED <<clock, db, trouble>>

\* The round an answer shows, when it shows one.
RoundOf(click, made) ==
    IF made.code # "ok" THEN NoRow
    ELSE IF click.kind \in {"hint", "guess"} THEN [o |-> click.o, view |-> made.view]
    ELSE IF \/ click.kind = "round"
            \/ click.kind = "advance" /\ made.view.status # "completed"
    THEN LET o == made.st.games[Game].cur + 1
         IN  [o |-> o, view |-> toRoundView(made.st.rounds[<<Game, o>>])]
    ELSE NoRow

\* The call itself at the server.
Serve(t) ==
    /\ call[t] # NoRow /\ call[t].step = "ask"
    /\ \E over \in BOOLEAN : LET made == Answer(t, call[t].click, over) IN
       /\ over => Counted(t, call[t].click)
       /\ enforceRateLimit(over)
       /\ db' = made.st
       /\ call' = [call EXCEPT ![t].step = "back", ![t].sent = @ + 1, ![t].code =
                         IF made.code \in {"ok", "unauthenticated"} THEN made.code ELSE "refused",
                     ![t].view = made.view, ![t].round = RoundOf(call[t].click, made),
                     ![t].effects = IF call[t].click.kind \in Posted /\ made.code = "ok"
                                    THEN @ + 1 ELSE @]
    /\ UNCHANGED <<clock, sess, jar, tab>>

show(t, page) ==
    /\ tab' = [tab EXCEPT ![t] = [csrf |-> tab[t].csrf, page |-> page, shown |-> call[t].round]]
    /\ call' = [call EXCEPT ![t] = NoRow]

ask(t, kind) == call' = [call EXCEPT ![t] = NewCall([kind |-> kind])]

\* What an answer makes of the page.  A game that was started is opened; the page of a
\* game loads in two calls, and makes way for the results once the game is completed.
started(t) ==
    IF call[t].view = NoRow THEN show(t, "home")
    ELSE ask(t, "results") /\ tab' = [tab EXCEPT ![t].page = "loading"]

loadGame(t) ==
    IF call[t].view.status = "completed" THEN show(t, "results")
    ELSE ask(t, "round") /\ UNCHANGED tab

handleAdvance(t) ==
    show(t, IF call[t].view.status = "completed" THEN "results" ELSE "ready")

Accept(t) ==
    CASE call[t].click.kind = "daily"   -> started(t)
      [] call[t].click.kind = "results" -> loadGame(t)
      [] call[t].click.kind = "advance" -> handleAdvance(t)
      [] OTHER -> show(t, "ready")

\* The answer arrives.  One that says "unauthenticated" is followed, once, by a new
\* session and the same call.
Hear(t) ==
    /\ call[t] # NoRow /\ call[t].step = "back"
    /\ IF call[t].code = "ok" THEN Accept(t)
       ELSE IF call[t].code = "unauthenticated" /\ ~call[t].again
       THEN /\ call' = [call EXCEPT ![t].step = "boot", ![t].again = TRUE, ![t].code = "ok"]
            /\ tab' = [tab EXCEPT ![t].csrf = "none"]
       ELSE Fails(t)
    /\ UNCHANGED <<clock, db, sess, jar, trouble>>

SendAgain(t) ==
    /\ call[t] # NoRow /\ trouble < MaxTrouble
    /\ trouble' = trouble + 1
    /\ call' = [call EXCEPT ![t].step = "ask", ![t].code = "ok", ![t].cookie = NoRow]
    /\ UNCHANGED <<clock, db, sess, jar, tab>>

\* A request or its answer is lost.
Lose(t) ==
    /\ call[t] # NoRow /\ trouble < MaxTrouble
    /\ trouble' = trouble + 1
    /\ Fails(t)
    /\ UNCHANGED jar
    /\ DropUnnamed
    /\ UNCHANGED <<clock, db>>

\* The page is loaded again: the module's variables are gone, the cookie is not.
Reload(t) ==
    /\ tab[t].page # "home" /\ call[t] = NoRow
    /\ tab' = [tab EXCEPT ![t] = FreshTab("loading")]
    /\ call' = [call EXCEPT ![t] = NewCall([kind |-> "results"])]
    /\ UNCHANGED <<clock, db, sess, jar, trouble>>

\* Time passes.  A session that has expired is as good as gone.
Tick ==
    /\ clock < MaxClock
    /\ clock' = clock + 1
    /\ sess' = [s \in Players |-> IF sess[s] # NoRow /\ sess[s].expires <= clock'
                                 THEN NoRow ELSE sess[s]]
    /\ UNCHANGED <<db, jar, tab, call, trouble>>

\* The server answers, and the network delivers.
Network(t) == ServeBootstrap(t) \/ HearBootstrap(t) \/ Serve(t) \/ Hear(t)

Next ==
    \/ \E t \in Tabs : \/ \E click \in Click : Press(t, click)
                        \/ ServeBootstrap(t) \/ HearBootstrap(t) \/ Serve(t)
                        \/ Hear(t) \/ Lose(t) \/ Reload(t)
    \/ Tick

Spec == Init /\ [][Next]_vars

LiveSpec == Spec /\ \A t \in Tabs : WF_vars(Network(t))

\* A player who goes on playing: starts, answers, asks for the next round, retries.
Plays(t) ==
    \/ \E click \in Click : click.kind \in {"daily", "results", "advance"} /\ Press(t, click)
    \/ \E o \in Orders : Press(t, [kind |-> "guess", o |-> o, c |-> Target])

PlaySpec == LiveSpec /\ \A t \in Tabs : SF_vars(Plays(t))

-----------------------------------------------------------------------------
(* Properties. *)

\* A click changes the game at most once, although the client sends the call again
\* after an "unauthenticated" and never with the same idempotency key.
OneClickOneEffect == \A t \in Tabs : call[t] # NoRow => call[t].effects <= 1

\* A tab that shows a settled round shows how it was settled: whatever the other tab
\* did since, and whichever answer was lost, the server has that result on record.
ShownSettledIsSettled ==
    \A t \in Tabs :
        tab[t].shown # NoRow /\ tab[t].shown.view.status # "active" =>
            toRoundView(db.rounds[<<Game, tab[t].shown.o>>]) = tab[t].shown.view

\* The answer to a round reaches no tab before the round is settled.
AnswerStaysHidden ==
    \A t \in Tabs :
        tab[t].shown # NoRow /\ tab[t].shown.view.correct # NoRow =>
            db.rounds[<<Game, tab[t].shown.o>>].status # "active"

\* "Expiry is checked lazily on every read": a player who goes on playing reaches the
\* results.
ReachesResults == \A t \in Tabs : <>(tab[t].page = "results")
=============================================================================
