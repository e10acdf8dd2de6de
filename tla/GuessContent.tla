----------------------------- MODULE GuessContent -----------------------------
(***************************************************************************)
(* Where the game's posts come from.  An administrator triggers an import, *)
(* which walks the forum's recent topics one statement at a time under an  *)
(* advisory lock; moderators read a post and approve, reject or edit the   *)
(* version they read; players ask for the challenge of the day or for a    *)
(* free game, built from the approved posts of the eligible users.  The    *)
(* forum goes on changing, any statement may fail, the process may stop.   *)
(***************************************************************************)
EXTENDS Integers, Sequences, FiniteSets

CONSTANTS
    Users, Posts, Author, \* the forum
    Recent, FirstText,    \* posts of recently active topics; each post's first text
    Texts, Metrics,       \* Metrics[t]: what the importer measures in a text
    Bots,                 \* users flagged as system or bot, deleted or banned
    Curated,              \* posts an earlier import brought in and a moderator approved
    Moderators, Imports, Players, \* requests at work
    Conns,                \* connections an import may reserve
    NoRow,
    PageSize,             \* topics on a page of the forum
    Rounds, FreeRounds, PostsPerRound, ChoicesPerRound, MinApproved,
    MaxDay, MaxRuns, MaxEvents    \* bounds: days, import runs, things that happen

ASSUME ContentAssumption ==
    /\ Author \in [Posts -> Users] /\ FirstText \in [Posts -> Texts]
    /\ Curated \subseteq Posts /\ Recent \subseteq Posts /\ Bots \subseteq Users
    /\ IsFiniteSet(Posts) /\ IsFiniteSet(Users)
    /\ Metrics \in [Texts -> [words : Nat, quoted : 0..10, phrase : BOOLEAN,
                              leak : {"self", "signature", "none"}]]
    /\ {PageSize, Rounds, FreeRounds, PostsPerRound, ChoicesPerRound, MaxDay} \subseteq Nat \ {0}
    /\ {MinApproved, MaxRuns, MaxEvents} \subseteq Nat
    /\ NoRow \notin Texts \cup Conns \cup Posts

VARIABLES
    events, day, forum,
    post, revisions, stats, override, daily, runs, \* rows of the database
    call,               \* what each moderator reads and decides
    lock, held, imp,    \* the advisory lock, each import's connection and progress
    req,                \* what each player asks for
    told, handed        \* history: the texts each post has had, the plans handed out

content == <<post, revisions, told>>
importing == <<lock, held, imp, runs>>
playing == <<daily, req, handed>>
vars == <<events, day, forum, content, stats, override, importing, call, playing>>

-----------------------------------------------------------------------------
(* What the importer measures.  Ratios are tenths; the quality is out of 200. *)

computeGenericResponseScore(m) ==
    IF m.words = 0 THEN 10 ELSE IF m.words > 6 THEN 0 ELSE IF m.phrase THEN 10 ELSE 5

computePotentialLeakScore(m) ==
    CASE m.leak = "self" -> 10 [] m.leak = "signature" -> 3 [] OTHER -> 0

Unfloored(m) ==
    200 - (IF m.words < 8 THEN 15 * (8 - m.words) ELSE 0) - 10 * m.quoted
        - 16 * computeGenericResponseScore(m)

computeQualityScore(m) ==
    LET short == IF m.words < 8 THEN 15 * (8 - m.words) ELSE 0
        score == 200 - short - 10 * m.quoted - 16 * computeGenericResponseScore(m)
    IN  IF score < 0 THEN 0 ELSE score

deriveModerationFlags(m) ==
    {f \in {"too_short", "generic_reply", "mostly_quoted", "potential_identity_leak"} :
        \/ f = "too_short" /\ m.words < 8
        \/ f = "generic_reply" /\ computeGenericResponseScore(m) >= 5
        \/ f = "mostly_quoted" /\ m.quoted > 6
        \/ f = "potential_identity_leak" /\ computePotentialLeakScore(m) > 0}

decideInitialModerationStatus(flags) == IF flags # {} THEN "needs_review" ELSE "pending"

-----------------------------------------------------------------------------
(* The rows. *)

PostStatus == {"pending", "needs_review", "approved", "rejected"}
ForumPost == [status : PostStatus, version : Nat, content : Texts, sha : Texts,
              quality : 0..200, diverged : BOOLEAN, run : 0..MaxRuns]
ImportRun == [status : {"running", "success", "partial_failure", "failed"},
              new : Nat, updated : Nat]
Overrides == {"none", "force_eligible", "force_ineligible"}
RoundPlan == [target : Users, posts : SUBSET Posts, choices : SUBSET Users]
View == [post : Posts, version : Nat, content : Texts, previous : Texts \cup {NoRow}]
Progress == [step : {"open", "recent", "topics", "find", "store", "count", "finish",
                     "stats", "unlock"},
             run : 0..MaxRuns, todo : SUBSET Posts, listed : SUBSET Posts,
             post : Posts \cup {NoRow}, text : Texts \cup {NoRow}, known : Texts \cup {NoRow},
             stored : {"new", "diverged", "same"}, touched : SUBSET Users,
             errors : BOOLEAN, progress : BOOLEAN, fatal : BOOLEAN]

\* NoRow stands for an absent row, and is none.
ASSUME RowAssumption ==
    NoRow \notin ForumPost /\ NoRow \notin ImportRun /\ NoRow \notin View
      /\ NoRow \notin Seq(RoundPlan)

TypeOK ==
    /\ events \in 0..MaxEvents /\ day \in 1..MaxDay /\ forum \in [Posts -> Texts]
    /\ post \in [Posts -> ForumPost \cup {NoRow}]
    /\ revisions \in [Posts -> Seq(Texts)] /\ told \in [Posts -> Seq(Texts)]
    /\ stats \in [Users -> Nat \cup {NoRow}]
    /\ override \in [Users -> Overrides]
    /\ daily \in [1..MaxDay -> Seq(RoundPlan) \cup {NoRow}]
    /\ runs \in [0..MaxRuns -> ImportRun \cup {NoRow}]
    /\ call \in [Moderators -> View \cup {NoRow}]
    /\ lock \in [holder : Conns \cup {NoRow}, depth : Nat]
    /\ held \in [Imports -> Conns \cup {NoRow}]
    /\ imp \in [Imports -> Progress \cup {NoRow}]
    /\ \A h \in handed : h.day \in 0..MaxDay /\ h.plan \in Seq(RoundPlan)

Row(text, status, version, run) ==
    [status |-> status, version |-> version, content |-> text, sha |-> text,
     quality |-> computeQualityScore(Metrics[text]), diverged |-> FALSE, run |-> run]

ApprovedPosts(u) == {p \in Posts : Author[p] = u /\ post[p] # NoRow /\ post[p].status = "approved"}

\* The database after an import whose posts were all approved, and a refresh of the stats.
Init ==
    /\ events = 0 /\ day = 1
    /\ forum = FirstText
    /\ post = [p \in Posts |-> IF p \in Curated THEN Row(forum[p], "approved", 1, 0) ELSE NoRow]
    /\ revisions = [p \in Posts |-> <<>>]
    /\ told = [p \in Posts |-> IF p \in Curated THEN <<forum[p]>> ELSE <<>>]
    /\ stats = [u \in Users |-> IF \E p \in Curated : Author[p] = u
                                THEN Cardinality({p \in Curated : Author[p] = u}) ELSE NoRow]
    /\ override = [u \in Users |-> "none"]
    /\ daily = [d \in 1..MaxDay |-> NoRow]
    /\ runs = [r \in 0..MaxRuns |->
                 IF r = 0 THEN [status |-> "success", new |-> Cardinality(Curated), updated |-> 0]
                 ELSE NoRow]
    /\ call = [m \in Moderators |-> NoRow]
    /\ lock = [holder |-> NoRow, depth |-> 0]
    /\ held = [i \in Imports |-> NoRow]
    /\ imp = [i \in Imports |-> NoRow]
    /\ req = [q \in Players |-> NoRow]
    /\ handed = {}

Event == events < MaxEvents /\ events' = events + 1

-----------------------------------------------------------------------------
(* Moderation: what was read is decided on if its version still stands. *)

getPostDetail(m, p) ==
    /\ Event /\ call[m] = NoRow /\ post[p] # NoRow
    /\ call' = [call EXCEPT ![m] = [post |-> p, version |-> post[p].version,
                                   content |-> post[p].content, previous |-> NoRow]]
    /\ UNCHANGED <<day, forum, content, stats, override, importing, playing>>

AlwaysStands(c) == TRUE

Stands(c) == post[c.post].version = c.version

\* approvePost and rejectPost are one conditional update; a conflict changes nothing.
Decide(m, status) ==
    LET c == call[m] IN
    /\ c # NoRow /\ c.previous = NoRow
    /\ post' = IF Stands(c) THEN [post EXCEPT ![c.post].status = status, ![c.post].version = @ + 1]
               ELSE post
    /\ call' = [call EXCEPT ![m] = NoRow]
    /\ UNCHANGED <<events, day, forum, revisions, told, stats, override, importing, playing>>

approvePost(m) == Decide(m, "approved")
rejectPost(m) == Decide(m, "rejected")

\* editCleanContent reads the text it will keep as a revision, then updates.
ReadForEdit(m) ==
    /\ call[m] # NoRow /\ call[m].previous = NoRow
    /\ call' = [call EXCEPT ![m].previous = post[call[m].post].content]
    /\ UNCHANGED <<events, day, forum, content, stats, override, importing, playing>>

EditedInPlace(p, text) == [post EXCEPT ![p].content = text]

Edited(p, text) == [post EXCEPT ![p].content = text, ![p].version = @ + 1]

editCleanContent(m, text) ==
    LET c == call[m] IN
    /\ c # NoRow /\ c.previous # NoRow
    /\ IF Stands(c)
       THEN /\ post' = Edited(c.post, text)
            /\ revisions' = [revisions EXCEPT ![c.post] = Append(@, c.previous)]
            /\ told' = [told EXCEPT ![c.post] = Append(@, text)]
       ELSE UNCHANGED content
    /\ call' = [call EXCEPT ![m] = NoRow]
    /\ UNCHANGED <<events, day, forum, stats, override, importing, playing>>

setEligibilityOverride(u, o) ==
    /\ Event /\ override[u] # o
    /\ override' = [override EXCEPT ![u] = o]
    /\ UNCHANGED <<day, forum, content, stats, importing, call, playing>>

-----------------------------------------------------------------------------
(* Imports. *)

At(i, step) == imp[i] # NoRow /\ imp[i].step = step
Goto(i, step) == imp' = [imp EXCEPT ![i].step = step]
UnchangedByImport == UNCHANGED <<day, forum, override, call, playing>>

AlwaysGranted(c) == TRUE

\* withLock: reserve a connection and try the lock on it.  A session may take a lock
\* it holds again; a refused trigger leaves nothing behind.
Granted(c) == lock.holder \in {NoRow, c}

triggerImportRun(i, c) ==
    /\ Event /\ held[i] = NoRow
    /\ \A j \in Imports : held[j] # c
    /\ Granted(c)
    /\ lock' = [holder |-> c, depth |-> lock.depth + 1]
    /\ held' = [held EXCEPT ![i] = c]
    /\ imp' = [imp EXCEPT ![i] =
                 [step |-> "open", run |-> 0, todo |-> {}, listed |-> {}, post |-> NoRow,
                  text |-> NoRow, known |-> NoRow, stored |-> "same", touched |-> {},
                  errors |-> FALSE, progress |-> FALSE, fatal |-> FALSE]]
    /\ UNCHANGED <<content, stats, runs>> /\ UnchangedByImport

createImportRun(i) ==
    /\ At(i, "open")
    /\ \/ \E r \in 1..MaxRuns :
            /\ runs[r] = NoRow /\ \A s \in 1..(r - 1) : runs[s] # NoRow
            /\ runs' = [runs EXCEPT ![r] = [status |-> "running", new |-> 0, updated |-> 0]]
            /\ imp' = [imp EXCEPT ![i].run = r, ![i].step = "recent"]
            /\ UNCHANGED events
       \/ Event /\ Goto(i, "unlock") /\ UNCHANGED runs
    /\ UNCHANGED <<lock, held, content, stats>> /\ UnchangedByImport

Pages(topics) ==
    LET n == Cardinality(topics) IN
    {page \in SUBSET topics : Cardinality(page) = IF n < PageSize THEN n ELSE PageSize}

\* A page of recent topics, each with one post; an empty one is the last.  Without an
\* answer after the client's retries the run is lost.
getRecentTopics(i) ==
    /\ At(i, "recent")
    /\ \/ \E page \in Pages(Recent \ imp[i].listed) :
            /\ imp' = [imp EXCEPT ![i].todo = page, ![i].listed = @ \cup page,
                                 ![i].step = IF page = {} THEN "finish" ELSE "topics"]
            /\ UNCHANGED events
       \/ /\ Event
          /\ imp' = [imp EXCEPT ![i].errors = TRUE, ![i].fatal = TRUE, ![i].step = "finish"]
    /\ UNCHANGED <<lock, held, runs, content, stats>> /\ UnchangedByImport

\* A topic's post as the forum has it now, or an error that skips the topic.
getTopicDetail(i, p) ==
    /\ At(i, "topics") /\ p \in imp[i].todo
    /\ \/ /\ imp' = [imp EXCEPT ![i].todo = @ \ {p}, ![i].post = p, ![i].text = forum[p],
                               ![i].progress = TRUE, ![i].step = "find"]
          /\ UNCHANGED events
       \/ Event /\ imp' = [imp EXCEPT ![i].todo = @ \ {p}, ![i].errors = TRUE]
    /\ UNCHANGED <<lock, held, runs, content, stats>> /\ UnchangedByImport

\* The page is done, and the last if it was short; or a budget of the run (topics, posts, pages, time) is spent.
NextPage(i) ==
    /\ At(i, "topics")
    /\ \/ /\ imp[i].todo = {} /\ UNCHANGED events
          /\ Goto(i, IF Cardinality(imp[i].listed) % PageSize = 0 THEN "recent" ELSE "finish")
       \/ imp[i].todo # {} /\ Event /\ Goto(i, "finish")
    /\ UNCHANGED <<lock, held, runs, content, stats>> /\ UnchangedByImport

findForumPostByForumPid(i) ==
    /\ At(i, "find")
    /\ LET row == post[imp[i].post] IN
       imp' = [imp EXCEPT ![i].known = IF row = NoRow THEN NoRow ELSE row.sha, ![i].step = "store"]
    /\ UNCHANGED <<events, lock, held, runs, content, stats>> /\ UnchangedByImport

markSourceDiverged(p) ==
    post' = [post EXCEPT ![p].diverged = TRUE,
                         ![p].status = IF @ = "approved" THEN "needs_review" ELSE @]

insertForumPost(p, text, run) ==
    /\ post' = [post EXCEPT ![p] =
         Row(text, decideInitialModerationStatus(deriveModerationFlags(Metrics[text])), 0, run)]
    /\ told' = [told EXCEPT ![p] = <<text>>]

\* importOnePost, after its read: an unknown post is inserted, a known one whose text
\* differs from the one imported is marked.  A statement that fails skips the post.
importOnePost(i) ==
    LET p == imp[i].post
        Stored(how) == imp' = [imp EXCEPT ![i].stored = how, ![i].step = "count",
                                         ![i].known = NoRow]
    IN  /\ At(i, "store")
        /\ \/ /\ imp[i].known = NoRow /\ post[p] = NoRow
              /\ insertForumPost(p, imp[i].text, imp[i].run)
              /\ Stored("new") /\ UNCHANGED <<events, revisions>>
           \/ /\ imp[i].known \notin {NoRow, imp[i].text}
              /\ markSourceDiverged(p)
              /\ Stored("diverged") /\ UNCHANGED <<events, revisions, told>>
           \/ /\ imp[i].known = imp[i].text
              /\ Stored("same") /\ UNCHANGED <<events, content>>
           \/ /\ Event /\ UNCHANGED content
              /\ imp' = [imp EXCEPT ![i].errors = TRUE, ![i].step = "topics", ![i].known = NoRow]
        /\ UNCHANGED <<lock, held, runs, stats>> /\ UnchangedByImport

Done(i, errors) ==
    imp' = [imp EXCEPT ![i].step = "topics", ![i].touched = @ \cup {Author[imp[i].post]},
                       ![i].errors = @ \/ errors, ![i].stored = "same",
                       ![i].post = NoRow, ![i].text = NoRow]

incrementImportRunCounters(i) ==
    /\ At(i, "count")
    /\ \/ /\ runs' = [runs EXCEPT ![imp[i].run].new = IF imp[i].stored = "new" THEN @ + 1 ELSE @,
                         ![imp[i].run].updated = IF imp[i].stored = "diverged" THEN @ + 1 ELSE @]
          /\ Done(i, FALSE) /\ UNCHANGED events
       \/ Event /\ Done(i, TRUE) /\ UNCHANGED runs
    /\ UNCHANGED <<lock, held, content, stats>> /\ UnchangedByImport

OutcomeOfPages(i) ==
    IF imp[i].fatal THEN IF imp[i].progress THEN "partial_failure" ELSE "failed"
    ELSE "success"

Outcome(i) ==
    IF imp[i].fatal THEN IF imp[i].progress THEN "partial_failure" ELSE "failed"
    ELSE IF imp[i].errors THEN "partial_failure" ELSE "success"

\* A failure here leaves the row running, and skips the refresh.
finishImportRun(i) ==
    /\ At(i, "finish")
    /\ \/ /\ runs' = [runs EXCEPT ![imp[i].run].status = Outcome(i)]
          /\ Goto(i, "stats") /\ UNCHANGED events
       \/ Event /\ Goto(i, "unlock") /\ UNCHANGED runs
    /\ UNCHANGED <<lock, held, content, stats>> /\ UnchangedByImport

\* recomputeForForumUserIds, from all the posts of the users whose posts were counted.
refreshTouchedStats(i) ==
    /\ At(i, "stats")
    /\ \/ /\ stats' = [u \in Users |-> IF u \in imp[i].touched THEN Cardinality(ApprovedPosts(u))
                                       ELSE stats[u]]
          /\ UNCHANGED events
       \/ Event /\ imp[i].touched # {} /\ UNCHANGED stats
    /\ Goto(i, "unlock")
    /\ UNCHANGED <<lock, held, runs, content>> /\ UnchangedByImport

\* The lock is given back once, and the connection whatever comes of it.
Unlocked == IF lock.depth = 1 THEN [holder |-> NoRow, depth |-> 0]
            ELSE [lock EXCEPT !.depth = @ - 1]

Unlock(i) ==
    /\ At(i, "unlock")
    /\ \/ lock' = Unlocked /\ UNCHANGED events
       \/ Event /\ UNCHANGED lock
    /\ held' = [held EXCEPT ![i] = NoRow]
    /\ imp' = [imp EXCEPT ![i] = NoRow]
    /\ UNCHANGED <<runs, content, stats>> /\ UnchangedByImport

-----------------------------------------------------------------------------
(* Play. *)

resolveEligibility(u) ==
    CASE override[u] = "force_ineligible" -> FALSE
      [] override[u] = "force_eligible"   -> TRUE
      [] OTHER -> u \notin Bots /\ stats[u] >= MinApproved

UnchangedByPlay == UNCHANGED <<forum, content, stats, override, importing, call>>

Hand(d, plan) == handed' = handed \cup {[day |-> d, plan |-> plan]}

Ask(d) == [day |-> d, step |-> "targets", waiting |-> {}, pool |-> [u \in {} |-> {}]]

\* getOrPublishTodaysDailyChallenge, up to its first answer; day 0 stands for a free game.
AskDaily(q) ==
    /\ Event /\ req[q] = NoRow
    /\ \/ /\ daily[day] = NoRow
          /\ req' = [req EXCEPT ![q] = Ask(day)] /\ UNCHANGED handed
       \/ /\ daily[day] # NoRow
          /\ Hand(day, daily[day]) /\ UNCHANGED req
    /\ UNCHANGED <<day, daily>> /\ UnchangedByPlay

AskFreeplay(q) ==
    /\ Event /\ req[q] = NoRow
    /\ req' = [req EXCEPT ![q] = Ask(0)]
    /\ UNCHANGED <<day, daily, handed>> /\ UnchangedByPlay

\* getEligibleTargets: the users with their stats, then the posts of each.
getEligibleTargets(q) ==
    /\ req[q] # NoRow /\ req[q].step = "targets"
    /\ req' = [req EXCEPT ![q].step = "posts",
                 ![q].waiting = {u \in Users : stats[u] # NoRow /\ resolveEligibility(u)}]
    /\ UNCHANGED <<events, day, daily, handed>> /\ UnchangedByPlay

ReadPosts(q, u) ==
    /\ req[q] # NoRow /\ req[q].step = "posts" /\ u \in req[q].waiting
    /\ LET pool == req[q].pool IN
       req' = [req EXCEPT ![q].waiting = @ \ {u},
                 ![q].pool = [v \in DOMAIN pool \cup {u} |->
                                IF v = u THEN ApprovedPosts(u) ELSE pool[v]]]
    /\ UNCHANGED <<events, day, daily, handed>> /\ UnchangedByPlay

\* The ways of selecting distractors, whatever ranks them: from users not in the game
\* yet, or else not a target of it yet, or else from all.
selectDistractors(pool, target, exclude) ==
    {d \in SUBSET (DOMAIN pool \ (exclude \cup {target})) : Cardinality(d) = ChoicesPerRound - 1}

selectDistractorsWithFallback(pool, target, usedAny, usedTargets) ==
    LET tier1 == selectDistractors(pool, target, usedAny)
        tier2 == selectDistractors(pool, target, usedTargets)
    IN  IF tier1 # {} THEN tier1 ELSE IF tier2 # {} THEN tier2
        ELSE selectDistractors(pool, target, {})

\* What the random source, seeded or not, may choose as the targets of a game.
Targets(pool, d) ==
    LET users == DOMAIN pool
        n == Cardinality(users)
    IN  IF d = 0 THEN {t \in [1..FreeRounds -> users] :
                         \A j, k \in 1..FreeRounds : t[j] = t[k] <=> j % n = k % n}
        ELSE {t \in [1..Rounds -> users] : \A j, k \in 1..Rounds : t[j] = t[k] <=> j = k}

RoundPlans(pool, t) ==
    [target : {t}, posts : {s \in SUBSET pool[t] : Cardinality(s) = PostsPerRound},
     choices : {c \cup {t} : c \in selectDistractors(pool, t, {})}]

Plans(pool, targets) ==
    LET n == Len(targets)
        Used(plan, k) == UNION {plan[j].choices : j \in 1..(k - 1)}
    IN  {plan \in [1..n -> UNION {RoundPlans(pool, t) : t \in DOMAIN pool}] :
           \A k \in 1..n :
             /\ plan[k].target = targets[k]
             /\ plan[k].choices \ {targets[k]} \in selectDistractorsWithFallback(pool,
                   targets[k], Used(plan, k), {targets[j] : j \in 1..k})}

\* A pool too small for its rounds or choices, or a target with too few posts: an error.
PlansOf(r) ==
    UNION {Plans(r.pool, t) : t \in {t \in Targets(r.pool, r.day) :
             \A k \in DOMAIN t : Cardinality(r.pool[t[k]]) >= PostsPerRound}}

Ready(q) == req[q] # NoRow /\ req[q].step = "posts" /\ req[q].waiting = {}

HandsItsOwn(q) ==
    LET d == req[q].day IN
    /\ Ready(q) /\ d # 0
    /\ \E plan \in PlansOf(req[q]) :
         daily' = [daily EXCEPT ![d] = IF @ = NoRow THEN plan ELSE @] /\ Hand(d, plan)
    /\ req' = [req EXCEPT ![q] = NoRow]
    /\ UNCHANGED <<events, day>> /\ UnchangedByPlay

\* buildDailyChallengePlan, then one transaction: the first to insert the date's row has
\* its plan stand, and every other is handed that one.
publishDailyChallenge(q) ==
    LET d == req[q].day IN
    /\ Ready(q) /\ d # 0
    /\ \E plan \in PlansOf(req[q]) :
         LET row == IF daily[d] = NoRow THEN plan ELSE daily[d] IN
         daily' = [daily EXCEPT ![d] = row] /\ Hand(d, row)
    /\ req' = [req EXCEPT ![q] = NoRow]
    /\ UNCHANGED <<events, day>> /\ UnchangedByPlay

buildFreeplayRoundPlan(q) ==
    /\ Ready(q) /\ req[q].day = 0
    /\ \E plan \in PlansOf(req[q]) : Hand(0, plan)
    /\ req' = [req EXCEPT ![q] = NoRow]
    /\ UNCHANGED <<events, day, daily>> /\ UnchangedByPlay

Insufficient(q) ==
    /\ Ready(q)
    /\ \/ PlansOf(req[q]) = {}
       \/ \E t \in Targets(req[q].pool, req[q].day) :
            \E k \in DOMAIN t : Cardinality(req[q].pool[t[k]]) < PostsPerRound
    /\ req' = [req EXCEPT ![q] = NoRow]
    /\ UNCHANGED <<events, day, daily, handed>> /\ UnchangedByPlay

-----------------------------------------------------------------------------
(* Around the program. *)

\* computeIsraelDateKey turns over; an author rewrites a post.
Midnight ==
    /\ Event /\ day < MaxDay /\ day' = day + 1
    /\ UNCHANGED <<forum, content, stats, override, importing, call, playing>>

Rewrite(p, text) ==
    /\ Event /\ forum[p] # text /\ forum' = [forum EXCEPT ![p] = text]
    /\ UNCHANGED <<day, content, stats, override, importing, call, playing>>

\* The process stops: its connections close, and Postgres drops their locks.
Crash ==
    /\ Event
    /\ \E i \in Imports : imp[i] # NoRow
    /\ imp' = [i \in Imports |-> NoRow] /\ held' = [i \in Imports |-> NoRow]
    /\ lock' = [holder |-> NoRow, depth |-> 0]
    /\ call' = [m \in Moderators |-> NoRow] /\ req' = [q \in Players |-> NoRow]
    /\ UNCHANGED <<day, forum, content, stats, override, runs, daily, handed>>

ModeratorStep(m) ==
    \/ \E p \in Posts : getPostDetail(m, p)
    \/ approvePost(m) \/ rejectPost(m) \/ ReadForEdit(m)
    \/ \E text \in Texts : editCleanContent(m, text)

ImportStep(i) ==
    \/ \E c \in Conns : triggerImportRun(i, c)
    \/ createImportRun(i) \/ getRecentTopics(i) \/ NextPage(i)
    \/ \E p \in Posts : getTopicDetail(i, p)
    \/ findForumPostByForumPid(i) \/ importOnePost(i) \/ incrementImportRunCounters(i)
    \/ finishImportRun(i) \/ refreshTouchedStats(i) \/ Unlock(i)

PlayerStep(q) ==
    \/ AskDaily(q) \/ AskFreeplay(q) \/ getEligibleTargets(q)
    \/ \E u \in Users : ReadPosts(q, u)
    \/ publishDailyChallenge(q) \/ buildFreeplayRoundPlan(q) \/ Insufficient(q)

Next ==
    \/ \E m \in Moderators : ModeratorStep(m)
    \/ \E i \in Imports : ImportStep(i)
    \/ \E q \in Players : PlayerStep(q)
    \/ \E u \in Users, o \in Overrides : setEligibilityOverride(u, o)
    \/ \E p \in Posts, text \in Texts : Rewrite(p, text)
    \/ Midnight \/ Crash

Spec == Init /\ [][Next]_vars

-----------------------------------------------------------------------------
(* Properties. *)

\* Two imports never walk the forum at once, whatever became of the lock of an earlier
\* one: a connection that came back still holding it lets in no second import.
OneImportAtATime == \A i, j \in Imports : held[i] # NoRow /\ held[j] # NoRow => i = j

\* A run reported a success has counted every post it brought in.
SuccessCountsItsPosts ==
    \A r \in DOMAIN runs : runs[r] # NoRow /\ runs[r].status = "success" =>
        runs[r].new = Cardinality({p \in Posts : post[p] # NoRow /\ post[p].run = r})

\* A post's revisions followed by its text are all the texts it has had, in order: no
\* editor's revision records a text other than the one its edit replaced.
RevisionsTellHistory ==
    \A p \in Posts : post[p] # NoRow => Append(revisions[p], post[p].content) = told[p]

\* A post changes version, or becomes playable, only by the request of a moderator who
\* has read its text, which the same step answers.
Deliberate ==
    \A p \in Posts : post'[p] # NoRow /\ post[p] # NoRow =>
        \/ /\ post'[p].version = post[p].version
           /\ post'[p].status = "approved" => post[p].status = "approved"
        \/ \E m \in Moderators : call[m] # NoRow /\ call'[m] = NoRow /\ call[m].post = p
                                   /\ call[m].content = post[p].content

\* No decision and no edit lands on a text other than the one its moderator had read, and
\* nothing but a decision makes a post playable.
DecidedWhatWasRead == [][Deliberate]_vars

\* Everyone who plays a day's challenge is handed the one that stands for the day, by
\* whoever built it and whatever was moderated or imported since; and every game handed
\* out has rounds with their target among the full number of choices.
EveryoneGetsTheDay ==
    \A h \in handed :
        /\ h.day # 0 => h.plan = daily[h.day]
        /\ \A k \in DOMAIN h.plan : h.plan[k].target \in h.plan[k].choices
                                      /\ Cardinality(h.plan[k].choices) = ChoicesPerRound
=============================================================================
