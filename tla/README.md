# ExtSync in TLA+

ExtSync distributes Chrome extensions outside the Web Store. Developers upload
releases to a server (FastAPI, PostgreSQL, S3-like storage, Redis), a worker
validates them, administrators moderate them, channels serve them to the Windows
Agent, which swaps the folder Chrome has loaded and asks a Bridge script to reload it. A web
dashboard (`apps/web`) is where developers and moderators work. Beside them lives Guess
(`apps/guess`), a game about a forum's posts with a server, a player client and an
administration of its own.

This directory holds the TLA+ modules of that system, the TLC configurations that
check them, and TLAPS proofs. `PROJECT.json` lists the components, the runs, the
source lines each definition stands for, the hazards and the theorems.

    tlc -workers 2 -config ReleaseLifecycle.cfg MCReleaseLifecycle.tla
    tlapm ReleaseLifecycleProofs.tla

## 1. Inventory

| Component (source) | State | Operations | Talks to | What is hard |
|---|---|---|---|---|
| Release lifecycle (`apps/api/.../services/release_service.py`, `availability.py`) | `releases`, `channel_states` | upload, publish, pause, revoke, rollback, delete | worker by Redis, moderation, agents by events | long sequences of legal calls; the channel pointer and the release it names are kept by different handlers |
| Moderation (`services/moderation.py`, `prepared_moderation.py`) | `releases.review_status`, prepared batches | approve, reject, unpublish, request changes; batches | lifecycle, storage | decisions that arrive late or twice, overlapping moderators |
| Artifact publication (`services/artifact_publication.py`, `storage.py`) | `release_artifacts`, two buckets | publish, withdraw and archive, erase | moderation, lifecycle | storage is not transactional: a rollback undoes rows, not objects |
| Validation pipeline and job queue (`apps/worker`) | Redis list, job attempts, webhook outbox | validate, retry, sweep, deliver | API tables | jobs lost between commit and push, given up after five attempts, leases that end while work goes on |
| Update distribution (`services/agent_service.py`) | installations, update attempts | check for updates, report, automatic stop | agents, channel states | duplicated and late reports, sequence numbers used again, checks that race the commit |
| Agent update service (`apps/agent-windows/.../UpdateService.cs`, `FolderSwap.cs`, `AgentController.cs`) | four folders, the row in SQLite, a gate | check, download, verify, swap, restore, user rollback, install, remove | server, pipe server | a crash or failure between any two file operations; rows read before an `await` and written whole after it |
| Pipe server, native host and Bridge (`PipeServer.cs`, `apps/native-host`, `packages/extension-bridge`) | connections per project, pending reloads | register, request, acknowledge, flush | update service, Chrome | acknowledgements for an earlier request, reconnection inside the throttle, a set dropped while it is joined |
| Install links, sessions, safe mode, teams, listing review, quotas (`services/*`) | one or two tables each | see the code | dashboard | check-then-act on counters, caches filled again before a commit |
| Web dashboard (`apps/web/src/app/app/*`, `lib/api.ts`) | per tab an access token, a page, the data it loaded; one refresh cookie | pages with their queries and buttons; refresh of the session and repetition of the call | API | overlapping clicks and the loads after them, lost answers, two tabs on the same rows |
| Guess: game (`apps/guess/src/game`, `http/idempotency.ts`) | games, rounds, guesses, idempotency keys | create or resume, read a round, hint, guess, advance, results | player client, challenges | requests sent twice or overlapping, time that runs out between two of them, two implementations of one store |
| Guess: player client and sessions (`lib/guess-client.ts`, `http/player-session.ts`, pages) | a cookie shared by the tabs, a CSRF token each, session rows | bootstrap, repetition after a 401, buttons, reload | game | a token another tab replaced, answers lost after the call took effect |
| Guess: administration sessions (`http/admin-*.ts`, `admin/`) | accounts with lock-out, sessions that renew and rotate, audit rows | log-in, log-out, re-authentication, revocation, a change | content | a session read before and written after another request ended it |
| Guess: import, moderation, challenges (`importer/`, `admin/drizzle-*`, `game/*challenge*`) | posts with versions and revisions, import runs, an advisory lock, challenges of the day | import, approve, reject, edit, override, build and publish | forum database, game | the lock is the connection's, posts change under a moderator, two players build the same day |
| Signing, CLI, infrastructure | none that matters here | | | |

What makes each of the main components correct:

* *lifecycle and moderation*: nothing is public without a standing decision; what is
  live can be downloaded; a channel points at something it may serve; a channel never
  moves backwards by itself and goes empty only when nothing is left;
* *artifacts*: rows and objects agree; a moderator never destroys the only copy;
* *distribution*: a device is offered only something newer or a signed rollback; a
  failing release stops; reports count once;
* *Agent*: the old version survives until the new one is recorded; the row names what is
  on disk; the Agent catches up; an update is not applied twice;
* *reload*: a bridge that is connected or reconnects is told of the newest version;
* *dashboard*: a page at rest shows what the server holds, a decision is applied once;
* *game*: a click counts once, a score is what its guesses earned, a settled round stays
  settled and an open one keeps its answer to itself, a player can always go on;
* *administration*: a change is made in the name of whoever is logged in in that tab, and
  is audited; an ended session stays ended;
* *content*: imports do not overlap, a decision lands on the text that was read, a day has
  one challenge;
* *queue*: every upload is validated or failed; every webhook is delivered at least once
  or given up.

## 2. Modules

| Module | Models | State, and where it lives in the code |
|---|---|---|
| `PublicStore` | abstract: what the public may reach | `cleared`, `grandfathered` (cleared without a decision), `downloadable`, `offered` |
| `ReleaseLifecycle` | every handler of `release_service.py` and `moderation.py` that writes, the automatic stop, the worker's result | `status`, `review`, `seq`, `relRollout` are columns of `releases`; `staged`, `public` say in which bucket an artifact row lies; `active`, `paused`, `rollout` are `channel_states` |
| `ModerationBytes` | the same decisions on one release with their reads, object copies, deletions and commit as separate steps of overlapping requests | rows with `version_lock`, two objects, the local state of each request |
| `ChannelTransactions` | the handlers that touch one channel, each as its reads and its commit, overlapping | rows with `version_lock`, `channels.active_release_id` and `is_paused`, what each open session has read |
| `AgentUpdate` | update check, `ApplyUpdateAsync` under its gate, `FolderSwap`, `TryRollback`, `RollbackAsync` | what each build needs (`needs`), the folders, the SQLite row, `_gate`, each task's `LocalInstallation` and metadata |
| `GuessRules` | the game's unit of work on both stores, as operators from a store and a call to a store and an answer | rows of games, rounds and guesses |
| `GuessGame` | the PostgreSQL store behind HTTP, requests in three steps | the store, the idempotency table, what each request is doing |
| `GuessAdapters` | both stores side by side, the same calls made of each | two stores, the code each answered last and the round it sent with it |
| `GuessClient` | tabs of a player's browser and the server | `player_session` rows, the cookie, each tab's token, page and waiting call |
| `GuessAdmin` | tabs of the administration and its sessions | `admin_user`, `admin_session`, the cookie, each tab's context and waiting call |
| `GuessContent` | import, moderation, statistics, challenges | forum, posts, revisions, runs, the lock, each import's connection and progress |
| `Console` | tabs of the dashboard and the server they talk to | the rows of one project, active sessions, the cookie, each tab's page, calls in flight |
| `MC...` | instances for TLC | |
| `...Proofs` | theorems checked by TLAPS | |

**ReleaseLifecycle.** A handler commits one transaction, so it is one action: `Publish`
includes the sequence number, the status and, when the release is cleared, the whole of
`_set_channel_active`; `Reject` includes `_stamp`, `withdraw_artifact_public` and the
hand-back with the restored bytes of the predecessor. Reject and unpublish differ only in
their audit trail and are one action. `Validate` is one step because the job commits once.
`AutoStop` may happen to the active release of a channel that is not paused whatever the
counts are: it has every behaviour the thresholds allow, and more. `Offered` is what the rows of a
channel hand out; the store's safe mode and a device's rollout bucket withhold it from
everybody or from some, and move no channel.

The initial states are the databases that the migration `a3f81c26d904` may find. It marks *every* row
`legacy_pending`, so a legacy release starts in any status: uploaded or failed in validation
and without a build, ready, published, paused or superseded with one in the public bucket, where the
worker put it then, or revoked with or without one. A channel points at its published release, or at a
paused one and is paused itself. (A revocation of those days could leave a pointer at a superseded
release, as the comment at `release_service.py:343-350` tells; such a pointer is not among the initial
states.) A legacy release that was still uploaded is then staged privately by `Validate`, counts as cleared, and goes live by
`Publish` with nothing public: `StagedLegacy`, section 6. `seq` 0 stands for NULL and `review` of a missing row is kept as
it was, which no guard reads. `HandBack` picks the newest cleared superseded release.

**PublicStore** is what the public is promised: what can be reached is cleared, only a decision clears,
one release at a time, and what is offered can be downloaded or was `grandfathered`, that is,
cleared by the migration and never decided on since. A decision of either kind takes a release out of
`grandfathered`, and nothing puts one in.

**ModerationBytes** splits one handler where another one can come between: after the row
is loaded, after the artifact rows are read, after each storage call, at the commit. The
commit succeeds only if `version_lock` is still what was loaded; `Rollback` is the commit
refused, an exception or the end of the process, at any point. A delete that storage
refuses is logged and forgotten by the code, so `DeletePublic` and `Erase` may leave the
object. `erased` is a history variable.

**ChannelTransactions** splits every handler of one channel, the automatic stop included, into the
reads that can be overtaken: the release it is called for, `_next_sequence`, the channel, the
release it replaces or falls back to, and the commit. It follows three facts of the code:
sessions do not autoflush, so nothing is written before the commit; `releases` has a
`version_id_col`, so an update of a row that has changed fails; `channels` has none, and
the unit of work updates only columns whose value changed (`Column`). A `select` of a row
already in the session does not refresh it, so each row is read once. `Abort` stands for a
stale version, a taken sequence, an exception and the end of the process. Bytes, the rollout
percentage, and validation are left to the other two modules.

**AgentUpdate.** The Agent's tasks run on one UI thread and interleave only at `await`;
inside a stretch with no `await` (`Synchronous`) no other task moves, but the process may
die, so each file operation is still a step. A folder is abstracted to the build it holds
whole, or `Absent`, `Empty`, `Mixed`. Failures are named in `Faults` and counted; each
is an exception of one call: the download (`fetch`), a refused project, signature, size, hash or manifest
(`reject`); the deletion of the old rollback folder, stopped half way by an `IOException`, which
`SafeDelete` swallows, so that the rename that follows fails (`drop`, and `leftover` for the second deletion, in
`JournaledCopy`, where the copy that follows then lies over what is left), or by an
`UnauthorizedAccessException`, which it does not: it leaves `Replace` altogether, since that
deletion is outside its `try`, and `TryRollback` runs (`deny`); the two renames (`move`, `place`), the two halves of
`JournaledCopy` (`snapshot`, `copy`), a file Chrome holds open (`lock`), parking and restoring
(`park`, `restore`), the end of the process (`crash`), which may stop a deletion or a copy half way as well. What a
deletion or a copy leaves is the folder as it was, or `Mixed` (`Leftover`), and a restoration over a folder that could not be
cleared is `Mixed` too. `lossy` is a history variable: one of `Lossy` has
failed, the four failures of `FolderSwap` after which the old version may be in no folder (section 6, item 4).
The folder kept for diagnostics is left out, since nothing reads it.

`needs` says of each build whether a user must approve it, because it adds permissions, or a newer Agent is required.
The server offers no build to an Agent that is too old for it (`OffersUpdate`), so the Agent's own gate for that is one of the causes of
`reject`. An offer that wants approval is refused by `Enter` without a trace at every check (`Approved`).

**GuessRules** is a library: `PgHint(st, g, o, s, now)` is the whole transaction of
`DrizzleUnitOfWork.revealNextHint`, `MemHint` its counterpart in memory, and each returns
`[st, code]`. A call that throws leaves a PostgreSQL store as it was, because the
transaction rolls back, and the in-memory one as far as it had got. Operators without a
prefix are the same in both. Points are the code's table, with its arithmetic. The posts' texts and
the choices' names are one value for each store (`PgContent`, `MemContent`): PostgreSQL's `loadRound` fills
both with empty strings, the in-memory store looks them up and keeps them.

**GuessAdapters** makes the same call of both stores at the same time and keeps the code each
answers and the round it sends (`pgSent`, `memSent`: what `toRoundView` makes of it, its content,
and whether its time is up). What they *keep* is compared by `SameGameKept`, what they *send* by
`AnswersAgree`, which names the differences: every text and name, a round whose time is up (memory may
send that it is expired, with the answer, where PostgreSQL sends it as active), and a game that is completed.

**GuessGame** gives each request the steps the handler awaits between: `Arrive` (it reads
the clock, checks session, token and rate limit), `Reserve` (the insert of the key), `Run`
(the transaction, under the game's row lock, with the time read before), `Complete` (the
response is stored). `Crash` ends all requests and keeps the rows. A client asks for what it
has been shown: `Arrive` is limited to games that exist and rounds it could see.

**GuessClient** makes a handler one step, since GuessGame takes it apart, and models the
way to it: `Press` is a button the page offers in its state, `ServeBootstrap` and
`HearBootstrap` the exchange that gives a tab its CSRF token and perhaps everybody a new
cookie, `Hear` the answer, with the one repetition after a 401. `Lose` is a request or an
answer lost; a refusal by the rate limit is an answer of `Serve`.

**GuessAdmin** has the same shape; here a change authenticates (`Authenticate`), renews
its session (`Renew`) and runs (`Run`) in steps other requests come between. What is changed is
left to GuessContent. `submitReauth` is the dialog that asks for the password again when a
reload has lost the token, and repeats the call.

**GuessContent** walks an import statement by statement, each of which may fail: reserve a
connection and take the advisory lock, insert the run, read a page of topics, find, store and
count each post, refresh the statistics, finish, unlock and release. An advisory lock belongs to
a connection and counts: an unlock that fails returns a connection that still holds it. A
moderator reads a version and text (`call`), and decides or edits later. A player's challenge
is read, built from approved posts, and inserted unless the day has one. `Rewrite` edits the
forum, `Midnight` moves the day, `Crash` stops the process; these, the requests and the
statements that fail are the `events` that are counted. `told` and `handed` are history variables.

**Console** has a slot for each call in flight. `Press` is any button of the pages modelled:
it sends its mutation, or removes a row first where the page is optimistic. `Serve` is
the whole handler on the server's rows, `ServeLoad` a query, `Hear` what the mutation's
`onSuccess`, `onError` and `onSettled` do, the loads they start included. A page's data is that of its own query. The
header above the tabs of a project, with the badge of its status, is of the overview's query, which a tab on the
versions or the links keeps from when it was opened (`badge`). The audit log beside a review and the counters of the moderation menu are other queries
and not modelled. The library has two lists, the one in its state and the one on the screen (`shown`), which
`Render` brings up to date: a click sees the latter. Its loads are no queries, so none replaces another. A
prepared decision (`Plan`) says what to do with the release, what with its listing, and whether it waits for a newer
release; with one release there is no newer one, so a takedown that waits is always skipped. A call answered 401
refreshes the session for itself (`ServeRefresh`, `HearRefresh`) and is sent once more; a refresh token
used twice, as when two calls refresh at once, revokes the user's sessions. `behind` marks a tab whose data another tab, the worker or
a failure has overtaken, so that the property speaks of the rest.

## 3. Runs

| Run | Bounds | Result |
|---|---|---|
| `release_lifecycle` | 3 releases of 1 channel, 1 legacy in any state the migration may find, sequences to 4 | pass: types, `PublicBytesCleared`, `LiveHasBytes`, `ActivePointerSound`, `OffersMoveForward`, `OffSaleOnlyWhenNothingLeft`, and `PublicStore` implemented |
| `moderation_bytes` | 2 requests, 4 decisions | pass: `RowsAgree`, `BuildSurvives` |
| `channel_transactions` | 3 releases of 1 channel, 2 handlers at a time, 3 in a behaviour, sequences to 4 | pass: `PointerSound` |
| `agent_update` | 2 tasks, 3 sequences, all builds plain or the second for a newer Agent and the third with more permissions, any 2 of 13 failures, 1 user rollback, 1 prompted check | pass: `OldVersionSurvives`, `SettlesWhatItSwapped`, and the liveness property `CatchesUp` |
| `guess_game` | 1 player, 1 game of 2 rounds, 2 errors allowed, 2 requests at a time, 1 key that is sent again, a clock that runs every round out | pass: `RunOnce`, `RoundLedger`, `ScoreIsSum`, `NothingLeftOpen`, `SettledStands` |
| `guess_adapters` | owner and stranger, a daily game of 1 round or a free one of 2, 3 posts, clock to 3 | pass: `SameGameKept`, `AnswersAgree` |
| `guess_client` | 2 tabs, 1 daily game of 1 round, clock to 1, 1 mishap | pass: `OneClickOneEffect`, `ShownSettledIsSettled`, `AnswerStaysHidden` |
| `guess_admin` | 2 administrators, 2 tabs, 2 log-ins, clock to 2, 1 mishap | pass: `ActsThroughItsLogin`, `SuccessIsAuditedOnce`, `SessionsOnlyEnd` |
| `guess_content` | 2 users, 3 posts, 2 requests of each kind, 2 connections, 2 days, 2 runs, 4 events | pass: `OneImportAtATime`, `SuccessCountsItsPosts`, `RevisionsTellHistory`, `DecidedWhatWasRead`, `EveryoneGetsTheDay` |
| `console` | 2 tabs, 3 calls in flight, 2 clicks, 1 mishap, the scenes of `MCConsole` | pass: `AtRestIsCurrent`, `NothingHidden`, `OneDecisionApplied` |
| `agent_swap`, `stuck_round` | the smallest that show it | violated, see section 6 |

*Why the bounds are enough.* The lifecycle's hard cases need a live release, a newer
one that waits for review and a superseded one to fall back to, all on one channel: three
releases. Sequence 4 lets one of them be rolled back to, which uses a fourth number.
Handlers of different channels touch disjoint rows, and the theorems are for any number of
releases and channels. The two new releases are interchangeable (`SYMMETRY`); no liveness is
checked under symmetry. Two requests and four decisions give an overlap followed by a retry of
each; the proofs are for any number. Three handlers on a channel give an overlap of two and a third
that finds what they left; three releases are the one served, the one that comes and the one
to fall back to; all are interchangeable. In the Agent, three sequences give an update after an
update (a rollback folder that is not empty) and a signed rollback; two failures give a
failure of the recovery from a failure; two tasks suffice because the gate admits one.

In the game all writes lock one game's row and two games share nothing, so one is enough;
two rounds are what advancing, and a sum, need. Two requests give an original and its
repetition, or two different calls, and a third would wait for the same lock. Two wrong choices
exhaust a round; with two posts there is one hint to reveal in `guess_game`, with three there are
two in `guess_adapters`. In `guess_client` and `guess_admin` two tabs are what a shared
cookie needs, and one mishap after another tab's action is enough to leave a tab with what no
longer holds; the second clock tick of `guess_admin` lets a session be rotated and then run out.
In `guess_content` the posts are one curated and left alone, one curated and active again, and one new
with a poor text; four events are two requests, a rewrite or midnight between them, and a failure or a crash, or two
imports with a moderator between them; the proofs are for any number. In `console` two clicks
overlap, and the third slot is for the load one of them starts; the scenes put a tab alone on each
page, or two tabs on pages that share rows, in the states in which their buttons meet; two of them are
batches whose decisions say something of the listing, or wait for a newer release.

Deadlock checking is on for `guess_admin`, where somebody can always do something; it
is off in the others: a lifecycle whose releases are all deleted, or whose bounds are used up, a game that is
over, an Agent that has caught up, really have nothing to do. Identities that `CHOOSE` picks from are not
declared symmetric (`guess_client`), except the slots of `console`: a call may take any free one, as every action
and property treats them alike, so states that differ in the slots' names have the same successors up to
those names.

*Mutants.* Each property of a passing run has a mutant of the code, an operator next to the one
it changes (`FallbackUnreviewed`, `NeverDemotes`, `MayDeleteAny`, `AlwaysFresh`,
`NeverArchives`, `GateIgnored`, `SnapshotSkipped`, ...), under which TLC finds it violated.

*Fairness.* `AgentUpdate`: `WF_vars(Proceed(t))`: a call that began runs on; every
wait in it has a timeout (HTTP, the reload request) or is the gate, whose holder has the same
fairness, so weak fairness is enough. `WF_vars(Check(Scheduler))`: `RunSchedulerAsync` loops
for ever, catches what a check throws and starts again with the process. Nothing is
assumed of prompted checks, of the server publishing, of failures or of the user.
`GuessClient`'s `PlaySpec`, for `stuck_round` only: `WF_vars(Network(t))`, the server answers
and the network delivers; and `SF_vars(Plays(t))`, the player keeps pressing what the page
offers, strong because other calls disable the buttons while they wait. It is the
most favourable player and network, and the results are not reached even so.

*Configurations kept beside the runs.* Each ends with a counterexample, described in section
6, and is run by hand: `HandBackServes.cfg`, `HandBackFinds.cfg` (with `MCReleaseLifecycle`), `LayersAgree.cfg`
(`MCModerationBytes`), `ApprovalOrder.cfg` (`MCChannelTransactions`), `AgentDownload.cfg`, `AgentTwice.cfg` (`MCAgentUpdate`),
`RotatedToken.cfg` (`MCGuessAdmin`), `SentAsTested.cfg` (`MCGuessAdapters`), `LegacyBytes.cfg` (`MCReleaseLifecycle`),
`ListingUnseen.cfg`, `BadgeStale.cfg`, `LibraryStale.cfg` (`MCConsole`).

## 4. Proofs

`ReleaseLifecycleProofs` proves, from `LifecycleAssumption` alone (a channel for each release,
rollouts in 1..100, `None` is no release), for any number of releases and channels:

    IInv == TypeOK /\ PublicBytesCleared /\ BuildKept /\ ApprovedPublic /\ ActivePointerSound

from every database that `Init` admits. The properties are not inductive by themselves. `ActivePointerSound` and `LiveHasBytes`
need to know what a channel may be pointed at next, hence that a release past validation has a
build (`BuildKept`: `Validate` gives one, and a takedown archives before it withdraws), and where that build is:
an approved release is in public storage (`ApprovedPublic`), so one that is live without public bytes is
grandfathered, and its build is staged.
The step is proved action by action; the three ways in which the channel changes (a
release goes live, leaves with a hand-back, or nothing moves) are lemmas about the pointwise
change of the releases' status (`GoesLiveInv`, `LeavesChannelInv`), shared by the actions.
Theorems: `InvariantHolds`, `TypeCorrect`, `PublicBytesAreCleared`, `LiveVersionsHaveBytes`,
`ActivePointersAreSound`.

The two action properties need the sequence numbers as well. `Numbered`: a release that is published, paused or
superseded has a number, one before its first publication or deleted has none, and no two releases
have the same (`NumberedHolds`). `NextSequence` is a maximum plus one, so a number that is given is above all that exist at
that moment (`NumbersOnlyRise`, from `NextSequenceLemma`, with the least element of a set of naturals from the library's
well-founded induction); the number of a deleted release may be given again. A channel that goes from one release to another by publication
or by approval moves to a higher number (`OffersOnlyMoveForward`, which exempts the step that revokes or
withdraws the first, and a second that was paused). What a takedown falls back to is cleared and superseded, so a channel that is not
paused goes empty only when no other such release is left (`OffSaleOnlyThen`); one that stands
published beside the channel is not looked for (section 6, item 2).
`ImplementsPublicStore` is the refinement: under the mapping of `StoreContract` the initial
states are `PublicStore`'s and each handler is one of its steps or a stutter, with the legacy releases
that nobody has decided on as `grandfathered`.

`ModerationProofs`, in its first part, proves `RowsAgree` (`TablesAgree`) and `BuildSurvives` (`BuildsSurvive`)
for any number of overlapping requests, from `BytesAssumption`. The invariant relates what a
request read to what is still true when it acts: a request whose version is still current read rows that
still stand, and the object a request is about to delete has been archived.

`ChannelTransactionsProofs` proves `PointerSound` (`PointersAreSound`) for any number of releases
and of overlapping handlers, from `TransactionsAssumption`. That the channel has no version
makes the property look doubtful: a handler writes what it decided on a pointer that may have
moved. The invariant says why it holds. `Reads`: a row that was read is the one that is there
or an older version of it, so a commit whose version is current writes what it decided on.
`Elsewhere`: a handler that saw the channel at another release, and whose own release is
unchanged, is right that the channel is not at its release, because every commit that moves the
channel to a release also writes that release's row. So nobody withdraws a release the channel has
come to serve meanwhile (`CommitPointer`), and a commit ages every read it invalidates
(`CommitInv`).

`GuessContentProofs` proves, for any forum, any number of requests and any bounds, from
`ContentAssumption` and `RowAssumption`,

    IInv == ClockOK /\ UsersOK /\ PostsOK /\ CallsOK /\ ImportsOK /\ RunsOK /\ PlayOK

and from it every property of the run `guess_content`. None of the properties is inductive. Imports exclude each
other because only an import that has reserved a connection takes steps and the connection it
reserved holds the lock (`ImportsOK`); a connection given back while it still holds the lock
can then only be reserved by somebody who may hold it. A moderator's decision lands on the text that was read
because a text changes only together with its version, so a version that still stands tells the text
(`CallsOK`). A run that ends as a success counted its posts because they and its counter differ by exactly the post
in hand, as long as the run has seen no error (`RunsOK`). Plans handed out for a day equal the row of the
day, which is written once (`PlayOK`). The step is proved action by action, with lemmas for what each group of
actions leaves alone. Theorems: `InvariantHolds`, `TypeCorrect`, `OneImportAtATimeHolds`, `SuccessCounts`,
`RevisionsTellHistoryHolds`, `DecidedWhatWasReadHolds`, `EveryoneGetsTheDayHolds`.

`AgentUpdateProofs` proves, from `FolderAssumption`, `AgentAssumption` and `DemandsAssumption`, for any number of tasks, offers, failures
and rollbacks,

    IInv == TypeOK /\ Order /\ Folders

`Order` says who may move: one task at a time is in a stretch without `await` (`Alone`), the gate is held
exactly by the update under way (`GateHeld`), and before the first user rollback nobody restores but an update that failed
(`NotAsked`). `Folders` says where things are: `Staged`, the staging folder holds what was fetched until
it is swapped in; `OldAt`, the folder that holds the old version at each step of a swap or a restoration, while
none of the four failures of `Lossy` has occurred; `NewInPlace`, what an update waiting for its reload has swapped in.
`OldVersionSurvives` names two folders and says nothing between two steps of a swap, so it is not inductive; `OldAt` is the
step-by-step account it lacks. Theorems: `InvariantHolds`, `TypeCorrect`,
`OldVersionSurvivesHolds`, `SettlesWhatItSwappedHolds`.

`GuessGameProofs` proves, from `GuessAssumption`, `NoRowAssumption` and the game's own assumptions, for any number
of players, games, rounds, choices, keys and overlapping requests,

    IInv == TypeOK /\ StoreSound(db) /\ Ledger(db) /\ Totals(db) /\ Closed(db, clock)
            /\ KeySound /\ SlotSound

Every transaction is one of five steps on the store (`StoreStep`): a game is created, a round is opened, a
post is revealed, a guess is graded, a game moves on. The rows' invariants are proved of these steps, apart from
who sends what: `StoreSound` (a round is a game's, a guess is on a round, a completed game stands at
its last round), `Ledger` (errors, status and score of a round against the guesses on record, hence cardinalities
of sets that grow by one guess), `Totals` (`ScoreUpTo` is a recursive function; that changing one summand changes the sum by the
difference is proved for each bound by the least counterexample), `Closed` (what is behind a game's index is settled or
has run out). `KeySound` says that a key that ran is taken, and that one request at most holds a reservation that has not run;
`SlotSound` that requests work with a time that has been and create games nobody else creates. Theorems:
`InvariantHolds`, `TypeCorrect`, `RunOnceHolds`, `RoundLedgerHolds`, `ScoreIsSumHolds`, `NothingLeftOpenHolds`,
`SettledStandsHolds`.

Its last part is about `GuessAdapters`: `BothInv` says that what the two stores keep is `Alike`, row by row. They may differ in three ways
only: a round that has run out may be marked expired in memory and still active in PostgreSQL, an expired game's status may,
and a game completed on both may stand further on the in-memory one, with another token. Each call is shown to keep
them alike from the two operators that model it (`RoundAgrees`, `HintAgrees`, `GuessAgrees`, `AdvanceAgrees`, `CreateAgrees`);
the case that needs care is a refusal, where PostgreSQL rolls the mark back and memory keeps it
(`MemAging`). What is sent follows from what is kept (`SendsAlike`). Theorems: `StoresStayAlike`, `SameGameKeptHolds`, `AnswersAgreeHolds`. `AnswersAgree` is about the game a
call names: a game that is completed is answered differently, whatever the state of the others, because one
store advances it again.

`GuessClientProofs` proves, for any number of tabs, identities, games, rounds and lost messages,

    IInv == clock \in Nat /\ Store(db) /\ JarOK /\ TabsOK /\ CallsOK

The store is known by its shape only (`Board`); every call leaves what is settled (`Stands`), so what a tab shows, or an answer
still carries, of a settled round stays true however late it is heard (`Told`). A call has had an effect
only when it is on its way back with success (`CallOK`), and the one repetition follows a 401, which has none. Theorems:
`InvariantHolds`, `OneClickOneEffectHolds`, `ShownSettledHolds`, `AnswerStaysHiddenHolds`. `ClientAssumption`
asks for at least one game, without which the page's game would be nothing.

`GuessAdminProofs` proves, from `AdminAssumption` and `NoRowAssumption`, for any number of administrators, tabs, sessions and log-ins,

    IInv == TypeOK /\ CallsSound /\ Capped /\ Counted

`CallsSound` says at each step of a call what the tab, the call and the session have in common: from authentication on the session is the
one of the tab's CSRF token and its administrator is the one who logged in; a renewal worked out before it is written stays
under the session's cap; nothing is audited before the change. `Counted` bounds the failures of an account,
for `TypeOK`. Theorems: `InvariantHolds`, `TypeCorrect`, `ActsThroughItsLoginHolds`, `SuccessIsAudited`,
`SessionsOnlyEndHolds`.

Each inductive invariant was first checked by TLC on the run of its module.

The second part of `ModerationProofs` is about `Console`. It proves `OneDecisionApplied`
(`OneDecisionAppliedHolds`), for any number of tabs, calls in flight, sessions and prepared
decisions, from `ConsoleAssumption` alone:

    PreparedInv == Sole(db) /\ CallsSound

`Sole`: one decision at most is applied, and then the release is there and no longer waits for a
verdict. The second half is what the property lacks: `_apply_one` skips a decision
when the release has been decided, so it is enough that no handler takes a decided release back to
where it waits for one (`Keeps`, proved for every handler; an upload does, but only where there was no release).
`CallsSound`: a call in flight, resent after a refresh or not, asks for something its page's handlers take,
which is what the buttons ask for (`OffersHandled`). A batch is a function over its rows in
order; each row preserves `Sole` (`ApplyOneSole`), and the batch does by the least row after
which it would fail (`ApplicationsSole`). TLC has checked `PreparedInv` on the states of `console`.

Its third part proves what the pages show: `ConsoleTypeOK` (`ConsoleTypeOKHolds`), `AtRestIsCurrent`
(`AtRestIsCurrentHolds`) and `NothingHidden` (`NothingHiddenHolds`), for any number of tabs, calls in
flight, links, decisions and store extensions, from `ConsoleAssumption` and `NoCallAssumption` (the
initial scenes are typed, `Rows` is finite, and `NoRow` is no value of the other kinds, nor a call).
`AtRestIsCurrent` is about a page's own query; the badge above it is not (section 6, item 13). The
inductive invariant is `TypeInv /\ PagesInv` (`PagesInvariant`). `TypeInv` says more than
`ConsoleTypeOK`: a call carries what its page's buttons put into it (`Asks`), and a page shows, and a load brings,
rows of the page's type (`PageView`). Without it nothing could be said of a list that an item is taken
off or put back into. `PagesInv` says of each tab:

- `Belongs`, `OneLoad`, `Entering`: its calls are its page's own, one of them at most is a load of the page's query
  (the library's are none), and a sign-in or a restored session is alone, on a page that shows nothing.
- `Current`: the page is *told* when the answer to a change that was made is on its way, or a load is
  yet to be answered (`Told`). A page that nobody will tell shows what its query would return, or is being
  brought it by an answer. This is what `AtRestIsCurrent` lacks while calls are in flight: a load that
  read the rows before a later change of the same tab brings old rows, which does no harm because
  the answer to that change is still to come, and the load it starts takes the old one's place.
- `GoneKnown`: a page of a project that is deleted has nothing to show, unless the deletion is its own and it
  is about to make way. It is needed because such a page can no longer load: a query that is refused
  would leave it with what it had.
- `Shown`: what the library has loaded, and no click on a list not yet redrawn has overwritten, is on its list or being taken off.

A step is one slot's (`Puts`, `Owns`, `Moved`). The other tabs keep `PagesInv` because a change the server makes
leaves behind every one that shows it (`ApartKept`, `StepKeeps`), so a lemma per action, from
`OpenKeeps` to `HearKeeps`, is left with its own tab, and what is common to them is stated once: a load is asked for
(`AskStep`), a call goes on (`GoOnStep`), a call comes or goes that tells the page nothing
(`QuietStep`), the page goes blank (`BlankStep`). The lists rest on `RemoveAtTyped` and `InsertAtTyped`: they are
still lists of extensions, and lose at most what was removed. `TypeInv` and `PagesInv` were first
checked by TLC on all states of `console`.

*Only model-checked.* Liveness (`CatchesUp`, `ReachesResults`) and the fairness it needs are out of the
prover's reach and stay with TLC, and so do the properties that are refuted (section 6): every invariant and
action property of a passing run is also a theorem.
No module declares a `RECURSIVE` operator.

## 5. What is not modelled

*Server and worker.* Devices, rollout buckets, reports and the thresholds of the automatic stop; signatures (metadata
is taken as authentic); the content of an archive (validation is its outcome); the job queue and
the webhook outbox; permissions, teams, audit rows, notifications, quotas, feedback; how a prepared
batch is imported; how an install link is used and its uses counted; the cache behind the safe
mode; registration, e-mails, two-factor and OAuth. Overlapping handlers together with the bytes they move
(`ChannelTransactions` has no storage, `ModerationBytes` one release).

*Agent.* First installation, removal, the pause and the channel switch; the reload handshake, of which
only the outcome is modelled; the WebSocket, the self-update and the user interface. Two kinds of offer are outside what
`CatchesUp` promises, and the code never catches up with them by itself: `CheckUpdatesAsync` passes
`userApproved` only for a release that needs no approval and nothing else in the Agent calls
`ApplyUpdateAsync`, so a release that adds permissions is refused at every check; and one that needs a newer Agent is
withheld by the server until the Agent has updated itself, which is not modelled.

*Dashboard.* Public pages, settings, teams and account pages, the audit log, the counters of the menu, charts, texts and layout.
Handlers are one step there. What moves a release is `ReleaseLifecycle`.

*Guess.* The share page, and the lists and dashboards of the administration, which only read.
A topic of the forum holds one post, and parsing and cleaning its text is replaced by what the
importer measures in it (`Metrics`). Random choices are any choices.

Behaviours that are in the models and that no property states, because no claim of the repository is
about them. Retrying a takedown whose transaction was rolled back after its objects moved
(`ModerationBytes`): the public row then names an object that is gone, and every retry ends in
`Archive`'s failing branch. In `ChannelTransactions` a deletion of a paused release can empty a channel that another
handler has meanwhile given to a new release. `SettlesWhatItSwapped` is stated until the
first user rollback, because `RollbackAsync` works outside the gate and may swap folders between an update's
swap and its row. In `GuessContent` a run whose last statement failed, or whose process died, stays `running` for ever.
In `GuessGame` a key whose request died before its answer was stored refuses its repetition. In `GuessClient` a tab
whose CSRF token another tab's bootstrap replaced is refused until it is reloaded. A moderator's approval
of a post that an import has marked as changed at its source meanwhile is accepted, because the mark leaves the version as it
is. A change of the administration whose audit row cannot be written stands without one and is answered as an error; no
account is deactivated in `GuessAdmin`, since nothing in the program does that.

## 6. Where code and documentation disagree

Each is a property that TLC refutes by what the code does. `agent_swap` (4) and `stuck_round` (8) are
runs and findings of `PROJECT.json`; the others are the configurations kept beside the runs.

1. `HandBackServes`: rejecting a paused or stopped release hands the channel to its
   predecessor but leaves it paused, so the extension goes off line all the same.
2. `HandBackFindsApproved`: an older release approved after a newer one stays `published`
   and is not found when the newer one is rejected.
3. `LayersAgree`: bytes copied out by an approval whose transaction is rolled back stay public.
4. `OldVersionKept` with the fault `place`: when the second rename of a swap fails, the fallback
   deletes the only copy of the old version. The other three of `Lossy` break it too: a denied deletion of the old
   snapshot, or a copy of it that fails half way, sends `TryRollback` to put the partial folder over the
   intact one, and a snapshot copied over leftovers is not the old version.
5. `FailedDownloadKeepsActive`: a download that fails rolls the healthy version back.
6. `AppliedOnce`: overlapping checks apply the same update twice.
7. `ApprovalKeepsNewer`: of two releases approved at the same time the older one may commit last
   and take the channel from the newer, which `activate_channel` means to refuse.
8. `ReachesResults`: a round of the game whose time is up is read as active for ever. The
   README (`apps/guess/README.md:266`) says expiry "is checked lazily on every read"; `getCurrentRound`
   checks only the game's, the round is marked expired by a hint, whose exception rolls the mark
   back, and a guess only refuses. The page offers no way on.
9. `KeepsItsSession`: `admin-session.ts:189` says of a rotated token that "the caller's Response
   must carry this as a fresh Set-Cookie header"; the handlers of moderation, log-out,
   revocation, forum users and import runs take only `session` from the result, so the browser
   keeps a token that no row holds any more and its administrator is logged out.
10. `ApprovedAsShown`: approving a listing or a release's first version is said to make public "the
   listing shown at that moment" (`services/moderation.py:188`); the handler takes the listing as it is
   when it runs, which an edit after the page was loaded has changed.
11. `LegacyHasBytes`: `artifact_publication.py:17-20` says of grandfathered releases that their artifact is "already
   sitting in the public bucket" and that "they stay live", and `availability.py:17` that `legacy_pending` "marks
   releases that were already live". The migration marks every row: one that was still uploaded is staged by the worker
   later, and `publish_release` (lines 247-249) makes it live with no artifact in public storage.
   `LiveHasBytes` holds with exactly these (`StagedLegacy`) excepted.
12. `SentAsTested`: `unit-of-work.ts:6-7` calls the in-memory store "a faithful implementation used by every domain
   test". A player on PostgreSQL is sent rounds with empty texts and names (`drizzle-unit-of-work.ts:85-86`), and a
   round whose time is up as active, where `tests/game/unit-of-work.test.ts:205-217` sees it expired.
13. `BadgeIsCurrent`: the first publication makes a draft project active (`release_service.py:250-251`), but its
   `onSuccess` reloads only the releases (`projects/[id]/page.tsx:376-379`), and queries are not repeated when the
   window gets the focus (`providers.tsx:85`): the badge in the header (line 41) goes on showing `draft`.
14. `RemovesItsItem`: `library/page.tsx:39-40` says that putting a failed removal back cannot "race with other
   pending removes". A click on another item before the page is drawn again filters the list on the screen (line 35),
   and takes off again what was just put back.

## 7. Plan

1. *Distribution*: devices with the sequence they have, rollout buckets that are monotone
   in the percentage, reports of which the first per release is kept, the thresholds and the automatic
   stop, sequence numbers used again after a deletion, events sent before the commit. Abstract specification: a device is offered only
   a higher sequence than the one it reports, or a signed rollback.
2. *ReloadHandshake*: `PipeServer` with its connection sets, throttle and pending reloads, the
   native host and the Bridge; composed with `AgentUpdate`, where a reload is only an outcome.
3. *JobQueue*: the Redis list, the worker's retries, the sweeper's leases, the webhook outbox.
4. The remaining operations of `AgentUpdate`; the use of install links; the safe mode's cache.
