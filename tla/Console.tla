------------------------------- MODULE Console -------------------------------
(***************************************************************************)
(* The developer and moderation console: browser tabs that share one       *)
(* refresh cookie, each with an access token, a page, the data the page    *)
(* last loaded; what is typed or ticked goes with the click.  A call       *)
(* answered 401 refreshes the session and is sent again.  Several calls of *)
(* a tab may be in flight; requests and answers may be lost.               *)
(*                                                                         *)
(* A page's data is that of its own query.  The header above a project's   *)
(* tabs, with the badge of the project's status, is of the overview's      *)
(* query: the other tabs of the project load it once.                      *)
(*                                                                         *)
(* The server is one project with one release, its install links, two      *)
(* prepared decisions, one report and the user's library; a handler is one *)
(* step here.  ReleaseLifecycle and ModerationBytes take releases apart.   *)
(***************************************************************************)
EXTENDS Integers, Sequences, FiniteSets, SequencesExt

CONSTANTS
    Tabs, Slots,      \* browser tabs; the calls that may be in flight
    Scenes,           \* what may be at first: the tabs' pages, and the server's rows
    Links, Rows,      \* install links; prepared decisions of the release
    Catalog,          \* a sequence of store extensions, the user's library at first
    NoRow,
    MaxShots,         \* screenshots a listing may have
    MaxClicks, MaxTrouble, Sessions \* bounds: clicks, mishaps of the network and clock, sessions

VARIABLES
    db,               \* the server's rows
    live,             \* user_sessions that are active
    jar,              \* the refresh cookie
    tab, call,
    clicks, trouble

consoleVars == <<db, live, jar, tab, call, clicks, trouble>>

-----------------------------------------------------------------------------
\* The listing's words, whether it has an icon, and how many screenshots.
Listing == [text : {"old", "new"}, icon : BOOLEAN, shots : 0..MaxShots]

Statuses == {"absent", "validating", "validation_failed", "ready", "published",
             "superseded", "revoked", "deleted"}
Reviews == {"legacy_pending", "pending", "approved", "changes_requested", "rejected"}
Preparable == {"approve", "request_changes", "unpublish", "needs_human_review"}
ListingDecisions == {"none", "approve_listing", "listing_needs_changes",
                     "listing_needs_human_review"}

\* A prepared decision, on the release and on the listing; waits says that the release is
\* to be retired only after its replacement.
Plan == [decision : Preparable, listing : ListingDecisions, waits : BOOLEAN]

Stages == {"draft", "active"}
Items == {Catalog[i] : i \in DOMAIN Catalog}

\* The tabs of a project's page, and two of the moderation page's.
Developers == {"overview", "versions", "links"}
Moderation == {"safe", "reports"}

Pages == Developers \cup Moderation
           \cup {"review", "triage", "prepared", "listing", "library", "gallery", "left"}

Token == 0..Sessions

ASSUME ConsoleAssumption ==
    /\ \A scene \in Scenes :
         /\ scene.pages \in [Tabs -> Pages] /\ scene.plans \in [Rows -> Plan]
         /\ scene.listing \in {"approved", "legacy_pending"}
         /\ scene.review \in {"pending", "legacy_pending"}
         /\ scene.status \in {"absent", "ready", "published", "superseded"}
    /\ Catalog \in Seq(Items) /\ IsFiniteSet(Rows)
    /\ MaxShots \in Nat \ {0} /\ MaxClicks \in Nat /\ MaxTrouble \in Nat /\ Sessions \in Nat \ {0}
    /\ NoRow \notin Nat /\ NoRow \notin Links /\ NoRow \notin Rows /\ NoRow \notin Tabs

Prepared == [plan : Plan, state : {"prepared", "applied", "failed"}]

Server == [gone : BOOLEAN, public : BOOLEAN, stage : Stages,
           copy : Listing, snapshot : Listing \cup {NoRow}, listing : Reviews,
           status : Statuses, review : Reviews,
           links : [Links -> {"none", "on", "off"}],
           safe : BOOLEAN, report : {"open", "resolved", "dismissed"},
           rows : [Rows -> Prepared],
           lib : Seq(Items)]

\* What a page may show, once it has loaded something.
PageView(page) ==
    CASE page = "overview" -> [public : BOOLEAN, stage : Stages, copy : Listing]
      [] page = "versions" -> [status : Statuses, review : Reviews]
      [] page = "links"    -> [Links -> {"none", "on", "off"}]
      [] page = "safe"     -> BOOLEAN
      [] page = "reports"  -> {"open", "resolved", "dismissed"}
      [] page = "review"   -> [status : Statuses, review : Reviews, copy : Listing, live : BOOLEAN]
      [] page = "triage"   -> BOOLEAN
      [] page = "prepared" -> [Rows -> Prepared]
      [] page = "listing"  -> [snapshot : Listing \cup {NoRow}, copy : Listing, review : Reviews]
      [] page = "library"  -> Seq(Items)
      [] page = "gallery"  -> SUBSET Items
      [] OTHER -> {NoRow}

ConsoleTypeOK ==
    /\ db \in Server
    /\ live \subseteq 1..Sessions /\ jar \in Token
    /\ \A t \in Tabs : /\ tab[t].page \in Pages /\ tab[t].user \in BOOLEAN
                       /\ tab[t].token \in Token /\ tab[t].behind \in BOOLEAN
                       /\ tab[t].badge \in Stages \cup {NoRow}
    /\ \A k \in Slots : call[k] # NoRow =>
         /\ call[k].t \in Tabs /\ call[k].page \in Pages
         /\ call[k].step \in {"ask", "back", "refresh", "refreshed"}
         /\ call[k].code \in {"none", "ok", "401", "refused"}
         /\ {call[k].token, call[k].cookie, call[k].sess} \subseteq Token
    /\ clicks \in 0..MaxClicks /\ trouble \in 0..MaxTrouble

-----------------------------------------------------------------------------
(* The server's handlers: the state after, and the answer. *)

Did(st) == [st |-> st, code |-> "ok"]
Refused(st) == [st |-> st, code |-> "refused"]

Live(st) == st.status = "published" /\ st.review \in {"approved", "legacy_pending"}

\* mark_listing_dirty
Dirty(st) ==
    IF st.listing # "legacy_pending" /\ st.snapshot # NoRow /\ st.snapshot # st.copy
    THEN [st EXCEPT !.listing = "pending"] ELSE st

\* approve_listing takes the copy of the moment, whatever copy the page showed.
ApproveListing(st) == [st EXCEPT !.snapshot = st.copy, !.listing = "approved"]

UnlimitedShots(st) == FALSE
Full(st) == st.copy.shots = MaxShots

OnProject(st, do, arg) ==
    CASE do = "visibility" -> Did([st EXCEPT !.public = arg])
      [] do = "save"   -> Did(Dirty([st EXCEPT !.copy.text = arg]))
      [] do = "icon"   -> Did(Dirty([st EXCEPT !.copy.icon = TRUE]))
      [] do = "unicon" -> Did(Dirty([st EXCEPT !.copy.icon = FALSE]))
      [] do = "shot"   -> IF Full(st) THEN Refused(st)
                          ELSE Did(Dirty([st EXCEPT !.copy.shots = @ + 1]))
      [] do = "unshot" -> IF st.copy.shots = 0 THEN Refused(st)
                          ELSE Did(Dirty([st EXCEPT !.copy.shots = @ - 1]))
      [] do = "delete" -> Did([st EXCEPT !.gone = TRUE])

OnVersions(st, do) ==
    CASE do = "upload"   -> IF st.status # "absent" THEN Refused(st)
                            ELSE Did([st EXCEPT !.status = "validating", !.review = "pending"])
      [] do = "publish"  -> IF st.status = "ready" /\ st.review \notin {"rejected", "changes_requested"}
                            THEN Did([st EXCEPT !.status = "published", !.stage = "active"])
                            ELSE Refused(st)
      [] do = "rollback" -> IF st.review \in {"approved", "legacy_pending"}
                               /\ st.status \in {"superseded", "published", "revoked"}
                            THEN Did([st EXCEPT !.status = "published"]) ELSE Refused(st)
      [] do = "remove"   -> IF st.status \notin {"absent", "deleted"} /\ ~Live(st)
                            THEN Did([st EXCEPT !.status = "deleted"]) ELSE Refused(st)

\* The names of the links are the bound: with none left, no link is made.
OnLinks(st, do, l) ==
    CASE do = "create" -> IF \A m \in Links : st.links[m] # "none" THEN Refused(st)
                          ELSE Did([st EXCEPT !.links[CHOOSE m \in Links : st.links[m] = "none"] = "on"])
      [] do \in {"on", "off"} -> IF st.links[l] = "none" THEN Refused(st)
                                 ELSE Did([st EXCEPT !.links[l] = do])
      [] do = "remove" -> Did([st EXCEPT !.links[l] = "none"])

\* approve_release carries a pending listing along.
Approve(st, too) ==
    LET cleared == [st EXCEPT !.review = "approved"] IN
    IF st.status \in {"absent", "validating", "validation_failed", "deleted"} THEN Refused(st)
    ELSE Did(IF too /\ st.listing \in {"pending", "legacy_pending"}
             THEN ApproveListing(cleared) ELSE cleared)

\* reject_release and unpublish_release revoke the release, request_changes does not.
OnRelease(st, do) ==
    IF st.status \in {"absent", "deleted"} THEN Refused(st)
    ELSE CASE do = "approve" -> Approve(st, TRUE)
           [] do = "request-changes" -> Did([st EXCEPT !.review = "changes_requested"])
           [] do \in {"reject", "unpublish"} ->
                 Did([st EXCEPT !.review = "rejected", !.status = "revoked"])

OnListing(st, do) ==
    IF do = "approve" THEN Did(ApproveListing(st)) ELSE Did([st EXCEPT !.listing = "rejected"])

Takedowns == {"request_changes", "unpublish"}

\* _blocking_reason, for a build that has not changed and reasons that were given: with
\* one release no newer one is ever active, and a takedown that waits for it never runs.
Blocked(row) ==
    \/ row.state = "applied" \/ row.plan.decision = "needs_human_review"
    \/ row.plan.waits /\ row.plan.decision \in Takedowns

DecidedToo(st) == TRUE
Undecided(st) == st.review \in {"pending", "legacy_pending"}

\* _apply_listing: what was prepared for the listing itself.
ApplyListing(st, decision) ==
    CASE decision = "approve_listing" /\ st.listing \in {"pending", "legacy_pending"} ->
            ApproveListing(st)
      [] decision = "listing_needs_changes" -> [st EXCEPT !.listing = "rejected"]
      [] OTHER -> st

\* _apply_one: a row that may not run is skipped, one that fails is marked.  An approval
\* carries the listing along only where nothing else was prepared for it.
ApplyOne(st, r) ==
    LET plan == st.rows[r].plan
        done == CASE plan.decision = "approve" ->
                       Approve(st, plan.listing \in {"none", "approve_listing"})
                  [] plan.decision = "request_changes" -> OnRelease(st, "request-changes")
                  [] OTHER -> OnRelease(st, "unpublish")
    IN  IF Blocked(st.rows[r]) \/ ~Undecided(st) \/ st.status \in {"absent", "deleted"} THEN st
        ELSE IF done.code = "ok"
             THEN [ApplyListing(done.st, plan.listing) EXCEPT !.rows[r].state = "applied"]
        ELSE [st EXCEPT !.rows[r].state = "failed"]

\* The rows of a batch, one after the other.
ApplyBatch(st, ids) ==
    LET order == SetToSeq(ids)
        after[i \in 0..Cardinality(ids)] == IF i = 0 THEN st ELSE ApplyOne(after[i - 1], order[i])
    IN  after[Cardinality(ids)]

\* Newest first; the additions of one batch are in no order.
AddToLibrary(st, wanted) ==
    [st EXCEPT !.lib = SetToSeq(wanted \ ToSet(st.lib)) \o @]

OnLibrary(st, do, arg) ==
    CASE do = "take" -> Did([st EXCEPT !.lib = RemoveFirst(@, arg.item)])
      [] do = "installAll" -> IF st.lib = <<>> THEN Refused(st) ELSE Did(st)

\* A click's handler.  A deleted project answers none of its own pages; its release is
\* still moderated.
Effect(st, page, do, arg) ==
    IF page \in Developers \cup {"listing"} /\ st.gone THEN Refused(st)
    ELSE CASE page = "overview" -> OnProject(st, do, arg)
           [] page = "versions" -> OnVersions(st, do)
           [] page = "links"    -> OnLinks(st, do, arg)
           [] page = "safe"     -> Did([st EXCEPT !.safe = arg])
           [] page = "reports"  -> Did([st EXCEPT !.report = do])
           [] page \in {"review", "triage"} -> OnRelease(st, do)
           [] page = "listing"  -> OnListing(st, do)
           [] page = "prepared" -> Did(ApplyBatch(st, arg))
           [] page = "library"  -> OnLibrary(st, do, arg)
           [] page = "gallery"  -> Did(AddToLibrary(st, arg))

-----------------------------------------------------------------------------
(* What a page's queries return: as much as its reader sees of it. *)

Project(st) == [public |-> st.public, stage |-> st.stage, copy |-> st.copy]

Release(st) == [status |-> st.status, review |-> st.review]

ModerationDetail(st) ==
    [status |-> st.status, review |-> st.review, copy |-> st.copy, live |-> Live(st)]

\* Whether the release is on the list of live ones that nobody has reviewed.
TriageRow(st) == Live(st) /\ st.review = "legacy_pending"

ListingDetail(st) == [snapshot |-> st.snapshot, copy |-> st.copy, review |-> st.listing]

View(st, page) ==
    CASE page = "overview" -> Project(st)
      [] page = "versions" -> Release(st)
      [] page = "links"    -> st.links
      [] page = "safe"     -> st.safe
      [] page = "reports"  -> st.report
      [] page = "review"   -> ModerationDetail(st)
      [] page = "triage"   -> TriageRow(st)
      [] page = "prepared" -> st.rows
      [] page = "listing"  -> ListingDetail(st)
      [] page = "library"  -> st.lib
      [] page = "gallery"  -> ToSet(st.lib)
      [] OTHER -> NoRow

-----------------------------------------------------------------------------
(* The mutations of a page after which it loads its data again. *)

ProjectMutations == {"visibility", "save", "icon", "unicon", "shot", "unshot"}
NoReloadOnPublish == {"upload", "rollback", "remove"}
ReleaseMutations == {"upload", "publish", "rollback", "remove"}
LinkMutations == {"create", "on", "off", "remove"}
ReportMutations == {"open", "resolved", "dismissed"}
TriageVerdicts == {"approve", "request-changes", "unpublish"}

Invalidates(page, do) ==
    CASE page = "overview" -> do \in ProjectMutations
      [] page = "versions" -> do \in ReleaseMutations
      [] page = "links"    -> do \in LinkMutations
      [] page = "safe"     -> do = "safe"
      [] page = "reports"  -> do \in ReportMutations
      [] page = "triage"   -> do \in TriageVerdicts
      [] page = "prepared" -> do = "apply"
      [] OTHER -> FALSE

\* Those after which it makes way for another page.
Verdicts == {"approve", "reject", "request-changes", "unpublish"}
ListingVerdicts == {"approve", "reject"}

Leaves(page, do) ==
    \/ page = "overview" /\ do = "delete"
    \/ page = "review" /\ do \in Verdicts
    \/ page = "listing" /\ do \in ListingVerdicts

-----------------------------------------------------------------------------
(* What a page lets its reader click, given what it loaded. *)

Click(t, do, arg) == [t |-> t, page |-> tab[t].page, do |-> do, arg |-> arg]
When(cond, S) == IF cond THEN S ELSE {}
Mine(t) == {k \in Slots : call[k] # NoRow /\ call[k].t = t}

\* isPending of one of the page's mutations.
Pending(t, does) == \E k \in Mine(t) : call[k].do \in does

\* isPending of a mutation that may be started again speaks of its last call.
SendsIcon(t) == \E k \in Mine(t) : k = tab[t].latest /\ call[k].do = "icon"

OverviewTab(t, v) ==
    When(~Pending(t, {"visibility"}), {Click(t, "visibility", ~v.public)})
      \cup When(~Pending(t, {"save"}), {Click(t, "save", text) : text \in {"old", "new"} \ {v.copy.text}})
      \cup {Click(t, "icon", NoRow)}
      \cup When(v.copy.icon /\ ~Pending(t, {"unicon"}) /\ ~SendsIcon(t),
                {Click(t, "unicon", NoRow)})
      \cup When(v.copy.shots < MaxShots /\ ~Pending(t, {"shot"}), {Click(t, "shot", NoRow)})
      \cup When(v.copy.shots > 0 /\ ~Pending(t, {"unshot"}), {Click(t, "unshot", NoRow)})
      \cup When(~Pending(t, {"delete"}), {Click(t, "delete", NoRow)})

\* Every mutation but rollback is disabled while it is under way.
VersionsTab(t, v) ==
    When(v.status = "absent" /\ ~Pending(t, {"upload"}), {Click(t, "upload", NoRow)})
      \cup When(v.status = "ready" /\ ~Pending(t, {"publish"}), {Click(t, "publish", NoRow)})
      \cup When(v.status \in {"superseded", "published"}, {Click(t, "rollback", NoRow)})
      \cup When(v.status \notin {"absent", "deleted", "published", "validating"}
                /\ ~Pending(t, {"remove"}), {Click(t, "remove", NoRow)})

LinksTab(t, v) ==
    When(~Pending(t, {"create"}), {Click(t, "create", NoRow)})
      \cup When(~Pending(t, {"on", "off"}),
                {Click(t, IF v[l] = "on" THEN "off" ELSE "on", l) : l \in {m \in Links : v[m] # "none"}})
      \cup When(~Pending(t, {"remove"}),
                {Click(t, "remove", l) : l \in {m \in Links : v[m] # "none"}})

\* The switch asks for the opposite of what it shows.
SafeModeCard(t, v) == When(~Pending(t, {"safe"}), {Click(t, "safe", ~v)})

ReportsTab(t, v) ==
    When(~Pending(t, ReportMutations),
         IF v = "open" THEN {Click(t, "resolved", NoRow), Click(t, "dismissed", NoRow)}
         ELSE {Click(t, "open", NoRow)})

\* What a verdict's click carries is the listing on the screen: only the approvals use it.
ReviewPage(t, v) ==
    When(~Pending(t, Verdicts),
         {Click(t, do, v.copy) : do \in IF v.live THEN Verdicts ELSE Verdicts \ {"unpublish"}})

TriagePage(t, v) ==
    When(v /\ ~Pending(t, TriageVerdicts), {Click(t, do, NoRow) : do \in TriageVerdicts})

Runnable(v) == {r \in Rows : v[r].state = "prepared" /\ ~Blocked(v[r])}

\* What may be left out, one by one or a verdict at a time, leaves any rows there are.
Selections(v) == SUBSET Runnable(v) \ {{}}

PreparedPage(t, v) ==
    When(~Pending(t, {"apply"}), {Click(t, "apply", chosen) : chosen \in Selections(v)})

ListingPage(t, v) ==
    When(~Pending(t, ListingVerdicts), {Click(t, do, v.copy) : do \in ListingVerdicts})

\* What is on the screen may be older than the list.
LibraryPage(t, v) ==
    {Click(t, "take", [item |-> v[i], index |-> i]) : i \in DOMAIN v}
      \cup When(v # <<>> /\ ~Pending(t, {"installAll"}), {Click(t, "installAll", NoRow)})

\* Only extensions that are not in the library can be picked.
Picks(v) == SUBSET (Items \ v) \ {{}}

GalleryPage(t, v) ==
    When(~Pending(t, {"finish"}), {Click(t, "finish", picked) : picked \in Picks(v)})

Offers(t) ==
    LET v == tab[t].view IN
    IF ~tab[t].user \/ v = NoRow THEN {}
    ELSE CASE tab[t].page = "overview" -> OverviewTab(t, v)
           [] tab[t].page = "versions" -> VersionsTab(t, v)
           [] tab[t].page = "links"    -> LinksTab(t, v)
           [] tab[t].page = "safe"     -> SafeModeCard(t, v)
           [] tab[t].page = "reports"  -> ReportsTab(t, v)
           [] tab[t].page = "review"   -> ReviewPage(t, v)
           [] tab[t].page = "triage"   -> TriagePage(t, v)
           [] tab[t].page = "prepared" -> PreparedPage(t, v)
           [] tab[t].page = "listing"  -> ListingPage(t, v)
           [] tab[t].page = "library"  -> IF tab[t].shown = NoRow THEN {} ELSE LibraryPage(t, tab[t].shown)
           [] tab[t].page = "gallery"  -> GalleryPage(t, v)
           [] OTHER -> {}

-----------------------------------------------------------------------------
(* Calls. *)

\* What a click carries.
Carried(do) ==
    CASE do \in {"visibility", "safe"} -> BOOLEAN
      [] do = "save" -> {"old", "new"}
      [] do \in LinkMutations -> Links \cup {NoRow}
      [] do \in Verdicts -> Listing \cup {NoRow}
      [] do = "apply" -> SUBSET Rows
      [] do = "take" -> [item : Items, index : Nat \ {0}]
      [] do = "finish" -> SUBSET Items
      [] OTHER -> {NoRow}

Call(page, do) ==
    [t : Tabs, page : {page}, do : {do}, arg : Carried(do),
     step : {"ask", "back", "refresh", "refreshed"}, again : BOOLEAN,
     code : {"none", "ok", "401", "refused"}, view : PageView(page) \cup {NoRow},
     badge : Stages \cup {NoRow},
     token : Token, cookie : Token, sess : Token]

Session == {"load", "me", "restore", "login", "logout"}

Clicks == ProjectMutations \cup ReleaseMutations \cup LinkMutations \cup ReportMutations
            \cup Verdicts \cup {"delete", "safe", "apply", "take", "installAll", "finish"}

ASSUME NoCallAssumption ==
    \A page \in Pages, do \in Session \cup Clicks : NoRow \notin Call(page, do)

NewCall(click, token) ==
    [t |-> click.t, page |-> click.page, do |-> click.do, arg |-> click.arg,
     step |-> "ask", again |-> FALSE, code |-> "none", view |-> NoRow,
     badge |-> NoRow, token |-> token, cookie |-> jar, sess |-> 0]

\* A page's query that is sent again takes the place of the one under way, whose answer is
\* ignored; the library's loads are no queries, and all are heard.
Loads(t) == {j \in Mine(t) : call[j].do = "load" /\ call[j].page # "library"}

\* Slot k takes call c, and the loads that c supersedes are let go.
Put(k, c) ==
    [j \in Slots |-> IF j = k THEN c
                     ELSE IF c # NoRow /\ c.do = "load" /\ c.page # "library" /\ j \in Loads(c.t)
                          THEN NoRow
                     ELSE call[j]]

Query(t, page, token) ==
    NewCall([t |-> t, page |-> page, do |-> "load", arg |-> NoRow], token)

Free == {k \in Slots : call[k] = NoRow}

\* The slots are alike.
Slot == CHOOSE k \in Free : TRUE

FreshTab(page) == [page |-> page, user |-> TRUE, token |-> 1, view |-> NoRow, shown |-> NoRow,
                   seen |-> {}, badge |-> NoRow, latest |-> NoRow, behind |-> FALSE]

\* Both tabs are signed in; an approved extension or one that predates moderation.
ConsoleInit ==
    /\ \E scene \in Scenes :
        LET copy == [text |-> "old", icon |-> FALSE, shots |-> MaxShots - 1] IN
        /\ db = [gone |-> FALSE, public |-> TRUE,
                 stage |-> IF scene.status \in {"absent", "ready"} THEN "draft" ELSE "active",
                 copy |-> copy,
                 snapshot |-> IF scene.listing = "approved" THEN copy ELSE NoRow,
                 listing |-> scene.listing, status |-> scene.status, review |-> scene.review,
                 links |-> [l \in Links |-> "none"], safe |-> FALSE, report |-> "open",
                 rows |-> [r \in Rows |-> [plan |-> scene.plans[r], state |-> "prepared"]],
                 lib |-> Catalog]
        /\ tab = [t \in Tabs |-> FreshTab(scene.pages[t])]
    /\ live = {1} /\ jar = 1
    /\ call = [k \in Slots |-> NoRow]
    /\ clicks = 0 /\ trouble = 0

\* A page is opened: its queries are sent.
Open(t) ==
    /\ tab[t].user /\ tab[t].view = NoRow /\ tab[t].page # "left" /\ Mine(t) = {} /\ Free # {}
    /\ call' = Put(Slot, Query(t, tab[t].page, tab[t].token))
    /\ UNCHANGED <<db, live, jar, tab, clicks, trouble>>

\* The library takes the item off its list before the server has answered: off the list
\* on the screen, which overwrites what came to the list since it was drawn.
TakeOff(t, index) ==
    LET rest == RemoveAt(tab[t].shown, index) IN
    [tab EXCEPT ![t].view = rest, ![t].shown = rest,
                ![t].seen = @ \ (ToSet(tab[t].view) \ ToSet(tab[t].shown))]

\* A click.
Press(t) ==
    /\ clicks < MaxClicks /\ Free # {}
    /\ \E click \in Offers(t) :
        /\ call' = Put(Slot, NewCall(click, tab[t].token))
        /\ tab' = IF click.do = "take" THEN TakeOff(t, click.arg.index)
                  ELSE IF click.do = "icon" THEN [tab EXCEPT ![t].latest = Slot]
                  ELSE tab
    /\ clicks' = clicks + 1
    /\ UNCHANGED <<db, live, jar, trouble>>

\* The library's list is drawn.
Render(t) ==
    /\ tab[t].page = "library" /\ tab[t].shown # tab[t].view
    /\ tab' = [tab EXCEPT ![t].shown = tab[t].view]
    /\ UNCHANGED <<db, live, jar, call, clicks, trouble>>

-----------------------------------------------------------------------------
(* Sessions. *)

\* A number no holder uses.
Held == live \cup {jar} \cup {tab[t].token : t \in Tabs}
          \cup UNION {{call[k].token, call[k].cookie, call[k].sess} : k \in Slots \ Free}

Unheld == (1..Sessions) \ Held

NewSession == CHOOSE n \in Unheld : \A m \in Unheld : n <= m

\* The access token's hour is over.
Expire(t) ==
    /\ trouble < MaxTrouble /\ tab[t].token # 0
    /\ trouble' = trouble + 1
    /\ tab' = [tab EXCEPT ![t].token = 0]
    /\ UNCHANGED <<db, live, jar, call, clicks>>

\* rotate_refresh: a token that was replaced or revoked before ends every session.
ServeRefresh(k) ==
    /\ call[k] # NoRow /\ call[k].step = "refresh"
    /\ IF call[k].cookie \in live
       THEN /\ Unheld # {}
            /\ live' = (live \ {call[k].cookie}) \cup {NewSession}
            /\ call' = [call EXCEPT ![k].step = "refreshed", ![k].code = "ok", ![k].sess = NewSession]
       ELSE /\ live' = IF call[k].cookie = 0 THEN live ELSE {}
            /\ call' = [call EXCEPT ![k].step = "refreshed", ![k].code = "401"]
    /\ UNCHANGED <<db, jar, tab, clicks, trouble>>

\* A call that ends with nothing to follow it.
End(k) == call' = Put(k, NoRow)

\* The page is told that nobody is signed in.
onAuthLost(t) == tab' = [tab EXCEPT ![t].user = FALSE, ![t].view = NoRow, ![t].behind = TRUE]

Uploads == {"icon", "shot", "upload"}

KeepOff(view, arg) == view

\* A removal that failed puts its item back where it was, unless the list has it again.
PutBack(view, arg) ==
    IF view = NoRow \/ arg.item \in ToSet(view) THEN view
    ELSE InsertAt(view, IF arg.index <= Len(view) THEN arg.index ELSE Len(view) + 1, arg.item)

\* Installing all of a library whose extensions may have gone lists it again.
ReloadLibrary(k) == call' = Put(k, Query(call[k].t, "library", tab[call[k].t].token))

\* A call that failed: most pages say so and keep what they show.
Failed(k, lost) ==
    LET t == call[k].t
        told == [tab EXCEPT ![t].behind = @ \/ lost]
    IN  CASE call[k].do = "take" ->
               End(k) /\ tab' = [told EXCEPT ![t].view = PutBack(@, call[k].arg)]
          [] call[k].do = "installAll" -> tab' = told /\ ReloadLibrary(k)
          [] call[k].do \in {"me", "restore"} -> End(k) /\ onAuthLost(t)
          [] call[k].do = "logout" ->
               End(k) /\ tab' = [tab EXCEPT ![t].user = FALSE, ![t].token = 0, ![t].view = NoRow]
          [] OTHER -> End(k) /\ tab' = told

\* The answer to a refresh: the call is sent again, or nobody is signed in; an upload
\* that cannot be sent again only fails.
HearRefresh(k) ==
    LET t == call[k].t IN
    /\ call[k] # NoRow /\ call[k].step = "refreshed"
    /\ IF call[k].code = "ok"
       THEN /\ jar' = call[k].sess
            /\ tab' = [tab EXCEPT ![t].token = call[k].sess]
            /\ call' = [call EXCEPT ![k].step = "ask", ![k].again = call[k].do # "restore",
                          ![k].do = IF call[k].do = "restore" THEN "me" ELSE call[k].do,
                          ![k].code = "none", ![k].token = call[k].sess,
                          ![k].cookie = call[k].sess, ![k].sess = 0]
       ELSE /\ IF call[k].do \in Uploads THEN Failed(k, TRUE) ELSE End(k) /\ onAuthLost(t)
            /\ UNCHANGED jar
    /\ UNCHANGED <<db, live, clicks, trouble>>

\* A tab that is loaded anew restores the session by its cookie.
Reload(t) ==
    /\ clicks < MaxClicks /\ Mine(t) = {} /\ Free # {}
    /\ clicks' = clicks + 1
    /\ tab' = [tab EXCEPT ![t] = [FreshTab(@.page) EXCEPT !.user = FALSE, !.token = 0]]
    /\ call' = Put(Slot, [NewCall([t |-> t, page |-> tab[t].page, do |-> "restore",
                                   arg |-> NoRow], 0) EXCEPT !.step = "refresh"])
    /\ UNCHANGED <<db, live, jar, trouble>>

Sign(t, do) ==
    /\ clicks < MaxClicks /\ Mine(t) = {} /\ Free # {}
    /\ clicks' = clicks + 1
    /\ call' = Put(Slot, NewCall([t |-> t, page |-> tab[t].page, do |-> do, arg |-> NoRow],
                                 tab[t].token))
    /\ UNCHANGED <<db, live, jar, tab, trouble>>

login(t) == ~tab[t].user /\ Sign(t, "login")

logout(t) == tab[t].user /\ Sign(t, "logout")

\* POST /auth/login and /auth/logout.  A wrong password is answered 401 like an expired
\* token, and so refreshes the session and is tried again.
ServeLogin(k) ==
    /\ call[k] # NoRow /\ call[k].step = "ask" /\ call[k].do = "login"
    /\ \/ /\ Unheld # {}
          /\ live' = live \cup {NewSession}
          /\ call' = [call EXCEPT ![k].step = "back", ![k].code = "ok", ![k].sess = NewSession]
          /\ UNCHANGED trouble
       \/ /\ trouble < MaxTrouble
          /\ trouble' = trouble + 1
          /\ call' = [call EXCEPT ![k].step = "back", ![k].code = "401"]
          /\ UNCHANGED live
    /\ UNCHANGED <<db, jar, tab, clicks>>

ServeLogout(k) ==
    /\ call[k] # NoRow /\ call[k].step = "ask" /\ call[k].do = "logout"
    /\ live' = live \ {call[k].cookie}
    /\ call' = [call EXCEPT ![k].step = "back", ![k].code = "ok"]
    /\ UNCHANGED <<db, jar, tab, clicks, trouble>>

-----------------------------------------------------------------------------
(* A page's call at the server, and its answer. *)

\* Other tabs whose page shows something that has just changed are behind.
Behind(t, st) ==
    [u \in Tabs |-> [tab[u] EXCEPT !.behind =
        @ \/ (u # t /\ (st.gone # db.gone \/ View(st, tab[u].page) # View(db, tab[u].page)))]]

ServeLoad(k) ==
    LET t == call[k].t
        found == ~(db.gone /\ call[k].page \in Developers \cup {"listing"})
    IN  /\ call[k] # NoRow /\ call[k].step = "ask" /\ call[k].do \in {"load", "me"}
        /\ IF call[k].token \notin live
           THEN call' = [call EXCEPT ![k].step = "back", ![k].code = "401"] /\ UNCHANGED tab
           ELSE /\ call' = [call EXCEPT ![k].step = "back",
                              ![k].code = IF found \/ call[k].do = "me" THEN "ok" ELSE "refused",
                              ![k].view = IF call[k].do = "me" THEN NoRow ELSE View(db, call[k].page),
                              ![k].badge = IF call[k].do = "load" /\ call[k].page \in Developers
                                           THEN db.stage ELSE NoRow]
                /\ tab' = [tab EXCEPT ![t].behind = @ /\ ~(found /\ call[k].do = "load")]
        /\ UNCHANGED <<db, live, jar, clicks, trouble>>

Serve(k) ==
    /\ call[k] # NoRow /\ call[k].step = "ask"
    /\ call[k].do \notin Session
    /\ IF call[k].token \notin live
       THEN call' = [call EXCEPT ![k].step = "back", ![k].code = "401"] /\ UNCHANGED <<db, tab>>
       ELSE LET made == Effect(db, call[k].page, call[k].do, call[k].arg) IN
            /\ db' = made.st
            /\ tab' = Behind(call[k].t, made.st)
            /\ call' = [call EXCEPT ![k].step = "back", ![k].code = made.code]
    /\ UNCHANGED <<live, jar, clicks, trouble>>

\* The answer to a query is what the page shows; what opens the page brings its header.
Loaded(k) ==
    LET t == call[k].t IN
    /\ End(k)
    /\ tab' = [tab EXCEPT ![t].view = IF tab[t].page = call[k].page THEN call[k].view ELSE @,
                  ![t].seen = IF call[k].page = "library" THEN ToSet(call[k].view) ELSE {},
                  ![t].badge = IF tab[t].view = NoRow THEN call[k].badge ELSE @]

\* Someone is signed in, and the page asks for its data.
refreshMe(k) ==
    LET t == call[k].t IN
    /\ tab' = [tab EXCEPT ![t].user = TRUE]
    /\ call' = Put(k, IF tab[t].page = "left" THEN NoRow ELSE Query(t, tab[t].page, tab[t].token))

\* The gallery's additions are done: on to the library.
finish(k) ==
    LET t == call[k].t IN
    /\ tab' = [tab EXCEPT ![t].page = "library", ![t].view = NoRow]
    /\ call' = Put(k, Query(t, "library", tab[t].token))

Accept(k) ==
    LET t == call[k].t IN
    IF call[k].do = "load" THEN Loaded(k)
    ELSE IF call[k].do = "me" THEN refreshMe(k)
    ELSE IF call[k].do = "finish" THEN finish(k)
    ELSE IF call[k].do = "take" THEN End(k) /\ tab' = [tab EXCEPT ![t].seen = @ \ {call[k].arg.item}]
    ELSE IF Leaves(call[k].page, call[k].do)
         THEN End(k) /\ tab' = [tab EXCEPT ![t].page = "left", ![t].view = NoRow]
    ELSE IF Invalidates(call[k].page, call[k].do) /\ tab[t].user
         THEN call' = Put(k, Query(t, call[k].page, tab[t].token)) /\ UNCHANGED tab
    ELSE End(k) /\ UNCHANGED tab

\* A sign-in's answer sets the cookie and the token, a sign-out's clears them.
Signed(k) ==
    LET t == call[k].t IN
    IF call[k].do = "login"
    THEN /\ jar' = call[k].sess
         /\ tab' = [tab EXCEPT ![t] = [FreshTab(@.page) EXCEPT !.user = FALSE, !.token = call[k].sess]]
         /\ call' = [call EXCEPT ![k].do = "me", ![k].step = "ask", ![k].again = FALSE,
                       ![k].code = "none", ![k].token = call[k].sess, ![k].cookie = call[k].sess,
                       ![k].sess = 0]
    ELSE /\ jar' = 0
         /\ Failed(k, FALSE)

\* The answer.  The first 401 is followed by a refresh with the cookie of the moment.
Hear(k) ==
    /\ call[k] # NoRow /\ call[k].step = "back"
    /\ IF call[k].code = "401" /\ ~call[k].again
       THEN /\ call' = [call EXCEPT ![k].step = "refresh", ![k].code = "none", ![k].cookie = jar]
            /\ UNCHANGED <<jar, tab>>
       ELSE IF call[k].code # "ok" THEN Failed(k, call[k].code = "401") /\ UNCHANGED jar
       ELSE IF call[k].do \in {"login", "logout"} THEN Signed(k)
       ELSE Accept(k) /\ UNCHANGED jar
    /\ UNCHANGED <<db, live, clicks, trouble>>

\* A request or its answer is lost.  A lost refresh counts as one that was refused.
Lose(k) ==
    /\ call[k] # NoRow /\ trouble < MaxTrouble
    /\ trouble' = trouble + 1
    /\ IF call[k].step \in {"refresh", "refreshed"} /\ call[k].do \notin Uploads \cup {"take"}
       THEN End(k) /\ onAuthLost(call[k].t) ELSE Failed(k, TRUE)
    /\ UNCHANGED <<db, live, jar, clicks>>

\* The worker finishes the scan; a page that shows it under way polls.
Validated ==
    /\ db.status = "validating"
    /\ \E status \in {"ready", "validation_failed"} :
        /\ db' = [db EXCEPT !.status = status]
        /\ tab' = Behind(NoRow, db')
    /\ UNCHANGED <<live, jar, call, clicks, trouble>>

Poll(t) ==
    /\ tab[t].page = "versions" /\ tab[t].view # NoRow /\ tab[t].view.status = "validating"
    /\ tab[t].user /\ tab[t].behind /\ Loads(t) = {} /\ Free # {}
    /\ call' = Put(Slot, Query(t, "versions", tab[t].token))
    /\ UNCHANGED <<db, live, jar, tab, clicks, trouble>>

ConsoleNext ==
    \/ \E t \in Tabs :
         \/ Open(t) \/ Press(t) \/ Render(t) \/ Reload(t) \/ login(t) \/ logout(t) \/ Expire(t) \/ Poll(t)
    \/ \E k \in Slots :
         \/ ServeLoad(k) \/ Serve(k) \/ ServeLogin(k) \/ ServeLogout(k) \/ Hear(k)
         \/ ServeRefresh(k) \/ HearRefresh(k) \/ Lose(k)
    \/ Validated

ConsoleSpec == ConsoleInit /\ [][ConsoleNext]_consoleVars

-----------------------------------------------------------------------------
(* Properties. *)

\* A page at rest shows what its query would return now, unless another tab or the worker changed it
\* since it asked, or the network failed it: whichever of its own clicks overlapped, and
\* in whatever order their answers and the loads that follow them arrive.  The library
\* loads nothing after a removal: NothingHidden is about it.  The header of the versions
\* and the links page is no part of their query: BadgeIsCurrent is about it.
AtRestIsCurrent ==
    \A t \in Tabs :
        tab[t].user /\ tab[t].view # NoRow /\ Mine(t) = {} /\ ~tab[t].behind
        /\ tab[t].page # "library" =>
            tab[t].view = View(db, tab[t].page)

\* The library page hides nothing: what it loaded and the server still keeps is on the
\* list or being removed, also when removals fail, overlap, or cross with a load; what a
\* click on a list not yet redrawn overwrote is not counted as seen (RemovesItsItem).
NothingHidden ==
    \A t \in Tabs :
        tab[t].page = "library" /\ tab[t].view # NoRow =>
            \A x \in tab[t].seen \cap ToSet(db.lib) :
                \/ x \in ToSet(tab[t].view)
                \/ \E k \in Mine(t) : call[k].do = "take" /\ call[k].arg.item = x

\* Removing one extension takes no other off the list.  In the code it may: a click on a
\* list that is not yet redrawn takes off what was put back since.
RemovesItsItem ==
    [][\A t \in Tabs :
         clicks' # clicks /\ tab[t].page = "library" /\ NoRow \notin {tab[t].view, tab'[t].view} =>
             Cardinality(ToSet(tab[t].view) \ ToSet(tab'[t].view)) <= 1]_consoleVars

\* The badge of the project's status above the versions and the links is right at rest,
\* while no other tab is on the project's pages.  In the code it is not: the first
\* publication makes the draft active, and only the list of releases is loaded again.
BadgeIsCurrent ==
    \A t \in Tabs :
        /\ tab[t].user /\ tab[t].view # NoRow /\ Mine(t) = {} /\ ~tab[t].behind
        /\ tab[t].page \in {"versions", "links"}
        /\ \A u \in Tabs \ {t} : tab[u].page \notin Developers
        => tab[t].badge = db.stage

\* Prepared decisions for one release, of two batches, never overrule each other or what
\* a moderator decided meanwhile on another page, however often they are applied.
OneDecisionApplied ==
    Cardinality({r \in Rows : db.rows[r].state = "applied"}) <= 1

\* "The listing shown at that moment becomes the approved one": an approval makes public
\* the words its page showed.
ApprovedAsShown ==
    [][\A k \in Slots :
         call[k] # NoRow /\ call[k].do = "approve" /\ call[k].page \in {"review", "listing"}
         /\ db'.snapshot # db.snapshot /\ call'[k] # call[k] =>
             db'.snapshot.text = call[k].arg.text]_consoleVars
=============================================================================
