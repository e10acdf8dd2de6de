------------------------------- MODULE GuessAdmin -------------------------------
(***************************************************************************)
(* Signing in to the game's administration: accounts with their lockout,   *)
(* sessions that renew themselves and rotate their token, tabs that keep a *)
(* CSRF token in memory and share a browser's cookie, the dialog that asks *)
(* for the password again after a reload, and the calls that change        *)
(* something: the content (an eligibility override, a moderation decision, *)
(* an import: see GuessContent), other sessions, this session.  A change   *)
(* authenticates, renews its session and runs in three steps, and its      *)
(* request takes time as its answer does; a log-in is served as it is      *)
(* sent, and a read is one step.                                           *)
(***************************************************************************)
EXTENDS Integers, FiniteSets

CONSTANTS
    Admins, Tabs,         \* tabs of one browser
    NoRow,
    SessionAge, AbsoluteMax, RotateWindow, \* ADMIN_SESSION_MAX_AGE_MS, _ABSOLUTE_MAX_MS, _ROTATION_WINDOW_MS
    MaxFailed, Lockout,   \* MAX_FAILED_LOGIN_ATTEMPTS, ACCOUNT_LOCKOUT_MS
    MaxLogins, MaxClock, MaxTrouble \* bounds: sessions, clock, lost messages and refusals

ASSUME AdminAssumption ==
    /\ {SessionAge, AbsoluteMax, MaxFailed, MaxLogins} \subseteq Nat \ {0}
    /\ {RotateWindow, Lockout, MaxClock, MaxTrouble} \subseteq Nat
    /\ SessionAge <= AbsoluteMax
    /\ NoRow \notin Admins

VARIABLES
    clock, trouble,
    account,    \* admin_user
    sess,       \* admin_session
    jar,        \* the browser's guess_admin_session cookie
    tab,        \* each tab's auth context and client module
    check,      \* the session check a tab makes when it is loaded
    call        \* the call a tab waits for

vars == <<clock, trouble, account, sess, jar, tab, check, call>>

-----------------------------------------------------------------------------
Logins == 1..MaxLogins
Mutations == {"change", "revoke", "logout"}
Account == [failed : 0..MaxFailed + MaxTrouble, lockedUntil : 0..MaxClock + Lockout]

\* A session is named by the log-in that made it, and its token by its rotations.  The
\* CSRF token issued with it never changes: a tab that holds it holds the log-in's name.
Session == [admin : Admins, token : Nat, created : Nat, expires : Nat, revoked : BOOLEAN]
Cookie == [id : Logins, token : Nat]

Renewal == [rotate : BOOLEAN, expires : Nat]

Call == [kind : Mutations \cup {"login"}, by : Admins \cup {NoRow},
         step : {"dialog", "loggedin", "ask", "renew", "run", "back"},
         code : {"ok", "refused", "unauthenticated"}, again : BOOLEAN,
         cookie : Cookie \cup {NoRow}, csrf : Logins \cup {NoRow},
         session : Logins \cup {NoRow}, renewal : Renewal \cup {NoRow}, audits : Nat]

ASSUME NoRowAssumption == NoRow \notin Logins \cup Session \cup Cookie \cup Renewal \cup Call

\* The types of the rows and of what the tabs keep, which RotatedToken.cfg checks.
TypeOK ==
    /\ clock \in 0..MaxClock /\ trouble \in 0..MaxTrouble
    /\ account \in [Admins -> Account]
    /\ sess \in [Logins -> Session \cup {NoRow}]
    /\ jar \in Cookie \cup {NoRow}
    /\ tab \in [Tabs -> [who : Admins \cup {"checking", "out"}, csrf : Logins \cup {NoRow}]]
    /\ check \in [Tabs -> Admins \cup {"none", "out"}]
    /\ call \in [Tabs -> Call \cup {NoRow}]

Init ==
    /\ clock = 0 /\ trouble = 0
    /\ account = [a \in Admins |-> [failed |-> 0, lockedUntil |-> 0]]
    /\ sess = [i \in Logins |-> NoRow]
    /\ jar = NoRow
    /\ tab = [t \in Tabs |-> [who |-> "out", csrf |-> NoRow]]
    /\ check = [t \in Tabs |-> "none"]
    /\ call = [t \in Tabs |-> NoRow]

\* What is sent, with the cookie and the CSRF token of the moment; by is the admin whose
\* password is typed for it.
NewCall(kind, step, t) ==
    [kind |-> kind, by |-> NoRow, step |-> step, code |-> "ok", again |-> FALSE,
     cookie |-> IF step = "ask" THEN jar ELSE NoRow, csrf |-> tab[t].csrf,
     session |-> NoRow, renewal |-> NoRow, audits |-> 0]

Is(t, step) == call[t] # NoRow /\ call[t].step = step

Troubled == trouble < MaxTrouble /\ trouble' = trouble + 1

-----------------------------------------------------------------------------
(* Sessions. *)

\* Every account is active here: nothing in the program deactivates one.
isLive(s) == ~s.revoked /\ s.expires > clock

requireAdminSession(cookie) ==
    IF cookie = NoRow THEN NoRow
    ELSE LET s == sess[cookie.id] IN
         IF s # NoRow /\ s.token = cookie.token /\ isLive(s) THEN cookie.id ELSE NoRow

AnyCsrf(id, csrf) == TRUE

requireAdminCsrf(id, csrf) == csrf = id

Uncapped(s) ==
    LET proposed == clock + SessionAge
    IN  IF s.expires - clock <= RotateWindow THEN [rotate |-> TRUE, expires |-> proposed]
        ELSE IF proposed > s.expires THEN [rotate |-> FALSE, expires |-> proposed]
        ELSE NoRow
\* The renewal a change earns its session: a new token when the session is about to
\* expire, a later expiry otherwise, never past the cap.
renewal(s) ==
    LET cap == s.created + AbsoluteMax
        proposed == IF clock + SessionAge < cap THEN clock + SessionAge ELSE cap
    IN  IF s.expires - clock <= RotateWindow /\ proposed > clock
        THEN [rotate |-> TRUE, expires |-> proposed]
        ELSE IF proposed > s.expires THEN [rotate |-> FALSE, expires |-> proposed]
        ELSE NoRow

\* attemptAdminLogin: a wrong password counts, and locks the account at the limit.
Locked(a) == account[a].lockedUntil > clock

WrongPassword(a) ==
    LET n == account[a].failed + 1 IN
    account' = IF Locked(a) THEN account
               ELSE [account EXCEPT ![a] = [failed |-> n, lockedUntil |->
                                  IF n >= MaxFailed THEN clock + Lockout ELSE 0]]

createAdminSession(a, id) ==
    sess' = [sess EXCEPT ![id] = [admin |-> a, token |-> 0, created |-> clock,
                                 expires |-> clock + SessionAge, revoked |-> FALSE]]

NextLogin == CHOOSE i \in Logins : sess[i] = NoRow /\ \A j \in 1..(i - 1) : sess[j] # NoRow

-----------------------------------------------------------------------------
(* The tab. *)

MoreLogins == \E i \in Logins : sess[i] = NoRow

\* POST /admin/login, with the right password or a wrong one, for the call c.
ServeLogin(t, c, a) ==
    /\ \/ /\ ~Locked(a) /\ MoreLogins
          /\ account' = [account EXCEPT ![a] = [failed |-> 0, lockedUntil |-> 0]]
          /\ createAdminSession(a, NextLogin)
          /\ call' = [call EXCEPT ![t] = [c EXCEPT !.step = "loggedin", !.by = a, !.session = NextLogin]]
          /\ UNCHANGED trouble
       \/ /\ Locked(a) \/ ~MoreLogins
          /\ call' = [call EXCEPT ![t] = [c EXCEPT !.step = "loggedin", !.by = a, !.code = "refused"]]
          /\ UNCHANGED <<account, sess, trouble>>
       \/ /\ Troubled
          /\ WrongPassword(a)
          /\ call' = [call EXCEPT ![t] = [c EXCEPT !.step = "loggedin", !.by = a, !.code = "refused"]]
          /\ UNCHANGED sess
    /\ UNCHANGED <<clock, jar, tab, check>>

\* The log-in form, which is there before the tab knows whether it is signed in.
Login(t, a) ==
    /\ tab[t].who \in {"checking", "out"} /\ call[t] = NoRow
    /\ ServeLogin(t, NewCall("login", "loggedin", t), a)

\* A signed-in tab waits for its admin, who clicks nothing before the check is answered.
Signed(t) == tab[t].who \in Admins /\ call[t] = NoRow /\ check[t] = "none"

\* A page loads what it shows, and only drops the token when it is not let in.
Read(t) ==
    /\ Signed(t)
    /\ requireAdminSession(jar) = NoRow
    /\ tab' = [tab EXCEPT ![t].csrf = NoRow]
    /\ UNCHANGED <<clock, trouble, account, sess, jar, check, call>>

\* A signed-in tab's buttons.  A change without a CSRF token asks for the password
\* first; a log-out without one is only the tab's.
Click(t, kind) ==
    /\ Signed(t)
    /\ kind = "logout" => tab[t].csrf # NoRow
    /\ call' = [call EXCEPT ![t] = NewCall(kind,
                  IF tab[t].csrf = NoRow THEN "dialog" ELSE "ask", t)]
    /\ UNCHANGED <<clock, trouble, account, sess, jar, tab, check>>

LogoutHere(t) ==
    /\ Signed(t) /\ tab[t].csrf = NoRow
    /\ tab' = [tab EXCEPT ![t].who = "out"]
    /\ UNCHANGED <<clock, trouble, account, sess, jar, check, call>>

\* The dialog logs in as the admin the tab shows.
submitReauth(t) ==
    /\ Is(t, "dialog") /\ tab[t].who \in Admins
    /\ ServeLogin(t, [call[t] EXCEPT !.again = TRUE], tab[t].who)

cancelReauth(t) ==
    /\ Is(t, "dialog")
    /\ call' = [call EXCEPT ![t] = NoRow]
    /\ UNCHANGED <<clock, trouble, account, sess, jar, tab, check>>

\* Its answer: the cookie to the browser, the token to the tab; then the form signs the
\* tab in, and the dialog lets the call go on.  A refusal leaves form and dialog open.
HearLogin(t) ==
    /\ Is(t, "loggedin")
    /\ LET c == call[t] IN
       \/ /\ c.code = "ok"
          /\ jar' = [id |-> c.session, token |-> 0]
          /\ tab' = [tab EXCEPT ![t] = [csrf |-> c.session,
                                        who |-> IF c.kind = "login" THEN c.by ELSE tab[t].who]]
          /\ call' = [call EXCEPT ![t] = IF c.kind = "login" THEN NoRow
                        ELSE [c EXCEPT !.step = "ask", !.session = NoRow, !.csrf = c.session,
                                       !.cookie = [id |-> c.session, token |-> 0]]]
       \/ /\ c.code = "refused"
          /\ call' = [call EXCEPT ![t] = IF c.kind = "login" THEN NoRow
                        ELSE [c EXCEPT !.step = "dialog", !.code = "ok"]]
          /\ UNCHANGED <<jar, tab>>
    /\ UNCHANGED <<clock, trouble, account, sess, check>>

-----------------------------------------------------------------------------
(* A call at the server. *)

BackRegardless(t, code, audits) ==
    call' = [call EXCEPT ![t] = [NewCall(call[t].kind, "back", t) EXCEPT
                 !.code = IF code = "refused" THEN "ok" ELSE code,
                 !.again = call[t].again, !.csrf = NoRow, !.audits = audits]]

Back(t, code, audits) ==
    call' = [call EXCEPT ![t] = [NewCall(call[t].kind, "back", t) EXCEPT
                 !.code = code, !.again = call[t].again, !.csrf = NoRow, !.audits = audits]]

\* requireAdminSessionAndCsrf.
Authenticate(t) ==
    /\ Is(t, "ask")
    /\ LET id == requireAdminSession(call[t].cookie) IN
       \/ (id = NoRow \/ ~requireAdminCsrf(id, call[t].csrf)) /\ Back(t, "unauthenticated", 0)
       \/ /\ id # NoRow /\ requireAdminCsrf(id, call[t].csrf)
          /\ LET due == renewal(sess[id]) IN
             call' = [call EXCEPT ![t].session = id, ![t].cookie = NoRow, ![t].renewal = due,
                                  ![t].step = IF due = NoRow THEN "run" ELSE "renew"]
    /\ UNCHANGED <<clock, trouble, account, sess, jar, tab, check>>

\* rotateToken or extendExpiry, with what was worked out before.
Renew(t) ==
    /\ Is(t, "renew")
    /\ LET due == call[t].renewal IN
       sess' = [sess EXCEPT ![call[t].session].expires = due.expires,
                            ![call[t].session].token = IF due.rotate THEN @ + 1 ELSE @]
    /\ call' = [call EXCEPT ![t].step = "run", ![t].renewal = NoRow]
    /\ UNCHANGED <<clock, trouble, account, jar, tab, check>>

\* The rate limit, then the change.
change(t) == call[t].kind = "change" /\ UNCHANGED sess

revokeAllSessionsForAdmin(t) ==
    /\ call[t].kind = "revoke"
    /\ LET own == call[t].session IN
       sess' = [i \in Logins |-> IF i # own /\ sess[i] # NoRow /\ sess[i].admin = sess[own].admin
                                 THEN [sess[i] EXCEPT !.revoked = TRUE] ELSE sess[i]]

revokeSession(t) ==
    /\ call[t].kind = "logout"
    /\ sess' = [sess EXCEPT ![call[t].session].revoked = TRUE]

\* recordAuditEvent follows in a statement of its own, and may fail when the change stands.
Run(t) ==
    /\ Is(t, "run")
    /\ \/ Troubled /\ Back(t, "refused", 0) /\ UNCHANGED sess
       \/ /\ change(t) \/ revokeAllSessionsForAdmin(t) \/ revokeSession(t)
          /\ \/ Back(t, "ok", call[t].audits + 1) /\ UNCHANGED trouble
             \/ Troubled /\ Back(t, "refused", call[t].audits)
    /\ UNCHANGED <<clock, account, jar, tab, check>>

-----------------------------------------------------------------------------
(* The answer. *)

\* adminApiFetch drops the token of a call that is not let in; withReauth signs the tab
\* out, unless the call was repeated after the dialog; adminLogout drops the token
\* whatever happens, and only an answer signs the tab out and clears the cookie.
Hear(t) ==
    /\ Is(t, "back")
    /\ LET c == call[t]
           out == c.code = "unauthenticated"
           left == c.kind = "logout" /\ c.code = "ok"
       IN  /\ tab' = [tab EXCEPT ![t] =
                 [csrf |-> IF out \/ c.kind = "logout" THEN NoRow ELSE tab[t].csrf,
                  who |-> IF left \/ (out /\ c.kind \in {"change", "revoke"} /\ ~c.again)
                          THEN "out" ELSE tab[t].who]]
           /\ jar' = IF left THEN NoRow ELSE jar
    /\ call' = [call EXCEPT ![t] = NoRow]
    /\ UNCHANGED <<clock, trouble, account, sess, check>>

\* A request or its answer is lost.
Lose(t) ==
    /\ call[t] # NoRow /\ call[t].step \in {"loggedin", "ask", "back"}
    /\ Troubled
    /\ tab' = [tab EXCEPT ![t].csrf = IF call[t].kind = "logout" THEN NoRow ELSE @]
    /\ call' = [call EXCEPT ![t] = IF call[t].again /\ call[t].step = "loggedin"
                                   THEN [call[t] EXCEPT !.step = "dialog", !.session = NoRow,
                                                        !.code = "ok"] ELSE NoRow]
    /\ UNCHANGED <<clock, account, sess, jar, check>>

-----------------------------------------------------------------------------
(* Loading the page. *)

Reload(t) ==
    /\ check[t] = "none" /\ call[t] = NoRow
    /\ tab' = [tab EXCEPT ![t] = [who |-> "checking", csrf |-> NoRow]]
    /\ LET id == requireAdminSession(jar) IN
       check' = [check EXCEPT ![t] = IF id = NoRow THEN "out" ELSE sess[id].admin]
    /\ UNCHANGED <<clock, trouble, account, sess, jar, call>>

\* The answer is taken whatever the form did meanwhile.
HearCheck(t) ==
    /\ check[t] # "none"
    /\ tab' = [tab EXCEPT ![t] = IF check[t] = "out" THEN [who |-> "out", csrf |-> NoRow]
                                 ELSE [tab[t] EXCEPT !.who = check[t]]]
    /\ check' = [check EXCEPT ![t] = "none"]
    /\ UNCHANGED <<clock, trouble, account, sess, jar, call>>

Tick ==
    /\ clock < MaxClock
    /\ clock' = clock + 1
    /\ UNCHANGED <<trouble, account, sess, jar, tab, check, call>>

Next ==
    \/ \E t \in Tabs :
         \/ \E a \in Admins : Login(t, a)
         \/ \E kind \in Mutations : Click(t, kind)
         \/ Read(t) \/ LogoutHere(t) \/ submitReauth(t) \/ cancelReauth(t) \/ HearLogin(t)
         \/ Authenticate(t) \/ Renew(t) \/ Run(t) \/ Hear(t) \/ Lose(t)
         \/ Reload(t) \/ HearCheck(t)
    \/ Tick

Spec == Init /\ [][Next]_vars

-----------------------------------------------------------------------------
(* Properties. *)

\* A change is made through the very log-in this tab made: whatever other tabs of the
\* browser log in as, log out, or renew, the shared cookie never lends a tab another
\* admin's name.
ActsThroughItsLogin ==
    \A t \in Tabs :
        call[t] # NoRow /\ call[t].step \in {"renew", "run"} =>
            /\ call[t].session = call[t].csrf
            /\ call[t].by # NoRow => sess[call[t].session].admin = call[t].by

\* A click is audited at most once, across the dialog and the repetition after it, and
\* a tab is told of success only when it was.
SuccessIsAuditedOnce ==
    \A t \in Tabs :
        call[t] # NoRow =>
            /\ call[t].audits <= 1
            /\ call[t].step = "back" /\ call[t].code = "ok" /\ call[t].kind \in Mutations
                  => call[t].audits = 1

\* Whenever a renewal that was worked out earlier is written, a revoked session stays
\* revoked, and no session outlives the cap counted from its log-in.
SessionsOnlyEnd ==
    [][\A i \in Logins : sess[i] # NoRow =>
          /\ sess[i].revoked => sess'[i].revoked
          /\ sess'[i].expires <= sess[i].created + AbsoluteMax]_vars

\* "The caller's Response must carry this as a fresh Set-Cookie header": while no answer
\* is on its way, the cookie the browser holds is the token of the live session it names.
KeepsItsSession ==
    jar # NoRow /\ isLive(sess[jar.id]) /\ (\A t \in Tabs : call[t] = NoRow)
        => sess[jar.id].token = jar.token
=============================================================================
