--------------------------- MODULE GuessAdminProofs ---------------------------
(***************************************************************************)
(* Proofs about the administration's sessions and calls: a change acts     *)
(* through the log-in of its tab, is audited at most once, and no session  *)
(* comes back or outlives its cap, for any number of administrators, tabs  *)
(* and log-ins.                                                            *)
(***************************************************************************)
EXTENDS GuessAdmin, WellFoundedInduction, TLAPS

-----------------------------------------------------------------------------
(* The inductive invariant *)

\* The session id is there, and an administrator named for it is the one who logged in.
LoggedIn(id, by) ==
    /\ id # NoRow /\ sess[id] # NoRow
    /\ by # NoRow => sess[id].admin = by

\* What is true of a call at each of its steps.
Sound(c) ==
    /\ c.kind = "login" => c.step = "loggedin" /\ ~c.again
    /\ c.step = "loggedin" => c.by # NoRow
    /\ c.step = "loggedin" /\ c.code = "ok" => LoggedIn(c.session, c.by)
    /\ c.step = "ask" /\ c.by # NoRow => LoggedIn(c.csrf, c.by)
    /\ c.step \in {"renew", "run"} => c.session = c.csrf /\ LoggedIn(c.session, c.by)
    /\ c.step = "renew" =>
         c.renewal # NoRow /\ c.renewal.expires <= sess[c.session].created + AbsoluteMax
    /\ c.step # "back" => c.audits = 0
    /\ c.audits <= 1
    /\ c.step = "back" /\ c.code = "ok" => c.audits = 1

CallsSound == \A t \in Tabs : call[t] # NoRow => Sound(call[t])

\* No session outlives the cap counted from its log-in.
Capped == \A i \in Logins : sess[i] # NoRow => sess[i].expires <= sess[i].created + AbsoluteMax

\* Every failed log-in is a trouble, which bounds the counters of the accounts.
Counted == \A a \in Admins : account[a].failed <= trouble

IInv == TypeOK /\ CallsSound /\ Capped /\ Counted

-----------------------------------------------------------------------------
(* Sessions *)

LEMMA Numbers ==
    /\ SessionAge \in Nat /\ AbsoluteMax \in Nat /\ MaxFailed \in Nat /\ MaxLogins \in Nat
    /\ RotateWindow \in Nat /\ Lockout \in Nat /\ MaxClock \in Nat /\ MaxTrouble \in Nat
    /\ SessionAge <= AbsoluteMax
  BY AdminAssumption

\* A set of naturals that is not empty has a least member.
LEMMA LeastNatural ==
    ASSUME NEW S \in SUBSET Nat, S # {}
    PROVE  \E n \in S : \A m \in S : n <= m
<1>1. PICK n \in S : \A m \in S : ~(<<m, n>> \in OpToRel(<, Nat))
  BY NatLessThanWellFounded, WFMin
<1>2. \A m \in S : ~(m < n)
  BY <1>1 DEF OpToRel
<1>3. QED
  BY <1>2

\* A log-in takes a row that is free.
LEMMA NextIsFree ==
    ASSUME MoreLogins
    PROVE  NextLogin \in Logins /\ sess[NextLogin] = NoRow
<1> DEFINE Free == {i \in Logins : sess[i] = NoRow}
<1>1. Free \in SUBSET Nat /\ Free # {}
  BY DEF MoreLogins, Logins
<1>2. PICK i \in Free : \A j \in Free : i <= j
  BY <1>1, LeastNatural
<1>3. \A j \in 1..(i - 1) : sess[j] # NoRow
  BY <1>2, Numbers DEF Logins
<1>4. QED
  BY <1>2, <1>3 DEF NextLogin

\* What no step does to a session: remove it, give it to another, start it again, revive it.
Kept ==
    \A i \in Logins : sess[i] # NoRow =>
        /\ sess'[i] # NoRow
        /\ sess'[i].admin = sess[i].admin
        /\ sess'[i].created = sess[i].created
        /\ sess[i].revoked => sess'[i].revoked

\* What is true of a call stays true while sessions are kept.
LEMMA SoundStays ==
    ASSUME TypeOK, Kept, NEW c \in Call, Sound(c)
    PROVE  Sound(c)'
  BY DEF Kept, Sound, LoggedIn, Call

\* One tab's call changes to one that is sound, or ends.
LEMMA CallSet ==
    ASSUME IInv, Kept, NEW t \in Tabs, NEW d \in Call \cup {NoRow},
           call' = [call EXCEPT ![t] = d], d # NoRow => Sound(d)'
    PROVE  call' \in [Tabs -> Call \cup {NoRow}] /\ CallsSound'
<1>1. call' \in [Tabs -> Call \cup {NoRow}]
  BY DEF IInv, TypeOK
<1>2. ASSUME NEW u \in Tabs, call'[u] # NoRow
      PROVE  Sound(call[u])'
  <2>1. CASE u = t
    <3>1. call'[u] = d
      BY <2>1 DEF IInv, TypeOK
    <3>2. QED
      BY <1>2, <3>1 DEF Sound, LoggedIn
  <2>2. CASE u # t
    <3>1. PICK c \in Call : call'[u] = c /\ call[u] = c /\ Sound(c)
      BY <1>2, <2>2 DEF IInv, TypeOK, CallsSound
    <3>2. Sound(c)'
      BY <3>1, SoundStays DEF IInv
    <3>3. QED
      BY <3>1, <3>2 DEF Sound, LoggedIn
  <2>3. QED
    BY <2>1, <2>2
<1>3. QED
  BY <1>1, <1>2 DEF CallsSound

LEMMA SessUnchanged ==
    ASSUME IInv, UNCHANGED sess
    PROVE  Kept /\ Capped' /\ sess' \in [Logins -> Session \cup {NoRow}]
  BY DEF IInv, TypeOK, Kept, Capped

-----------------------------------------------------------------------------
(* Logging in *)

LEMMA GrantedTyped ==
    ASSUME NEW c \in Call, NEW a \in Admins, NEW n \in Logins
    PROVE  [c EXCEPT !.step = "loggedin", !.by = a, !.session = n] \in Call
  BY DEF Call

\* A log-in makes one session and settles the call it was sent for.
LEMMA LoginServed ==
    ASSUME IInv, NEW t \in Tabs, NEW a \in Admins, NEW c \in Call, c.audits = 0,
           c.kind = "login" => ~c.again, ServeLogin(t, c, a)
    PROVE  IInv'
<1> USE Numbers
<1>0. UNCHANGED <<clock, jar, tab, check>>
  BY DEF ServeLogin
<1>1. CASE /\ ~Locked(a) /\ MoreLogins
           /\ account' = [account EXCEPT ![a] = [failed |-> 0, lockedUntil |-> 0]]
           /\ createAdminSession(a, NextLogin)
           /\ call' = [call EXCEPT ![t] = [c EXCEPT !.step = "loggedin", !.by = a, !.session = NextLogin]]
           /\ UNCHANGED trouble
  <2> DEFINE s == [admin |-> a, token |-> 0, created |-> clock, expires |-> clock + SessionAge,
                   revoked |-> FALSE]
  <2>1. PICK n \in Logins : n = NextLogin /\ sess[n] = NoRow
    BY <1>1, NextIsFree
  <2> DEFINE d == [c EXCEPT !.step = "loggedin", !.by = a, !.session = n]
  <2>2. s \in Session /\ s # NoRow
    <3>1. clock \in Nat /\ clock + SessionAge \in Nat
      BY DEF IInv, TypeOK
    <3>2. \A x, y \in Nat :
            [admin |-> a, token |-> 0, created |-> x, expires |-> y, revoked |-> FALSE] \in Session
      BY DEF Session
    <3>3. s \in Session
      BY <3>1, <3>2
    <3> HIDE DEF s
    <3>4. QED
      BY <3>3, NoRowAssumption
  <2>3. sess' = [sess EXCEPT ![n] = s]
    BY <1>1, <2>1 DEF createAdminSession
  <2>4. Kept /\ Capped' /\ sess' \in [Logins -> Session \cup {NoRow}]
    BY <2>1, <2>2, <2>3 DEF Kept, Capped, IInv, TypeOK
  <2>5. d \in Call
    BY GrantedTyped
  <2>6. Sound(d)'
    <3>1. d.kind = c.kind /\ d.step = "loggedin" /\ d.by = a /\ a # NoRow /\ d.session = n /\ d.audits = 0 /\ d.again = c.again
      BY <2>1, AdminAssumption DEF Call
    <3>2. n # NoRow /\ sess'[n] # NoRow /\ sess'[n].admin = a
      BY <2>1, <2>2, <2>3, NoRowAssumption DEF IInv, TypeOK
    <3> HIDE DEF d
    <3>3. QED
      BY <3>1, <3>2 DEF Sound, LoggedIn
  <2>7. call' \in [Tabs -> Call \cup {NoRow}] /\ CallsSound'
    <3>1. call' = [call EXCEPT ![t] = d]
      BY <1>1, <2>1
    <3> HIDE DEF d
    <3>2. QED
      BY <2>4, <2>5, <2>6, <3>1, CallSet
  <2>8. account' \in [Admins -> Account] /\ Counted'
    BY <1>1 DEF IInv, TypeOK, Account, Counted
  <2>9. QED
    BY <1>0, <1>1, <2>4, <2>7, <2>8 DEF IInv, TypeOK
<1>2. ASSUME call' = [call EXCEPT ![t] = [c EXCEPT !.step = "loggedin", !.by = a, !.code = "refused"]],
             UNCHANGED sess, trouble' \in 0..MaxTrouble, account' \in [Admins -> Account], Counted'
      PROVE  IInv'
  <2> DEFINE d == [c EXCEPT !.step = "loggedin", !.by = a, !.code = "refused"]
  <2>1. d \in Call
    BY DEF Call
  <2>2. /\ d.kind = c.kind /\ d.step = "loggedin" /\ d.by = a /\ a # NoRow
        /\ d.code = "refused" /\ d.audits = 0 /\ d.again = c.again
    BY AdminAssumption DEF Call
  <2>3. call' = [call EXCEPT ![t] = d]
    BY <1>2
  <2> HIDE DEF d
  <2>4. Sound(d)'
    BY <2>2 DEF Sound
  <2>6. call' \in [Tabs -> Call \cup {NoRow}] /\ CallsSound'
    BY <1>2, <2>1, <2>3, <2>4, SessUnchanged, CallSet
  <2>7. QED
    BY <1>0, <1>2, <2>6, SessUnchanged DEF IInv, TypeOK
<1>3. CASE /\ call' = [call EXCEPT ![t] = [c EXCEPT !.step = "loggedin", !.by = a, !.code = "refused"]]
           /\ UNCHANGED <<account, sess, trouble>>
  BY <1>2, <1>3 DEF IInv, TypeOK, Counted
<1>4. CASE /\ Troubled /\ WrongPassword(a)
           /\ call' = [call EXCEPT ![t] = [c EXCEPT !.step = "loggedin", !.by = a, !.code = "refused"]]
           /\ UNCHANGED sess
  <2>1. trouble' = trouble + 1 /\ trouble' \in 0..MaxTrouble
    BY <1>4 DEF Troubled, IInv, TypeOK
  <2>2. account' \in [Admins -> Account] /\ Counted'
    <3> DEFINE n == account[a].failed + 1
               l == IF n >= MaxFailed THEN clock + Lockout ELSE 0
    <3>1. n \in 0..MaxFailed + MaxTrouble /\ n <= trouble' /\ l \in 0..MaxClock + Lockout
      BY <2>1 DEF IInv, TypeOK, Account, Counted
    <3>2. [failed |-> n, lockedUntil |-> l] \in Account
      BY <3>1 DEF Account
    <3>3. account' = account \/ account' = [account EXCEPT ![a] = [failed |-> n, lockedUntil |-> l]]
      BY <1>4 DEF WrongPassword
    <3> HIDE DEF n, l
    <3>4. CASE account' = account
      BY <2>1, <3>4 DEF IInv, TypeOK, Account, Counted
    <3>5. CASE account' = [account EXCEPT ![a] = [failed |-> n, lockedUntil |-> l]]
      BY <2>1, <3>1, <3>2, <3>5 DEF IInv, TypeOK, Account, Counted
    <3>6. QED
      BY <3>3, <3>4, <3>5
  <2>3. QED
    BY <1>2, <1>4, <2>1, <2>2
<1>5. QED
  BY <1>1, <1>3, <1>4 DEF ServeLogin

LEMMA NewCallTyped ==
    ASSUME IInv, NEW t \in Tabs, NEW kind \in Mutations \cup {"login"},
           NEW step \in {"dialog", "loggedin", "ask", "renew", "run", "back"}
    PROVE  /\ NewCall(kind, step, t) \in Call /\ NewCall(kind, step, t) # NoRow
           /\ NewCall(kind, step, t).kind = kind /\ NewCall(kind, step, t).step = step
           /\ NewCall(kind, step, t).code = "ok" /\ ~NewCall(kind, step, t).again
           /\ NewCall(kind, step, t).by = NoRow /\ NewCall(kind, step, t).audits = 0
<1>1. NewCall(kind, step, t) \in Call
  BY DEF NewCall, Call, IInv, TypeOK
<1>2. QED
  BY <1>1, NoRowAssumption DEF NewCall

LEMMA LoginInv ==
    ASSUME IInv, NEW t \in Tabs, NEW a \in Admins, Login(t, a)
    PROVE  IInv'
  BY NewCallTyped, LoginServed DEF Login

\* A call that stands is a record of a call, and sound.
LEMMA Standing ==
    ASSUME IInv, NEW t \in Tabs, call[t] # NoRow
    PROVE  call[t] \in Call /\ Sound(call[t])
  BY DEF IInv, TypeOK, CallsSound

TabStates == [Tabs -> [who : Admins \cup {"checking", "out"}, csrf : Logins \cup {NoRow}]]

\* A step of a browser and of one call, which touches no row.
LEMMA CallMoves ==
    ASSUME IInv, UNCHANGED <<clock, account, sess>>, UNCHANGED trouble \/ Troubled,
           jar' \in Cookie \cup {NoRow}, tab' \in TabStates,
           check' \in [Tabs -> Admins \cup {"none", "out"}],
           NEW t \in Tabs, NEW d \in Call \cup {NoRow}, call' = [call EXCEPT ![t] = d],
           d # NoRow => Sound(d)
    PROVE  IInv'
<1>1. trouble' \in 0..MaxTrouble /\ trouble <= trouble'
  BY Numbers DEF IInv, TypeOK, Troubled
<1>2. Counted'
  <2>1. ASSUME NEW a \in Admins PROVE account'[a].failed <= trouble'
    <3>1. account[a].failed \in Int /\ account[a].failed <= trouble
      BY Numbers DEF IInv, TypeOK, Account, Counted
    <3>2. QED
      BY <1>1, <3>1 DEF IInv, TypeOK
  <2>2. QED
    BY <2>1 DEF Counted
<1>3. d # NoRow => Sound(d)'
  BY DEF Sound, LoggedIn
<1>4. call' \in [Tabs -> Call \cup {NoRow}] /\ CallsSound' /\ Capped'
  BY <1>3, SessUnchanged, CallSet
<1>5. QED
  BY <1>1, <1>2, <1>4 DEF IInv, TypeOK, TabStates

\* A step that leaves every call alone.
LEMMA NoCallMoves ==
    ASSUME IInv, UNCHANGED <<trouble, account, sess, jar, call>>, clock' \in 0..MaxClock,
           tab' \in TabStates, check' \in [Tabs -> Admins \cup {"none", "out"}]
    PROVE  IInv'
<1>1. CallsSound' /\ Capped' /\ Counted'
  BY DEF IInv, CallsSound, Sound, LoggedIn, Capped, Counted
<1>2. QED
  BY <1>1 DEF IInv, TypeOK, TabStates

-----------------------------------------------------------------------------
(* The tab *)

\* Reading a page, a log-out without a token, and the check after a reload.
LEMMA PageInv ==
    ASSUME IInv, NEW t \in Tabs, Read(t) \/ LogoutHere(t) \/ Reload(t) \/ HearCheck(t)
    PROVE  IInv'
<1>1. UNCHANGED <<trouble, account, sess, jar, call>> /\ clock' \in 0..MaxClock
  BY DEF IInv, TypeOK, Read, LogoutHere, Reload, HearCheck
<1>2. tab' \in TabStates
  <2>0. /\ tab \in TabStates
        /\ check[t] \in Admins \cup {"none", "out"}
    BY DEF IInv, TypeOK, TabStates
  <2>1. CASE Read(t)
    BY <2>0, <2>1 DEF TabStates, Read
  <2>2. CASE LogoutHere(t)
    BY <2>0, <2>2 DEF TabStates, LogoutHere
  <2>3. CASE Reload(t)
    BY <2>0, <2>3 DEF TabStates, Reload
  <2>4. CASE HearCheck(t)
    BY <2>0, <2>4 DEF TabStates, HearCheck
  <2>5. QED
    BY <2>1, <2>2, <2>3, <2>4
<1>3. check' \in [Tabs -> Admins \cup {"none", "out"}]
  <2>1. CASE Reload(t)
    <3> DEFINE id == requireAdminSession(jar)
    <3>1. id # NoRow => sess[id].admin \in Admins
      BY DEF requireAdminSession, IInv, TypeOK, Cookie, Session
    <3> HIDE DEF id
    <3>2. check' = [check EXCEPT ![t] = IF id = NoRow THEN "out" ELSE sess[id].admin]
      BY <2>1 DEF Reload, id
    <3>3. QED
      BY <3>1, <3>2 DEF IInv, TypeOK
  <2>2. CASE Read(t) \/ LogoutHere(t) \/ HearCheck(t)
    BY <2>2 DEF IInv, TypeOK, Read, LogoutHere, HearCheck
  <2>3. QED
    BY <2>1, <2>2
<1>4. QED
  BY <1>1, <1>2, <1>3, NoCallMoves

LEMMA TickInv ==
    ASSUME IInv, Tick
    PROVE  IInv'
<1>1. clock' \in 0..MaxClock
  BY Numbers DEF Tick, IInv, TypeOK
<1>2. QED
  BY <1>1, NoCallMoves DEF Tick, IInv, TypeOK, TabStates

LEMMA ClickInv ==
    ASSUME IInv, NEW t \in Tabs, NEW kind \in Mutations, Click(t, kind)
    PROVE  IInv'
<1> DEFINE step == IF tab[t].csrf = NoRow THEN "dialog" ELSE "ask"
<1>1. PICK d \in Call : /\ d = NewCall(kind, step, t)
                        /\ d.kind = kind /\ d.step = step /\ d.by = NoRow /\ d.audits = 0
                        /\ ~d.again
  BY NewCallTyped
<1>2. Sound(d)
  BY <1>1 DEF Sound, Mutations
<1>3. call' = [call EXCEPT ![t] = d]
  BY <1>1 DEF Click
<1>4. QED
  BY <1>2, <1>3, CallMoves DEF Click, IInv, TypeOK, TabStates

LEMMA submitReauthInv ==
    ASSUME IInv, NEW t \in Tabs, submitReauth(t)
    PROVE  IInv'
<1>1. PICK c \in Call : c = call[t] /\ Sound(c) /\ c.step = "dialog"
  BY Standing DEF submitReauth, Is
<1>2. c.kind # "login" /\ c.audits = 0
  BY <1>1 DEF Sound
<1>3. [c EXCEPT !.again = TRUE] \in Call
  BY DEF Call
<1>4. PICK d \in Call, a \in Admins : /\ d = [c EXCEPT !.again = TRUE] /\ a = tab[t].who
                                    /\ ServeLogin(t, d, a)
  BY <1>1, <1>3 DEF submitReauth
<1>5. d.kind = c.kind /\ d.audits = c.audits
  BY <1>4 DEF Call
<1>6. QED
  BY <1>2, <1>4, <1>5, LoginServed

LEMMA cancelReauthInv ==
    ASSUME IInv, NEW t \in Tabs, cancelReauth(t)
    PROVE  IInv'
  BY CallMoves DEF cancelReauth, IInv, TypeOK, TabStates

LEMMA HearLoginInv ==
    ASSUME IInv, NEW t \in Tabs, HearLogin(t)
    PROVE  IInv'
<1>1. PICK c \in Call : c = call[t] /\ Sound(c) /\ c.step = "loggedin"
  BY Standing DEF HearLogin, Is
<1>2. UNCHANGED <<clock, trouble, account, sess, check>>
  BY DEF HearLogin
<1>3. CASE c.code = "ok"
  <2> DEFINE j == [id |-> c.session, token |-> 0]
             e == [c EXCEPT !.step = "ask", !.session = NoRow, !.csrf = c.session, !.cookie = j]
  <2>1. c.session \in Logins /\ LoggedIn(c.session, c.by)
    BY <1>1, <1>3 DEF Sound, LoggedIn, Call
  <2>2. j \in Cookie
    BY <2>1 DEF Cookie
  <2>3. e \in Call /\ e.step = "ask" /\ e.csrf = c.session /\ e.by = c.by /\ e.kind = c.kind /\ e.audits = c.audits
    <3> HIDE DEF j
    <3>1. QED
      BY <2>1, <2>2 DEF Call
  <2>4. c.kind # "login" => Sound(e)
    <3> HIDE DEF e
    <3>1. QED
      BY <1>1, <2>1, <2>3 DEF Sound
  <2>5. PICK d \in Call \cup {NoRow} :
           d = (IF c.kind = "login" THEN NoRow ELSE e) /\ (d # NoRow => Sound(d))
    BY <2>3, <2>4
  <2>6. /\ jar' = j
        /\ tab' = [tab EXCEPT ![t] = [csrf |-> c.session,
                                      who |-> IF c.kind = "login" THEN c.by ELSE tab[t].who]]
        /\ call' = [call EXCEPT ![t] = d]
    BY <1>1, <1>3, <2>5 DEF HearLogin
  <2>7. c.by \in Admins
    BY <1>1 DEF Call, Sound
  <2>8. tab' \in TabStates
    <3>1. PICK w \in Admins \cup {"checking", "out"} :
             w = (IF c.kind = "login" THEN c.by ELSE tab[t].who)
      BY <2>7 DEF IInv, TypeOK
    <3>2. tab' = [tab EXCEPT ![t] = [csrf |-> c.session, who |-> w]]
      BY <2>6, <3>1
    <3>3. QED
      BY <2>1, <3>2 DEF IInv, TypeOK, TabStates
  <2>9. QED
    BY <1>2, <2>2, <2>5, <2>6, <2>8, CallMoves DEF IInv, TypeOK
<1>4. CASE c.code = "refused"
  <2> DEFINE e == [c EXCEPT !.step = "dialog", !.code = "ok"]
  <2>1. e \in Call /\ e.step = "dialog" /\ e.kind = c.kind /\ e.audits = c.audits
    BY DEF Call
  <2>2. c.kind # "login" => Sound(e)
    <3> HIDE DEF e
    <3>1. QED
      BY <1>1, <2>1 DEF Sound
  <2>3. PICK d \in Call \cup {NoRow} :
           d = (IF c.kind = "login" THEN NoRow ELSE e) /\ (d # NoRow => Sound(d))
    BY <2>1, <2>2
  <2>4. UNCHANGED <<jar, tab>> /\ call' = [call EXCEPT ![t] = d]
    BY <1>1, <1>4, <2>3 DEF HearLogin
  <2>5. QED
    BY <1>2, <2>3, <2>4, CallMoves DEF IInv, TypeOK, TabStates
<1>5. QED
  BY <1>1, <1>3, <1>4 DEF HearLogin

-----------------------------------------------------------------------------
(* A call at the server *)

\* The renewal of a session is a later expiry within its cap.
LEMMA RenewalCapped ==
    ASSUME IInv, NEW i \in Logins, sess[i] # NoRow, renewal(sess[i]) # NoRow
    PROVE  /\ renewal(sess[i]) \in Renewal
           /\ renewal(sess[i]).expires <= sess[i].created + AbsoluteMax
<1> DEFINE cap == sess[i].created + AbsoluteMax
           proposed == IF clock + SessionAge < cap THEN clock + SessionAge ELSE cap
<1>1. PICK p \in Nat : p = proposed /\ p <= cap
  BY Numbers DEF IInv, TypeOK, Session
<1>2. PICK r \in BOOLEAN : renewal(sess[i]) = [rotate |-> r, expires |-> p]
  BY <1>1 DEF renewal
<1>3. [rotate |-> r, expires |-> p] \in Renewal
  BY DEF Renewal
<1>4. QED
  BY <1>1, <1>2, <1>3

LEMMA AnsweredTyped ==
    ASSUME NEW n \in Call, NEW code \in {"ok", "refused", "unauthenticated"},
           NEW again \in BOOLEAN, NEW audits \in Nat
    PROVE  [n EXCEPT !.code = code, !.again = again, !.csrf = NoRow, !.audits = audits] \in Call
  BY DEF Call

\* An answer on its way back.
LEMMA BackSound ==
    ASSUME IInv, NEW t \in Tabs, call[t] # NoRow, call[t].kind # "login",
           NEW code \in {"ok", "refused", "unauthenticated"}, NEW audits \in {0, 1},
           code = "ok" => audits = 1, Back(t, code, audits)
    PROVE  \E d \in Call : Sound(d) /\ call' = [call EXCEPT ![t] = d]
<1>1. PICK c \in Call : c = call[t] /\ Sound(c) /\ c.kind # "login"
  BY Standing
<1>2. PICK n \in Call : n = NewCall(c.kind, "back", t) /\ n.kind = c.kind /\ n.step = "back"
  BY <1>1, NewCallTyped DEF Call
<1> DEFINE d == [n EXCEPT !.code = code, !.again = c.again, !.csrf = NoRow, !.audits = audits]
<1>3. d \in Call /\ d.kind = c.kind /\ d.step = "back" /\ d.code = code /\ d.audits = audits
  <2>1. audits \in Nat /\ c.again \in BOOLEAN
    BY DEF Call
  <2>2. d \in Call
    BY <2>1, AnsweredTyped
  <2>3. QED
    BY <1>2, <2>2 DEF Call
<1>4. call' = [call EXCEPT ![t] = d]
  BY <1>1, <1>2 DEF Back
<1> HIDE DEF d
<1>5. Sound(d)
  BY <1>1, <1>3 DEF Sound
<1>6. QED
  BY <1>3, <1>4, <1>5

LEMMA AuthenticateInv ==
    ASSUME IInv, NEW t \in Tabs, Authenticate(t)
    PROVE  IInv'
<1>1. PICK c \in Call : c = call[t] /\ Sound(c) /\ c.step = "ask"
  BY Standing DEF Authenticate, Is
<1>2. UNCHANGED <<clock, trouble, account, sess, jar, tab, check>> /\ c.kind # "login" /\ call[t] # NoRow
  BY <1>1 DEF Authenticate, Is, Sound
<1> DEFINE id == requireAdminSession(c.cookie)
<1>3. CASE Back(t, "unauthenticated", 0)
  BY <1>1, <1>2, <1>3, BackSound, CallMoves DEF IInv, TypeOK, TabStates
<1>4. ASSUME id # NoRow, requireAdminCsrf(id, c.csrf),
             call' = [call EXCEPT ![t].session = id, ![t].cookie = NoRow, ![t].renewal = renewal(sess[id]),
                                  ![t].step = IF renewal(sess[id]) = NoRow THEN "run" ELSE "renew"]
      PROVE  IInv'
  <2>1. PICK i \in Logins : i = id /\ sess[i] # NoRow /\ c.csrf = i
    BY <1>4 DEF requireAdminSession, requireAdminCsrf, Call, Cookie
  <2>2. PICK due \in Renewal \cup {NoRow} :
           /\ due = renewal(sess[i])
           /\ due # NoRow => due.expires <= sess[i].created + AbsoluteMax
    BY <2>1, RenewalCapped
  <2>3. PICK step \in {"run", "renew"} :
           step = (IF due = NoRow THEN "run" ELSE "renew")
    OBVIOUS
  <2> DEFINE d == [c EXCEPT !.session = i, !.cookie = NoRow, !.renewal = due, !.step = step]
  <2>4. /\ d \in Call /\ d.session = i /\ d.csrf = c.csrf /\ d.by = c.by /\ d.renewal = due
        /\ d.step = step /\ d.kind = c.kind /\ d.audits = c.audits
    BY DEF Call
  <2>5. call' = [call EXCEPT ![t] = d]
    BY <1>1, <1>4, <2>1, <2>2, <2>3 DEF IInv, TypeOK
  <2> HIDE DEF d
  <2>6. LoggedIn(i, c.by)
    BY <1>1, <2>1, NoRowAssumption DEF Sound, LoggedIn
  <2>7. Sound(d)
    BY <1>1, <1>2, <2>1, <2>2, <2>3, <2>4, <2>6 DEF Sound
  <2>8. QED
    BY <1>2, <2>4, <2>5, <2>7, CallMoves DEF IInv, TypeOK, TabStates
<1>5. QED
  BY <1>1, <1>3, <1>4 DEF Authenticate

\* Writing the renewal worked out before: the session keeps its log-in and its end.
LEMMA RenewInv ==
    ASSUME IInv, NEW t \in Tabs, Renew(t)
    PROVE  IInv' /\ Kept
<1>1. PICK c \in Call : c = call[t] /\ Sound(c) /\ c.step = "renew"
  BY Standing DEF Renew, Is
<1>2. PICK i \in Logins, due \in Renewal :
         /\ i = c.session /\ due = c.renewal /\ sess[i] \in Session
         /\ due.expires <= sess[i].created + AbsoluteMax
  BY <1>1 DEF Sound, LoggedIn, Call, IInv, TypeOK
<1>3. PICK k \in Nat : k = (IF due.rotate THEN sess[i].token + 1 ELSE sess[i].token)
  BY <1>2 DEF Session
<1> DEFINE s == [sess[i] EXCEPT !.expires = due.expires, !.token = k]
<1>4. sess' = [sess EXCEPT ![i] = s]
  BY <1>1, <1>2, <1>3 DEF Renew, IInv, TypeOK
<1>5. /\ s \in Session /\ s # NoRow /\ s.expires = due.expires
      /\ s.admin = sess[i].admin /\ s.created = sess[i].created /\ s.revoked = sess[i].revoked
  BY <1>2, NoRowAssumption DEF Session, Renewal
<1> HIDE DEF s
<1>6. Kept /\ Capped' /\ sess' \in [Logins -> Session \cup {NoRow}]
  BY <1>2, <1>4, <1>5 DEF Kept, Capped, IInv, TypeOK
<1> DEFINE d == [c EXCEPT !.step = "run", !.renewal = NoRow]
<1>7. /\ d \in Call /\ d.session = c.session /\ d.csrf = c.csrf /\ d.by = c.by
      /\ d.step = "run" /\ d.kind = c.kind /\ d.audits = c.audits
  BY DEF Call
<1>8. call' = [call EXCEPT ![t] = d]
  BY <1>1 DEF Renew, IInv, TypeOK
<1> HIDE DEF d
<1>9. Sound(d)'
  <2>1. LoggedIn(i, c.by)'
    BY <1>1, <1>2, <1>6 DEF Sound, LoggedIn, Kept
  <2>2. QED
    BY <1>1, <1>2, <1>7, <2>1 DEF Sound
<1>10. call' \in [Tabs -> Call \cup {NoRow}] /\ CallsSound'
  BY <1>6, <1>7, <1>8, <1>9, CallSet
<1>11. UNCHANGED <<clock, trouble, account, jar, tab, check>>
  BY DEF Renew
<1>12. QED
  BY <1>6, <1>10, <1>11 DEF IInv, TypeOK, Counted

\* The change itself touches no session, or ends some.
LEMMA EffectKeeps ==
    ASSUME IInv, NEW t \in Tabs, NEW c \in Call, c = call[t], LoggedIn(c.session, c.by),
           change(t) \/ revokeAllSessionsForAdmin(t) \/ revokeSession(t)
    PROVE  Kept /\ Capped' /\ sess' \in [Logins -> Session \cup {NoRow}]
<1> DEFINE end(s) == [s EXCEPT !.revoked = TRUE]
<1>1. ASSUME NEW s \in Session
      PROVE  /\ end(s) \in Session /\ end(s) # NoRow /\ end(s).revoked
             /\ end(s).admin = s.admin /\ end(s).created = s.created /\ end(s).expires = s.expires
  BY NoRowAssumption DEF Session
<1>2. \A i \in Logins : sess[i] # NoRow => sess[i] \in Session
  BY DEF IInv, TypeOK
<1>3. CASE change(t)
  BY <1>3, SessUnchanged DEF change
<1>4. ASSUME sess' \in [Logins -> Session \cup {NoRow}],
             \A i \in Logins : sess'[i] = sess[i] \/ (sess[i] # NoRow /\ sess'[i] = end(sess[i]))
      PROVE  Kept /\ Capped'
  <2> HIDE DEF end
  <2>1. QED
    BY <1>1, <1>2, <1>4 DEF Kept, Capped, IInv
<1>5. CASE revokeSession(t)
  <2>1. PICK i \in Logins : i = c.session /\ sess[i] # NoRow
    BY DEF LoggedIn, Call
  <2>2. sess' = [sess EXCEPT ![i] = end(sess[i])]
    BY <1>5, <2>1 DEF revokeSession, IInv, TypeOK
  <2> HIDE DEF end
  <2>3. sess' \in [Logins -> Session \cup {NoRow}]
    BY <1>1, <1>2, <2>1, <2>2 DEF IInv, TypeOK
  <2>4. \A j \in Logins : sess'[j] = sess[j] \/ (sess[j] # NoRow /\ sess'[j] = end(sess[j]))
    BY <2>1, <2>2 DEF IInv, TypeOK
  <2>5. QED
    BY <1>4, <2>3, <2>4
<1>6. CASE revokeAllSessionsForAdmin(t)
  <2>1. PICK own \in Logins : own = c.session
    BY DEF LoggedIn, Call
  <2>2. sess' = [i \in Logins |-> IF i # own /\ sess[i] # NoRow /\ sess[i].admin = sess[own].admin
                                  THEN end(sess[i]) ELSE sess[i]]
    BY <1>6, <2>1 DEF revokeAllSessionsForAdmin
  <2> HIDE DEF end
  <2>3. sess' \in [Logins -> Session \cup {NoRow}]
    BY <1>1, <1>2, <2>2 DEF IInv, TypeOK
  <2>4. \A j \in Logins : sess'[j] = sess[j] \/ (sess[j] # NoRow /\ sess'[j] = end(sess[j]))
    BY <2>2
  <2>5. QED
    BY <1>4, <2>3, <2>4
<1>7. QED
  BY <1>3, <1>4, <1>5, <1>6

\* A change runs: it is refused, or made and audited, or made and its audit fails.
LEMMA RunInv ==
    ASSUME IInv, NEW t \in Tabs, Run(t)
    PROVE  IInv' /\ Kept
<1>1. PICK c \in Call : c = call[t] /\ Sound(c) /\ c.step = "run"
  BY Standing DEF Run, Is
<1>2. /\ UNCHANGED <<clock, account, jar, tab, check>> /\ call[t] # NoRow
      /\ c.kind # "login" /\ c.audits = 0 /\ LoggedIn(c.session, c.by)
  BY <1>1 DEF Run, Is, Sound
<1>3. UNCHANGED trouble \/ Troubled
  BY DEF Run
<1>4. \E code \in {"ok", "refused", "unauthenticated"}, audits \in {0, 1} :
         (code = "ok" => audits = 1) /\ Back(t, code, audits)
  BY <1>1, <1>2 DEF Run
<1>5. PICK d \in Call : Sound(d) /\ call' = [call EXCEPT ![t] = d]
  BY <1>1, <1>2, <1>4, BackSound
<1>6. Kept /\ Capped' /\ sess' \in [Logins -> Session \cup {NoRow}]
  BY <1>1, <1>2, EffectKeeps, SessUnchanged DEF Run
<1>7. Sound(d)'
  BY <1>5, <1>6, SoundStays DEF IInv
<1>8. call' \in [Tabs -> Call \cup {NoRow}] /\ CallsSound'
  BY <1>5, <1>6, <1>7, CallSet
<1>9. trouble' \in 0..MaxTrouble /\ Counted'
  <2>1. trouble' \in 0..MaxTrouble /\ trouble <= trouble'
    BY <1>3, Numbers DEF IInv, TypeOK, Troubled
  <2>2. ASSUME NEW a \in Admins PROVE account'[a].failed <= trouble'
    <3>1. account[a].failed \in Int /\ account[a].failed <= trouble
      BY Numbers DEF IInv, TypeOK, Account, Counted
    <3>2. QED
      BY <1>2, <2>1, <3>1 DEF IInv, TypeOK
  <2>3. QED
    BY <2>1, <2>2 DEF Counted
<1>10. QED
  BY <1>2, <1>6, <1>8, <1>9 DEF IInv, TypeOK

-----------------------------------------------------------------------------
(* The answer *)

\* An answer that is heard ends its call.
LEMMA HearInv ==
    ASSUME IInv, NEW t \in Tabs, Hear(t)
    PROVE  IInv'
<1>1. UNCHANGED <<clock, trouble, account, sess, check>> /\ call' = [call EXCEPT ![t] = NoRow]
  BY DEF Hear
<1>2. jar' \in Cookie \cup {NoRow}
  BY DEF Hear, IInv, TypeOK
<1>3. PICK k \in Logins \cup {NoRow}, w \in Admins \cup {"checking", "out"} :
         tab' = [tab EXCEPT ![t] = [csrf |-> k, who |-> w]]
  <2>1. tab[t].csrf \in Logins \cup {NoRow} /\ tab[t].who \in Admins \cup {"checking", "out"}
    BY DEF IInv, TypeOK
  <2>2. QED
    BY <2>1 DEF Hear
<1>4. tab' \in TabStates
  BY <1>3 DEF IInv, TypeOK, TabStates
<1>5. QED
  BY <1>1, <1>2, <1>4, CallMoves DEF IInv, TypeOK

\* A lost request or answer ends its call, or reopens the dialog it came from.
LEMMA LoseInv ==
    ASSUME IInv, NEW t \in Tabs, Lose(t)
    PROVE  IInv'
<1>1. PICK c \in Call : c = call[t] /\ Sound(c)
  BY Standing DEF Lose
<1>2. UNCHANGED <<clock, account, sess, jar, check>> /\ Troubled
  BY DEF Lose
<1>3. tab' \in TabStates
  BY DEF Lose, IInv, TypeOK, TabStates
<1> DEFINE e == [c EXCEPT !.step = "dialog", !.session = NoRow, !.code = "ok"]
<1>4. e \in Call /\ e.step = "dialog" /\ e.kind = c.kind /\ e.audits = c.audits /\ e.again = c.again
  BY DEF Call
<1> HIDE DEF e
<1>5. c.again /\ c.step = "loggedin" => Sound(e)
  BY <1>1, <1>4 DEF Sound
<1>6. PICK d \in Call \cup {NoRow} :
         /\ d = (IF c.again /\ c.step = "loggedin" THEN e ELSE NoRow)
         /\ d # NoRow => Sound(d)
  BY <1>4, <1>5
<1>7. call' = [call EXCEPT ![t] = d]
  BY <1>1, <1>6 DEF Lose, e
<1>8. QED
  BY <1>2, <1>3, <1>6, <1>7, CallMoves DEF IInv, TypeOK

\* A step either leaves the sessions alone, adds one, renews one or ends some.
LEMMA StepKeeps ==
    ASSUME IInv, Next
    PROVE  Kept
<1>1. CASE UNCHANGED sess
  BY <1>1, SessUnchanged
<1>2. ASSUME NEW a, MoreLogins, createAdminSession(a, NextLogin)
      PROVE  Kept
  <2>1. PICK n \in Logins : n = NextLogin /\ sess[n] = NoRow
    BY <1>2, NextIsFree
  <2>2. \A i \in Logins : i # n => sess'[i] = sess[i]
    BY <1>2, <2>1 DEF createAdminSession, IInv, TypeOK
  <2>3. QED
    BY <2>1, <2>2 DEF Kept
<1>3. ASSUME NEW t \in Tabs, Renew(t) \/ Run(t)
      PROVE  Kept
  BY <1>3, RenewInv, RunInv
<1>4. \/ UNCHANGED sess
      \/ \E a \in Admins \cup {"checking", "out"} : MoreLogins /\ createAdminSession(a, NextLogin)
      \/ \E t \in Tabs : Renew(t) \/ Run(t)
  <2>1. ASSUME NEW t \in Tabs, NEW c, NEW a \in Admins, ServeLogin(t, c, a)
        PROVE  UNCHANGED sess \/ (MoreLogins /\ createAdminSession(a, NextLogin))
    BY <2>1 DEF ServeLogin
  <2>2. QED
    BY <2>1 DEF Next, Login, Click, Read, LogoutHere, submitReauth, cancelReauth, HearLogin,
       Authenticate, Hear, Lose, Reload, HearCheck, Tick
<1>5. QED
  BY <1>1, <1>2, <1>3, <1>4

-----------------------------------------------------------------------------
(* Theorems *)

LEMMA StepInv ==
    ASSUME IInv, [Next]_vars
    PROVE  IInv'
<1>1. CASE Next
  BY <1>1, LoginInv, ClickInv, PageInv, submitReauthInv, cancelReauthInv, HearLoginInv,
     AuthenticateInv, RenewInv, RunInv, HearInv, LoseInv, TickInv DEF Next
<1>2. CASE UNCHANGED vars
  BY <1>2 DEF IInv, TypeOK, CallsSound, Sound, LoggedIn, Capped, Counted, vars
<1>3. QED
  BY <1>1, <1>2

LEMMA InitInv ==
    ASSUME Init
    PROVE  IInv
<1>1. TypeOK
  <2>1. account \in [Admins -> Account]
    BY Numbers DEF Init, Account
  <2>2. clock \in 0..MaxClock /\ trouble \in 0..MaxTrouble
    BY Numbers DEF Init
  <2>3. tab \in [Tabs -> [who : Admins \cup {"checking", "out"}, csrf : Logins \cup {NoRow}]]
    BY DEF Init
  <2>4. QED
    BY <2>1, <2>2, <2>3 DEF Init, TypeOK
<1>2. CallsSound /\ Capped /\ Counted
  BY DEF Init, CallsSound, Capped, Counted
<1>3. QED
  BY <1>1, <1>2 DEF IInv

\* The invariant of the administration's sign-in: at each of its steps a call is sound, no session
\* outlives its cap, and failed log-ins are counted.
THEOREM InvariantHolds == Spec => []IInv
  BY InitInv, StepInv, PTL DEF Spec

\* Every row and everything a tab keeps has its type.
THEOREM TypeCorrect == Spec => []TypeOK
<1>1. IInv => TypeOK
  BY DEF IInv
<1>2. QED
  BY <1>1, InvariantHolds, PTL

\* For any number of administrators and tabs, a change is made through the very log-in its tab
\* made: the shared cookie never lends a tab another administrator's name.
THEOREM ActsThroughItsLoginHolds == Spec => []ActsThroughItsLogin
<1>1. IInv => ActsThroughItsLogin
  BY DEF IInv, CallsSound, Sound, LoggedIn, ActsThroughItsLogin
<1>2. QED
  BY <1>1, InvariantHolds, PTL

\* A click is audited at most once, across the dialog and its repetition, and a tab told of
\* success was audited.
THEOREM SuccessIsAudited == Spec => []SuccessIsAuditedOnce
<1>1. IInv => SuccessIsAuditedOnce
  BY DEF IInv, CallsSound, Sound, SuccessIsAuditedOnce
<1>2. QED
  BY <1>1, InvariantHolds, PTL

\* A revoked session stays revoked, and no session outlives the cap counted from its log-in,
\* whenever a renewal that was worked out earlier is written.
THEOREM SessionsOnlyEndHolds == Spec => SessionsOnlyEnd
<1> DEFINE Ends == \A i \in Logins : sess[i] # NoRow =>
                     /\ sess[i].revoked => sess'[i].revoked
                     /\ sess'[i].expires <= sess[i].created + AbsoluteMax
<1>1. ASSUME IInv, [Next]_vars
      PROVE  [Ends]_vars
  <2>1. SUFFICES ASSUME Next PROVE Ends
    BY <1>1
  <2>2. Kept /\ Capped'
    BY <1>1, <2>1, StepKeeps, StepInv DEF IInv
  <2>3. QED
    BY <2>2 DEF Kept, Capped
<1>2. QED
  BY <1>1, InvariantHolds, PTL DEF Spec, SessionsOnlyEnd
=============================================================================
