-------------------------- MODULE GuessContentProofs --------------------------
(***************************************************************************)
(* Proofs about the game's posts for any forum, any number of requests and *)
(* any bounds.  Everything rests on three facts.  Only an import that has  *)
(* reserved a connection takes steps, and the connection it reserved holds *)
(* the lock.  A post's text changes only with its version, so a moderator  *)
(* whose version stands knows the text.  A run's posts and its counter     *)
(* differ by the post in hand, as long as the run has seen no error.       *)
(***************************************************************************)
EXTENDS GuessContent, FiniteSetTheorems, SequenceTheorems, TLAPS

ClockOK == events \in 0..MaxEvents /\ day \in 1..MaxDay /\ forum \in [Posts -> Texts]

UsersOK == stats \in [Users -> Nat \cup {NoRow}] /\ override \in [Users -> Overrides]

\* The posts, and what their revisions say of the texts they have had.
PostsOK ==
    /\ post \in [Posts -> ForumPost \cup {NoRow}]
    /\ revisions \in [Posts -> Seq(Texts)] /\ told \in [Posts -> Seq(Texts)]
    /\ \A p \in Posts : IF post[p] = NoRow THEN revisions[p] = <<>>
                        ELSE Append(revisions[p], post[p].content) = told[p]

\* What a moderator has read is the post's text, if its version still stands.
Read(c) ==
    /\ post[c.post] # NoRow
    /\ c.version <= post[c.post].version
    /\ Stands(c) => /\ c.content = post[c.post].content
                    /\ c.previous # NoRow => c.previous = post[c.post].content

CallsOK ==
    /\ call \in [Moderators -> View \cup {NoRow}]
    /\ \A m \in Moderators : call[m] # NoRow => Read(call[m])

\* The post an import has in hand.
InHand(w) ==
    /\ w.step \in {"find", "store", "count"} => w.post \in Posts /\ w.text \in Texts
    /\ w.step = "store" /\ w.known # NoRow => post[w.post] # NoRow
    /\ w.fatal => w.errors

ImportsOK ==
    /\ lock \in [holder : Conns \cup {NoRow}, depth : Nat]
    /\ held \in [Imports -> Conns \cup {NoRow}]
    /\ imp \in [Imports -> Progress \cup {NoRow}]
    /\ \A i \in Imports : held[i] # NoRow => lock.holder = held[i] /\ lock.depth > 0
    /\ \A i \in Imports : imp[i] # NoRow => held[i] # NoRow /\ InHand(imp[i])
    /\ OneImportAtATime

\* The posts that a run brought in, and an import that is still bringing them.
Brought(r) == {p \in Posts : post[p] # NoRow /\ post[p].run = r}
Walking(i) == imp[i] # NoRow /\ imp[i].step \notin {"open", "stats", "unlock"}
Uncounted(i) == IF imp[i].step = "count" /\ imp[i].stored = "new" THEN 1 ELSE 0

RunsOK ==
    /\ runs \in [0..MaxRuns -> ImportRun \cup {NoRow}]
    /\ \A p \in Posts : post[p] # NoRow => runs[post[p].run] # NoRow
    /\ \A i \in Imports : Walking(i) =>
         /\ imp[i].run \in 1..MaxRuns /\ runs[imp[i].run] # NoRow
         /\ runs[imp[i].run].status = "running"
         /\ ~imp[i].errors =>
              Cardinality(Brought(imp[i].run)) = runs[imp[i].run].new + Uncounted(i)
    /\ SuccessCountsItsPosts

\* Every round of a plan has its target among the full number of choices.
FullRounds(plan) ==
    \A k \in DOMAIN plan : /\ plan[k].target \in plan[k].choices
                           /\ Cardinality(plan[k].choices) = ChoicesPerRound

Request == [day : 0..MaxDay, step : {"targets", "posts"}, waiting : SUBSET Users,
            pool : UNION {[S -> SUBSET Posts] : S \in SUBSET Users}]

PlayOK ==
    /\ daily \in [1..MaxDay -> Seq(RoundPlan) \cup {NoRow}]
    /\ \A d \in 1..MaxDay : daily[d] # NoRow => FullRounds(daily[d])
    /\ req \in [Players -> Request \cup {NoRow}]
    /\ \A h \in handed : /\ h.day \in 0..MaxDay /\ h.plan \in Seq(RoundPlan)
                         /\ h.day # 0 => h.plan = daily[h.day]
                         /\ FullRounds(h.plan)

IInv == ClockOK /\ UsersOK /\ PostsOK /\ CallsOK /\ ImportsOK /\ RunsOK /\ PlayOK

-----------------------------------------------------------------------------
(* What the importer measures and inserts. *)

LEMMA QualityBounds == \A t \in Texts : computeQualityScore(Metrics[t]) \in 0..200
<1> SUFFICES ASSUME NEW t \in Texts PROVE computeQualityScore(Metrics[t]) \in 0..200
  OBVIOUS
<1>1. Metrics[t].words \in Nat /\ Metrics[t].quoted \in 0..10
  BY ContentAssumption
<1>2. computeGenericResponseScore(Metrics[t]) \in 0..10
  BY DEF computeGenericResponseScore
<1> DEFINE w == Metrics[t].words
           q == Metrics[t].quoted
           g == computeGenericResponseScore(Metrics[t])
           score == 200 - (IF w < 8 THEN 15 * (8 - w) ELSE 0) - 10 * q - 16 * g
<1>3. w \in Nat /\ q \in 0..10 /\ g \in 0..10
  BY <1>1, <1>2
<1>4. computeQualityScore(Metrics[t]) = IF score < 0 THEN 0 ELSE score
  BY DEF computeQualityScore
<1> HIDE DEF w, q, g
<1>5. score \in Int /\ score <= 200
  BY <1>3
<1>6. QED
  BY <1>4, <1>5

LEMMA RowType ==
    ASSUME NEW t \in Texts, NEW s \in PostStatus, NEW v \in Nat, NEW r \in 0..MaxRuns
    PROVE  /\ Row(t, s, v, r) \in ForumPost
           /\ Row(t, s, v, r).content = t /\ Row(t, s, v, r).run = r
           /\ Row(t, s, v, r).version = v
BY QualityBounds DEF Row, ForumPost

LEMMA FirstOfText == \A t \in Texts : Append(<<>>, t) = <<t>> /\ <<t>> \in Seq(Texts)
OBVIOUS

LEMMA InitInv == Init => IInv
<1> SUFFICES ASSUME Init PROVE IInv
  OBVIOUS
<1>0. /\ \A p \in Curated : post[p] = Row(FirstText[p], "approved", 1, 0)
      /\ \A p \in Posts \ Curated : post[p] = NoRow
  BY ContentAssumption DEF Init
<1>1. \A p \in Curated : post[p] \in ForumPost /\ post[p].content = FirstText[p] /\ post[p].run = 0
  BY <1>0, RowType, ContentAssumption DEF PostStatus
<1>2. ClockOK
  BY ContentAssumption DEF Init, ClockOK
<1>3. UsersOK
  <2>1. \A u \in Users : Cardinality({p \in Curated : Author[p] = u}) \in Nat
    BY ContentAssumption, FS_Subset, FS_CardinalityType
  <2>2. QED
    BY <2>1 DEF Init, UsersOK, Overrides
<1>4. PostsOK
  <2>1. post \in [Posts -> ForumPost \cup {NoRow}]
    BY <1>0, <1>1 DEF Init
  <2>2. revisions \in [Posts -> Seq(Texts)] /\ told \in [Posts -> Seq(Texts)]
    BY ContentAssumption DEF Init
  <2>3. ASSUME NEW p \in Posts
        PROVE  IF post[p] = NoRow THEN revisions[p] = <<>>
               ELSE Append(revisions[p], post[p].content) = told[p]
    <3>1. CASE p \in Curated
      <4>1. post[p] # NoRow /\ post[p].content = FirstText[p] /\ FirstText[p] \in Texts
        BY <3>1, <1>1, ContentAssumption, RowAssumption
      <4>2. revisions[p] = <<>> /\ told[p] = <<FirstText[p]>>
        BY <3>1 DEF Init
      <4>3. QED
        BY <4>1, <4>2, FirstOfText
    <3>2. CASE p \notin Curated
      BY <3>2, <1>0 DEF Init
    <3>3. QED
      BY <3>1, <3>2
  <2>4. QED
    BY <2>1, <2>2, <2>3 DEF PostsOK
<1>5. CallsOK
  BY DEF Init, CallsOK
<1>6. ImportsOK
  BY DEF Init, ImportsOK, OneImportAtATime
<1>7. RunsOK
  <2>1. Cardinality(Curated) \in Nat
    BY ContentAssumption, FS_Subset, FS_CardinalityType
  <2>2. runs \in [0..MaxRuns -> ImportRun \cup {NoRow}]
    BY <2>1 DEF Init, ImportRun
  <2>3. \A p \in Posts : post[p] # NoRow => post[p].run = 0
    BY <1>0, <1>1
  <2>4. runs[0] = [status |-> "success", new |-> Cardinality(Curated), updated |-> 0]
    BY ContentAssumption DEF Init
  <2>5. runs[0] # NoRow
    BY <2>1, <2>4, RowAssumption DEF ImportRun
  <2>6. {p \in Posts : post[p] # NoRow /\ post[p].run = 0} = Curated
    BY <1>0, <1>1, ContentAssumption, RowAssumption
  <2>7. SuccessCountsItsPosts
    BY <2>4, <2>6 DEF Init, SuccessCountsItsPosts
  <2>8. QED
    BY <2>2, <2>3, <2>5, <2>7 DEF Init, RunsOK, Walking
<1>8. PlayOK
  BY DEF Init, PlayOK
<1>9. QED
  BY <1>2, <1>3, <1>4, <1>5, <1>6, <1>7, <1>8 DEF IInv

-----------------------------------------------------------------------------
(* What a step that leaves a part alone owes the others. *)

\* Rows stay, with their run, and their text for as long as their version stays.
Kept ==
    \A p \in Posts : post[p] # NoRow =>
        /\ post'[p] # NoRow /\ post'[p].run = post[p].run
        /\ post[p].version <= post'[p].version
        /\ post'[p].version = post[p].version => post'[p].content = post[p].content

NoNewRow == \A p \in Posts : post[p] = NoRow => post'[p] = NoRow

LEMMA SamePosts == ASSUME PostsOK, UNCHANGED post PROVE Kept /\ NoNewRow /\ Deliberate
<1>1. \A p \in Posts : post[p] # NoRow => post[p].version \in Nat
  BY DEF PostsOK, ForumPost
<1>2. QED
  BY <1>1 DEF Kept, NoNewRow, Deliberate

LEMMA ClockFrame ==
    ASSUME ClockOK, Event \/ UNCHANGED events, UNCHANGED <<day, forum>>
    PROVE  ClockOK'
BY ContentAssumption DEF ClockOK, Event

LEMMA UsersFrame == ASSUME UsersOK, UNCHANGED <<stats, override>> PROVE UsersOK'
BY DEF UsersOK

LEMMA PostsFrame == ASSUME PostsOK, UNCHANGED content PROVE PostsOK'
BY DEF PostsOK, content

LEMMA PlayFrame == ASSUME PlayOK, UNCHANGED playing PROVE PlayOK'
BY DEF PlayOK, playing

LEMMA CallsFrame ==
    ASSUME PostsOK, PostsOK', CallsOK, Kept, call' \in [Moderators -> View \cup {NoRow}],
           \A m \in Moderators : call'[m] \in {call[m], NoRow}
    PROVE  CallsOK'
<1> SUFFICES ASSUME NEW m \in Moderators, call'[m] # NoRow
             PROVE  Read(call[m])'
  BY DEF CallsOK
<1>1. call'[m] = call[m] /\ call[m] \in View /\ Read(call[m])
  BY DEF CallsOK
<1>2. call[m].post \in Posts /\ call[m].version \in Nat
  BY <1>1 DEF View
<1> DEFINE p == call[m].post
<1>3. post[p] # NoRow /\ post[p].version \in Nat
  BY <1>1, <1>2 DEF Read, PostsOK, ForumPost
<1>4. /\ post'[p] # NoRow /\ post[p].version <= post'[p].version
      /\ post'[p].version = post[p].version => post'[p].content = post[p].content
  BY <1>2, <1>3 DEF Kept
<1>5. post'[p].version \in Nat
  BY <1>2, <1>4 DEF PostsOK, ForumPost
<1>6. QED
  BY <1>1, <1>2, <1>3, <1>4, <1>5 DEF Read, Stands

LEMMA ImportsFrame ==
    ASSUME ImportsOK, Kept, UNCHANGED <<lock, held, imp>>
    PROVE  ImportsOK'
<1>1. ASSUME NEW i \in Imports, imp[i] # NoRow PROVE InHand(imp[i])'
  BY <1>1 DEF ImportsOK, InHand, Kept
<1>2. OneImportAtATime'
  BY DEF ImportsOK, OneImportAtATime
<1>3. QED
  BY <1>1, <1>2 DEF ImportsOK

LEMMA SameBrought == ASSUME Kept, NoNewRow PROVE \A r : Brought(r)' = Brought(r)
BY DEF Kept, NoNewRow, Brought

LEMMA RunsFrame ==
    ASSUME RunsOK, Kept, NoNewRow, UNCHANGED <<runs, imp>>
    PROVE  RunsOK'
<1>1. \A r : Brought(r)' = Brought(r)
  BY SameBrought
<1>2. \A p \in Posts : post'[p] # NoRow => runs[post'[p].run] # NoRow
  BY DEF RunsOK, Kept, NoNewRow
<1>3. SuccessCountsItsPosts'
  BY <1>1 DEF RunsOK, SuccessCountsItsPosts, Brought
<1>4. ASSUME NEW i \in Imports, Walking(i)'
      PROVE  /\ imp[i].run \in 1..MaxRuns /\ runs[imp[i].run] # NoRow
             /\ runs[imp[i].run].status = "running"
             /\ ~imp[i].errors =>
                  Cardinality(Brought(imp[i].run)') = runs[imp[i].run].new + Uncounted(i)
  BY <1>1, <1>4 DEF RunsOK, Walking
<1>5. \A i \in Imports : Uncounted(i)' = Uncounted(i)
  BY DEF Uncounted
<1>6. QED
  BY <1>2, <1>3, <1>4, <1>5 DEF RunsOK

-----------------------------------------------------------------------------
(* Moderation. *)

LEMMA DecidedRow ==
    ASSUME NEW w \in ForumPost, NEW s \in PostStatus
    PROVE  LET x == [w EXCEPT !.status = s, !.version = @ + 1]
           IN  x \in ForumPost /\ x.content = w.content /\ x.run = w.run
               /\ x.version = w.version + 1
<1>1. w.version \in Nat /\ w.version + 1 \in Nat
  BY DEF ForumPost
<1>2. QED
  BY <1>1 DEF ForumPost

LEMMA DecideInv ==
    ASSUME IInv, NEW m \in Moderators, NEW s \in {"approved", "rejected"}, Decide(m, s)
    PROVE  IInv' /\ Deliberate
<1> DEFINE c == call[m]
<1>1. c \in View /\ Read(c) /\ c.post \in Posts
  BY DEF IInv, CallsOK, Decide, View
<1>2. post[c.post] \in ForumPost /\ post[c.post] # NoRow
  BY <1>1 DEF IInv, PostsOK, Read
<1> DEFINE w == [post[c.post] EXCEPT !.status = s, !.version = @ + 1]
<1>3. w \in ForumPost /\ w.content = post[c.post].content /\ w.run = post[c.post].run
      /\ w.version = post[c.post].version + 1
  BY <1>2, DecidedRow DEF PostStatus
<1>4. post' = IF Stands(c) THEN [post EXCEPT ![c.post] = w] ELSE post
  BY DEF Decide
<1> HIDE DEF w
<1>5. w # NoRow
  BY <1>3, RowAssumption
<1>6. PostsOK'
  <2>1. post' \in [Posts -> ForumPost \cup {NoRow}]
    BY <1>1, <1>3, <1>4 DEF IInv, PostsOK
  <2>2. revisions' = revisions /\ told' = told
    BY DEF Decide
  <2>3. \A p \in Posts : post'[p] = IF p = c.post /\ Stands(c) THEN w ELSE post[p]
    BY <1>1, <1>4 DEF IInv, PostsOK
  <2>4. ASSUME NEW p \in Posts
        PROVE  IF post'[p] = NoRow THEN revisions[p] = <<>>
               ELSE Append(revisions[p], post'[p].content) = told[p]
    <3>1. CASE post'[p] = post[p]
      BY <3>1 DEF IInv, PostsOK
    <3>2. CASE p = c.post /\ post'[p] = w
      BY <3>2, <1>2, <1>3, <1>5 DEF IInv, PostsOK
    <3>3. QED
      BY <2>3, <3>1, <3>2
  <2>5. QED
    BY <2>1, <2>2, <2>4 DEF IInv, PostsOK
<1>7. Kept /\ NoNewRow
  <2>1. \A p \in Posts : post[p] # NoRow => post[p].version \in Nat
    BY DEF IInv, PostsOK, ForumPost
  <2>2. \A p \in Posts : post'[p] = IF p = c.post /\ Stands(c) THEN w ELSE post[p]
    BY <1>1, <1>4 DEF IInv, PostsOK
  <2>3. QED
    BY <1>2, <1>3, <1>5, <2>1, <2>2 DEF Kept, NoNewRow
<1>8. Deliberate
  <2>1. Stands(c) => c.content = post[c.post].content
    BY <1>1 DEF Read
  <2>2. \A p \in Posts : p # c.post \/ ~Stands(c) => post'[p] = post[p]
    BY <1>1, <1>4 DEF IInv, PostsOK
  <2>3. c # NoRow /\ call'[m] = NoRow
    BY DEF Decide, IInv, CallsOK
  <2>4. QED
    BY <2>1, <2>2, <2>3 DEF Deliberate
<1>9. CallsOK'
  <2>1. call' \in [Moderators -> View \cup {NoRow}] /\ \A n \in Moderators : call'[n] \in {call[n], NoRow}
    BY DEF IInv, CallsOK, Decide
  <2>2. QED
    BY <2>1, <1>6, <1>7, CallsFrame DEF IInv
<1>10. ClockOK' /\ UsersOK' /\ PlayOK'
  BY ClockFrame, UsersFrame, PlayFrame DEF IInv, Decide, playing
<1>11. ImportsOK' /\ RunsOK'
  BY <1>7, ImportsFrame, RunsFrame DEF IInv, Decide, importing
<1>12. QED
  BY <1>6, <1>8, <1>9, <1>10, <1>11 DEF IInv

\* A step that only a moderator's own call sees.
LEMMA ReadingInv ==
    ASSUME IInv, NEW m \in Moderators, NEW v \in View, Read(v), Event \/ UNCHANGED events,
           call' = [call EXCEPT ![m] = v],
           UNCHANGED <<day, forum, content, stats, override, importing, playing>>
    PROVE  IInv' /\ Deliberate
<1>1. Kept /\ NoNewRow /\ Deliberate
  BY SamePosts DEF IInv, content
<1>2. ClockOK' /\ UsersOK' /\ PostsOK' /\ PlayOK'
  BY ClockFrame, UsersFrame, PostsFrame, PlayFrame DEF IInv, playing, content
<1>3. ImportsOK' /\ RunsOK'
  BY <1>1, ImportsFrame, RunsFrame DEF IInv, importing
<1>4. CallsOK'
  <2>1. call' \in [Moderators -> View \cup {NoRow}]
    BY DEF IInv, CallsOK
  <2>2. \A n \in Moderators : call'[n] = IF n = m THEN v ELSE call[n]
    BY DEF IInv, CallsOK
  <2>3. \A n \in Moderators : call'[n] # NoRow => Read(call'[n])
    BY <2>2 DEF IInv, CallsOK
  <2>4. QED
    BY <2>1, <2>3 DEF CallsOK, Read, Stands, content
<1>5. QED
  BY <1>1, <1>2, <1>3, <1>4 DEF IInv

LEMMA DetailInv ==
    ASSUME IInv, NEW m \in Moderators, NEW p \in Posts, getPostDetail(m, p)
    PROVE  IInv' /\ Deliberate
<1> DEFINE v == [post |-> p, version |-> post[p].version, content |-> post[p].content,
                 previous |-> NoRow]
<1>1. post[p] \in ForumPost /\ post[p] # NoRow
  BY DEF getPostDetail, IInv, PostsOK
<1>2. post[p].version \in Nat /\ post[p].content \in Texts
  BY <1>1 DEF ForumPost
<1>3. v \in View
  BY <1>2 DEF View
<1>4. Read(v)
  BY <1>1, <1>2 DEF Read
<1>5. QED
  BY <1>3, <1>4, ReadingInv DEF getPostDetail

LEMMA ReadForEditInv ==
    ASSUME IInv, NEW m \in Moderators, ReadForEdit(m)
    PROVE  IInv' /\ Deliberate
<1> DEFINE c == call[m]
           v == [c EXCEPT !.previous = post[c.post].content]
<1>1. c \in View /\ Read(c) /\ c.post \in Posts
  BY DEF IInv, CallsOK, ReadForEdit, View
<1>2. post[c.post].content \in Texts
  BY <1>1 DEF IInv, PostsOK, Read, ForumPost
<1>3. /\ v \in View /\ v.post = c.post /\ v.version = c.version /\ v.content = c.content
      /\ v.previous = post[c.post].content
  BY <1>1, <1>2 DEF View
<1>4. Read(v)
  BY <1>1, <1>3 DEF Read, Stands
<1>5. call' = [call EXCEPT ![m] = v]
  BY DEF ReadForEdit
<1>6. QED
  BY <1>3, <1>4, <1>5, ReadingInv DEF ReadForEdit

LEMMA EditedRow ==
    ASSUME NEW w \in ForumPost, NEW t \in Texts
    PROVE  LET x == [w EXCEPT !.content = t, !.version = @ + 1]
           IN  x \in ForumPost /\ x.content = t /\ x.run = w.run /\ x.version = w.version + 1
<1>1. w.version \in Nat /\ w.version + 1 \in Nat
  BY DEF ForumPost
<1>2. QED
  BY <1>1 DEF ForumPost

LEMMA EditInv ==
    ASSUME IInv, NEW m \in Moderators, NEW t \in Texts, editCleanContent(m, t)
    PROVE  IInv' /\ Deliberate
<1> DEFINE c == call[m]
           p == c.post
           w == [post[p] EXCEPT !.content = t, !.version = @ + 1]
<1>1. c \in View /\ Read(c) /\ p \in Posts /\ c # NoRow /\ c.previous # NoRow
  BY DEF IInv, CallsOK, editCleanContent, View
<1>2. post[p] \in ForumPost /\ post[p] # NoRow
  BY <1>1 DEF IInv, PostsOK, Read
<1>3. w \in ForumPost /\ w.content = t /\ w.run = post[p].run /\ w.version = post[p].version + 1
  BY <1>2, EditedRow
<1>4. w # NoRow
  BY <1>3, RowAssumption
<1>5. IF Stands(c)
      THEN /\ post' = [post EXCEPT ![p] = w]
           /\ revisions' = [revisions EXCEPT ![p] = Append(@, post[p].content)]
           /\ told' = [told EXCEPT ![p] = Append(@, t)]
      ELSE UNCHANGED content
  BY <1>1 DEF editCleanContent, Edited, Read
<1> HIDE DEF w
<1>6. \A q \in Posts : post'[q] = IF q = p /\ Stands(c) THEN w ELSE post[q]
  BY <1>1, <1>5 DEF IInv, PostsOK, content
<1>7. PostsOK'
  <2>1. CASE Stands(c)
    <3>1. post[p].content \in Texts /\ revisions[p] \in Seq(Texts) /\ told[p] \in Seq(Texts)
      BY <1>1, <1>2 DEF IInv, PostsOK, ForumPost
    <3>2. /\ Append(revisions[p], post[p].content) \in Seq(Texts)
          /\ Append(told[p], t) \in Seq(Texts)
      BY <3>1
    <3>3. post' \in [Posts -> ForumPost \cup {NoRow}]
      BY <2>1, <1>3, <1>5 DEF IInv, PostsOK
    <3>4. revisions' \in [Posts -> Seq(Texts)] /\ told' \in [Posts -> Seq(Texts)]
      BY <2>1, <3>2, <1>5 DEF IInv, PostsOK
    <3>5. revisions'[p] = told[p] /\ told'[p] = Append(told[p], t)
      <4>1. Append(revisions[p], post[p].content) = told[p]
        BY <1>1, <1>2 DEF IInv, PostsOK
      <4>2. revisions'[p] = Append(revisions[p], post[p].content) /\ told'[p] = Append(told[p], t)
        BY <2>1, <1>1, <1>5 DEF IInv, PostsOK
      <4>3. QED
        BY <4>1, <4>2
    <3>6. \A q \in Posts : q # p => revisions'[q] = revisions[q] /\ told'[q] = told[q]
      BY <2>1, <1>5 DEF IInv, PostsOK
    <3>7. ASSUME NEW q \in Posts
          PROVE  IF post'[q] = NoRow THEN revisions'[q] = <<>>
                 ELSE Append(revisions'[q], post'[q].content) = told'[q]
      <4>1. CASE q = p
        BY <4>1, <2>1, <1>3, <1>4, <1>6, <3>5
      <4>2. CASE q # p
        BY <4>2, <1>6, <3>6 DEF IInv, PostsOK
      <4>3. QED
        BY <4>1, <4>2
    <3>8. QED
      BY <3>3, <3>4, <3>7 DEF PostsOK
  <2>2. CASE ~Stands(c)
    BY <2>2, <1>5, PostsFrame DEF IInv
  <2>3. QED
    BY <2>1, <2>2
<1>8. Kept /\ NoNewRow
  <2>1. \A q \in Posts : post[q] # NoRow => post[q].version \in Nat
    BY DEF IInv, PostsOK, ForumPost
  <2>2. QED
    BY <1>2, <1>3, <1>4, <1>6, <2>1 DEF Kept, NoNewRow
<1>9. Deliberate
  <2>1. Stands(c) => c.content = post[p].content
    BY <1>1 DEF Read
  <2>2. call'[m] = NoRow
    BY DEF editCleanContent, IInv, CallsOK
  <2>3. QED
    BY <1>1, <1>6, <2>1, <2>2 DEF Deliberate
<1>10. CallsOK'
  <2>1. call' \in [Moderators -> View \cup {NoRow}] /\ \A n \in Moderators : call'[n] \in {call[n], NoRow}
    BY DEF IInv, CallsOK, editCleanContent
  <2>2. QED
    BY <2>1, <1>7, <1>8, CallsFrame DEF IInv
<1>11. ClockOK' /\ UsersOK' /\ PlayOK'
  BY ClockFrame, UsersFrame, PlayFrame DEF IInv, editCleanContent, playing
<1>12. ImportsOK' /\ RunsOK'
  BY <1>8, ImportsFrame, RunsFrame DEF IInv, editCleanContent, importing
<1>13. QED
  BY <1>7, <1>9, <1>10, <1>11, <1>12 DEF IInv

LEMMA ModeratorInv ==
    ASSUME IInv, NEW m \in Moderators, ModeratorStep(m)
    PROVE  IInv' /\ Deliberate
<1>1. ASSUME NEW p \in Posts, getPostDetail(m, p) PROVE IInv' /\ Deliberate
  BY <1>1, DetailInv
<1>2. CASE approvePost(m) \/ rejectPost(m)
  BY <1>2, DecideInv DEF approvePost, rejectPost
<1>3. CASE ReadForEdit(m)
  BY <1>3, ReadForEditInv
<1>4. ASSUME NEW t \in Texts, editCleanContent(m, t) PROVE IInv' /\ Deliberate
  BY <1>4, EditInv
<1>5. QED
  BY <1>1, <1>2, <1>3, <1>4 DEF ModeratorStep

-----------------------------------------------------------------------------
(* Imports. *)

\* Import i is the only one at work.
LEMMA OneAtWork ==
    ASSUME IInv, NEW i \in Imports, imp[i] # NoRow
    PROVE  /\ imp[i] \in Progress /\ InHand(imp[i])
           /\ \A j \in Imports \ {i} : imp[j] = NoRow /\ held[j] = NoRow
BY DEF IInv, ImportsOK, OneImportAtATime

\* What import i owes its run after a step that leaves posts and runs alone.
StillWalks(i) ==
    Walking(i)' => /\ Walking(i) /\ imp'[i].run = imp[i].run
                   /\ ~imp'[i].errors => ~imp[i].errors /\ Uncounted(i)' = Uncounted(i)

LEMMA WalkImports ==
    ASSUME IInv, NEW i \in Imports, imp[i] # NoRow,
           NEW w \in Progress, imp' = [imp EXCEPT ![i] = w], InHand(w)',
           UNCHANGED <<lock, held>>
    PROVE  ImportsOK'
<1>1. imp' \in [Imports -> Progress \cup {NoRow}] /\ imp'[i] = w
  BY DEF IInv, ImportsOK
<1>2. \A j \in Imports \ {i} : imp'[j] = NoRow
  BY OneAtWork DEF IInv, ImportsOK
<1>3. \A j \in Imports : imp'[j] # NoRow => held'[j] # NoRow /\ InHand(imp[j])'
  BY <1>1, <1>2 DEF IInv, ImportsOK, InHand
<1>4. OneImportAtATime'
  BY DEF IInv, ImportsOK, OneImportAtATime
<1>5. QED
  BY <1>1, <1>3, <1>4 DEF IInv, ImportsOK

LEMMA WalkInv ==
    ASSUME IInv, NEW i \in Imports, imp[i] # NoRow,
           NEW w \in Progress, imp' = [imp EXCEPT ![i] = w], InHand(w), StillWalks(i),
           Event \/ UNCHANGED events,
           UNCHANGED <<lock, held, content, stats, runs>>, UnchangedByImport
    PROVE  IInv' /\ Deliberate
<1>1. Kept /\ NoNewRow /\ Deliberate
  BY SamePosts DEF IInv, content
<1>2. ClockOK' /\ UsersOK' /\ PostsOK' /\ PlayOK'
  BY ClockFrame, UsersFrame, PostsFrame, PlayFrame DEF IInv, UnchangedByImport
<1>3. CallsOK'
  BY <1>1, <1>2, CallsFrame DEF IInv, UnchangedByImport, CallsOK
<1>4. InHand(w)'
  BY DEF InHand, content
<1>5. ImportsOK'
  BY <1>4, WalkImports
<1>6. RunsOK'
  <2>1. \A r : Brought(r)' = Brought(r)
    BY <1>1, SameBrought
  <2>2. \A p \in Posts : post'[p] # NoRow => runs'[post'[p].run] # NoRow
    BY DEF IInv, RunsOK, content
  <2>3. SuccessCountsItsPosts'
    BY DEF IInv, RunsOK, SuccessCountsItsPosts, content
  <2>4. \A j \in Imports \ {i} : imp'[j] = NoRow
    BY OneAtWork DEF IInv, ImportsOK
  <2>5. Walking(i)' =>
         /\ imp'[i].run \in 1..MaxRuns /\ runs[imp'[i].run] # NoRow
         /\ runs[imp'[i].run].status = "running"
         /\ ~imp'[i].errors =>
              Cardinality(Brought(imp'[i].run)) = runs[imp'[i].run].new + Uncounted(i)'
    BY DEF IInv, RunsOK, StillWalks
  <2>6. ASSUME NEW j \in Imports, Walking(j)'
        PROVE  /\ imp'[j].run \in 1..MaxRuns /\ runs'[imp'[j].run] # NoRow
               /\ runs'[imp'[j].run].status = "running"
               /\ ~imp'[j].errors =>
                    Cardinality(Brought(imp[j].run)') = runs'[imp'[j].run].new + Uncounted(j)'
    <3>1. j = i
      BY <2>4, <2>6 DEF Walking
    <3>2. Brought(imp[i].run)' = Brought(imp'[i].run)
      BY DEF Brought, content
    <3>3. QED
      BY <2>5, <2>6, <3>1, <3>2
  <2>7. QED
    BY <2>2, <2>3, <2>6 DEF IInv, RunsOK
<1>7. QED
  BY <1>1, <1>2, <1>3, <1>5, <1>6 DEF IInv

LEMMA GotoInv ==
    ASSUME IInv, NEW i \in Imports, imp[i] # NoRow,
           NEW s \in {"recent", "topics", "finish", "stats", "unlock"}, Goto(i, s),
           s \in {"stats", "unlock"} \/ (Walking(i) /\ imp[i].step # "count"),
           Event \/ UNCHANGED events,
           UNCHANGED <<lock, held, content, stats, runs>>, UnchangedByImport
    PROVE  IInv' /\ Deliberate
<1> DEFINE w == [imp[i] EXCEPT !.step = s]
<1>1. imp[i] \in Progress /\ InHand(imp[i])
  BY OneAtWork
<1>2. w \in Progress /\ w.step = s /\ w.run = imp[i].run /\ w.errors = imp[i].errors
      /\ w.fatal = imp[i].fatal /\ w.known = imp[i].known
  BY <1>1 DEF Progress
<1>3. imp' = [imp EXCEPT ![i] = w] /\ imp'[i] = w
  BY DEF Goto, IInv, ImportsOK
<1> HIDE DEF w
<1>4. InHand(w)
  BY <1>1, <1>2 DEF InHand
<1>5. StillWalks(i)
  BY <1>2, <1>3 DEF StillWalks, Walking, Uncounted
<1>6. QED
  BY <1>2, <1>3, <1>4, <1>5, WalkInv

LEMMA RecentInv ==
    ASSUME IInv, NEW i \in Imports, getRecentTopics(i)
    PROVE  IInv' /\ Deliberate
<1>1. imp[i] \in Progress /\ InHand(imp[i]) /\ imp[i] # NoRow /\ imp[i].step = "recent"
  BY OneAtWork DEF getRecentTopics, At
<1>2. ASSUME NEW page \in Pages(Recent \ imp[i].listed), UNCHANGED events,
             imp' = [imp EXCEPT ![i].todo = page, ![i].listed = @ \cup page,
                                ![i].step = IF page = {} THEN "finish" ELSE "topics"]
      PROVE  IInv' /\ Deliberate
  <2> DEFINE s == IF page = {} THEN "finish" ELSE "topics"
             listed == imp[i].listed \cup page
             w == [imp[i] EXCEPT !.todo = page, !.listed = listed, !.step = s]
  <2>1. page \subseteq Posts /\ listed \subseteq Posts
    BY <1>1, ContentAssumption DEF Pages, Progress
  <2>2. /\ w \in Progress /\ w.step \in {"finish", "topics"} /\ w.run = imp[i].run
        /\ w.errors = imp[i].errors /\ w.fatal = imp[i].fatal
    BY <1>1, <2>1 DEF Progress
  <2>3. imp' = [imp EXCEPT ![i] = w] /\ imp'[i] = w
    BY <1>2 DEF IInv, ImportsOK
  <2> HIDE DEF w
  <2>4. InHand(w)
    BY <1>1, <2>2 DEF InHand
  <2>5. StillWalks(i)
    BY <1>1, <2>2, <2>3 DEF StillWalks, Walking, Uncounted
  <2>6. QED
    BY <1>1, <1>2, <2>2, <2>3, <2>4, <2>5, WalkInv DEF getRecentTopics
<1>3. ASSUME Event,
             imp' = [imp EXCEPT ![i].errors = TRUE, ![i].fatal = TRUE, ![i].step = "finish"]
      PROVE  IInv' /\ Deliberate
  <2> DEFINE w == [imp[i] EXCEPT !.errors = TRUE, !.fatal = TRUE, !.step = "finish"]
  <2>1. w \in Progress /\ w.step = "finish" /\ w.run = imp[i].run /\ w.errors = TRUE
    BY <1>1 DEF Progress
  <2>2. imp' = [imp EXCEPT ![i] = w] /\ imp'[i] = w
    BY <1>3 DEF IInv, ImportsOK
  <2> HIDE DEF w
  <2>3. InHand(w)
    BY <2>1 DEF InHand
  <2>4. StillWalks(i)
    BY <1>1, <2>1, <2>2 DEF StillWalks, Walking
  <2>5. QED
    BY <1>1, <1>3, <2>1, <2>2, <2>3, <2>4, WalkInv DEF getRecentTopics
<1>4. QED
  BY <1>2, <1>3 DEF getRecentTopics

LEMMA TopicInv ==
    ASSUME IInv, NEW i \in Imports, NEW p \in Posts, getTopicDetail(i, p)
    PROVE  IInv' /\ Deliberate
<1>1. imp[i] \in Progress /\ InHand(imp[i]) /\ imp[i] # NoRow /\ imp[i].step = "topics"
  BY OneAtWork DEF getTopicDetail, At
<1>2. imp[i].todo \ {p} \subseteq Posts /\ forum[p] \in Texts
  BY <1>1 DEF Progress, IInv, ClockOK
<1>3. ASSUME imp' = [imp EXCEPT ![i].todo = @ \ {p}, ![i].post = p, ![i].text = forum[p],
                               ![i].progress = TRUE, ![i].step = "find"],
             UNCHANGED events
      PROVE  IInv' /\ Deliberate
  <2> DEFINE todo == imp[i].todo \ {p}
             w == [imp[i] EXCEPT !.todo = todo, !.post = p, !.text = forum[p],
                                 !.progress = TRUE, !.step = "find"]
  <2>1. /\ w \in Progress /\ w.step = "find" /\ w.run = imp[i].run /\ w.post = p
        /\ w.text = forum[p] /\ w.errors = imp[i].errors /\ w.fatal = imp[i].fatal
    BY <1>1, <1>2 DEF Progress
  <2>2. imp' = [imp EXCEPT ![i] = w] /\ imp'[i] = w
    BY <1>3 DEF IInv, ImportsOK
  <2> HIDE DEF w
  <2>3. InHand(w)
    BY <1>1, <1>2, <2>1 DEF InHand
  <2>4. StillWalks(i)
    BY <1>1, <2>1, <2>2 DEF StillWalks, Walking, Uncounted
  <2>5. QED
    BY <1>1, <1>3, <2>1, <2>2, <2>3, <2>4, WalkInv DEF getTopicDetail
<1>4. ASSUME Event, imp' = [imp EXCEPT ![i].todo = @ \ {p}, ![i].errors = TRUE]
      PROVE  IInv' /\ Deliberate
  <2> DEFINE todo == imp[i].todo \ {p}
             w == [imp[i] EXCEPT !.todo = todo, !.errors = TRUE]
  <2>1. w \in Progress /\ w.step = "topics" /\ w.run = imp[i].run /\ w.errors = TRUE
    BY <1>1, <1>2 DEF Progress
  <2>2. imp' = [imp EXCEPT ![i] = w] /\ imp'[i] = w
    BY <1>4 DEF IInv, ImportsOK
  <2> HIDE DEF w
  <2>3. InHand(w)
    BY <2>1 DEF InHand
  <2>4. StillWalks(i)
    BY <1>1, <2>1, <2>2 DEF StillWalks, Walking
  <2>5. QED
    BY <1>1, <1>4, <2>1, <2>2, <2>3, <2>4, WalkInv DEF getTopicDetail
<1>5. QED
  BY <1>3, <1>4 DEF getTopicDetail

LEMMA NextPageInv ==
    ASSUME IInv, NEW i \in Imports, NextPage(i)
    PROVE  IInv' /\ Deliberate
<1>1. imp[i] # NoRow /\ Walking(i) /\ imp[i].step = "topics"
  BY DEF NextPage, At, Walking
<1>2. PICK s \in {"recent", "finish"} : Goto(i, s)
  BY DEF NextPage
<1>3. QED
  BY <1>1, <1>2, GotoInv DEF NextPage

LEMMA FindInv ==
    ASSUME IInv, NEW i \in Imports, findForumPostByForumPid(i)
    PROVE  IInv' /\ Deliberate
<1>1. imp[i] \in Progress /\ InHand(imp[i]) /\ imp[i] # NoRow /\ imp[i].step = "find"
  BY OneAtWork DEF findForumPostByForumPid, At
<1> DEFINE p == imp[i].post
           known == IF post[p] = NoRow THEN NoRow ELSE post[p].sha
           w == [imp[i] EXCEPT !.known = known, !.step = "store"]
<1>2. p \in Posts /\ imp[i].text \in Texts
  BY <1>1 DEF InHand
<1>3. known \in Texts \cup {NoRow} /\ (known # NoRow => post[p] # NoRow)
  BY <1>2 DEF IInv, PostsOK, ForumPost
<1>4. /\ w \in Progress /\ w.step = "store" /\ w.run = imp[i].run /\ w.post = p
      /\ w.text = imp[i].text /\ w.known = known /\ w.errors = imp[i].errors
      /\ w.fatal = imp[i].fatal
  BY <1>1, <1>3 DEF Progress
<1>5. imp' = [imp EXCEPT ![i] = w] /\ imp'[i] = w
  BY DEF findForumPostByForumPid, IInv, ImportsOK
<1> HIDE DEF w, known
<1>6. InHand(w)
  BY <1>1, <1>2, <1>3, <1>4 DEF InHand
<1>7. StillWalks(i)
  BY <1>1, <1>4, <1>5 DEF StillWalks, Walking, Uncounted
<1>8. QED
  BY <1>1, <1>4, <1>5, <1>6, <1>7, WalkInv DEF findForumPostByForumPid

LEMMA DivergedRow ==
    ASSUME NEW w \in ForumPost, NEW s \in PostStatus
    PROVE  LET x == [w EXCEPT !.diverged = TRUE, !.status = s]
           IN  x \in ForumPost /\ x.content = w.content /\ x.run = w.run
               /\ x.version = w.version /\ x.status = s
BY DEF ForumPost

\* The row of a post that is known gets a mark, and loses its approval.
LEMMA DivergedInv ==
    ASSUME IInv, NEW i \in Imports, At(i, "store"), imp[i].known # NoRow,
           markSourceDiverged(imp[i].post), UNCHANGED <<revisions, told>>
    PROVE  PostsOK' /\ Kept /\ NoNewRow /\ Deliberate
<1> DEFINE p == imp[i].post
           s == IF post[p].status = "approved" THEN "needs_review" ELSE post[p].status
           w == [post[p] EXCEPT !.diverged = TRUE, !.status = s]
<1>1. InHand(imp[i]) /\ imp[i].step = "store"
  BY OneAtWork DEF At
<1>2. p \in Posts /\ post[p] # NoRow /\ post[p] \in ForumPost
  BY <1>1 DEF InHand, IInv, PostsOK
<1>3. s \in PostStatus /\ s # "approved"
  BY <1>2 DEF ForumPost, PostStatus
<1>4. w \in ForumPost /\ w.content = post[p].content /\ w.run = post[p].run
      /\ w.version = post[p].version /\ w.status = s
  BY <1>2, <1>3, DivergedRow
<1>5. post' = [post EXCEPT ![p] = w]
  BY DEF markSourceDiverged
<1> HIDE DEF w, s
<1>6. w # NoRow
  BY <1>4, RowAssumption
<1>7. \A q \in Posts : post'[q] = IF q = p THEN w ELSE post[q]
  BY <1>5 DEF IInv, PostsOK
<1>8. \A q \in Posts : post[q] # NoRow => post[q].version \in Nat
  BY DEF IInv, PostsOK, ForumPost
<1>9. Kept /\ NoNewRow /\ Deliberate
  BY <1>2, <1>3, <1>4, <1>6, <1>7, <1>8 DEF Kept, NoNewRow, Deliberate
<1>10. PostsOK'
  <2>1. post' \in [Posts -> ForumPost \cup {NoRow}]
    BY <1>2, <1>4, <1>5 DEF IInv, PostsOK
  <2>2. ASSUME NEW q \in Posts
        PROVE  IF post'[q] = NoRow THEN revisions[q] = <<>>
               ELSE Append(revisions[q], post'[q].content) = told[q]
    <3>1. CASE q = p
      BY <3>1, <1>2, <1>4, <1>6, <1>7 DEF IInv, PostsOK
    <3>2. CASE q # p
      BY <3>2, <1>7 DEF IInv, PostsOK
    <3>3. QED
      BY <3>1, <3>2
  <2>3. QED
    BY <2>1, <2>2 DEF IInv, PostsOK
<1>11. QED
  BY <1>9, <1>10

\* A post that was not known gets a row.
LEMMA InsertInv ==
    ASSUME IInv, NEW i \in Imports, At(i, "store"), post[imp[i].post] = NoRow,
           insertForumPost(imp[i].post, imp[i].text, imp[i].run), UNCHANGED revisions
    PROVE  /\ PostsOK' /\ Kept /\ Deliberate
           /\ imp[i].post \in Posts
           /\ \A q \in Posts : post'[q] # NoRow <=> (post[q] # NoRow \/ q = imp[i].post)
           /\ post'[imp[i].post].run = imp[i].run
<1> DEFINE p == imp[i].post
           text == imp[i].text
           w == Row(text, decideInitialModerationStatus(deriveModerationFlags(Metrics[text])),
                    0, imp[i].run)
<1>1. InHand(imp[i]) /\ imp[i].step = "store" /\ imp[i] \in Progress
  BY OneAtWork DEF At
<1>2. p \in Posts /\ text \in Texts /\ imp[i].run \in 0..MaxRuns
  BY <1>1 DEF InHand, Progress
<1>3. w \in ForumPost /\ w.content = text /\ w.run = imp[i].run
  BY <1>2, RowType DEF decideInitialModerationStatus, PostStatus
<1>4. post' = [post EXCEPT ![p] = w] /\ told' = [told EXCEPT ![p] = <<text>>]
  BY DEF insertForumPost
<1> HIDE DEF w
<1>5. w # NoRow
  BY <1>3, RowAssumption
<1>6. \A q \in Posts : post'[q] = IF q = p THEN w ELSE post[q]
  BY <1>4 DEF IInv, PostsOK
<1>7. \A q \in Posts : post[q] # NoRow => post[q].version \in Nat
  BY DEF IInv, PostsOK, ForumPost
<1>8. Kept /\ Deliberate
  BY <1>5, <1>6, <1>7 DEF Kept, Deliberate
<1>9. PostsOK'
  <2>1. post' \in [Posts -> ForumPost \cup {NoRow}]
    BY <1>2, <1>3, <1>4 DEF IInv, PostsOK
  <2>2. told' \in [Posts -> Seq(Texts)]
    <3>1. <<text>> \in Seq(Texts)
      BY <1>2, FirstOfText
    <3>2. QED
      BY <3>1, <1>4 DEF IInv, PostsOK
  <2>3. ASSUME NEW q \in Posts
        PROVE  IF post'[q] = NoRow THEN revisions[q] = <<>>
               ELSE Append(revisions[q], post'[q].content) = told'[q]
    <3>1. CASE q = p
      <4>1. revisions[q] = <<>> /\ post'[q] = w
        BY <3>1, <1>2, <1>6 DEF IInv, PostsOK
      <4>2. told'[q] = <<text>>
        BY <3>1, <1>2, <1>4 DEF IInv, PostsOK
      <4>3. QED
        BY <4>1, <4>2, <1>2, <1>3, <1>5, FirstOfText
    <3>2. CASE q # p
      BY <3>2, <1>4, <1>6 DEF IInv, PostsOK
    <3>3. QED
      BY <3>1, <3>2
  <2>4. QED
    BY <2>1, <2>2, <2>3 DEF IInv, PostsOK
<1>10. QED
  BY <1>2, <1>3, <1>5, <1>6, <1>8, <1>9

LEMMA StoredType ==
    ASSUME NEW v \in Progress, NEW how \in {"new", "diverged", "same"}
    PROVE  LET w == [v EXCEPT !.stored = how, !.step = "count", !.known = NoRow]
           IN  /\ w \in Progress /\ w.step = "count" /\ w.stored = how /\ w.run = v.run
               /\ w.post = v.post /\ w.text = v.text /\ w.errors = v.errors /\ w.fatal = v.fatal
BY DEF Progress

\* What a step of import i with a run of its own owes the runs, whatever it stores.
LEMMA RunsStep ==
    ASSUME IInv, NEW i \in Imports, Walking(i), UNCHANGED runs,
           Kept, NEW w \in Progress, imp' = [imp EXCEPT ![i] = w], w.run = imp[i].run,
           \A p \in Posts : post[p] = NoRow /\ post'[p] # NoRow => post'[p].run = w.run,
           ~w.errors => /\ ~imp[i].errors
                        /\ Cardinality(Brought(w.run)') = runs[w.run].new + Uncounted(i)'
    PROVE  RunsOK'
<1>1. /\ imp[i].run \in 1..MaxRuns /\ runs[imp[i].run] # NoRow
      /\ runs[imp[i].run].status = "running"
  BY DEF IInv, RunsOK
<1>2. \A j \in Imports \ {i} : imp'[j] = NoRow
  BY OneAtWork DEF IInv, ImportsOK, Walking
<1>3. imp'[i] = w
  BY DEF IInv, ImportsOK
<1>4. \A p \in Posts : post'[p] # NoRow => runs[post'[p].run] # NoRow
  BY <1>1 DEF IInv, RunsOK, Kept
<1>5. SuccessCountsItsPosts'
  <2> SUFFICES ASSUME NEW r \in DOMAIN runs, runs[r] # NoRow, runs[r].status = "success"
               PROVE  runs[r].new = Cardinality(Brought(r)')
    BY DEF SuccessCountsItsPosts, Brought
  <2>1. r # w.run
    BY <1>1
  <2>2. Brought(r)' = Brought(r)
    BY <2>1 DEF Brought, Kept
  <2>3. QED
    BY <2>2 DEF IInv, RunsOK, SuccessCountsItsPosts, Brought
<1>6. ASSUME NEW j \in Imports, Walking(j)'
      PROVE  /\ imp'[j].run \in 1..MaxRuns /\ runs'[imp'[j].run] # NoRow
             /\ runs'[imp'[j].run].status = "running"
             /\ ~imp'[j].errors =>
                  Cardinality(Brought(imp[j].run)') = runs'[imp'[j].run].new + Uncounted(j)'
  <2>1. j = i
    BY <1>2, <1>6 DEF Walking
  <2>2. QED
    BY <1>1, <1>3, <2>1
<1>7. QED
  BY <1>4, <1>5, <1>6 DEF IInv, RunsOK

LEMMA StoreNewInv ==
    ASSUME IInv, NEW i \in Imports, At(i, "store"), imp[i].known = NoRow,
           post[imp[i].post] = NoRow,
           insertForumPost(imp[i].post, imp[i].text, imp[i].run),
           imp' = [imp EXCEPT ![i].stored = "new", ![i].step = "count", ![i].known = NoRow],
           UNCHANGED <<events, revisions, lock, held, runs, stats>>, UnchangedByImport
    PROVE  IInv' /\ Deliberate
<1>1. imp[i] \in Progress /\ InHand(imp[i]) /\ imp[i] # NoRow /\ imp[i].step = "store"
  BY OneAtWork DEF At
<1>2. PICK w \in Progress :
        /\ w = [imp[i] EXCEPT !.stored = "new", !.step = "count", !.known = NoRow]
        /\ w.step = "count" /\ w.stored = "new" /\ w.run = imp[i].run
        /\ w.post = imp[i].post /\ w.text = imp[i].text /\ w.errors = imp[i].errors
        /\ w.fatal = imp[i].fatal
  BY ZenonT(30), <1>1, StoredType
<1>3. imp' = [imp EXCEPT ![i] = w] /\ imp'[i] = w
  BY <1>2 DEF IInv, ImportsOK
<1>0. PICK p \in Posts : p = imp[i].post
  BY <1>1 DEF InHand
<1>4. /\ PostsOK' /\ Kept /\ Deliberate
      /\ \A q \in Posts : post'[q] # NoRow <=> (post[q] # NoRow \/ q = p)
      /\ post'[p].run = w.run
  BY <1>0, <1>2, InsertInv
<1>5. ClockOK' /\ UsersOK' /\ PlayOK'
  BY ClockFrame, UsersFrame, PlayFrame DEF IInv, UnchangedByImport
<1>6. CallsOK'
  BY <1>4, CallsFrame DEF IInv, UnchangedByImport, CallsOK
<1>7. InHand(w)'
  BY <1>1, <1>2 DEF InHand
<1>8. ImportsOK'
  BY <1>1, <1>2, <1>3, <1>7, WalkImports
<1>9. Walking(i)
  BY <1>1 DEF Walking
<1>10. Brought(w.run)' = Brought(w.run) \cup {p} /\ p \notin Brought(w.run)
  BY <1>0, <1>4 DEF Brought, Kept
<1>11. ASSUME ~w.errors
       PROVE  ~imp[i].errors /\ Cardinality(Brought(w.run)') = runs[w.run].new + Uncounted(i)'
  <2>1. Cardinality(Brought(w.run)) = runs[w.run].new + Uncounted(i)
    BY <1>2, <1>9, <1>11 DEF IInv, RunsOK
  <2>2. Uncounted(i) = 0 /\ Uncounted(i)' = 1
    BY <1>1, <1>2, <1>3 DEF Uncounted
  <2>3. IsFiniteSet(Brought(w.run))
    BY ContentAssumption, FS_Subset DEF Brought
  <2>4. Cardinality(Brought(w.run)') = Cardinality(Brought(w.run)) + 1
    BY <1>10, <2>3, FS_AddElement
  <2>5. runs[w.run].new \in Nat
    BY <1>2, <1>9 DEF IInv, RunsOK, ImportRun
  <2>6. QED
    BY <1>2, <1>11, <2>1, <2>2, <2>4, <2>5
<1>12. \A q \in Posts : post[q] = NoRow /\ post'[q] # NoRow => post'[q].run = w.run
  BY <1>0, <1>4
<1>13. RunsOK'
  BY <1>2, <1>3, <1>4, <1>9, <1>11, <1>12, RunsStep
<1>14. QED
  BY <1>4, <1>5, <1>6, <1>8, <1>13 DEF IInv

LEMMA StoreDivergedInv ==
    ASSUME IInv, NEW i \in Imports, At(i, "store"), imp[i].known # NoRow,
           markSourceDiverged(imp[i].post),
           imp' = [imp EXCEPT ![i].stored = "diverged", ![i].step = "count", ![i].known = NoRow],
           UNCHANGED <<events, revisions, told, lock, held, runs, stats>>, UnchangedByImport
    PROVE  IInv' /\ Deliberate
<1>1. imp[i] \in Progress /\ InHand(imp[i]) /\ imp[i] # NoRow /\ imp[i].step = "store"
  BY OneAtWork DEF At
<1>2. PICK w \in Progress :
        /\ w = [imp[i] EXCEPT !.stored = "diverged", !.step = "count", !.known = NoRow]
        /\ w.step = "count" /\ w.stored = "diverged" /\ w.run = imp[i].run
        /\ w.post = imp[i].post /\ w.text = imp[i].text /\ w.errors = imp[i].errors
        /\ w.fatal = imp[i].fatal
  BY <1>1, StoredType
<1>3. imp' = [imp EXCEPT ![i] = w] /\ imp'[i] = w
  BY <1>2 DEF IInv, ImportsOK
<1>4. PostsOK' /\ Kept /\ NoNewRow /\ Deliberate
  BY DivergedInv
<1>5. ClockOK' /\ UsersOK' /\ PlayOK'
  BY ClockFrame, UsersFrame, PlayFrame DEF IInv, UnchangedByImport
<1>6. CallsOK'
  BY <1>4, CallsFrame DEF IInv, UnchangedByImport, CallsOK
<1>7. InHand(w)'
  BY <1>1, <1>2 DEF InHand
<1>8. ImportsOK'
  BY <1>1, <1>2, <1>3, <1>7, WalkImports
<1>9. Walking(i)
  BY <1>1 DEF Walking
<1>10. ASSUME ~w.errors
       PROVE  ~imp[i].errors /\ Cardinality(Brought(w.run)') = runs[w.run].new + Uncounted(i)'
  <2>1. Cardinality(Brought(w.run)) = runs[w.run].new + Uncounted(i)
    BY <1>2, <1>9, <1>10 DEF IInv, RunsOK
  <2>2. Uncounted(i) = 0 /\ Uncounted(i)' = 0
    BY <1>1, <1>2, <1>3 DEF Uncounted
  <2>3. Brought(w.run)' = Brought(w.run)
    BY <1>4, SameBrought
  <2>4. QED
    BY <1>2, <1>10, <2>1, <2>2, <2>3
<1>11. \A p \in Posts : post[p] = NoRow /\ post'[p] # NoRow => post'[p].run = w.run
  BY <1>4 DEF NoNewRow
<1>12. RunsOK'
  BY <1>2, <1>3, <1>4, <1>9, <1>10, <1>11, RunsStep
<1>13. QED
  BY <1>4, <1>5, <1>6, <1>8, <1>12 DEF IInv

LEMMA StoreInv ==
    ASSUME IInv, NEW i \in Imports, importOnePost(i)
    PROVE  IInv' /\ Deliberate
<1>1. imp[i] \in Progress /\ InHand(imp[i]) /\ imp[i] # NoRow /\ imp[i].step = "store"
  BY OneAtWork DEF importOnePost, At
<1>2. CASE /\ imp[i].known = NoRow /\ post[imp[i].post] = NoRow
           /\ insertForumPost(imp[i].post, imp[i].text, imp[i].run)
           /\ imp' = [imp EXCEPT ![i].stored = "new", ![i].step = "count", ![i].known = NoRow]
           /\ UNCHANGED <<events, revisions>>
  BY <1>2, StoreNewInv DEF importOnePost
<1>3. CASE /\ imp[i].known \notin {NoRow, imp[i].text}
           /\ markSourceDiverged(imp[i].post)
           /\ imp' = [imp EXCEPT ![i].stored = "diverged", ![i].step = "count",
                                 ![i].known = NoRow]
           /\ UNCHANGED <<events, revisions, told>>
  BY <1>3, StoreDivergedInv DEF importOnePost
<1>4. CASE /\ imp' = [imp EXCEPT ![i].stored = "same", ![i].step = "count", ![i].known = NoRow]
           /\ UNCHANGED <<events, content>>
  <2> DEFINE w == [imp[i] EXCEPT !.stored = "same", !.step = "count", !.known = NoRow]
  <2>1. /\ w \in Progress /\ w.step = "count" /\ w.stored = "same" /\ w.run = imp[i].run
        /\ w.post = imp[i].post /\ w.text = imp[i].text /\ w.errors = imp[i].errors
        /\ w.fatal = imp[i].fatal
    BY <1>1, StoredType
  <2>2. imp' = [imp EXCEPT ![i] = w] /\ imp'[i] = w
    BY <1>4 DEF IInv, ImportsOK
  <2> HIDE DEF w
  <2>3. InHand(w)
    BY <1>1, <2>1 DEF InHand
  <2>4. StillWalks(i)
    BY <1>1, <2>1, <2>2 DEF StillWalks, Walking, Uncounted
  <2>5. QED
    BY <1>1, <1>4, <2>1, <2>2, <2>3, <2>4, WalkInv DEF importOnePost
<1>5. CASE /\ Event /\ UNCHANGED content
           /\ imp' = [imp EXCEPT ![i].errors = TRUE, ![i].step = "topics", ![i].known = NoRow]
  <2> DEFINE w == [imp[i] EXCEPT !.errors = TRUE, !.step = "topics", !.known = NoRow]
  <2>1. w \in Progress /\ w.step = "topics" /\ w.run = imp[i].run /\ w.errors = TRUE
    BY <1>1 DEF Progress
  <2>2. imp' = [imp EXCEPT ![i] = w] /\ imp'[i] = w
    BY <1>5 DEF IInv, ImportsOK
  <2> HIDE DEF w
  <2>3. InHand(w)
    BY <2>1 DEF InHand
  <2>4. StillWalks(i)
    BY <1>1, <2>1, <2>2 DEF StillWalks, Walking
  <2>5. QED
    BY <1>1, <1>5, <2>1, <2>2, <2>3, <2>4, WalkInv DEF importOnePost
<1>6. QED
  BY <1>2, <1>3, <1>4, <1>5 DEF importOnePost

LEMMA DoneType ==
    ASSUME NEW v \in Progress, NEW e \in BOOLEAN, v.post \in Posts
    PROVE  LET w == [v EXCEPT !.step = "topics", !.touched = @ \cup {Author[v.post]},
                              !.errors = @ \/ e, !.stored = "same",
                              !.post = NoRow, !.text = NoRow]
           IN  /\ w \in Progress /\ w.step = "topics" /\ w.run = v.run
               /\ w.errors = (v.errors \/ e) /\ w.fatal = v.fatal
<1>1. Author[v.post] \in Users
  BY ContentAssumption
<1>2. (v.errors \/ e) \in BOOLEAN
  BY DEF Progress
<1>3. v.touched \cup {Author[v.post]} \in SUBSET Users
  BY <1>1 DEF Progress
<1>4. QED
  BY <1>2, <1>3 DEF Progress

\* The row of the run that import i is on changes, and no post does.
LEMMA RunRowStep ==
    ASSUME IInv, NEW i \in Imports, Walking(i), UNCHANGED post,
           NEW row \in ImportRun, runs' = [runs EXCEPT ![imp[i].run] = row],
           NEW w \in Progress, imp' = [imp EXCEPT ![i] = w], w.run = imp[i].run,
           \/ /\ row.status = "running"
              /\ ~w.errors => Cardinality(Brought(w.run)) = row.new + Uncounted(i)'
           \/ /\ w.step = "stats"
              /\ row.status = "success" => Cardinality(Brought(w.run)) = row.new
    PROVE  RunsOK'
<1> DEFINE r == imp[i].run
<1>1. r \in 1..MaxRuns /\ runs[r] # NoRow
  BY DEF IInv, RunsOK
<1>2. runs' \in [0..MaxRuns -> ImportRun \cup {NoRow}] /\ row # NoRow
  BY <1>1, RowAssumption DEF IInv, RunsOK
<1>3. \A s \in 0..MaxRuns : runs'[s] = IF s = r THEN row ELSE runs[s]
  BY <1>1 DEF IInv, RunsOK
<1>4. imp'[i] = w /\ \A j \in Imports \ {i} : imp'[j] = NoRow
  BY OneAtWork DEF IInv, ImportsOK, Walking
<1>5. \A s : Brought(s)' = Brought(s)
  BY DEF Brought
<1>6. \A p \in Posts : post'[p] # NoRow => runs'[post'[p].run] # NoRow
  <2>1. \A p \in Posts : post[p] # NoRow => post[p].run \in 0..MaxRuns
    BY DEF IInv, PostsOK, ForumPost
  <2>2. QED
    BY <1>2, <1>3, <2>1 DEF IInv, RunsOK
<1>7. ASSUME NEW j \in Imports, Walking(j)'
      PROVE  /\ imp'[j].run \in 1..MaxRuns /\ runs'[imp'[j].run] # NoRow
             /\ runs'[imp'[j].run].status = "running"
             /\ ~imp'[j].errors =>
                  Cardinality(Brought(imp[j].run)') = runs'[imp'[j].run].new + Uncounted(j)'
  <2>1. j = i /\ w.step # "stats"
    BY <1>4, <1>7 DEF Walking
  <2>2. runs'[w.run] = row
    BY <1>1, <1>3
  <2>3. Brought(imp[i].run)' = Brought(w.run)
    BY <1>4 DEF Brought
  <2>4. QED
    BY <1>1, <1>2, <1>4, <2>1, <2>2, <2>3
<1>8. SuccessCountsItsPosts'
  <2> SUFFICES ASSUME NEW s \in DOMAIN runs', runs'[s] # NoRow, runs'[s].status = "success"
               PROVE  runs'[s].new = Cardinality(Brought(s))
    BY DEF SuccessCountsItsPosts, Brought
  <2>1. s \in 0..MaxRuns
    BY <1>2
  <2>2. CASE s = r
    BY <1>3, <2>1, <2>2
  <2>3. CASE s # r
    BY <1>3, <2>1, <2>3 DEF IInv, RunsOK, SuccessCountsItsPosts, Brought
  <2>4. QED
    BY <2>2, <2>3
<1>9. QED
  BY <1>2, <1>6, <1>7, <1>8 DEF RunsOK

\* What a step that changes only an import and its run owes the rest.
LEMMA RunRowInv ==
    ASSUME IInv, NEW i \in Imports, imp[i] # NoRow,
           NEW w \in Progress, imp' = [imp EXCEPT ![i] = w], InHand(w), RunsOK',
           UNCHANGED <<events, lock, held, content, stats>>, UnchangedByImport
    PROVE  IInv' /\ Deliberate
<1>1. Kept /\ NoNewRow /\ Deliberate
  BY SamePosts DEF IInv, content
<1>2. ClockOK' /\ UsersOK' /\ PostsOK' /\ PlayOK'
  BY ClockFrame, UsersFrame, PostsFrame, PlayFrame DEF IInv, UnchangedByImport
<1>3. CallsOK'
  BY <1>1, <1>2, CallsFrame DEF IInv, UnchangedByImport, CallsOK
<1>4. InHand(w)'
  BY DEF InHand, content
<1>5. ImportsOK'
  BY <1>4, WalkImports
<1>6. QED
  BY <1>1, <1>2, <1>3, <1>5 DEF IInv

LEMMA CountInv ==
    ASSUME IInv, NEW i \in Imports, incrementImportRunCounters(i)
    PROVE  IInv' /\ Deliberate
<1>1. imp[i] \in Progress /\ InHand(imp[i]) /\ imp[i] # NoRow /\ imp[i].step = "count"
  BY OneAtWork DEF incrementImportRunCounters, At
<1>2. imp[i].post \in Posts /\ Walking(i)
  BY <1>1 DEF InHand, Walking
<1>3. ASSUME NEW e \in BOOLEAN, Done(i, e)
      PROVE  \E w \in Progress : /\ imp' = [imp EXCEPT ![i] = w] /\ imp'[i] = w
                                 /\ w.step = "topics" /\ w.run = imp[i].run
                                 /\ w.errors = (imp[i].errors \/ e)
                                 /\ w.fatal = imp[i].fatal
  <2> DEFINE w == [imp[i] EXCEPT !.step = "topics", !.touched = @ \cup {Author[imp[i].post]},
                                 !.errors = @ \/ e, !.stored = "same",
                                 !.post = NoRow, !.text = NoRow]
  <2>1. /\ w \in Progress /\ w.step = "topics" /\ w.run = imp[i].run
        /\ w.errors = (imp[i].errors \/ e) /\ w.fatal = imp[i].fatal
    <3>1. \A v \in Progress : v.post \in Posts =>
            LET x == [v EXCEPT !.step = "topics", !.touched = @ \cup {Author[v.post]},
                               !.errors = @ \/ e, !.stored = "same",
                               !.post = NoRow, !.text = NoRow]
            IN  /\ x \in Progress /\ x.step = "topics" /\ x.run = v.run
                /\ x.errors = (v.errors \/ e) /\ x.fatal = v.fatal
      BY DoneType
    <3>2. QED
      BY <1>1, <1>2, <3>1, Zenon
  <2>2. imp' = [imp EXCEPT ![i] = w] /\ imp'[i] = w
    BY <1>3 DEF Done, IInv, ImportsOK
  <2> HIDE DEF w
  <2>3. QED
    BY <2>1, <2>2
<1>4. CASE /\ runs' = [runs EXCEPT
                 ![imp[i].run].new = IF imp[i].stored = "new" THEN @ + 1 ELSE @,
                 ![imp[i].run].updated = IF imp[i].stored = "diverged" THEN @ + 1 ELSE @]
           /\ Done(i, FALSE) /\ UNCHANGED events
  <2> DEFINE r == imp[i].run
             n == IF imp[i].stored = "new" THEN runs[r].new + 1 ELSE runs[r].new
             u == IF imp[i].stored = "diverged" THEN runs[r].updated + 1 ELSE runs[r].updated
  <2>1. PICK w \in Progress : /\ imp' = [imp EXCEPT ![i] = w] /\ imp'[i] = w
                              /\ w.step = "topics" /\ w.run = r
                              /\ w.errors = imp[i].errors /\ w.fatal = imp[i].fatal
    <3>1. imp[i].errors \in BOOLEAN
      BY <1>1 DEF Progress
    <3>2. QED
      BY <1>3, <1>4, <3>1
  <2>2. r \in 0..MaxRuns /\ runs[r] \in ImportRun /\ runs[r].status = "running"
    BY <1>2 DEF IInv, RunsOK
  <2>3. n \in Nat /\ u \in Nat
    BY <2>2 DEF ImportRun
  <2>4. runs' = [runs EXCEPT ![r] = [runs[r] EXCEPT !.new = n, !.updated = u]]
    BY <1>4, <2>2 DEF IInv, RunsOK
  <2> HIDE DEF n, u
  <2>5. PICK row \in ImportRun : /\ runs' = [runs EXCEPT ![r] = row]
                                 /\ row.new = n /\ row.status = "running"
    <3> DEFINE row == [runs[r] EXCEPT !.new = n, !.updated = u]
    <3>1. row \in ImportRun /\ row.new = n /\ row.status = "running"
      BY <2>2, <2>3 DEF ImportRun
    <3> HIDE DEF row
    <3>2. QED
      BY <2>4, <3>1 DEF row
  <2>6. ASSUME ~w.errors PROVE Cardinality(Brought(w.run)) = row.new + Uncounted(i)'
    <3>1. Cardinality(Brought(r)) = runs[r].new + Uncounted(i)
      BY <1>2, <2>1, <2>6 DEF IInv, RunsOK
    <3>2. Uncounted(i)' = 0 /\ Uncounted(i) = IF imp[i].stored = "new" THEN 1 ELSE 0
      BY <1>1, <2>1 DEF Uncounted
    <3>3. runs[r].new \in Nat
      BY <2>2 DEF ImportRun
    <3>4. QED
      BY <2>1, <2>5, <3>1, <3>2, <3>3 DEF n
  <2>7. RunsOK'
    BY <1>2, <2>1, <2>5, <2>6, RunRowStep DEF incrementImportRunCounters, content
  <2>8. InHand(w)
    BY <1>1, <2>1 DEF InHand
  <2>9. QED
    BY <1>1, <1>4, <2>1, <2>7, <2>8, RunRowInv DEF incrementImportRunCounters
<1>5. CASE Event /\ Done(i, TRUE) /\ UNCHANGED runs
  <2>1. PICK w \in Progress : /\ imp' = [imp EXCEPT ![i] = w] /\ imp'[i] = w
                              /\ w.step = "topics" /\ w.run = imp[i].run /\ w.errors
    BY <1>3, <1>5
  <2>2. InHand(w)
    BY <2>1 DEF InHand
  <2>3. StillWalks(i)
    BY <1>2, <2>1 DEF StillWalks, Walking
  <2>4. QED
    BY <1>1, <1>5, <2>1, <2>2, <2>3, WalkInv DEF incrementImportRunCounters
<1>6. QED
  BY <1>4, <1>5 DEF incrementImportRunCounters

LEMMA FinishInv ==
    ASSUME IInv, NEW i \in Imports, finishImportRun(i)
    PROVE  IInv' /\ Deliberate
<1>1. imp[i] \in Progress /\ InHand(imp[i]) /\ imp[i] # NoRow /\ imp[i].step = "finish"
  BY OneAtWork DEF finishImportRun, At
<1>2. Walking(i)
  BY <1>1 DEF Walking
<1>3. CASE /\ runs' = [runs EXCEPT ![imp[i].run].status = Outcome(i)]
           /\ Goto(i, "stats") /\ UNCHANGED events
  <2> DEFINE r == imp[i].run
  <2>1. r \in 0..MaxRuns /\ runs[r] \in ImportRun
    BY <1>2 DEF IInv, RunsOK
  <2>2. PICK w \in Progress : /\ imp' = [imp EXCEPT ![i] = w] /\ imp'[i] = w
                              /\ w.step = "stats" /\ w.run = r
                              /\ w.errors = imp[i].errors /\ w.fatal = imp[i].fatal
    <3> DEFINE w == [imp[i] EXCEPT !.step = "stats"]
    <3>1. w \in Progress /\ w.step = "stats" /\ w.run = r
          /\ w.errors = imp[i].errors /\ w.fatal = imp[i].fatal
      BY <1>1 DEF Progress
    <3>2. imp' = [imp EXCEPT ![i] = w] /\ imp'[i] = w
      BY <1>3 DEF Goto, IInv, ImportsOK
    <3> HIDE DEF w
    <3>3. QED
      BY <3>1, <3>2
  <2>3. Outcome(i) \in {"running", "success", "partial_failure", "failed"}
    BY DEF Outcome
  <2>4. PICK row \in ImportRun : /\ runs' = [runs EXCEPT ![r] = row]
                                 /\ row.new = runs[r].new /\ row.status = Outcome(i)
    <3> DEFINE row == [runs[r] EXCEPT !.status = Outcome(i)]
    <3>1. row \in ImportRun /\ row.new = runs[r].new /\ row.status = Outcome(i)
      BY <2>1, <2>3 DEF ImportRun
    <3>2. runs' = [runs EXCEPT ![r] = row]
      BY <1>3
    <3> HIDE DEF row
    <3>3. QED
      BY <3>1, <3>2
  <2>5. ASSUME row.status = "success" PROVE Cardinality(Brought(w.run)) = row.new
    <3>1. ~imp[i].errors
      BY <2>4, <2>5 DEF Outcome
    <3>2. Cardinality(Brought(r)) = runs[r].new + Uncounted(i) /\ Uncounted(i) = 0
      BY <1>1, <1>2, <3>1 DEF IInv, RunsOK, Uncounted
    <3>3. runs[r].new \in Nat
      BY <2>1 DEF ImportRun
    <3>4. QED
      BY <2>2, <2>4, <3>2, <3>3
  <2>6. RunsOK'
    BY <1>2, <2>2, <2>4, <2>5, RunRowStep DEF finishImportRun, content
  <2>7. InHand(w)
    BY <1>1, <2>2 DEF InHand
  <2>8. QED
    BY <1>1, <1>3, <2>2, <2>6, <2>7, RunRowInv DEF finishImportRun
<1>4. CASE Event /\ Goto(i, "unlock") /\ UNCHANGED runs
  BY <1>1, <1>4, GotoInv DEF finishImportRun
<1>5. QED
  BY <1>3, <1>4 DEF finishImportRun

\* What a step owes the runs when no import is on one after it.
LEMMA IdleRuns ==
    ASSUME IInv, UNCHANGED <<post, runs>>, \A j \in Imports : ~Walking(j)'
    PROVE  RunsOK'
BY DEF IInv, RunsOK, SuccessCountsItsPosts

LEMMA StatsInv ==
    ASSUME IInv, NEW i \in Imports, refreshTouchedStats(i)
    PROVE  IInv' /\ Deliberate
<1>1. imp[i] \in Progress /\ InHand(imp[i]) /\ imp[i] # NoRow /\ imp[i].step = "stats"
  BY OneAtWork DEF refreshTouchedStats, At
<1>2. PICK w \in Progress : /\ imp' = [imp EXCEPT ![i] = w] /\ imp'[i] = w
                            /\ w.step = "unlock"
                            /\ w.errors = imp[i].errors /\ w.fatal = imp[i].fatal
  <2> DEFINE w == [imp[i] EXCEPT !.step = "unlock"]
  <2>1. w \in Progress /\ w.step = "unlock"
        /\ w.errors = imp[i].errors /\ w.fatal = imp[i].fatal
    BY <1>1 DEF Progress
  <2>2. imp' = [imp EXCEPT ![i] = w] /\ imp'[i] = w
    BY DEF refreshTouchedStats, Goto, IInv, ImportsOK
  <2> HIDE DEF w
  <2>3. QED
    BY <2>1, <2>2
<1>3. Kept /\ NoNewRow /\ Deliberate
  BY SamePosts DEF IInv, refreshTouchedStats, content
<1>4. ClockOK' /\ PostsOK' /\ PlayOK'
  BY ClockFrame, PostsFrame, PlayFrame DEF IInv, refreshTouchedStats, UnchangedByImport
<1>5. UsersOK'
  <2>1. \A u \in Users : Cardinality(ApprovedPosts(u)) \in Nat
    BY ContentAssumption, FS_Subset, FS_CardinalityType DEF ApprovedPosts
  <2>2. QED
    BY <2>1 DEF IInv, UsersOK, refreshTouchedStats, UnchangedByImport
<1>6. CallsOK'
  BY <1>3, <1>4, CallsFrame DEF IInv, refreshTouchedStats, UnchangedByImport, CallsOK
<1>7. InHand(w)'
  BY <1>1, <1>2 DEF InHand
<1>8. ImportsOK'
  BY <1>1, <1>2, <1>7, WalkImports DEF refreshTouchedStats
<1>9. \A j \in Imports : ~Walking(j)'
  <2>1. \A j \in Imports \ {i} : imp'[j] = NoRow
    BY <1>1, <1>2, OneAtWork DEF IInv, ImportsOK
  <2>2. QED
    BY <1>2, <2>1 DEF Walking
<1>10. RunsOK'
  BY <1>9, IdleRuns DEF refreshTouchedStats, content
<1>11. QED
  BY <1>3, <1>4, <1>5, <1>6, <1>8, <1>10 DEF IInv

\* What a step that leaves no import on a run owes everything but the imports themselves.
LEMMA AroundInv ==
    ASSUME IInv, Event \/ UNCHANGED events, ImportsOK', \A j \in Imports : ~Walking(j)',
           UNCHANGED <<content, stats, runs>>, UnchangedByImport
    PROVE  IInv' /\ Deliberate
<1>1. Kept /\ NoNewRow /\ Deliberate
  BY SamePosts DEF IInv, content
<1>2. ClockOK' /\ UsersOK' /\ PostsOK' /\ PlayOK'
  BY ClockFrame, UsersFrame, PostsFrame, PlayFrame DEF IInv, UnchangedByImport
<1>3. CallsOK'
  BY <1>1, <1>2, CallsFrame DEF IInv, UnchangedByImport, CallsOK
<1>4. RunsOK'
  BY IdleRuns DEF content
<1>5. QED
  BY <1>1, <1>2, <1>3, <1>4 DEF IInv

LEMMA UnlockInv ==
    ASSUME IInv, NEW i \in Imports, Unlock(i)
    PROVE  IInv' /\ Deliberate
<1>1. imp[i] # NoRow /\ held[i] # NoRow /\ lock.depth > 0
  BY DEF Unlock, At, IInv, ImportsOK
<1>2. \A j \in Imports : imp'[j] = NoRow /\ held'[j] = NoRow
  <2>1. \A j \in Imports \ {i} : imp[j] = NoRow /\ held[j] = NoRow
    BY <1>1, OneAtWork
  <2>2. QED
    BY <2>1 DEF Unlock, IInv, ImportsOK
<1>3. lock' \in [holder : Conns \cup {NoRow}, depth : Nat]
  <2>1. lock.depth \in Nat /\ lock \in [holder : Conns \cup {NoRow}, depth : Nat]
    BY DEF IInv, ImportsOK
  <2>2. lock.depth - 1 \in Nat
    BY <1>1, <2>1
  <2>3. [lock EXCEPT !.depth = @ - 1] \in [holder : Conns \cup {NoRow}, depth : Nat]
    BY <2>1, <2>2
  <2>4. QED
    BY <2>1, <2>3 DEF Unlock, Unlocked
<1>4. ImportsOK'
  <2>1. imp' \in [Imports -> Progress \cup {NoRow}] /\ held' \in [Imports -> Conns \cup {NoRow}]
    BY DEF Unlock, IInv, ImportsOK
  <2>2. QED
    BY <1>2, <1>3, <2>1 DEF ImportsOK, OneImportAtATime
<1>5. \A j \in Imports : ~Walking(j)'
  BY <1>2 DEF Walking
<1>6. QED
  BY <1>4, <1>5, AroundInv DEF Unlock

\* A connection that may take the lock lets nobody in while another import is at work.
LEMMA TriggerInv ==
    ASSUME IInv, NEW i \in Imports, NEW c \in Conns, triggerImportRun(i, c)
    PROVE  IInv' /\ Deliberate
<1>1. \A j \in Imports : held[j] = NoRow
  <2> SUFFICES ASSUME NEW j \in Imports, held[j] # NoRow PROVE FALSE
    OBVIOUS
  <2>1. lock.holder = held[j]
    BY DEF IInv, ImportsOK
  <2>2. lock.holder = c
    BY <2>1 DEF triggerImportRun, Granted
  <2>3. QED
    BY <2>1, <2>2 DEF triggerImportRun
<1>2. \A j \in Imports : imp[j] = NoRow
  BY <1>1 DEF IInv, ImportsOK
<1>3. PICK w \in Progress : /\ imp' = [imp EXCEPT ![i] = w] /\ w.step = "open"
                            /\ w.fatal = FALSE
  <2> DEFINE w == [step |-> "open", run |-> 0, todo |-> {}, listed |-> {}, post |-> NoRow,
                   text |-> NoRow, known |-> NoRow, stored |-> "same", touched |-> {},
                   errors |-> FALSE, progress |-> FALSE, fatal |-> FALSE]
  <2>1. w \in Progress
    BY ContentAssumption DEF Progress
  <2>2. imp' = [imp EXCEPT ![i] = w] /\ w.step = "open" /\ w.fatal = FALSE
    BY DEF triggerImportRun
  <2> HIDE DEF w
  <2>3. QED
    BY <2>1, <2>2
<1>4. /\ imp' \in [Imports -> Progress \cup {NoRow}]
      /\ \A j \in Imports : imp'[j] = IF j = i THEN w ELSE NoRow
  BY <1>2, <1>3 DEF IInv, ImportsOK
<1>5. /\ held' \in [Imports -> Conns \cup {NoRow}]
      /\ \A j \in Imports : held'[j] = IF j = i THEN c ELSE NoRow
  BY <1>1 DEF triggerImportRun, IInv, ImportsOK
<1>6. /\ lock' \in [holder : Conns \cup {NoRow}, depth : Nat]
      /\ lock'.holder = c /\ lock'.depth > 0
  <2>1. lock.depth \in Nat
    BY DEF IInv, ImportsOK
  <2>2. lock.depth + 1 \in Nat /\ lock.depth + 1 > 0
    BY <2>1
  <2>3. QED
    BY <2>2 DEF triggerImportRun
<1>7. c # NoRow
  BY ContentAssumption
<1>8. ImportsOK'
  <2>1. InHand(w)'
    BY <1>3 DEF InHand
  <2>2. \A j \in Imports : imp'[j] # NoRow => held'[j] # NoRow /\ InHand(imp[j])'
    BY <1>4, <1>5, <1>7, <2>1
  <2>3. \A j \in Imports : held'[j] # NoRow => lock'.holder = held'[j] /\ lock'.depth > 0
    BY <1>5, <1>6
  <2>4. OneImportAtATime'
    BY <1>5 DEF OneImportAtATime
  <2>5. QED
    BY <1>4, <1>5, <1>6, <2>2, <2>3, <2>4 DEF ImportsOK
<1>9. \A j \in Imports : ~Walking(j)'
  BY <1>3, <1>4 DEF Walking
<1>10. QED
  BY <1>8, <1>9, AroundInv DEF triggerImportRun

LEMMA CreateRunInv ==
    ASSUME IInv, NEW i \in Imports, createImportRun(i)
    PROVE  IInv' /\ Deliberate
<1>1. imp[i] \in Progress /\ InHand(imp[i]) /\ imp[i] # NoRow /\ imp[i].step = "open"
  BY OneAtWork DEF createImportRun, At
<1>2. ASSUME NEW r \in 1..MaxRuns, runs[r] = NoRow, UNCHANGED events,
             runs' = [runs EXCEPT ![r] = [status |-> "running", new |-> 0, updated |-> 0]],
             imp' = [imp EXCEPT ![i].run = r, ![i].step = "recent"]
      PROVE  IInv' /\ Deliberate
  <2>0. r \in 0..MaxRuns
    BY ContentAssumption
  <2>1. PICK w \in Progress : /\ imp' = [imp EXCEPT ![i] = w] /\ imp'[i] = w
                              /\ w.step = "recent" /\ w.run = r
                              /\ w.errors = imp[i].errors /\ w.fatal = imp[i].fatal
    <3> DEFINE w == [imp[i] EXCEPT !.run = r, !.step = "recent"]
    <3>1. w \in Progress /\ w.step = "recent" /\ w.run = r
          /\ w.errors = imp[i].errors /\ w.fatal = imp[i].fatal
      BY <1>1, <2>0 DEF Progress
    <3>2. imp' = [imp EXCEPT ![i] = w] /\ imp'[i] = w
      BY <1>2 DEF IInv, ImportsOK
    <3> HIDE DEF w
    <3>3. QED
      BY <3>1, <3>2
  <2> DEFINE row == [status |-> "running", new |-> 0, updated |-> 0]
  <2>2. row \in ImportRun /\ row.status = "running" /\ row.new = 0
    BY DEF ImportRun
  <2>3. row # NoRow
    BY <2>2, RowAssumption
  <2> HIDE DEF row
  <2>4. /\ runs' \in [0..MaxRuns -> ImportRun \cup {NoRow}]
        /\ \A s \in 0..MaxRuns : runs'[s] = IF s = r THEN row ELSE runs[s]
    BY <1>2, <2>0, <2>2 DEF IInv, RunsOK, row
  <2>5. \A s : Brought(s)' = Brought(s)
    BY DEF Brought, createImportRun, content
  <2>6. \A p \in Posts : post[p] # NoRow => post[p].run \in 0..MaxRuns /\ post[p].run # r
    BY <1>2 DEF IInv, PostsOK, RunsOK, ForumPost
  <2>7. Cardinality(Brought(r)) = 0
    <3>1. Brought(r) = {}
      BY <2>6 DEF Brought
    <3>2. QED
      BY <3>1, FS_EmptySet
  <2>8. \A p \in Posts : post'[p] # NoRow => runs'[post'[p].run] # NoRow
    BY <2>4, <2>6 DEF IInv, RunsOK, createImportRun, content
  <2>9. SuccessCountsItsPosts'
    <3> SUFFICES ASSUME NEW s \in DOMAIN runs', runs'[s] # NoRow, runs'[s].status = "success"
                 PROVE  runs'[s].new = Cardinality(Brought(s))
      BY DEF SuccessCountsItsPosts, Brought, createImportRun, content
    <3>1. s \in 0..MaxRuns /\ s # r
      BY <2>2, <2>4
    <3>2. QED
      BY <2>4, <3>1 DEF IInv, RunsOK, SuccessCountsItsPosts, Brought
  <2>10. \A j \in Imports \ {i} : imp'[j] = NoRow
    BY <1>1, <2>1, OneAtWork DEF IInv, ImportsOK
  <2>11. ASSUME NEW j \in Imports, Walking(j)'
         PROVE  /\ imp'[j].run \in 1..MaxRuns /\ runs'[imp'[j].run] # NoRow
                /\ runs'[imp'[j].run].status = "running"
                /\ ~imp'[j].errors =>
                     Cardinality(Brought(imp[j].run)') = runs'[imp'[j].run].new + Uncounted(j)'
    <3>1. j = i
      BY <2>10, <2>11 DEF Walking
    <3>2. Brought(imp[i].run)' = Brought(r)
      BY <2>1 DEF Brought, createImportRun, content
    <3>3. Uncounted(i)' = 0
      BY <2>1 DEF Uncounted
    <3>4. runs'[r] = row
      BY <2>0, <2>4
    <3>5. QED
      BY <2>1, <2>2, <2>3, <2>7, <3>1, <3>2, <3>3, <3>4
  <2>12. RunsOK'
    BY <2>4, <2>8, <2>9, <2>11 DEF RunsOK
  <2>13. InHand(w)
    BY <1>1, <2>1 DEF InHand
  <2>14. QED
    BY <1>1, <1>2, <2>1, <2>12, <2>13, RunRowInv DEF createImportRun
<1>3. CASE Event /\ Goto(i, "unlock") /\ UNCHANGED runs
  BY <1>1, <1>3, GotoInv DEF createImportRun
<1>4. QED
  BY <1>2, <1>3 DEF createImportRun

LEMMA ImportInv ==
    ASSUME IInv, NEW i \in Imports, ImportStep(i)
    PROVE  IInv' /\ Deliberate
<1>1. CASE \E c \in Conns : triggerImportRun(i, c)
  BY <1>1, TriggerInv
<1>2. CASE createImportRun(i)
  BY <1>2, CreateRunInv
<1>3. CASE getRecentTopics(i)
  BY <1>3, RecentInv
<1>4. CASE NextPage(i)
  BY <1>4, NextPageInv
<1>5. CASE \E p \in Posts : getTopicDetail(i, p)
  BY <1>5, TopicInv
<1>6. CASE findForumPostByForumPid(i)
  BY <1>6, FindInv
<1>7. CASE importOnePost(i)
  BY <1>7, StoreInv
<1>8. CASE incrementImportRunCounters(i)
  BY <1>8, CountInv
<1>9. CASE finishImportRun(i)
  BY <1>9, FinishInv
<1>10. CASE refreshTouchedStats(i)
  BY <1>10, StatsInv
<1>11. CASE Unlock(i)
  BY <1>11, UnlockInv
<1>12. QED
  BY <1>1, <1>2, <1>3, <1>4, <1>5, <1>6, <1>7, <1>8, <1>9, <1>10, <1>11 DEF ImportStep

-----------------------------------------------------------------------------
(* Play. *)

LEMMA RoundsOfPool ==
    ASSUME NEW pool, NEW t \in DOMAIN pool, DOMAIN pool \subseteq Users,
           pool[t] \subseteq Posts, NEW round \in RoundPlans(pool, t)
    PROVE  /\ round \in RoundPlan /\ round.target \in round.choices
           /\ Cardinality(round.choices) = ChoicesPerRound
<1>1. PICK c \in selectDistractors(pool, t, {}) : round.choices = c \cup {t}
  BY DEF RoundPlans
<1>2. c \subseteq Users /\ t \notin c /\ Cardinality(c) = ChoicesPerRound - 1
  BY DEF selectDistractors
<1>3. IsFiniteSet(c)
  BY <1>2, ContentAssumption, FS_Subset
<1>4. Cardinality(c \cup {t}) = Cardinality(c) + 1
  BY <1>2, <1>3, FS_AddElement
<1>5. ChoicesPerRound \in Nat
  BY ContentAssumption
<1>6. c \cup {t} \subseteq Users
  BY <1>2
<1>7. round.target = t /\ round \in RoundPlan
  BY <1>1, <1>6 DEF RoundPlans, RoundPlan
<1>8. QED
  BY <1>1, <1>2, <1>4, <1>5, <1>7

\* Whatever the random source chooses, a plan has full rounds.
LEMMA PlanRounds ==
    ASSUME NEW r \in Request, NEW plan \in PlansOf(r)
    PROVE  plan \in Seq(RoundPlan) /\ FullRounds(plan)
<1>1. DOMAIN r.pool \subseteq Users /\ \A u \in DOMAIN r.pool : r.pool[u] \subseteq Posts
  BY DEF Request
<1>2. PICK t \in Targets(r.pool, r.day) : plan \in Plans(r.pool, t)
  BY DEF PlansOf
<1>3. PICK n \in Nat : t \in [1..n -> DOMAIN r.pool]
  BY ContentAssumption DEF Targets
<1>4. Len(t) = n
  <2>1. t \in Seq(DOMAIN r.pool)
    BY <1>3, SeqDef
  <2>2. QED
    BY <1>3, <2>1, LenProperties
<1> DEFINE Round == UNION {RoundPlans(r.pool, u) : u \in DOMAIN r.pool}
<1>5. plan \in [1..n -> Round]
  BY <1>2, <1>4 DEF Plans
<1>6. ASSUME NEW round \in Round
      PROVE  /\ round \in RoundPlan /\ round.target \in round.choices
             /\ Cardinality(round.choices) = ChoicesPerRound
  BY <1>1, RoundsOfPool
<1> HIDE DEF Round
<1>7. plan \in [1..n -> RoundPlan]
  BY <1>5, <1>6
<1>8. plan \in Seq(RoundPlan)
  BY <1>7, SeqDef
<1>9. FullRounds(plan)
  BY <1>5, <1>6 DEF FullRounds
<1>10. QED
  BY <1>8, <1>9

\* What a step that only play sees owes the rest.
LEMMA PlayerFrame ==
    ASSUME IInv, Event \/ UNCHANGED events, UNCHANGED day, UnchangedByPlay, PlayOK'
    PROVE  IInv' /\ Deliberate
<1>1. Kept /\ NoNewRow /\ Deliberate
  BY SamePosts DEF IInv, UnchangedByPlay, content
<1>2. ClockOK' /\ UsersOK' /\ PostsOK'
  BY ClockFrame, UsersFrame, PostsFrame DEF IInv, UnchangedByPlay
<1>3. CallsOK'
  BY <1>1, <1>2, CallsFrame DEF IInv, UnchangedByPlay, CallsOK
<1>4. ImportsOK' /\ RunsOK'
  BY <1>1, ImportsFrame, RunsFrame DEF IInv, UnchangedByPlay, importing
<1>5. QED
  BY <1>1, <1>2, <1>3, <1>4 DEF IInv

LEMMA RequestStep ==
    ASSUME IInv, NEW q \in Players, NEW r \in Request \cup {NoRow},
           req' = [req EXCEPT ![q] = r], UNCHANGED <<daily, handed>>
    PROVE  PlayOK'
BY DEF IInv, PlayOK

\* A plan handed out for the day it stands for, or for no day.
LEMMA HandStep ==
    ASSUME IInv, NEW d \in 0..MaxDay, NEW plan \in Seq(RoundPlan), FullRounds(plan),
           Hand(d, plan), d # 0 => daily[d] = plan, UNCHANGED daily,
           req' \in [Players -> Request \cup {NoRow}]
    PROVE  PlayOK'
<1>1. ASSUME NEW h \in handed'
      PROVE  /\ h.day \in 0..MaxDay /\ h.plan \in Seq(RoundPlan)
             /\ h.day # 0 => h.plan = daily[h.day]
             /\ FullRounds(h.plan)
  <2>1. CASE h \in handed
    BY <2>1 DEF IInv, PlayOK
  <2>2. CASE h = [day |-> d, plan |-> plan]
    BY <2>2
  <2>3. QED
    BY <2>1, <2>2 DEF Hand
<1>2. QED
  BY <1>1 DEF IInv, PlayOK

LEMMA AskType == \A d \in 0..MaxDay : Ask(d) \in Request
<1> SUFFICES ASSUME NEW d \in 0..MaxDay PROVE Ask(d) \in Request
  OBVIOUS
<1>1. [u \in {} |-> {}] \in [{} -> SUBSET Posts]
  OBVIOUS
<1>2. {} \in SUBSET Users
  OBVIOUS
<1>3. QED
  BY <1>1, <1>2 DEF Ask, Request

LEMMA AskDailyInv ==
    ASSUME IInv, NEW q \in Players, AskDaily(q)
    PROVE  IInv' /\ Deliberate
<1>1. day \in 1..MaxDay /\ day \in 0..MaxDay /\ day # 0
  BY ContentAssumption DEF IInv, ClockOK
<1>2. CASE req' = [req EXCEPT ![q] = Ask(day)] /\ UNCHANGED handed
  <2>1. Ask(day) \in Request \cup {NoRow}
    BY <1>1, AskType
  <2>2. PlayOK'
    BY <1>2, <2>1, RequestStep DEF AskDaily
  <2>3. QED
    BY <2>2, PlayerFrame DEF AskDaily
<1>3. CASE daily[day] # NoRow /\ Hand(day, daily[day]) /\ UNCHANGED req
  <2>1. daily[day] \in Seq(RoundPlan) /\ FullRounds(daily[day])
    BY <1>1, <1>3 DEF IInv, PlayOK
  <2>2. req' \in [Players -> Request \cup {NoRow}]
    BY <1>3 DEF IInv, PlayOK
  <2>3. PlayOK'
    BY <1>1, <1>3, <2>1, <2>2, HandStep DEF AskDaily
  <2>4. QED
    BY <2>3, PlayerFrame DEF AskDaily
<1>4. QED
  BY <1>2, <1>3 DEF AskDaily

LEMMA AskFreeplayInv ==
    ASSUME IInv, NEW q \in Players, AskFreeplay(q)
    PROVE  IInv' /\ Deliberate
<1>1. 0 \in 0..MaxDay
  BY ContentAssumption
<1>2. Ask(0) \in Request \cup {NoRow}
  BY <1>1, AskType
<1>3. PlayOK'
  BY <1>2, RequestStep DEF AskFreeplay
<1>4. QED
  BY <1>3, PlayerFrame DEF AskFreeplay

LEMMA TargetsInv ==
    ASSUME IInv, NEW q \in Players, getEligibleTargets(q)
    PROVE  IInv' /\ Deliberate
<1> DEFINE waiting == {u \in Users : stats[u] # NoRow /\ resolveEligibility(u)}
           r == [req[q] EXCEPT !.step = "posts", !.waiting = waiting]
<1>1. req[q] \in Request
  BY DEF IInv, PlayOK, getEligibleTargets
<1>2. waiting \in SUBSET Users
  OBVIOUS
<1> HIDE DEF waiting
<1>3. r \in Request \cup {NoRow}
  BY <1>1, <1>2 DEF Request
<1>4. req' = [req EXCEPT ![q] = r]
  BY DEF getEligibleTargets, waiting
<1> HIDE DEF r
<1>5. PlayOK'
  BY <1>3, <1>4, RequestStep DEF getEligibleTargets
<1>6. QED
  BY <1>5, PlayerFrame DEF getEligibleTargets

LEMMA ReadPostsInv ==
    ASSUME IInv, NEW q \in Players, NEW u \in Users, ReadPosts(q, u)
    PROVE  IInv' /\ Deliberate
<1> DEFINE old == req[q].pool
           waiting == req[q].waiting \ {u}
           pool == [v \in DOMAIN old \cup {u} |-> IF v = u THEN ApprovedPosts(u) ELSE old[v]]
           r == [req[q] EXCEPT !.waiting = waiting, !.pool = pool]
<1>1. req[q] \in Request
  BY DEF IInv, PlayOK, ReadPosts
<1>2. waiting \in SUBSET Users
  BY <1>1 DEF Request
<1>3. DOMAIN old \subseteq Users /\ \A v \in DOMAIN old : old[v] \in SUBSET Posts
  BY <1>1 DEF Request
<1>4. ApprovedPosts(u) \in SUBSET Posts
  BY DEF ApprovedPosts
<1>5. pool \in [DOMAIN old \cup {u} -> SUBSET Posts]
  BY <1>3, <1>4
<1>6. DOMAIN old \cup {u} \in SUBSET Users
  BY <1>3
<1>7. pool \in UNION {[S -> SUBSET Posts] : S \in SUBSET Users}
  BY <1>5, <1>6
<1>8. req' = [req EXCEPT ![q] = r]
  BY DEF ReadPosts
<1> HIDE DEF pool, waiting
<1>9. r \in Request \cup {NoRow}
  BY <1>1, <1>2, <1>7 DEF Request
<1> HIDE DEF r
<1>10. PlayOK'
  BY <1>8, <1>9, RequestStep DEF ReadPosts
<1>11. QED
  BY <1>10, PlayerFrame DEF ReadPosts

\* The first row of a day stands: nobody had been handed a plan of the day before it.
LEMMA PublishInv ==
    ASSUME IInv, NEW q \in Players, publishDailyChallenge(q)
    PROVE  IInv' /\ Deliberate
<1> DEFINE d == req[q].day
<1>1. req[q] \in Request
  BY DEF IInv, PlayOK, publishDailyChallenge, Ready
<1>2. d \in 1..MaxDay /\ d \in 0..MaxDay /\ d # 0
  BY <1>1, ContentAssumption DEF Request, publishDailyChallenge
<1>3. PICK plan \in PlansOf(req[q]) :
        LET row == IF daily[d] = NoRow THEN plan ELSE daily[d]
        IN  daily' = [daily EXCEPT ![d] = row] /\ Hand(d, row)
  BY DEF publishDailyChallenge
<1> DEFINE row == IF daily[d] = NoRow THEN plan ELSE daily[d]
<1>4. plan \in Seq(RoundPlan) /\ FullRounds(plan)
  BY <1>1, <1>3, PlanRounds
<1>5. row \in Seq(RoundPlan) /\ FullRounds(row)
  BY <1>2, <1>4 DEF IInv, PlayOK
<1>6. \A e \in 1..MaxDay : daily'[e] = IF e = d THEN row ELSE daily[e]
  BY <1>2, <1>3 DEF IInv, PlayOK
<1>7. daily' \in [1..MaxDay -> Seq(RoundPlan) \cup {NoRow}]
  BY <1>2, <1>3, <1>5 DEF IInv, PlayOK
<1>8. ASSUME NEW h \in handed
      PROVE  h.day # 0 => h.plan = daily'[h.day]
  <2> SUFFICES ASSUME h.day # 0 PROVE h.plan = daily'[h.day]
    OBVIOUS
  <2>1. h.day \in 1..MaxDay /\ h.plan = daily[h.day] /\ h.plan # NoRow
    BY RowAssumption, ContentAssumption DEF IInv, PlayOK
  <2>2. QED
    BY <1>6, <2>1
<1>9. handed' = handed \cup {[day |-> d, plan |-> row]}
  BY <1>3 DEF Hand
<1>10. daily'[d] = row
  BY <1>2, <1>6
<1> HIDE DEF row
<1>11. \A h \in handed' : /\ h.day \in 0..MaxDay /\ h.plan \in Seq(RoundPlan)
                          /\ h.day # 0 => h.plan = daily'[h.day]
                          /\ FullRounds(h.plan)
  BY <1>2, <1>5, <1>8, <1>9, <1>10 DEF IInv, PlayOK
<1>12. \A e \in 1..MaxDay : daily'[e] # NoRow => FullRounds(daily'[e])
  BY <1>5, <1>6 DEF IInv, PlayOK
<1>13. req' \in [Players -> Request \cup {NoRow}]
  BY DEF publishDailyChallenge, IInv, PlayOK
<1>14. PlayOK'
  BY <1>7, <1>11, <1>12, <1>13 DEF PlayOK
<1>15. QED
  BY <1>14, PlayerFrame DEF publishDailyChallenge

LEMMA FreeplayInv ==
    ASSUME IInv, NEW q \in Players, buildFreeplayRoundPlan(q)
    PROVE  IInv' /\ Deliberate
<1>1. req[q] \in Request
  BY DEF IInv, PlayOK, buildFreeplayRoundPlan, Ready
<1>2. PICK plan \in PlansOf(req[q]) : Hand(0, plan)
  BY DEF buildFreeplayRoundPlan
<1>3. plan \in Seq(RoundPlan) /\ FullRounds(plan)
  BY <1>1, <1>2, PlanRounds
<1>4. 0 \in 0..MaxDay
  BY ContentAssumption
<1>5. req' \in [Players -> Request \cup {NoRow}]
  BY DEF buildFreeplayRoundPlan, IInv, PlayOK
<1>6. PlayOK'
  BY <1>2, <1>3, <1>4, <1>5, HandStep DEF buildFreeplayRoundPlan
<1>7. QED
  BY <1>6, PlayerFrame DEF buildFreeplayRoundPlan

LEMMA PlayerInv ==
    ASSUME IInv, NEW q \in Players, PlayerStep(q)
    PROVE  IInv' /\ Deliberate
<1>1. CASE AskDaily(q)
  BY <1>1, AskDailyInv
<1>2. CASE AskFreeplay(q)
  BY <1>2, AskFreeplayInv
<1>3. CASE getEligibleTargets(q)
  BY <1>3, TargetsInv
<1>4. CASE \E u \in Users : ReadPosts(q, u)
  BY <1>4, ReadPostsInv
<1>5. CASE publishDailyChallenge(q)
  BY <1>5, PublishInv
<1>6. CASE buildFreeplayRoundPlan(q)
  BY <1>6, FreeplayInv
<1>7. CASE Insufficient(q)
  <2>1. PlayOK'
    BY <1>7, RequestStep DEF Insufficient
  <2>2. QED
    BY <1>7, <2>1, PlayerFrame DEF Insufficient
<1>8. QED
  BY <1>1, <1>2, <1>3, <1>4, <1>5, <1>6, <1>7 DEF PlayerStep

-----------------------------------------------------------------------------
(* Around the program, and every step. *)

LEMMA OverrideInv ==
    ASSUME IInv, NEW u \in Users, NEW o \in Overrides, setEligibilityOverride(u, o)
    PROVE  IInv' /\ Deliberate
<1>1. Kept /\ NoNewRow /\ Deliberate
  BY SamePosts DEF IInv, setEligibilityOverride, content
<1>2. ClockOK' /\ PostsOK' /\ PlayOK'
  BY ClockFrame, PostsFrame, PlayFrame DEF IInv, setEligibilityOverride
<1>3. UsersOK'
  BY DEF IInv, UsersOK, setEligibilityOverride
<1>4. CallsOK'
  BY <1>1, <1>2, CallsFrame DEF IInv, setEligibilityOverride, CallsOK
<1>5. ImportsOK' /\ RunsOK'
  BY <1>1, ImportsFrame, RunsFrame DEF IInv, setEligibilityOverride, importing
<1>6. QED
  BY <1>1, <1>2, <1>3, <1>4, <1>5 DEF IInv

\* The clock and the forum: nothing of the program's own changes.
LEMMA OutsideInv ==
    ASSUME IInv, ClockOK',
           UNCHANGED <<content, stats, override, importing, call, playing>>
    PROVE  IInv' /\ Deliberate
<1>1. Kept /\ NoNewRow /\ Deliberate
  BY SamePosts DEF IInv, content
<1>2. UsersOK' /\ PostsOK' /\ PlayOK'
  BY UsersFrame, PostsFrame, PlayFrame DEF IInv
<1>3. CallsOK'
  BY <1>1, <1>2, CallsFrame DEF IInv, CallsOK
<1>4. ImportsOK' /\ RunsOK'
  BY <1>1, ImportsFrame, RunsFrame DEF IInv, importing
<1>5. QED
  BY <1>1, <1>2, <1>3, <1>4 DEF IInv

LEMMA CrashInv == ASSUME IInv, Crash PROVE IInv' /\ Deliberate
<1>1. Kept /\ NoNewRow /\ Deliberate
  BY SamePosts DEF IInv, Crash, content
<1>2. ClockOK' /\ UsersOK' /\ PostsOK'
  BY ClockFrame, UsersFrame, PostsFrame DEF IInv, Crash
<1>3. CallsOK'
  BY DEF Crash, CallsOK
<1>4. ImportsOK'
  BY DEF Crash, ImportsOK, OneImportAtATime
<1>5. RunsOK'
  <2>1. \A j \in Imports : ~Walking(j)'
    BY DEF Crash, Walking
  <2>2. QED
    BY <2>1, IdleRuns DEF Crash, content
<1>6. PlayOK'
  <2>1. req' \in [Players -> Request \cup {NoRow}]
    BY DEF Crash
  <2>2. QED
    BY <2>1 DEF IInv, PlayOK, Crash
<1>7. QED
  BY <1>1, <1>2, <1>3, <1>4, <1>5, <1>6 DEF IInv

\* Every step keeps the inductive invariant and is deliberate.
LEMMA NextInv == IInv /\ [Next]_vars => IInv' /\ Deliberate
<1> SUFFICES ASSUME IInv, [Next]_vars PROVE IInv' /\ Deliberate
  OBVIOUS
<1>1. CASE \E m \in Moderators : ModeratorStep(m)
  BY <1>1, ModeratorInv
<1>2. CASE \E i \in Imports : ImportStep(i)
  BY <1>2, ImportInv
<1>3. CASE \E q \in Players : PlayerStep(q)
  BY <1>3, PlayerInv
<1>4. CASE \E u \in Users, o \in Overrides : setEligibilityOverride(u, o)
  BY <1>4, OverrideInv
<1>5. CASE \E p \in Posts, text \in Texts : Rewrite(p, text)
  <2>1. PICK p \in Posts, text \in Texts : Rewrite(p, text)
    BY <1>5
  <2>2. ClockOK'
    BY <2>1, ContentAssumption DEF IInv, ClockOK, Rewrite, Event
  <2>3. QED
    BY <2>1, <2>2, OutsideInv DEF Rewrite
<1>6. CASE Midnight
  <2>1. ClockOK'
    BY <1>6, ContentAssumption DEF IInv, ClockOK, Midnight, Event
  <2>2. QED
    BY <1>6, <2>1, OutsideInv DEF Midnight
<1>7. CASE Crash
  BY <1>7, CrashInv
<1>8. CASE UNCHANGED vars
  <2>1. ClockOK'
    BY <1>8 DEF vars, IInv, ClockOK
  <2>2. QED
    BY <1>8, <2>1, OutsideInv DEF vars
<1>9. QED
  BY <1>1, <1>2, <1>3, <1>4, <1>5, <1>6, <1>7, <1>8 DEF Next

-----------------------------------------------------------------------------
(* The theorems. *)

\* The inductive invariant holds of every execution.
THEOREM InvariantHolds == Spec => []IInv
<1>1. Init => IInv
  BY InitInv
<1>2. IInv /\ [Next]_vars => IInv'
  BY NextInv
<1>3. QED
  BY <1>1, <1>2, PTL DEF Spec

\* The rows, the requests and the progress of imports have their types, the quality of
\* a post among them: for whatever it measures, the importer stores one from 0 to 200.
THEOREM TypeCorrect == Spec => []TypeOK
<1>1. IInv => TypeOK
  BY DEF IInv, ClockOK, UsersOK, PostsOK, CallsOK, ImportsOK, RunsOK, PlayOK, TypeOK
<1>2. QED
  BY <1>1, InvariantHolds, PTL

\* Two imports are never at work together, for any number of triggers and connections,
\* failures to unlock and restarts.
THEOREM OneImportAtATimeHolds == Spec => []OneImportAtATime
<1>1. IInv => OneImportAtATime
  BY DEF IInv, ImportsOK
<1>2. QED
  BY <1>1, InvariantHolds, PTL

\* A run that says success has counted the posts that it brought in.
THEOREM SuccessCounts == Spec => []SuccessCountsItsPosts
<1>1. IInv => SuccessCountsItsPosts
  BY DEF IInv, RunsOK
<1>2. QED
  BY <1>1, InvariantHolds, PTL

\* A post's revisions and its text are the texts it has had, for any number of editors.
THEOREM RevisionsTellHistoryHolds == Spec => []RevisionsTellHistory
<1>1. IInv => RevisionsTellHistory
  BY DEF IInv, PostsOK, RevisionsTellHistory
<1>2. QED
  BY <1>1, InvariantHolds, PTL

\* A decision or an edit lands only on the text its moderator had read.
THEOREM DecidedWhatWasReadHolds == Spec => DecidedWhatWasRead
<1>1. IInv /\ [Next]_vars => [Deliberate]_vars
  BY NextInv
<1>2. QED
  BY <1>1, InvariantHolds, PTL DEF Spec, DecidedWhatWasRead

\* Everyone who plays a day's challenge is handed the day's one plan, and every plan
\* handed out has its target among the full number of choices in each round.
THEOREM EveryoneGetsTheDayHolds == Spec => []EveryoneGetsTheDay
<1>1. IInv => EveryoneGetsTheDay
  BY DEF IInv, PlayOK, EveryoneGetsTheDay, FullRounds
<1>2. QED
  BY <1>1, InvariantHolds, PTL
=============================================================================
