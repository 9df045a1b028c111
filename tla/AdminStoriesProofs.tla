------------------------- MODULE AdminStoriesProofs -------------------------
(***************************************************************************)
(* Theorems about AdminStories, for any number of browsers, tabs, requests *)
(* and stories, whichever messages are followed.                           *)
(***************************************************************************)
EXTENDS AdminStories, TLAPS

Del(i) == [what |-> "deleted", id |-> i]

\* The browser holds the message that the story was deleted, in its session, in a
\* session that is under way, or on a page it has shown.
HasHeard(b, i) ==
    \/ i \in told[b]
    \/ Del(i) \in cookie[b]
    \/ \E t \in Tab : BrowserOf[t] = b /\ Del(i) \in req[t].mail

\* A story of which that is said: its id was given out, the row is gone, and no other
\* browser holds the message.
Gone ==
    \A b \in Browser, i \in StoryId : HasHeard(b, i) =>
        /\ i \in Known /\ i \notin stories
        /\ \A c \in Browser \ {b} : ~HasHeard(c, i)

IInv == TypeOK /\ Gone

-----------------------------------------------------------------------------
(* Types.                                                                  *)

LEMMA MessageTypes ==
    /\ \A w \in {"updated", "deleted"}, i \in StoryId : Flash(w, i) \subseteq Message
    /\ \A mail \in SUBSET Message : \A i \in Deletions(mail) : i \in StoryId /\ Del(i) \in mail
    /\ \A i, j : Del(j) \in Flash("deleted", i) => j = i
    /\ \A i, j : Del(j) \notin Flash("updated", i)
  <1>1. \A w \in {"updated", "deleted"}, i \in StoryId : Flash(w, i) \subseteq Message
    BY DEF Flash, Message
  <1>2. \A i, j : Del(j) \notin Flash("updated", i)
    BY DEF Flash, Del
  <1>3. ASSUME NEW mail \in SUBSET Message, NEW i \in Deletions(mail)
        PROVE  i \in StoryId /\ Del(i) \in mail
    <2>1. PICK m \in mail : m.what = "deleted" /\ m.id = i
      BY DEF Deletions
    <2>2. m = [what |-> m.what, id |-> m.id] /\ m.id \in StoryId
      BY DEF Message
    <2> QED
      BY <2>1, <2>2 DEF Del
  <1>4. \A i, j : Del(j) \in Flash("deleted", i) => j = i
    BY DEF Flash, Del
  <1> QED
    BY <1>1, <1>2, <1>3, <1>4

LEMMA RequestTypes ==
    /\ \A s \in {"idle", "sent", "page", "redirect"}, op \in Op,
          i \in {NoId} \cup StoryId, mail \in SUBSET Message :
          [stage |-> s, op |-> op, id |-> i, mail |-> mail] \in Request
    /\ \A op \in OpOnStory, i \in StoryId, mail \in SUBSET Message :
          [stage |-> "sent", op |-> op, id |-> i, mail |-> mail] \in Request
    /\ \A r \in Request : /\ r.mail \in SUBSET Message
                          /\ r.id \in {NoId} \cup StoryId
                          /\ r.op \in OpOnStory => r.id \in StoryId
    /\ Idle \in Request /\ Idle.mail = {}
  BY DEF Request, Op, OpOnStory, Idle, NoId

LEMMA IInvInit == Init => IInv
  <1> SUFFICES ASSUME Init PROVE IInv
    OBVIOUS
  <1>1. PICK n \in 0..MaxId : stories = 1..n /\ nextId = n + 1
    BY DEF Init
  <1>2. nextId \in Nat /\ Known = 1..n /\ Known \subseteq StoryId
    BY <1>1, StoriesAssumption DEF Known, StoryId
  <1>3. /\ cookie \in [Browser -> SUBSET Message] /\ form \in [Tab -> {NoId} \cup StoryId]
        /\ req \in [Tab -> Request] /\ told \in [Browser -> SUBSET StoryId]
    BY RequestTypes DEF Init
  <1>4. TypeOK
    BY <1>1, <1>2, <1>3 DEF TypeOK
  <1>5. \A b \in Browser, i \in StoryId : ~HasHeard(b, i)
    BY RequestTypes DEF Init, HasHeard
  <1>6. Gone
    BY <1>5 DEF Gone
  <1> QED
    BY <1>4, <1>6 DEF IInv

-----------------------------------------------------------------------------
(* What every step keeps.                                                  *)

\* What a step may do to the table: rows go, and at most the next id of the sequence
\* comes.
TableStep ==
    \/ nextId' = nextId /\ stories' \subseteq stories
    \/ /\ nextId \in StoryId /\ nextId' = nextId + 1
       /\ stories' \subseteq stories \cup {nextId}

LEMMA TableKept ==
    ASSUME TypeOK, TableStep
    PROVE  /\ nextId' \in Nat /\ Known \subseteq Known' /\ Known' \subseteq StoryId
           /\ stories' \subseteq Known'
           /\ \A i \in Known : i \notin stories => i \notin stories'
  <1>1. stories \subseteq Known /\ Known \subseteq StoryId /\ nextId \in Nat
    BY DEF TypeOK
  <1>2. CASE nextId' = nextId /\ stories' \subseteq stories
    <2>1. Known' = Known
      BY <1>2 DEF Known
    <2> QED
      BY <1>1, <1>2, <2>1
  <1>3. CASE /\ nextId \in StoryId /\ nextId' = nextId + 1
             /\ stories' \subseteq stories \cup {nextId}
    <2>1. nextId >= 1 /\ nextId <= MaxId
      BY <1>3, StoriesAssumption DEF StoryId
    <2>2. nextId' \in Nat /\ Known' = 1..nextId /\ Known = 1..(nextId - 1)
      BY <1>1, <1>3 DEF Known
    <2>3. Known \subseteq Known' /\ nextId \in Known' /\ nextId \notin Known
      BY <1>1, <2>1, <2>2
    <2>4. Known' \subseteq StoryId
      BY <1>1, <2>1, <2>2, StoriesAssumption DEF StoryId
    <2> QED
      BY <1>1, <1>3, <2>2, <2>3, <2>4
  <1> QED
    BY <1>2, <1>3 DEF TableStep

\* A step after which at most one browser holds new messages, of rows that the step
\* removed, keeps Gone.
LEMMA GoneKept ==
    ASSUME IInv, TableStep,
           NEW b \in Browser, NEW D \in SUBSET stories, D \cap stories' = {},
           \A c \in Browser, i \in StoryId :
              HasHeard(c, i)' => HasHeard(c, i) \/ (c = b /\ i \in D)
    PROVE  Gone'
  <1>1. /\ Known \subseteq Known' /\ \A i \in Known : i \notin stories => i \notin stories'
        /\ stories \subseteq Known
    BY TableKept DEF IInv, TypeOK
  <1>2. ASSUME NEW c \in Browser, NEW i \in StoryId, HasHeard(c, i)'
        PROVE  /\ i \in Known' /\ i \notin stories'
               /\ \A d \in Browser \ {c} : ~HasHeard(d, i)'
    <2>1. CASE HasHeard(c, i)
      <3>1. /\ i \in Known /\ i \notin stories
            /\ \A d \in Browser \ {c} : ~HasHeard(d, i)
        BY <2>1 DEF IInv, Gone
      <3> QED
        BY <3>1, <1>1
    <2>2. CASE c = b /\ i \in D
      <3>1. i \in stories /\ \A d \in Browser : ~HasHeard(d, i)
        BY <2>2 DEF IInv, Gone
      <3> QED
        BY <3>1, <2>2, <1>1
    <2> QED
      BY <1>2, <2>1, <2>2
  <1> QED
    BY <1>2 DEF Gone, StoryId

\* Steps of a browser: the table stays, and nobody holds a message that its browser
\* did not hold before.
LEMMA Browsed ==
    ASSUME IInv, UNCHANGED <<stories, nextId>>,
           cookie' \in [Browser -> SUBSET Message], form' \in [Tab -> {NoId} \cup StoryId],
           req' \in [Tab -> Request], told' \in [Browser -> SUBSET StoryId],
           \A c \in Browser, i \in StoryId : HasHeard(c, i)' => HasHeard(c, i)
    PROVE  IInv'
  <1>1. TypeOK'
    BY DEF IInv, TypeOK, Known, StoryId, Message, Request, Op, OpOnStory
  <1>2. ASSUME NEW c \in Browser, NEW i \in StoryId, HasHeard(c, i)'
        PROVE  /\ i \in Known /\ i \notin stories
               /\ \A d \in Browser \ {c} : ~HasHeard(d, i)'
    BY <1>2 DEF IInv, Gone
  <1>3. Gone'
    BY <1>2 DEF Gone, Known, StoryId
  <1> QED
    BY <1>1, <1>3 DEF IInv

\* Steps of a handler: the answer carries the messages of the request, and of
\* deletes only what the step itself removed.
LEMMA Answered ==
    ASSUME IInv, TableStep, NEW t \in Tab, NEW s \in {"page", "redirect"}, NEW op \in Op,
           NEW i \in {NoId} \cup StoryId, NEW mail \in SUBSET Message,
           Answer(t, s, op, i, mail),
           NEW D \in SUBSET stories, D \cap stories' = {},
           \A j \in StoryId : Del(j) \in mail => Del(j) \in req[t].mail \/ j \in D
    PROVE  IInv'
  <1> DEFINE r == [stage |-> s, op |-> op, id |-> i, mail |-> mail]
  <1>1. r \in Request /\ r.mail = mail
    BY RequestTypes
  <1>2. req' = [req EXCEPT ![t] = r] /\ UNCHANGED <<cookie, form, told>>
    BY DEF Answer
  <1> HIDE DEF r
  <1>3. /\ cookie \in [Browser -> SUBSET Message] /\ form \in [Tab -> {NoId} \cup StoryId]
        /\ req \in [Tab -> Request] /\ told \in [Browser -> SUBSET StoryId]
    BY DEF IInv, TypeOK
  <1>4. /\ req' \in [Tab -> Request] /\ req'[t] = r
        /\ \A u \in Tab \ {t} : req'[u] = req[u]
    BY <1>1, <1>2, <1>3
  <1>5. TypeOK'
    BY <1>2, <1>3, <1>4, TableKept DEF IInv, TypeOK, StoryId, Message, Request, Op, OpOnStory
  <1>6. BrowserOf[t] \in Browser
    BY StoriesAssumption
  <1>7. ASSUME NEW c \in Browser, NEW j \in StoryId, HasHeard(c, j)'
        PROVE  HasHeard(c, j) \/ (c = BrowserOf[t] /\ j \in D)
    <2>1. CASE j \in told'[c] \/ Del(j)' \in cookie'[c]
      BY <2>1, <1>2 DEF HasHeard, Del
    <2>2. CASE \E u \in Tab : BrowserOf[u] = c /\ Del(j) \in req'[u].mail
      <3>1. PICK u \in Tab : BrowserOf[u] = c /\ Del(j) \in req'[u].mail
        BY <2>2
      <3>2. CASE u # t
        BY <3>1, <3>2, <1>4 DEF HasHeard
      <3>3. CASE u = t
        <4>1. Del(j) \in req[t].mail \/ j \in D
          BY <3>1, <3>3, <1>1, <1>4
        <4> QED
          BY <3>1, <3>3, <4>1 DEF HasHeard
      <3> QED
        BY <3>2, <3>3
    <2> QED
      BY <1>7, <2>1, <2>2 DEF HasHeard, Del
  <1>8. Gone'
    BY <1>6, <1>7, GoneKept
  <1> QED
    BY <1>5, <1>8 DEF IInv

\* The answers that tell of no delete.
LEMMA AnsweredPlain ==
    ASSUME IInv, TableStep, NEW t \in Tab,
           \/ \E i \in {NoId} \cup StoryId : Render(t, i)
           \/ \E op \in Op : Redirect(t, op, {})
           \/ \E i \in StoryId : Redirect(t, "list", Flash("updated", i))
    PROVE  IInv'
  <1>1. /\ req[t].mail \in SUBSET Message
        /\ {} \in SUBSET stories /\ {} \cap stories' = {}
    BY RequestTypes DEF IInv, TypeOK
  <1>2. CASE \E i \in {NoId} \cup StoryId : Render(t, i)
    <2>1. PICK i \in {NoId} \cup StoryId : Answer(t, "page", "list", i, req[t].mail)
      BY <1>2 DEF Render
    <2>2. "list" \in Op
      BY DEF Op
    <2> QED
      BY <1>1, <2>1, <2>2, Answered
  <1>3. CASE \E op \in Op : Redirect(t, op, {})
    <2>1. PICK op \in Op : Answer(t, "redirect", op, NoId, req[t].mail)
      BY <1>3 DEF Redirect
    <2> QED
      BY <1>1, <2>1, Answered
  <1>4. CASE \E i \in StoryId : Redirect(t, "list", Flash("updated", i))
    <2>1. PICK i \in StoryId :
             Answer(t, "redirect", "list", NoId, req[t].mail \cup Flash("updated", i))
      BY <1>4 DEF Redirect
    <2> DEFINE mail == req[t].mail \cup Flash("updated", i)
    <2>2. /\ mail \in SUBSET Message
          /\ \A j \in StoryId : Del(j) \in mail => Del(j) \in req[t].mail
      BY <1>1, MessageTypes
    <2>3. "list" \in Op /\ Answer(t, "redirect", "list", NoId, mail)
      BY <2>1 DEF Op
    <2> HIDE DEF mail
    <2> QED
      BY <2>2, <2>3, Answered
  <1> QED
    BY <1>2, <1>3, <1>4

\* And the one that may.
LEMMA AnsweredDelete ==
    ASSUME IInv, NEW t \in Tab, NEW i \in StoryId,
           nextId' = nextId, stories' = stories \ {i},
           Redirect(t, "list", Success(i))
    PROVE  IInv'
  <1>1. req[t].mail \in SUBSET Message /\ TableStep /\ "list" \in Op
    BY RequestTypes DEF IInv, TypeOK, TableStep, Op
  <1>2. CASE i \in stories
    <2> DEFINE mail == req[t].mail \cup Flash("deleted", i)
    <2>1. Answer(t, "redirect", "list", NoId, mail)
      BY <1>2 DEF Redirect, Success, RowFound
    <2>2. /\ mail \in SUBSET Message
          /\ \A j \in StoryId : Del(j) \in mail => Del(j) \in req[t].mail \/ j \in {i}
      BY <1>1, MessageTypes
    <2>3. {i} \in SUBSET stories /\ {i} \cap stories' = {}
      BY <1>2
    <2> HIDE DEF mail
    <2> QED
      BY <1>1, <2>1, <2>2, <2>3, Answered
  <1>3. CASE i \notin stories
    <2>1. Redirect(t, "list", {})
      BY <1>3 DEF Success, RowFound
    <2> QED
      BY <1>1, <2>1, AnsweredPlain
  <1> QED
    BY <1>2, <1>3

-----------------------------------------------------------------------------
(* The steps.                                                              *)

LEMMA SendKeeps ==
    ASSUME IInv, NEW t \in Tab, NEW op, NEW i, Send(t, op, i),
           (op \in Op /\ i = NoId) \/ (op \in OpOnStory /\ i \in StoryId)
    PROVE  IInv'
  <1> DEFINE r == Sent(op, i, cookie[BrowserOf[t]])
  <1>1. /\ cookie \in [Browser -> SUBSET Message] /\ form \in [Tab -> {NoId} \cup StoryId]
        /\ req \in [Tab -> Request] /\ told \in [Browser -> SUBSET StoryId]
    BY DEF IInv, TypeOK
  <1>2. cookie[BrowserOf[t]] \in SUBSET Message
    BY <1>1, StoriesAssumption
  <1>3. r \in Request /\ r.mail = cookie[BrowserOf[t]]
    BY <1>2, RequestTypes DEF Sent
  <1>4. /\ req' = [req EXCEPT ![t] = r]
        /\ UNCHANGED <<stories, nextId, cookie, form, told>>
    BY DEF Send
  <1> HIDE DEF r
  <1>5. /\ req' \in [Tab -> Request] /\ req'[t] = r
        /\ \A u \in Tab \ {t} : req'[u] = req[u]
    BY <1>1, <1>3, <1>4
  <1>6. \A c \in Browser, j \in StoryId : HasHeard(c, j)' => HasHeard(c, j)
    BY <1>3, <1>4, <1>5 DEF HasHeard, Del
  <1> QED
    BY <1>1, <1>4, <1>5, <1>6, Browsed

LEMMA AskKeeps ==
    ASSUME IInv, NEW t \in Tab, Ask(t)
    PROVE  IInv'
  <1>1. CASE \E op \in Op : Send(t, op, NoId)
    BY <1>1, SendKeeps
  <1>2. CASE \E op \in {"form", "delete"}, i \in Known : Send(t, op, i)
    <2>1. PICK op \in {"form", "delete"}, i \in Known : Send(t, op, i)
      BY <1>2
    <2>2. op \in OpOnStory /\ i \in StoryId
      BY DEF OpOnStory, IInv, TypeOK
    <2> QED
      BY <2>1, <2>2, SendKeeps
  <1>3. CASE form[t] # NoId /\ Send(t, "edit", form[t])
    <2>1. "edit" \in OpOnStory /\ form[t] \in StoryId
      BY <1>3 DEF OpOnStory, IInv, TypeOK
    <2> QED
      BY <1>3, <2>1, SendKeeps
  <1> QED
    BY <1>1, <1>2, <1>3 DEF Ask

LEMMA FollowKeeps ==
    ASSUME IInv, NEW t \in Tab, Follow(t)
    PROVE  IInv'
  <1> DEFINE r == IF req[t].op = "list" THEN Sent("list", NoId, req[t].mail) ELSE Idle
             b == BrowserOf[t]
             m == req[t].mail
  <1>1. /\ cookie \in [Browser -> SUBSET Message] /\ form \in [Tab -> {NoId} \cup StoryId]
        /\ req \in [Tab -> Request] /\ told \in [Browser -> SUBSET StoryId]
    BY DEF IInv, TypeOK
  <1>2. m \in SUBSET Message /\ b \in Browser
    BY <1>1, RequestTypes, StoriesAssumption
  <1>3. r \in Request /\ r.mail \subseteq m
    <2>1. Sent("list", NoId, m) \in Request /\ Sent("list", NoId, m).mail = m
      BY <1>2, RequestTypes DEF Sent, Op
    <2> QED
      BY <2>1, RequestTypes
  <1>4. /\ req' = [req EXCEPT ![t] = r] /\ cookie' = [cookie EXCEPT ![b] = m]
        /\ UNCHANGED <<stories, nextId, form, told>>
    BY <1>1 DEF Follow
  <1>5. \A j : Del(j) \in m => HasHeard(b, j)
    BY DEF HasHeard
  <1> HIDE DEF r, b, m
  <1>6. /\ req' \in [Tab -> Request] /\ req'[t] = r
        /\ \A u \in Tab \ {t} : req'[u] = req[u]
    BY <1>1, <1>3, <1>4
  <1>7. /\ cookie' \in [Browser -> SUBSET Message] /\ cookie'[b] = m
        /\ \A c \in Browser \ {b} : cookie'[c] = cookie[c]
    BY <1>1, <1>2, <1>4
  <1>8. ASSUME NEW c \in Browser, NEW j \in StoryId, HasHeard(c, j)'
        PROVE  HasHeard(c, j)
    <2>1. CASE j \in told[c]
      BY <2>1 DEF HasHeard
    <2>2. CASE Del(j) \in cookie'[c]
      BY <2>2, <1>5, <1>7 DEF HasHeard
    <2>3. CASE \E u \in Tab : BrowserOf[u] = c /\ Del(j) \in req'[u].mail
      <3>1. PICK u \in Tab : BrowserOf[u] = c /\ Del(j) \in req'[u].mail
        BY <2>3
      <3>2. CASE u # t
        BY <3>1, <3>2, <1>6 DEF HasHeard
      <3>3. CASE u = t
        BY <3>1, <3>3, <1>3, <1>5, <1>6 DEF b
      <3> QED
        BY <3>2, <3>3
    <2> QED
      BY <1>4, <1>8, <2>1, <2>2, <2>3 DEF HasHeard, Del
  <1> QED
    BY <1>1, <1>4, <1>6, <1>7, <1>8, Browsed

LEMMA ShowPageKeeps ==
    ASSUME IInv, NEW t \in Tab, ShowPage(t)
    PROVE  IInv'
  <1> DEFINE b == BrowserOf[t]
             D == Deletions(req[t].mail)
             f == IF req[t].id # NoId THEN req[t].id ELSE form[t]
  <1>1. /\ cookie \in [Browser -> SUBSET Message] /\ form \in [Tab -> {NoId} \cup StoryId]
        /\ req \in [Tab -> Request] /\ told \in [Browser -> SUBSET StoryId]
    BY DEF IInv, TypeOK
  <1>2. b \in Browser /\ req[t].mail \in SUBSET Message /\ f \in {NoId} \cup StoryId
    BY <1>1, RequestTypes, StoriesAssumption
  <1>3. D \subseteq StoryId /\ \A j \in D : HasHeard(b, j)
    BY <1>2, MessageTypes DEF HasHeard
  <1>4. /\ cookie' = [cookie EXCEPT ![b] = {}] \/ cookie' = cookie
        /\ told' = [told EXCEPT ![b] = @ \cup D]
        /\ form' = [form EXCEPT ![t] = f]
        /\ req' = [req EXCEPT ![t] = Idle]
        /\ UNCHANGED <<stories, nextId>>
    BY <1>1 DEF ShowPage
  <1> HIDE DEF b, D, f
  <1>5. /\ req' \in [Tab -> Request] /\ req'[t] = Idle /\ Idle.mail = {}
        /\ \A u \in Tab \ {t} : req'[u] = req[u]
    BY <1>1, <1>4, RequestTypes
  <1>6. /\ cookie' \in [Browser -> SUBSET Message]
        /\ \A c \in Browser : cookie'[c] \subseteq cookie[c]
    BY <1>1, <1>2, <1>4
  <1>7. /\ told' \in [Browser -> SUBSET StoryId] /\ told'[b] = told[b] \cup D
        /\ \A c \in Browser \ {b} : told'[c] = told[c]
    BY <1>1, <1>2, <1>3, <1>4
  <1>8. form' \in [Tab -> {NoId} \cup StoryId]
    BY <1>1, <1>2, <1>4
  <1>9. ASSUME NEW c \in Browser, NEW j \in StoryId, HasHeard(c, j)'
        PROVE  HasHeard(c, j)
    <2>1. CASE j \in told'[c]
      BY <2>1, <1>3, <1>7 DEF HasHeard
    <2>2. CASE Del(j) \in cookie'[c]
      BY <2>2, <1>6 DEF HasHeard
    <2>3. CASE \E u \in Tab : BrowserOf[u] = c /\ Del(j) \in req'[u].mail
      BY <2>3, <1>5 DEF HasHeard
    <2> QED
      BY <1>9, <2>1, <2>2, <2>3 DEF HasHeard, Del
  <1> QED
    BY <1>4, <1>5, <1>6, <1>7, <1>8, <1>9, Browsed

LEMMA LoseKeeps ==
    ASSUME IInv, NEW t \in Tab, Lose(t)
    PROVE  IInv'
  <1>1. /\ cookie \in [Browser -> SUBSET Message] /\ form \in [Tab -> {NoId} \cup StoryId]
        /\ req \in [Tab -> Request] /\ told \in [Browser -> SUBSET StoryId]
    BY DEF IInv, TypeOK
  <1>2. /\ req' = [req EXCEPT ![t] = Idle]
        /\ UNCHANGED <<stories, nextId, cookie, form, told>>
    BY DEF Lose
  <1>3. /\ req' \in [Tab -> Request] /\ req'[t] = Idle /\ Idle.mail = {}
        /\ \A u \in Tab \ {t} : req'[u] = req[u]
    BY <1>1, <1>2, RequestTypes
  <1>4. \A c \in Browser, j \in StoryId : HasHeard(c, j)' => HasHeard(c, j)
    BY <1>2, <1>3 DEF HasHeard, Del
  <1> QED
    BY <1>1, <1>2, <1>3, <1>4, Browsed

LEMMA ShowStoryKeeps ==
    ASSUME IInv, NEW t \in Tab, ShowStory(t, req[t].id), UNCHANGED <<stories, nextId>>
    PROVE  IInv'
  <1>1. req[t].id \in {NoId} \cup StoryId /\ TableStep /\ "list" \in Op
    BY RequestTypes DEF IInv, TypeOK, TableStep, Op
  <1>2. Render(t, req[t].id) \/ Redirect(t, "list", {})
    BY DEF ShowStory
  <1> QED
    BY <1>1, <1>2, AnsweredPlain

LEMMA DeleteKeeps ==
    ASSUME IInv, NEW t \in Tab, Delete(t) \/ DeleteFails(t)
    PROVE  IInv'
  <1>1. req[t].id \in StoryId /\ nextId' = nextId /\ "list" \in Op
    BY RequestTypes DEF IInv, TypeOK, Delete, DeleteFails, At, Op, OpOnStory
  <1>2. CASE stories' = stories \ {req[t].id} /\ Redirect(t, "list", Success(req[t].id))
    BY <1>1, <1>2, AnsweredDelete
  <1>3. CASE stories' \in {stories, stories \ {req[t].id}} /\ Redirect(t, "list", {})
    <2>1. TableStep
      BY <1>1, <1>3 DEF TableStep
    <2> QED
      BY <1>1, <1>3, <2>1, AnsweredPlain
  <1> QED
    BY <1>2, <1>3 DEF Delete, DeleteFails, Deleted

LEMMA IInvNext ==
    ASSUME IInv, [Next]_vars
    PROVE  IInv'
  <1>1. NoId \in {NoId} \cup StoryId /\ "list" \in Op /\ "elsewhere" \in Op
    BY DEF Op
  <1>2. CASE UNCHANGED vars
    <2>1. \A c \in Browser, i \in StoryId : HasHeard(c, i)' => HasHeard(c, i)
      BY <1>2 DEF vars, HasHeard, Del
    <2> QED
      BY <1>2, <2>1, Browsed DEF vars, IInv, TypeOK
  <1>3. ASSUME NEW t \in Tab, Ask(t) \/ Follow(t) \/ ShowPage(t) \/ Lose(t)
        PROVE  IInv'
    BY <1>3, AskKeeps, FollowKeeps, ShowPageKeeps, LoseKeeps
  <1>4. ASSUME NEW t \in Tab, LoginRequired(t) \/ List(t) \/ CreateForm(t)
        PROVE  IInv'
    <2>1. TableStep
      BY <1>4 DEF LoginRequired, List, CreateForm, TableStep
    <2>2. Render(t, NoId) \/ Redirect(t, "elsewhere", {})
      BY <1>4 DEF LoginRequired, List, CreateForm
    <2> QED
      BY <1>1, <2>1, <2>2, AnsweredPlain
  <1>5. ASSUME NEW t \in Tab, Create(t) \/ CreateFails(t)
        PROVE  IInv'
    <2>1. TableStep
      BY <1>5 DEF Create, CreateFails, TableStep, Drawn
    <2>2. Render(t, NoId) \/ Redirect(t, "list", {})
      BY <1>5 DEF Create, CreateFails
    <2> QED
      BY <1>1, <2>1, <2>2, AnsweredPlain
  <1>6. ASSUME NEW t \in Tab, EditForm(t) \/ EditFails(t)
        PROVE  IInv'
    BY <1>6, ShowStoryKeeps DEF EditForm, EditFails
  <1>7. ASSUME NEW t \in Tab, Edit(t)
        PROVE  IInv'
    <2>1. req[t].id \in StoryId
      BY <1>7, RequestTypes DEF IInv, TypeOK, Edit, At, OpOnStory
    <2>2. TableStep /\ Redirect(t, "list", Flash("updated", req[t].id))
      BY <1>7 DEF Edit, Updated, TableStep
    <2> QED
      BY <2>1, <2>2, AnsweredPlain
  <1>8. ASSUME NEW t \in Tab, Delete(t) \/ DeleteFails(t)
        PROVE  IInv'
    BY <1>8, DeleteKeeps
  <1>9. ASSUME NEW t \in Tab, Elsewhere(t)
        PROVE  IInv'
    <2>1. TableStep
      BY <1>9 DEF Elsewhere, TableStep
    <2>2. CASE Render(t, NoId) \/ Redirect(t, "elsewhere", {})
      BY <1>1, <2>1, <2>2, AnsweredPlain
    <2>3. CASE Answer(t, "redirect", "elsewhere", NoId, {})
      <3>1. {} \in SUBSET Message /\ {} \in SUBSET stories /\ {} \cap stories' = {}
        OBVIOUS
      <3> QED
        BY <1>1, <2>1, <2>3, <3>1, Answered
    <2> QED
      BY <1>9, <2>2, <2>3 DEF Elsewhere
  <1> QED
    BY <1>2, <1>3, <1>4, <1>5, <1>6, <1>7, <1>8, <1>9 DEF Next

-----------------------------------------------------------------------------

\* The table holds only stories the sequence gave out; sessions and requests carry
\* messages about them (main.py:677-884).
THEOREM TypeCorrect == Spec => []TypeOK
  BY IInvInit, IInvNext, PTL DEF Spec, IInv

\* Whatever requests overlap, are lost, or carry a session that is out of date: a page
\* that tells of a delete tells the truth, and the pages of one browser only tell of
\* it (main.py:859-884, admin_stories.html:184).
THEOREM DeletedByOneHolds == Spec => []DeletedByOne
  <1>1. IInv => DeletedByOne
    BY DEF IInv, TypeOK, Gone, HasHeard, DeletedByOne
  <1> QED
    BY <1>1, IInvInit, IInvNext, PTL DEF Spec

\* Saving a form that was left open, or sending a request again, brings no deleted
\* story back (main.py:786-812).
THEOREM DeletedStaysDeletedHolds == Spec => DeletedStaysDeleted
  <1>1. ASSUME IInv, Next
        PROVE  \A i \in Known : i \notin stories => i \notin stories'
    <2>1. nextId \in Nat /\ nextId \notin Known
      BY <1>1 DEF IInv, TypeOK, Known
    <2>2. stories' \subseteq stories \cup {nextId}
      BY <1>1 DEF Next, Ask, Send, Follow, ShowPage, Lose, LoginRequired, List, CreateForm,
                  Create, CreateFails, EditForm, Edit, Updated, EditFails, Delete, Deleted,
                  DeleteFails, Elsewhere
    <2> QED
      BY <2>1, <2>2
  <1>2. IInv /\ [Next]_vars =>
            [\A i \in Known : i \notin stories => i \notin stories']_vars
    BY <1>1
  <1> QED
    BY <1>2, IInvInit, IInvNext, PTL DEF Spec, DeletedStaysDeleted
=============================================================================
