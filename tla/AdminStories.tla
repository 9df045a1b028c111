---------------------------- MODULE AdminStories ----------------------------
(***************************************************************************)
(* The emigrant stories of main.py: the table `emigrant_stories`, and the  *)
(* browser tabs in which administrators list, create, edit and delete      *)
(* stories.  A handler changes the table in one statement.  What it has to *)
(* say it flashes into the session, which travels in the cookie all tabs   *)
(* of a browser share: the message is shown by whichever page next renders *)
(* messages, or by two of them if their requests overlap.  The texts of    *)
(* the stories are left out: an update writes all of them or none.         *)
(***************************************************************************)
EXTENDS Naturals, FiniteSets

CONSTANTS
    Tab,        \* browser tabs
    Browser,    \* cookie jars
    BrowserOf,  \* the browser a tab belongs to
    Followed,   \* the messages whose way is followed; the others are left out
    MaxId,      \* bound: the last value of the sequence behind id
    MaxRequests \* bound: requests under way at once

ASSUME StoriesAssumption ==
    /\ BrowserOf \in [Tab -> Browser]
    /\ Followed \subseteq {"updated", "deleted"}
    /\ MaxId \in Nat /\ MaxRequests \in Nat

VARIABLES
    stories,  \* the ids in the table
    nextId,   \* the next value of the sequence
    cookie,   \* the messages flashed in the session each browser holds
    form,     \* the story whose edit form each tab was shown last
    req,      \* the request each tab waits for
    told      \* history: the deletes that a page of each browser has told of

vars == <<stories, nextId, cookie, form, req, told>>

StoryId == 1..MaxId
NoId == 0
\* Any id that was ever in a list may still be on somebody's screen.
Known == 1..(nextId - 1)

Message == [what : Followed, id : StoryId]
Flash(what, i) == IF what \in Followed THEN {[what |-> what, id |-> i]} ELSE {}
Deletions(messages) == {m.id : m \in {x \in messages : x.what = "deleted"}}

\* "elsewhere" is every other page of the site.
Op == {"list", "new", "create", "elsewhere"}
OpOnStory == {"form", "edit", "delete"}
\* A request is under way to the server with the messages of the session it was sent
\* with, or answered: by a page that shows `mail`, perhaps the edit form of story id,
\* or by a redirect to op with `mail` in its session.
Request == [stage : {"idle", "sent", "page", "redirect"}, op : Op,
            id : {NoId} \cup StoryId, mail : SUBSET Message]
           \cup [stage : {"sent"}, op : OpOnStory, id : StoryId, mail : SUBSET Message]
Idle == [stage |-> "idle", op |-> "elsewhere", id |-> NoId, mail |-> {}]
Sent(op, i, mail) == [stage |-> "sent", op |-> op, id |-> i, mail |-> mail]

Init ==
    /\ \E n \in 0..MaxId : stories = 1..n /\ nextId = n + 1
    /\ cookie = [b \in Browser |-> {}]
    /\ form = [t \in Tab |-> NoId]
    /\ req = [t \in Tab |-> Idle]
    /\ told = [b \in Browser |-> {}]

-----------------------------------------------------------------------------
(* The browser.                                                            *)

Send(t, op, i) ==
    /\ req[t].stage = "idle"
    /\ Cardinality({u \in Tab : req[u].stage # "idle"}) < MaxRequests
    /\ req' = [req EXCEPT ![t] = Sent(op, i, cookie[BrowserOf[t]])]
    /\ UNCHANGED <<stories, nextId, cookie, form, told>>

\* The pages may be stale, but for what their forms hold: the list has the ids
\* that it was made of, and an edit form can be sent as long as the tab has it.
Ask(t) ==
    \/ \E op \in Op : Send(t, op, NoId)
    \/ \E op \in {"form", "delete"}, i \in Known : Send(t, op, i)
    \/ form[t] # NoId /\ Send(t, "edit", form[t])

\* A redirect arrives: its session becomes the browser's, and the page it leads to
\* is asked for with it.
Follow(t) ==
    LET b == BrowserOf[t] IN
      /\ req[t].stage = "redirect"
      /\ cookie' = [cookie EXCEPT ![b] = req[t].mail]
      /\ req' = [req EXCEPT ![t] = IF @.op = "list" THEN Sent("list", NoId, @.mail) ELSE Idle]
      /\ UNCHANGED <<stories, nextId, form, told>>

\* A page arrives and shows its messages.  Its session, which has none left, comes
\* with it if there were any, also of those that are not followed.
ShowPage(t) ==
    LET b == BrowserOf[t] IN
      /\ req[t].stage = "page"
      /\ \/ cookie' = [cookie EXCEPT ![b] = {}]
         \/ req[t].mail = {} /\ UNCHANGED cookie
      /\ told' = [told EXCEPT ![b] = @ \cup Deletions(req[t].mail)]
      /\ form' = [form EXCEPT ![t] = IF req[t].id # NoId THEN req[t].id ELSE @]
      /\ req' = [req EXCEPT ![t] = Idle]
      /\ UNCHANGED <<stories, nextId>>

\* A request or its response is lost, or a response changes nothing here.
Lose(t) ==
    /\ req[t].stage # "idle"
    /\ req' = [req EXCEPT ![t] = Idle]
    /\ UNCHANGED <<stories, nextId, cookie, form, told>>

-----------------------------------------------------------------------------
(* The handlers.                                                           *)

Answer(t, stage, op, i, mail) ==
    /\ req' = [req EXCEPT ![t] = [stage |-> stage, op |-> op, id |-> i, mail |-> mail]]
    /\ UNCHANGED <<cookie, form, told>>
\* flash(...) and return redirect(url_for(...))
Redirect(t, op, flashed) == Answer(t, "redirect", op, NoId, req[t].mail \cup flashed)
\* return render_template(...), with get_flashed_messages() in the template
Render(t, i) == Answer(t, "page", "list", i, req[t].mail)

At(t, op) == req[t].stage = "sent" /\ req[t].op = op

\* if "admin_id" not in session: whatever was asked for is not done.
LoginRequired(t) ==
    /\ req[t].stage = "sent" /\ req[t].op # "elsewhere"
    /\ Redirect(t, "elsewhere", {})
    /\ UNCHANGED <<stories, nextId>>

\* The list, or the home page if it cannot be read.
List(t) ==
    /\ At(t, "list")
    /\ Render(t, NoId) \/ Redirect(t, "elsewhere", {})
    /\ UNCHANGED <<stories, nextId>>

CreateForm(t) ==
    /\ At(t, "new")
    /\ Render(t, NoId)
    /\ UNCHANGED <<stories, nextId>>

\* The id comes from the sequence.  (A mutation: it is not taken from it.)
Drawn_Left == nextId
Drawn == nextId + 1
Create(t) ==
    /\ At(t, "create") /\ nextId \in StoryId
    /\ stories' = stories \cup {nextId}
    /\ nextId' = Drawn
    /\ Redirect(t, "list", {})

\* An exception: the form is shown again.  The sequence is not rolled back, and a
\* commit whose answer was lost has happened.
CreateFails(t) ==
    /\ At(t, "create")
    /\ \/ UNCHANGED <<stories, nextId>>
       \/ /\ nextId \in StoryId /\ nextId' = Drawn
          /\ stories' \in {stories, stories \cup {nextId}}
    /\ Render(t, NoId)

\* The edit form of a story, which may be gone.
ShowStory(t, i) ==
    \/ i \in stories /\ Render(t, i)
    \/ i \notin stories /\ Redirect(t, "list", {})
    \/ Redirect(t, "list", {}) \* an exception
EditForm(t) ==
    /\ At(t, "form")
    /\ ShowStory(t, req[t].id)
    /\ UNCHANGED <<stories, nextId>>

\* UPDATE ... WHERE id = i changes the story if there is one.
\* (A mutation: it stores the story in any case.)
Updated_Inserts(i) == stories \cup {i}
Updated(i) == stories
\* Success is told without a look at the number of rows.
Edit(t) ==
    /\ At(t, "edit")
    /\ stories' = Updated(req[t].id)
    /\ Redirect(t, "list", Flash("updated", req[t].id))
    /\ UNCHANGED nextId

\* An exception: the handler goes on to the form, which it reads again.
EditFails(t) ==
    /\ At(t, "edit")
    /\ ShowStory(t, req[t].id)
    /\ UNCHANGED <<stories, nextId>>

\* (A mutation: the number of rows is not looked at.)
RowFound_Always(i) == TRUE
RowFound(i) == i \in stories
Deleted(i) == stories \ {i}
Success(i) == IF RowFound(i) THEN Flash("deleted", i) ELSE {}
Delete(t) ==
    /\ At(t, "delete")
    /\ stories' = Deleted(req[t].id)
    /\ Redirect(t, "list", Success(req[t].id))
    /\ UNCHANGED nextId

\* An exception.  The commit may have happened, and if it was the connection that
\* could not be closed, success was flashed before the error.
DeleteFails(t) ==
    /\ At(t, "delete")
    /\ \/ /\ stories' \in {stories, Deleted(req[t].id)}
          /\ Redirect(t, "list", {})
       \/ /\ stories' = Deleted(req[t].id)
          /\ Redirect(t, "list", Success(req[t].id))
    /\ UNCHANGED nextId

\* The pages of accounts show the messages too; logging out empties the session; other
\* responses carry the session on, or none (Lose).
Elsewhere(t) ==
    /\ At(t, "elsewhere")
    /\ \/ Render(t, NoId)
       \/ Redirect(t, "elsewhere", {})
       \/ Answer(t, "redirect", "elsewhere", NoId, {})
    /\ UNCHANGED <<stories, nextId>>

Next == \E t \in Tab :
    \/ Ask(t) \/ Follow(t) \/ ShowPage(t) \/ Lose(t)
    \/ LoginRequired(t) \/ List(t) \/ CreateForm(t) \/ Create(t) \/ CreateFails(t)
    \/ EditForm(t) \/ Edit(t) \/ EditFails(t) \/ Delete(t) \/ DeleteFails(t)
    \/ Elsewhere(t)

Spec == Init /\ [][Next]_vars

-----------------------------------------------------------------------------
(* Properties.                                                             *)

TypeOK ==
    /\ stories \subseteq Known /\ Known \subseteq StoryId
    /\ nextId \in Nat
    /\ cookie \in [Browser -> SUBSET Message]
    /\ form \in [Tab -> {NoId} \cup StoryId]
    /\ req \in [Tab -> Request]
    /\ told \in [Browser -> SUBSET StoryId]

\* "This action cannot be undone" (admin_stories.html:307): a deleted story does not
\* come back, although its form may be open in a tab and be saved, or a request
\* be repeated.
DeletedStaysDeleted == [][\A i \in Known : i \notin stories => i \notin stories']_vars

\* Where a page tells that a story was deleted, the story is gone; and however many
\* administrators send the delete, the pages of only one browser ever tell so.  (Which
\* of that browser's tabs do, and how many, is not settled: they share the session.)
DeletedByOne ==
    \A b \in Browser : \A i \in told[b] :
        i \notin stories /\ \A c \in Browser \ {b} : i \notin told[c]

\* "Story updated successfully!" is flashed only of a story that is there (main.py:816).
Flashed(t) == IF req'[t].stage = "redirect" THEN req'[t].mail \ req[t].mail ELSE {}
UpdatedIsStored ==
    [][\A t \in Tab : \A m \in Flashed(t) : m.what = "updated" => m.id \in stories']_vars

=============================================================================
