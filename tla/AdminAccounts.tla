--------------------------- MODULE AdminAccounts ---------------------------
(***************************************************************************)
(* The administrator accounts of main.py: the table `admins`, the signed   *)
(* session cookie each browser holds, and the request handlers that read   *)
(* and write both.  Handlers run in threads of one server, so requests     *)
(* interleave at their SQL statements.  A handler works on the session it  *)
(* decoded when its request arrived; Flask sends the whole session back    *)
(* with the response when the handler modified it, and the browser keeps   *)
(* the last one it received.                                               *)
(***************************************************************************)
EXTENDS Naturals

CONSTANTS
    Browser,      \* cookie jars
    Slot,         \* requests the server can be handling at once
    Email,        \* e-mail addresses, already stripped and lower-cased
    Password,     \* non-blank passwords
    Blank,        \* the empty password field of the edit form
    NoEmail,      \* no value
    Language,     \* LANGUAGES
    Default,      \* DEFAULT_LANGUAGE
    Mode,         \* the ways of display that are asked for: "touch", "desktop"
    MaxId,        \* the last value of the sequence behind id_admin
    UniqueEmail,  \* does the table carry UNIQUE (email)?
    OneTab        \* does a browser wait for a response before its next request?

ASSUME ConstantsAssumption ==
    /\ MaxId \in Nat \ {0}
    /\ Blank \notin Password
    /\ NoEmail \notin Email
    /\ Default \in Language /\ "other" \notin Language
    /\ Mode \subseteq {"touch", "desktop"}
    /\ UniqueEmail \in BOOLEAN
    /\ OneTab \in BOOLEAN

VARIABLES
    admins,  \* the table: a row or NoRow for every id
    nextId,  \* the next value of the sequence
    cookie,  \* the session each browser holds
    req      \* what each request slot is doing

vars == <<admins, nextId, cookie, req>>

AdminId == 1..MaxId
NoAdmin == 0
NoRow == [email |-> NoEmail, password |-> Blank]
Row == [email : Email, password : Password \cup {Blank}]

\* A session: "admin_id" and "admin_email", both or neither, whether flashed
\* messages wait, "language" (absent, it is the default) and whether "force_touch"
\* is there.
Session == [admin : AdminId, email : Email, flash : BOOLEAN,
            language : Language, touch : BOOLEAN]
           \cup [admin : {NoAdmin}, email : {NoEmail}, flash : BOOLEAN,
                 language : Language, touch : BOOLEAN]
Anonymous == [admin |-> NoAdmin, email |-> NoEmail, flash |-> FALSE,
              language |-> Default, touch |-> FALSE]

\* What a browser can ask for, with the fields of its form.
Input(op, ids, emails, passwords) ==
    [op : {op}, target : ids, email : emails, password : passwords]
Page == {"logout", "list", "new"} \cup Mode
Inputs ==
    Input("login", {NoAdmin}, Email, Password)
    \cup Input("create", {NoAdmin}, Email, Password)
    \cup Input("edit", AdminId, Email, Password \cup {Blank})
    \cup Input("form", AdminId, {NoEmail}, {Blank})
    \cup Input("delete", AdminId, {NoEmail}, {Blank})
    \cup (UNION {Input(op, {NoAdmin}, {NoEmail}, {Blank}) : op \in Page})
    \cup [op : {"language"}, language : Language \cup {"other"}]

Protected == {"list", "new", "create", "edit", "form", "delete"}
Plain(op) == [op |-> op, target |-> NoAdmin, email |-> NoEmail, password |-> Blank]
Idle == [pc |-> "idle"]
Request == [pc : {"start", "insert", "update", "reply"}, browser : Browser,
            in : Inputs \cup {Plain(op) : op \in {"login", "logout", "touch", "list"}},
            sess : Session, dirty : BOOLEAN]

Exists(i) == admins[i] # NoRow
Busy(r) == req[r].pc # "idle"
LoggedIn(r) == req[r].sess.admin # NoAdmin

\* The first administrator was inserted by hand: no code creates it.
Init ==
    /\ \E row \in [email : Email, password : Password] :
        admins = [i \in AdminId |-> IF i = 1 THEN row ELSE NoRow]
    /\ nextId = 2
    /\ cookie = [b \in Browser |-> Anonymous]
    /\ req = [r \in Slot |-> Idle]

-----------------------------------------------------------------------------
(* Steps every handler takes.                                              *)

\* A request arrives with its browser's cookie.
Send(r, b, in) ==
    /\ ~Busy(r)
    /\ OneTab => \A q \in Slot : Busy(q) => req[q].browser # b
    /\ req' = [req EXCEPT ![r] = [pc |-> "start", browser |-> b, in |-> in,
                                  sess |-> cookie[b], dirty |-> FALSE]]
    /\ UNCHANGED <<admins, nextId, cookie>>

\* The handler is done; the response carries session s if it was modified.
\* Of the input, only whether it was a login, a logout or a preference is
\* remembered, and of a session that is not sent nothing.
Kind(op) == CASE op \in {"login", "logout"} -> op
              [] op \in {"language", "touch", "desktop"} -> "touch"
              [] OTHER -> "list"
Reply(r, s, modified) ==
    req' = [req EXCEPT ![r] = [pc |-> "reply", browser |-> @.browser,
                               in |-> Plain(Kind(@.in.op)),
                               sess |-> IF modified THEN s ELSE Anonymous,
                               dirty |-> modified]]

\* A mutation: the handler makes the edited account the session's own.
FlashAndRedirect_Adopts(r) ==
    Reply(r, [req[r].sess EXCEPT !.flash = TRUE,
              !.admin = IF req[r].in.op = "edit" THEN req[r].in.target ELSE @], TRUE)

\* flash(...) and redirect: the message waits in the session.
FlashAndRedirect(r) == Reply(r, [req[r].sess EXCEPT !.flash = TRUE], TRUE)
\* flash(...) and render an admin page, which shows and clears the messages.
FlashAndRender(r) == Reply(r, [req[r].sess EXCEPT !.flash = FALSE], TRUE)
\* Render an admin page: waiting messages are shown and cleared.
RenderAdminPage(r) ==
    Reply(r, [req[r].sess EXCEPT !.flash = FALSE], req[r].sess.flash)

At(r, op) == req[r].pc = "start" /\ req[r].in.op = op
Allowed(r, op) == At(r, op) /\ LoggedIn(r)
GoTo(r, label) == req' = [req EXCEPT ![r].pc = label]

\* if "admin_id" not in session: ... return redirect(url_for("login"))
LoginRequired(r) ==
    /\ \E op \in Protected : At(r, op)
    /\ ~LoggedIn(r)
    /\ FlashAndRedirect(r)
    /\ UNCHANGED <<admins, nextId, cookie>>

\* The browser receives the response.
Deliver(r) ==
    /\ req[r].pc = "reply"
    /\ cookie' = IF req[r].dirty
                 THEN [cookie EXCEPT ![req[r].browser] = req[r].sess]
                 ELSE cookie
    /\ req' = [req EXCEPT ![r] = Idle]
    /\ UNCHANGED <<admins, nextId>>

\* The response is lost; what the handler committed stays.
LoseResponse(r) ==
    /\ req[r].pc = "reply"
    /\ req' = [req EXCEPT ![r] = Idle]
    /\ UNCHANGED <<admins, nextId, cookie>>

-----------------------------------------------------------------------------
(* The handlers, one action per database round trip.                       *)

\* SELECT id_admin, email, password ...; fetchone() takes any matching row.
Credentials(i, in) == admins[i].email = in.email /\ admins[i].password = in.password
\* (A mutation: the session is made anew.)
SignedIn_Anew(r, i) ==
    [Anonymous EXCEPT !.admin = i, !.email = admins[i].email, !.flash = TRUE]
SignedIn(r, i) ==
    [req[r].sess EXCEPT !.admin = i, !.email = admins[i].email, !.flash = TRUE]
LoginAccepted(r) ==
    /\ At(r, "login")
    /\ \E i \in AdminId : Credentials(i, req[r].in) /\ Reply(r, SignedIn(r, i), TRUE)
    /\ UNCHANGED <<admins, nextId, cookie>>

LoginRejected(r) ==
    /\ At(r, "login")
    /\ \/ \A i \in AdminId : admins[i].email # req[r].in.email
       \/ \E i \in AdminId : /\ admins[i].email = req[r].in.email
                             /\ admins[i].password # req[r].in.password
    /\ FlashAndRedirect(r)
    /\ UNCHANGED <<admins, nextId, cookie>>

\* A mutation: logout removes "admin_id" only.
LoggedOut_Pops(r) == [req[r].sess EXCEPT !.admin = NoAdmin, !.flash = TRUE]
LoggedOut(r) == [Anonymous EXCEPT !.flash = TRUE]
Logout(r) ==
    /\ At(r, "logout")
    /\ Reply(r, LoggedOut(r), TRUE)
    /\ UNCHANGED <<admins, nextId, cookie>>

\* switch_language, touch_mode and desktop_mode.
Prefer(r) ==
    /\ LET s == req[r].sess IN
       \/ /\ At(r, "language")
          /\ LET l == req[r].in.language IN
             IF l \in Language THEN Reply(r, [s EXCEPT !.language = l], TRUE)
             ELSE Reply(r, s, FALSE)
       \/ At(r, "touch") /\ Reply(r, [s EXCEPT !.touch = TRUE], TRUE)
       \/ At(r, "desktop") /\ Reply(r, [s EXCEPT !.touch = FALSE], s.touch)
    /\ UNCHANGED <<admins, nextId, cookie>>

\* The list of administrators, the empty form, and the edit form of one.
ListAdmins(r) ==
    /\ Allowed(r, "list") \/ Allowed(r, "new")
    /\ RenderAdminPage(r)
    /\ UNCHANGED <<admins, nextId, cookie>>

EditForm(r) ==
    /\ Allowed(r, "form")
    /\ IF Exists(req[r].in.target) THEN RenderAdminPage(r) ELSE FlashAndRedirect(r)
    /\ UNCHANGED <<admins, nextId, cookie>>

\* A mutation: the edit looks at later rows only.
Taken_Later(e, self) == \E i \in AdminId : i > self /\ admins[i].email = e

\* Does a row other than `self` use the address?
Taken(e, self) == \E i \in AdminId \ {self} : admins[i].email = e

\* Create: look the address up, then insert and commit.
CreateCheck(r) ==
    /\ Allowed(r, "create")
    /\ IF Taken(req[r].in.email, NoAdmin) THEN FlashAndRender(r) ELSE GoTo(r, "insert")
    /\ UNCHANGED <<admins, nextId, cookie>>

\* Does the database refuse to give row `self` the address?
Violates(e, self) == UniqueEmail /\ Taken(e, self)

SequenceLeft == nextId \in AdminId
CreateInsert(r) ==
    /\ req[r].pc = "insert"
    /\ SequenceLeft
    /\ nextId' = nextId + 1
    /\ LET in == req[r].in IN
       IF Violates(in.email, NoAdmin)
       THEN FlashAndRender(r) /\ UNCHANGED admins
       ELSE /\ admins' = [admins EXCEPT ![nextId] =
                            [email |-> in.email, password |-> in.password]]
            /\ FlashAndRedirect(r)
    /\ UNCHANGED cookie

\* Edit: look the address up in the other rows, then update and commit.
EditCheck(r) ==
    /\ Allowed(r, "edit")
    /\ IF Taken(req[r].in.email, req[r].in.target)
       THEN FlashAndRedirect(r) ELSE GoTo(r, "update")
    /\ UNCHANGED <<admins, nextId, cookie>>

\* A mutation: the edit always stores the password field.
NewPassword_Always(i, p) == p
NewPassword(i, p) == IF p = Blank THEN admins[i].password ELSE p
\* UPDATE ... WHERE id_admin = i changes no row.  A mutation: the row is inserted.
Missed_Never(i) == FALSE
Missed(i) == ~Exists(i)
EditUpdate(r) ==
    /\ req[r].pc = "update"
    /\ LET in == req[r].in IN
       CASE Missed(in.target) ->
              FlashAndRedirect(r) /\ UNCHANGED admins
         [] ~Missed(in.target) /\ Violates(in.email, in.target) ->
              (FlashAndRender(r) \/ FlashAndRedirect(r)) /\ UNCHANGED admins
         [] OTHER ->
              /\ admins' = [admins EXCEPT ![in.target] =
                    [email |-> in.email, password |-> NewPassword(in.target, in.password)]]
              /\ FlashAndRedirect(r)
    /\ UNCHANGED <<nextId, cookie>>

\* Delete: refuse one's own account, else delete and commit.
\* A mutation: the guard is missing.
OwnAccount_Unguarded(r, i) == FALSE
OwnAccount(r, i) == i = req[r].sess.admin
Delete(r) ==
    /\ Allowed(r, "delete")
    /\ LET i == req[r].in.target IN
       admins' = IF OwnAccount(r, i) THEN admins ELSE [admins EXCEPT ![i] = NoRow]
    /\ FlashAndRedirect(r)
    /\ UNCHANGED <<nextId, cookie>>

\* The connection, a statement or the commit raises: the transaction is lost.
\* Login lets the exception through; the other handlers report it and
\* redirect or render, according to the handler.
DatabaseError(r) ==
    /\ \/ At(r, "login")
       \/ \E op \in Protected \ {"new"} : Allowed(r, op)
       \/ req[r].pc \in {"insert", "update"}
    /\ CASE req[r].in.op = "login" -> Reply(r, req[r].sess, FALSE)
         [] req[r].in.op \in {"list", "create"} -> FlashAndRender(r)
         [] req[r].in.op = "edit" -> FlashAndRender(r) \/ FlashAndRedirect(r)
         [] OTHER -> FlashAndRedirect(r)
    /\ UNCHANGED <<admins, nextId, cookie>>

Step(r) ==
    \/ LoginRequired(r) \/ LoginAccepted(r) \/ LoginRejected(r) \/ Logout(r) \/ Prefer(r)
    \/ ListAdmins(r) \/ EditForm(r)
    \/ CreateCheck(r) \/ CreateInsert(r) \/ EditCheck(r) \/ EditUpdate(r)
    \/ Delete(r) \/ DatabaseError(r)

Next ==
    \E r \in Slot :
        \/ \E b \in Browser, in \in Inputs : Send(r, b, in)
        \/ Step(r) \/ Deliver(r) \/ LoseResponse(r)

Spec == Init /\ [][Next]_vars
-----------------------------------------------------------------------------
(* Properties.                                                             *)

TypeOK ==
    /\ admins \in [AdminId -> Row \cup {NoRow}]
    /\ nextId \in 1..(MaxId + 1)
    /\ cookie \in [Browser -> Session]
    /\ req \in [Slot -> {Idle} \cup Request]

\* Every session in use, in a cookie or in a handler.
Sessions == {cookie[b] : b \in Browser} \cup {req[r].sess : r \in {q \in Slot : Busy(q)}}

\* A session that outlived its account never comes to stand for another one:
\* once the row is gone it stays gone, so the stale session check of every
\* handler ("admin_id" in session) cannot act for an administrator created
\* later.
RevokedStaysRevoked ==
    [][\A s \in Sessions :
        s.admin # NoAdmin /\ ~Exists(s.admin) => ~Exists(s.admin)']_vars

\* Refusing to delete one's own account (main.py:1060-1063) keeps the last
\* administrator from locking everyone out: the step that empties the table is
\* a delete by a session whose own account is already gone.
EmptiedOnlyByRevoked ==
    [][(\E i \in AdminId : Exists(i)) /\ (\A i \in AdminId : ~Exists(i)') =>
        \E r \in Slot : /\ Busy(r) /\ req[r].in.op = "delete"
                        /\ LoggedIn(r) /\ ~Exists(req[r].sess.admin)]_vars

\* The edit form's "leave blank to keep current password": no row ever ends up
\* with the empty password, although the edit handler accepts one.
NoBlankPassword == \A i \in AdminId : Exists(i) => admins[i].password # Blank

\* No two administrators share an address (main.py:944-946, 995-1000: the
\* handlers look the address up before they write).  It takes either the constraint in the
\* table or requests that never overlap.
EmailsUnique ==
    \A i, j \in AdminId :
        i # j /\ Exists(i) /\ Exists(j) => admins[i].email # admins[j].email

\* A browser gains or changes identity only by the response to a login.
IdentityOnlyByLogin ==
    [][\A b \in Browser : cookie'[b].admin \notin {NoAdmin, cookie[b].admin} =>
        \E r \in Slot : /\ Busy(r) /\ req'[r] = Idle
                        /\ req[r].browser = b /\ req[r].in.op = "login"]_vars

\* The preferences share the cookie with the account, and every response that
\* modified the session carries all of it: a browser that waits for its responses
\* keeps its language and way of display until it asks for others, or logs out,
\* which clears them (main.py:69-74, 250-263, 1087-1097).
Prefs(s) == <<s.language, s.touch>>
Preferring(r) == req[r].in.op \in {"logout", "language", "touch", "desktop"}
PreferencesKept ==
    [][\A b \in Browser : Prefs(cookie'[b]) # Prefs(cookie[b]) =>
        \E r \in Slot : /\ Busy(r) /\ req'[r] = Idle /\ req[r].browser = b
                        /\ Preferring(r)]_vars

\* A browser that logged out stays out until it logs in (main.py:264 "You have
\* been logged out.").
StaysLoggedOut ==
    [][\A b \in Browser : cookie[b].admin = NoAdmin /\ cookie'[b].admin # NoAdmin =>
        \E r \in Slot : /\ Busy(r) /\ req'[r] = Idle
                        /\ req[r].browser = b /\ req[r].in.op = "login"]_vars

\* An account that was deleted has lost access: nobody changes the table for it
\* (admin_admins.html:349-350 "The administrator will lose access to the system
\* immediately").
DeletedLosesAccess ==
    [][admins' # admins =>
        \E r \in Slot : Busy(r) /\ req'[r] # req[r] /\ Exists(req[r].sess.admin)]_vars

\* The accounts there are, and the numbers that were given out.
Accounts == [i \in {j \in AdminId : Exists(j)} |-> admins[i]]
Issued == 1..(nextId - 1)
Book == INSTANCE AccountBook WITH Id <- AdminId, book <- Accounts, used <- Issued

\* Every handler has its effect on the table at one instant, as if no other request
\* were handled (main.py:926-1084), if the table has the constraint or requests do
\* not overlap.
AsIfAlone == Book!Spec

=============================================================================
