------------------------ MODULE AdminAccountsProofs ------------------------
(* What AdminAccounts guarantees for any number of browsers, requests,      *)
(* addresses and passwords.                                                 *)
EXTENDS AdminAccounts, TLAPS

USE DEF NoAdmin, AdminId

\* An input has the fields of its form; a created account has a password.
LEMMA InputFields ==
    ASSUME NEW in \in Inputs, in.op # "language"
    PROVE  /\ in \in [op : Protected \cup {"login", "logout", "touch", "desktop"},
                      target : AdminId \cup {NoAdmin},
                      email : Email \cup {NoEmail},
                      password : Password \cup {Blank}]
           /\ in.op \in {"create", "edit", "login"} => in.email \in Email
           /\ in.op = "create" => in.password \in Password
           /\ in.op \in {"edit", "delete", "form"} => in.target \in AdminId
  <1>1. in \notin [op : {"language"}, language : Language \cup {"other"}]
    OBVIOUS
  <1> DEFINE Form == Input("login", {NoAdmin}, Email, Password)
                     \cup Input("create", {NoAdmin}, Email, Password)
                     \cup Input("edit", AdminId, Email, Password \cup {Blank})
                     \cup Input("form", AdminId, {NoEmail}, {Blank})
                     \cup Input("delete", AdminId, {NoEmail}, {Blank})
  <1>2. in \in Form \/ \E op \in Page : in \in Input(op, {NoAdmin}, {NoEmail}, {Blank})
    BY <1>1 DEF Inputs
  <1>3. CASE in \in Form
    <2>1. CASE in \in Input("login", {NoAdmin}, Email, Password)
      BY <2>1 DEF Input
    <2>2. CASE in \in Input("create", {NoAdmin}, Email, Password)
      BY <2>2 DEF Input, Protected
    <2>3. CASE in \in Input("edit", AdminId, Email, Password \cup {Blank})
      BY <2>3 DEF Input, Protected
    <2>4. CASE in \in Input("form", AdminId, {NoEmail}, {Blank})
      BY <2>4 DEF Input, Protected
    <2>5. CASE in \in Input("delete", AdminId, {NoEmail}, {Blank})
      BY <2>5 DEF Input, Protected
    <2> QED
      BY <1>3, <2>1, <2>2, <2>3, <2>4, <2>5
  <1>4. ASSUME NEW op \in Page, in \in Input(op, {NoAdmin}, {NoEmail}, {Blank})
        PROVE  /\ in \in [op : {op}, target : {NoAdmin}, email : {NoEmail}, password : {Blank}]
               /\ op \in {"logout", "list", "new", "touch", "desktop"}
    BY <1>4, ConstantsAssumption DEF Input, Page
  <1> QED
    BY <1>2, <1>3, <1>4 DEF Protected

\* A busy request is a record of the request type.
LEMMA BusyRequest ==
    ASSUME TypeOK, NEW r \in Slot, Busy(r)
    PROVE  req[r] \in Request
  BY DEF TypeOK, Busy, Idle

\* Replying keeps the type of the requests.
LEMMA ReplyTypes ==
    ASSUME TypeOK, NEW r \in Slot, Busy(r),
           NEW s \in Session, NEW m \in BOOLEAN, Reply(r, s, m)
    PROVE  req' \in [Slot -> {Idle} \cup Request]
  <1>1. req[r].browser \in Browser
    BY BusyRequest DEF Request
  <1>2. Anonymous \in Session
    BY ConstantsAssumption DEF Anonymous, Session
  <1>3. [pc |-> "reply", browser |-> req[r].browser,
         in |-> Plain(Kind(req[r].in.op)),
         sess |-> IF m THEN s ELSE Anonymous, dirty |-> m] \in Request
    BY <1>1, <1>2 DEF Request, Kind
  <1> QED
    BY <1>3 DEF Reply, TypeOK

\* The three ways a handler ends with the session it was given.
LEMMA FlashTypes ==
    ASSUME TypeOK, NEW r \in Slot, Busy(r),
           FlashAndRedirect(r) \/ FlashAndRender(r) \/ RenderAdminPage(r)
    PROVE  req' \in [Slot -> {Idle} \cup Request]
  <1>1. req[r].sess \in Session
    BY BusyRequest DEF Request
  <1>2. /\ [req[r].sess EXCEPT !.flash = TRUE] \in Session
        /\ [req[r].sess EXCEPT !.flash = FALSE] \in Session
        /\ req[r].sess.flash \in BOOLEAN
    BY <1>1 DEF Session
  <1> QED
    BY <1>2, ReplyTypes DEF FlashAndRedirect, FlashAndRender, RenderAdminPage

\* A preference is answered with a session of the same administrator.
LEMMA PreferReplies ==
    ASSUME TypeOK, NEW r \in Slot, Prefer(r)
    PROVE  /\ Busy(r) /\ req[r].in.op \in {"language", "touch", "desktop"}
           /\ \E s \in Session, m \in BOOLEAN :
                Reply(r, s, m) /\ s.admin = req[r].sess.admin
  <1>1. Busy(r) /\ req[r].in.op \in {"language", "touch", "desktop"}
    BY DEF Prefer, At, Busy
  <1>2. req[r].sess \in Session
    BY <1>1, BusyRequest DEF Request
  <1> DEFINE s == req[r].sess
  <1>3. CASE At(r, "language")
    <2> DEFINE l == req[r].in.language
    <2>1. IF l \in Language THEN Reply(r, [s EXCEPT !.language = l], TRUE)
          ELSE Reply(r, s, FALSE)
      BY <1>3 DEF Prefer, At
    <2>2. l \in Language => [s EXCEPT !.language = l] \in Session
                             /\ [s EXCEPT !.language = l].admin = s.admin
      BY <1>2 DEF Session
    <2> QED
      BY <1>1, <1>2, <2>1, <2>2
  <1>4. CASE At(r, "touch")
    <2>1. [s EXCEPT !.touch = TRUE] \in Session /\ [s EXCEPT !.touch = TRUE].admin = s.admin
      BY <1>2 DEF Session
    <2>2. Reply(r, [s EXCEPT !.touch = TRUE], TRUE)
      BY <1>4 DEF Prefer, At
    <2> QED
      BY <1>1, <2>1, <2>2
  <1>5. CASE At(r, "desktop")
    <2>1. /\ [s EXCEPT !.touch = FALSE] \in Session /\ s.touch \in BOOLEAN
          /\ [s EXCEPT !.touch = FALSE].admin = s.admin
      BY <1>2 DEF Session
    <2>2. Reply(r, [s EXCEPT !.touch = FALSE], s.touch)
      BY <1>5 DEF Prefer, At
    <2> QED
      BY <1>1, <2>1, <2>2
  <1> QED
    BY <1>3, <1>4, <1>5 DEF Prefer

-----------------------------------------------------------------------------
(* Types.  A request whose handler is under way still has the input it was  *)
(* sent with, and waits to insert or update only for a create or an edit.   *)

Staged ==
    \A r \in Slot : Busy(r) =>
        /\ req[r].pc # "reply" => req[r].in \in Inputs
        /\ req[r].pc = "insert" => req[r].in.op = "create"
        /\ req[r].pc = "update" => req[r].in.op = "edit"

TypeInv == TypeOK /\ Staged

LEMMA TypeInit == Init => TypeInv
  <1> SUFFICES ASSUME Init PROVE TypeInv
    OBVIOUS
  <1>1. admins \in [AdminId -> Row \cup {NoRow}]
    BY DEF Init, Row
  <1>2. nextId \in 1..(MaxId + 1)
    BY ConstantsAssumption DEF Init
  <1>3. cookie \in [Browser -> Session]
    BY ConstantsAssumption DEF Init, Anonymous, Session
  <1>4. req \in [Slot -> {Idle} \cup Request]
    BY DEF Init
  <1>5. Staged
    BY DEF Init, Staged, Busy, Idle
  <1> QED
    BY <1>1, <1>2, <1>3, <1>4, <1>5 DEF TypeInv, TypeOK

\* The requests keep their type and their stage in every step of Next.
LEMMA RequestsTyped ==
    ASSUME TypeInv, [Next]_vars
    PROVE  req' \in [Slot -> {Idle} \cup Request] /\ Staged'
  <1> DEFINE ReqOK == req' \in [Slot -> {Idle} \cup Request] /\ Staged'
  <1>0. ASSUME NEW r \in Slot, Busy(r),
               NEW s, NEW m, Reply(r, s, m)
        PROVE  Staged'
    <2>1. req'[r].pc = "reply" /\ \A q \in Slot \ {r} : req'[q] = req[q]
      BY <1>0 DEF Reply, TypeInv, TypeOK
    <2> QED
      BY <2>1 DEF Staged, TypeInv, Busy
  <1>1. ASSUME NEW r \in Slot, Busy(r),
               FlashAndRedirect(r) \/ FlashAndRender(r) \/ RenderAdminPage(r)
        PROVE  ReqOK
    <2>1. req' \in [Slot -> {Idle} \cup Request]
      BY <1>1, FlashTypes DEF TypeInv
    <2>2. Staged'
      BY <1>1, <1>0 DEF FlashAndRedirect, FlashAndRender, RenderAdminPage
    <2> QED
      BY <2>1, <2>2
  <1>2. ASSUME NEW r \in Slot, At(r, "create") \/ At(r, "edit"),
               NEW label \in {"insert", "update"}, GoTo(r, label),
               label = "insert" => At(r, "create"),
               label = "update" => At(r, "edit")
        PROVE  ReqOK
    <2>1. Busy(r) /\ req[r] \in Request
      BY <1>2, BusyRequest DEF At, Busy, TypeInv
    <2>2. [req[r] EXCEPT !.pc = label] \in Request
      BY <2>1, <1>2 DEF Request
    <2>3. req' \in [Slot -> {Idle} \cup Request]
      BY <2>2, <1>2 DEF GoTo, TypeInv, TypeOK
    <2>4. /\ req'[r] = [req[r] EXCEPT !.pc = label]
          /\ \A q \in Slot \ {r} : req'[q] = req[q]
      BY <1>2 DEF GoTo, TypeInv, TypeOK
    <2>5. req'[r].in = req[r].in /\ req'[r].pc = label
      BY <2>4, <2>1 DEF Request
    <2>6. Staged'
      <3>1. req[r].in \in Inputs /\ req[r].in.op \in {"create", "edit"}
            /\ (label = "insert" => req[r].in.op = "create")
            /\ (label = "update" => req[r].in.op = "edit")
        BY <2>1, <1>2 DEF Staged, TypeInv, At
      <3>2. \A q \in Slot \ {r} : Busy(q)' = Busy(q) /\ req'[q] = req[q]
        BY <2>4 DEF Busy
      <3> QED
        BY <2>5, <3>1, <3>2 DEF Staged, TypeInv
    <2> QED
      BY <2>3, <2>6
  <1>3. CASE UNCHANGED vars
    BY <1>3 DEF vars, TypeInv, TypeOK, Staged, Busy
  <1>4. ASSUME NEW r \in Slot, NEW b \in Browser, NEW in \in Inputs, Send(r, b, in)
        PROVE  ReqOK
    <2>1. [pc |-> "start", browser |-> b, in |-> in, sess |-> cookie[b],
           dirty |-> FALSE] \in Request
      BY DEF Request, TypeInv, TypeOK
    <2> QED
      BY <1>4, <2>1 DEF Send, TypeInv, TypeOK, Staged, Busy
  <1>5. ASSUME NEW r \in Slot, Deliver(r) \/ LoseResponse(r)
        PROVE  ReqOK
    BY <1>5 DEF Deliver, LoseResponse, TypeInv, TypeOK, Staged, Busy, Idle
  <1>6. ASSUME NEW r \in Slot, Step(r)
        PROVE  ReqOK
    <2>0. Busy(r) /\ req[r] \in Request
      <3>1. Busy(r)
        BY <1>6 DEF Step, LoginRequired, LoginAccepted, LoginRejected, Logout, Prefer,
           ListAdmins, EditForm, CreateCheck, CreateInsert, EditCheck, EditUpdate,
           Delete, DatabaseError, Allowed, At, Busy
      <3> QED
        BY <3>1, BusyRequest DEF TypeInv
    <2>1. CASE LoginAccepted(r)
      <3>1. PICK i \in AdminId :
              /\ Credentials(i, req[r].in)
              /\ Reply(r, SignedIn(r, i), TRUE)
        BY <2>1 DEF LoginAccepted
      <3>2. req[r].in \in Inputs /\ req[r].in.op = "login"
        BY <2>1, <2>0 DEF LoginAccepted, At, TypeInv, Staged
      <3>3. admins[i].email \in Email
        BY <3>1, <3>2, InputFields DEF Credentials
      <3>4. SignedIn(r, i) \in Session
        BY <3>3, <2>0 DEF Session, SignedIn, Request
      <3> QED
        BY <3>1, <3>4, <2>0, <1>0, ReplyTypes DEF TypeInv
    <2>2. CASE Logout(r)
      <3>1. LoggedOut(r) \in Session
        BY ConstantsAssumption DEF LoggedOut, Anonymous, Session
      <3> QED
        BY <3>1, <2>0, <2>2, <1>0, ReplyTypes DEF Logout, TypeInv
    <2>3. CASE CreateCheck(r)
      BY <2>3, <2>0, <1>1, <1>2 DEF CreateCheck, Allowed
    <2>4. CASE EditCheck(r)
      BY <2>4, <2>0, <1>1, <1>2 DEF EditCheck, Allowed
    <2>5. CASE CreateInsert(r)
      BY <2>5, <2>0, <1>1 DEF CreateInsert
    <2>6. CASE EditUpdate(r)
      <3>1. FlashAndRedirect(r) \/ FlashAndRender(r)
        BY <2>6 DEF EditUpdate, Missed
      <3> QED
        BY <3>1, <2>0, <1>1
    <2>7. CASE DatabaseError(r)
      <3>1. \/ Reply(r, req[r].sess, FALSE)
            \/ FlashAndRedirect(r) \/ FlashAndRender(r)
        BY <2>7 DEF DatabaseError
      <3>2. req[r].sess \in Session
        BY <2>0 DEF Request
      <3>3. CASE Reply(r, req[r].sess, FALSE)
        BY <3>3, <3>2, <2>0, <1>0, ReplyTypes DEF TypeInv
      <3> QED
        BY <3>1, <3>3, <2>0, <1>1
    <2>8. CASE LoginRequired(r) \/ LoginRejected(r) \/ ListAdmins(r) \/ EditForm(r) \/ Delete(r)
      <3>1. FlashAndRedirect(r) \/ RenderAdminPage(r)
        BY <2>8 DEF LoginRequired, LoginRejected, ListAdmins, EditForm, Delete
      <3> QED
        BY <3>1, <2>0, <1>1
    <2>9. CASE Prefer(r)
      <3>1. PICK s \in Session, m \in BOOLEAN : Reply(r, s, m)
        BY <2>9, PreferReplies DEF TypeInv
      <3> QED
        BY <3>1, <2>0, <1>0, ReplyTypes DEF TypeInv
    <2> QED
      BY <1>6, <2>1, <2>2, <2>3, <2>4, <2>5, <2>6, <2>7, <2>8, <2>9 DEF Step
  <1> QED
    BY <1>3, <1>4, <1>5, <1>6 DEF Next

\* The row a create or an edit writes is a row of the table's type.
LEMMA TableTyped ==
    ASSUME TypeInv, [Next]_vars
    PROVE  admins' \in [AdminId -> Row \cup {NoRow}] /\ nextId' \in 1..(MaxId + 1)
  <1> DEFINE TableOK == admins' \in [AdminId -> Row \cup {NoRow}] /\ nextId' \in 1..(MaxId + 1)
  <1>0. admins \in [AdminId -> Row \cup {NoRow}] /\ nextId \in 1..(MaxId + 1) /\ MaxId \in Nat
    BY ConstantsAssumption DEF TypeInv, TypeOK
  <1>1. CASE UNCHANGED <<admins, nextId>>
    BY <1>0, <1>1
  <1>2. ASSUME NEW r \in Slot, CreateInsert(r)
        PROVE  TableOK
    <2>1. req[r].in \in Inputs /\ req[r].in.op = "create"
      BY <1>2 DEF CreateInsert, TypeInv, Staged, Busy
    <2>2. [email |-> req[r].in.email, password |-> req[r].in.password] \in Row
      BY <2>1, InputFields DEF Row
    <2>3. nextId \in AdminId /\ nextId' = nextId + 1
      BY <1>2 DEF CreateInsert, SequenceLeft
    <2>4. admins' \in [AdminId -> Row \cup {NoRow}]
      BY <1>2, <1>0, <2>2, <2>3 DEF CreateInsert
    <2> QED
      BY <2>3, <2>4, <1>0
  <1>3. ASSUME NEW r \in Slot, EditUpdate(r)
        PROVE  TableOK
    <2> DEFINE in == req[r].in
    <2>1. in \in Inputs /\ in.op = "edit"
      BY <1>3 DEF EditUpdate, Missed, TypeInv, Staged, Busy
    <2>2. /\ in.target \in AdminId /\ in.email \in Email
          /\ in.password \in Password \cup {Blank}
      BY <2>1, InputFields
    <2>3. ASSUME Exists(in.target)
          PROVE  [email |-> in.email, password |-> NewPassword(in.target, in.password)] \in Row
      <3>1. admins[in.target] \in Row
        BY <2>2, <2>3, <1>0 DEF Exists
      <3> QED
        BY <3>1, <2>2 DEF Row, NewPassword
    <2>4. admins' \in [AdminId -> Row \cup {NoRow}]
      BY <1>3, <1>0, <2>2, <2>3 DEF EditUpdate, Missed
    <2> QED
      BY <2>4, <1>3, <1>0 DEF EditUpdate, Missed
  <1>4. ASSUME NEW r \in Slot, Delete(r)
        PROVE  TableOK
    BY <1>4, <1>0 DEF Delete
  <1> QED
    BY <1>1, <1>2, <1>3, <1>4 DEF Next, vars, Send, Step, Deliver, LoseResponse,
       LoginRequired, LoginAccepted, LoginRejected, Logout, Prefer, ListAdmins, EditForm,
       CreateCheck, EditCheck, DatabaseError

LEMMA CookiesTyped ==
    ASSUME TypeInv, [Next]_vars
    PROVE  cookie' \in [Browser -> Session]
  <1>1. CASE UNCHANGED cookie
    BY <1>1 DEF TypeInv, TypeOK
  <1>2. ASSUME NEW r \in Slot, Deliver(r)
        PROVE  cookie' \in [Browser -> Session]
    <2>1. req[r] \in Request
      BY <1>2, BusyRequest DEF Deliver, Busy, TypeInv
    <2> QED
      BY <2>1, <1>2 DEF Deliver, TypeInv, TypeOK, Request
  <1> QED
    BY <1>1, <1>2 DEF Next, vars, Send, Step, LoseResponse,
       LoginRequired, LoginAccepted, LoginRejected, Logout, Prefer, ListAdmins, EditForm,
       CreateCheck, CreateInsert, EditCheck, EditUpdate, Delete, DatabaseError

LEMMA TypeStep == TypeInv /\ [Next]_vars => TypeInv'
  BY RequestsTyped, TableTyped, CookiesTyped DEF TypeInv, TypeOK

\* Every variable keeps its type.
THEOREM TypeCorrect == Spec => []TypeOK
  <1>1. Spec => []TypeInv
    BY TypeInit, TypeStep, PTL DEF Spec
  <1> QED
    BY <1>1, PTL DEF TypeInv

-----------------------------------------------------------------------------
(* What a step can do to the table.                                         *)

Inserts(r) ==
    /\ req[r].pc = "insert" /\ nextId \in AdminId /\ nextId' = nextId + 1
    /\ req[r].in.email \in Email /\ req[r].in.password \in Password
    /\ ~Violates(req[r].in.email, NoAdmin)
    /\ admins' = [admins EXCEPT ![nextId] =
                    [email |-> req[r].in.email, password |-> req[r].in.password]]

Updates(r) ==
    /\ req[r].pc = "update" /\ nextId' = nextId
    /\ req[r].in.target \in AdminId /\ req[r].in.email \in Email
    /\ Exists(req[r].in.target)
    /\ ~Violates(req[r].in.email, req[r].in.target)
    /\ admins' = [admins EXCEPT ![req[r].in.target] =
                    [email |-> req[r].in.email,
                     password |-> NewPassword(req[r].in.target, req[r].in.password)]]

Deletes(r) ==
    /\ Busy(r) /\ LoggedIn(r) /\ req[r].in.op = "delete" /\ nextId' = nextId
    /\ req[r].in.target \in AdminId /\ req[r].in.target # req[r].sess.admin
    /\ admins' = [admins EXCEPT ![req[r].in.target] = NoRow]

LEMMA TableChanges ==
    ASSUME TypeInv, [Next]_vars
    PROVE  \/ UNCHANGED admins /\ nextId' \in {nextId, nextId + 1}
           \/ \E r \in Slot : Inserts(r) \/ Updates(r) \/ Deletes(r)
  <1> DEFINE Goal == \/ UNCHANGED admins /\ nextId' \in {nextId, nextId + 1}
                     \/ \E r \in Slot : Inserts(r) \/ Updates(r) \/ Deletes(r)
  <1>1. CASE UNCHANGED <<admins, nextId>>
    BY <1>1
  <1>2. ASSUME NEW r \in Slot, CreateInsert(r)
        PROVE  Goal
    <2>1. req[r].in \in Inputs /\ req[r].in.op = "create"
      BY <1>2 DEF CreateInsert, TypeInv, Staged, Busy
    <2>2. req[r].in.email \in Email /\ req[r].in.password \in Password
      BY <2>1, InputFields
    <2> QED
      BY <2>2, <1>2 DEF CreateInsert, SequenceLeft, Inserts
  <1>3. ASSUME NEW r \in Slot, EditUpdate(r)
        PROVE  Goal
    <2>1. req[r].in \in Inputs /\ req[r].in.op = "edit"
      BY <1>3 DEF EditUpdate, Missed, TypeInv, Staged, Busy
    <2>2. req[r].in.target \in AdminId /\ req[r].in.email \in Email
      BY <2>1, InputFields
    <2> QED
      BY <2>2, <1>3 DEF EditUpdate, Missed, Updates
  <1>4. ASSUME NEW r \in Slot, Delete(r)
        PROVE  Goal
    <2>1. /\ req[r].in \in Inputs /\ req[r].in.op = "delete" /\ Busy(r) /\ LoggedIn(r)
      BY <1>4 DEF Delete, Allowed, At, TypeInv, Staged, Busy
    <2>2. req[r].in.target \in AdminId
      BY <2>1, InputFields
    <2> QED
      BY <2>1, <2>2, <1>4 DEF Delete, OwnAccount, Deletes
  <1> QED
    BY <1>1, <1>2, <1>3, <1>4 DEF Next, vars, Send, Step, Deliver, LoseResponse,
       LoginRequired, LoginAccepted, LoginRejected, Logout, Prefer, ListAdmins, EditForm,
       CreateCheck, EditCheck, DatabaseError

\* A written row is no missing row.
LEMMA WrittenRow ==
    ASSUME NEW e \in Email, NEW p
    PROVE  [email |-> e, password |-> p] # NoRow
  BY ConstantsAssumption DEF NoRow

-----------------------------------------------------------------------------
(* Passwords.                                                               *)

LEMMA NoBlankStep == TypeInv /\ NoBlankPassword /\ [Next]_vars => NoBlankPassword'
  <1> SUFFICES ASSUME TypeInv, NoBlankPassword, [Next]_vars,
                      NEW i \in AdminId, Exists(i)'
               PROVE  admins'[i].password # Blank
    BY DEF NoBlankPassword
  <1>0. admins \in [AdminId -> Row \cup {NoRow}]
    BY DEF TypeInv, TypeOK
  <1>1. CASE UNCHANGED admins
    BY <1>1 DEF NoBlankPassword, Exists
  <1>2. ASSUME NEW r \in Slot, Inserts(r)
        PROVE  admins'[i].password # Blank
    BY <1>0, <1>2, ConstantsAssumption DEF Inserts, NoBlankPassword, Exists
  <1>3. ASSUME NEW r \in Slot, Updates(r)
        PROVE  admins'[i].password # Blank
    BY <1>0, <1>3 DEF Updates, NewPassword, NoBlankPassword, Exists
  <1>4. ASSUME NEW r \in Slot, Deletes(r)
        PROVE  admins'[i].password # Blank
    BY <1>0, <1>4 DEF Deletes, NoBlankPassword, Exists
  <1> QED
    BY <1>1, <1>2, <1>3, <1>4, TableChanges

\* Leaving the password field of the edit form blank never leaves an account
\* without a password (main.py:1004-1012).
THEOREM NoBlankPasswordHolds == Spec => []NoBlankPassword
  <1>1. Init => NoBlankPassword
    BY ConstantsAssumption DEF Init, NoBlankPassword, Exists
  <1>2. TypeInv /\ NoBlankPassword /\ [Next]_vars => TypeInv' /\ NoBlankPassword'
    BY TypeStep, NoBlankStep
  <1> QED
    BY <1>1, <1>2, TypeInit, PTL DEF Spec

-----------------------------------------------------------------------------
(* Identities.  Ids in the table and in sessions come from the sequence, so *)
(* the next account gets an id that no session holds.                       *)

RowsIssued == \A i \in AdminId : Exists(i) => i < nextId
SessionsIssued ==
    /\ \A b \in Browser : cookie[b].admin < nextId
    /\ \A r \in Slot : Busy(r) => req[r].sess.admin < nextId
IdInv == TypeInv /\ RowsIssued /\ SessionsIssued

LEMMA RowsIssuedStep == IdInv /\ [Next]_vars => RowsIssued'
  <1> SUFFICES ASSUME IdInv, [Next]_vars, NEW i \in AdminId, Exists(i)'
               PROVE  i < nextId'
    BY DEF RowsIssued
  <1>0. /\ admins \in [AdminId -> Row \cup {NoRow}] /\ nextId \in Nat
        /\ MaxId \in Nat /\ (Exists(i) => i < nextId)
    BY ConstantsAssumption DEF IdInv, TypeInv, TypeOK, RowsIssued
  <1>1. CASE UNCHANGED admins /\ nextId' \in {nextId, nextId + 1}
    BY <1>0, <1>1 DEF Exists
  <1>2. ASSUME NEW r \in Slot, Inserts(r)
        PROVE  i < nextId'
    BY <1>0, <1>2 DEF Inserts, Exists
  <1>3. ASSUME NEW r \in Slot, Updates(r)
        PROVE  i < nextId'
    BY <1>0, <1>3 DEF Updates, Exists
  <1>4. ASSUME NEW r \in Slot, Deletes(r)
        PROVE  i < nextId'
    BY <1>0, <1>4 DEF Deletes, Exists
  <1> QED
    BY <1>1, <1>2, <1>3, <1>4, TableChanges DEF IdInv

\* The session a handler holds changes to one that names nobody, the same
\* administrator, or a row of the table.
LEMMA SessionChanges ==
    ASSUME TypeInv, [Next]_vars, NEW r \in Slot, Busy(r)'
    PROVE  \/ req'[r].sess.admin = NoAdmin
           \/ Busy(r) /\ req'[r].sess.admin = req[r].sess.admin
           \/ \E b \in Browser : ~Busy(r) /\ req'[r].browser = b
                                 /\ req'[r].sess.admin = cookie[b].admin
           \/ /\ Busy(r) /\ req[r].in.op = "login"
              /\ req'[r].sess.admin \in AdminId /\ Exists(req'[r].sess.admin)
  <1> DEFINE Same == Busy(r) /\ req'[r].sess.admin = req[r].sess.admin
  <1> DEFINE None == req'[r].sess.admin = NoAdmin
  <1> DEFINE From == \E b \in Browser : ~Busy(r) /\ req'[r].browser = b
                                 /\ req'[r].sess.admin = cookie[b].admin
  <1> DEFINE In == /\ Busy(r) /\ req[r].in.op = "login"
                   /\ req'[r].sess.admin \in AdminId /\ Exists(req'[r].sess.admin)
  <1>0. req \in [Slot -> {Idle} \cup Request]
    BY DEF TypeInv, TypeOK
  <1>1. CASE req'[r] = req[r]
    BY <1>1 DEF Busy
  <1>2. ASSUME NEW s, NEW m, Reply(r, s, m)
        PROVE  req'[r].sess = s \/ None
    BY <1>0, <1>2 DEF Reply, Anonymous
  <1>3. ASSUME FlashAndRedirect(r) \/ FlashAndRender(r) \/ RenderAdminPage(r), Busy(r)
        PROVE  Same \/ None
    <2>1. req[r] \in Request
      BY <1>3, BusyRequest DEF TypeInv
    <2>2. /\ [req[r].sess EXCEPT !.flash = TRUE].admin = req[r].sess.admin
          /\ [req[r].sess EXCEPT !.flash = FALSE].admin = req[r].sess.admin
      BY <2>1 DEF Request, Session
    <2> QED
      BY <1>2, <1>3, <2>2 DEF FlashAndRedirect, FlashAndRender, RenderAdminPage, Anonymous
  <1>4. ASSUME NEW label, GoTo(r, label), Busy(r)
        PROVE  Same
    <2>1. req[r] \in Request
      BY <1>4, BusyRequest DEF TypeInv
    <2> QED
      BY <1>0, <1>4, <2>1 DEF GoTo, Request
  <1>5. ASSUME NEW b \in Browser, NEW in \in Inputs, Send(r, b, in)
        PROVE  From
    BY <1>0, <1>5 DEF Send, Busy
  <1>6. ASSUME Step(r)
        PROVE  Same \/ None \/ In
    <2>0. Busy(r)
      BY <1>6 DEF Step, LoginRequired, LoginAccepted, LoginRejected, Logout, Prefer,
         ListAdmins, EditForm, CreateCheck, CreateInsert, EditCheck, EditUpdate,
         Delete, DatabaseError, Allowed, At, Busy
    <2>1. CASE LoginAccepted(r)
      <3>1. PICK i \in AdminId :
              /\ Credentials(i, req[r].in)
              /\ Reply(r, SignedIn(r, i), TRUE)
        BY <2>1 DEF LoginAccepted
      <3>2. req'[r].sess.admin = i \/ None
        <4>1. req'[r].sess = SignedIn(r, i) \/ None
          BY <3>1, <1>2
        <4>2. SignedIn(r, i).admin = i
          BY <2>0, BusyRequest DEF SignedIn, TypeInv, Request, Session
        <4> QED
          BY <4>1, <4>2
      <3>3. req[r].in \in Inputs /\ req[r].in.op = "login"
        BY <2>0, <2>1 DEF LoginAccepted, At, TypeInv, Staged
      <3>4. Exists(i)
        BY <3>1, <3>3, InputFields, ConstantsAssumption DEF Credentials, Exists, NoRow
      <3> QED
        BY <3>2, <3>3, <3>4, <2>0
    <2>2. CASE Logout(r)
      <3>1. req'[r].sess = LoggedOut(r) \/ None
        BY <2>2, <1>2 DEF Logout
      <3> QED
        BY <3>1 DEF LoggedOut, Anonymous
    <2>3. CASE CreateCheck(r) \/ EditCheck(r)
      BY <2>0, <2>3, <1>3, <1>4 DEF CreateCheck, EditCheck
    <2>4. CASE DatabaseError(r)
      <3>1. \/ Reply(r, req[r].sess, FALSE)
            \/ FlashAndRedirect(r) \/ FlashAndRender(r)
        BY <2>4 DEF DatabaseError
      <3>2. CASE Reply(r, req[r].sess, FALSE)
        BY <3>2, <2>0, <1>2
      <3> QED
        BY <3>1, <3>2, <2>0, <1>3
    <2>5. CASE \/ LoginRequired(r) \/ LoginRejected(r) \/ ListAdmins(r) \/ EditForm(r)
               \/ Delete(r) \/ CreateInsert(r) \/ EditUpdate(r)
      <3>1. FlashAndRedirect(r) \/ FlashAndRender(r) \/ RenderAdminPage(r)
        BY <2>5 DEF LoginRequired, LoginRejected, ListAdmins, EditForm, Delete,
           CreateInsert, EditUpdate
      <3> QED
        BY <3>1, <2>0, <1>3
    <2>6. CASE Prefer(r)
      <3>1. PICK s \in Session, m \in BOOLEAN : Reply(r, s, m) /\ s.admin = req[r].sess.admin
        BY <2>6, PreferReplies DEF TypeInv
      <3> QED
        BY <3>1, <2>0, <1>2
    <2> QED
      BY <1>6, <2>1, <2>2, <2>3, <2>4, <2>5, <2>6 DEF Step
  <1>7. ASSUME Deliver(r) \/ LoseResponse(r)
        PROVE  ~Busy(r)'
    BY <1>0, <1>7 DEF Deliver, LoseResponse, Busy, Idle
  <1>8. ASSUME NEW q \in Slot, q # r,
               (\E b \in Browser, in \in Inputs : Send(q, b, in))
                 \/ Step(q) \/ Deliver(q) \/ LoseResponse(q)
        PROVE  req'[r] = req[r]
    BY <1>0, <1>8 DEF Send, Step, Deliver, LoseResponse, Reply, GoTo, FlashAndRedirect,
       FlashAndRender, RenderAdminPage, LoginRequired, LoginAccepted, LoginRejected,
       Logout, Prefer, ListAdmins, EditForm, CreateCheck, CreateInsert, EditCheck, EditUpdate,
       Delete, DatabaseError
  <1> QED
    BY <1>1, <1>5, <1>6, <1>7, <1>8 DEF Next, vars

LEMMA CookieChanges ==
    ASSUME TypeInv, [Next]_vars, NEW b \in Browser, cookie'[b] # cookie[b]
    PROVE  \E r \in Slot : /\ Busy(r) /\ req[r].pc = "reply" /\ req[r].browser = b
                           /\ req[r].dirty
                           /\ req'[r] = Idle /\ cookie'[b] = req[r].sess
  <1>1. PICK r \in Slot : Deliver(r)
    BY DEF Next, vars, Send, Step, LoseResponse, LoginRequired, LoginAccepted,
       LoginRejected, Logout, Prefer, ListAdmins, EditForm, CreateCheck, CreateInsert,
       EditCheck, EditUpdate, Delete, DatabaseError
  <1>2. req[r] \in Request /\ Busy(r)
    BY <1>1, BusyRequest DEF Deliver, Busy, TypeInv
  <1> QED
    BY <1>1, <1>2 DEF Deliver, TypeInv, TypeOK, Request

LEMMA SessionsIssuedStep == IdInv /\ [Next]_vars => SessionsIssued'
  <1> SUFFICES ASSUME IdInv, [Next]_vars
               PROVE  SessionsIssued'
    OBVIOUS
  <1>1. nextId \in Nat \ {0} /\ nextId' \in Nat \ {0} /\ nextId =< nextId'
    <2>1. nextId \in Nat \ {0}
      BY ConstantsAssumption DEF IdInv, TypeInv, TypeOK
    <2>2. nextId' \in {nextId, nextId + 1}
      BY TableChanges DEF IdInv, Inserts, Updates, Deletes
    <2> QED
      BY <2>1, <2>2
  <1>2. /\ \A b \in Browser : cookie[b].admin \in Nat
        /\ \A r \in Slot : Busy(r) => req[r].sess.admin \in Nat
    <2>1. \A s \in Session : s.admin \in Nat
      BY DEF Session
    <2>2. \A r \in Slot : Busy(r) => req[r].sess \in Session
      BY BusyRequest DEF IdInv, TypeInv, Request
    <2> QED
      BY <2>1, <2>2 DEF IdInv, TypeInv, TypeOK
  <1>3. ASSUME NEW b \in Browser
        PROVE  cookie'[b].admin < nextId'
    <2>1. CASE cookie'[b] = cookie[b]
      BY <2>1, <1>1, <1>2 DEF IdInv, SessionsIssued
    <2>2. CASE cookie'[b] # cookie[b]
      <3>1. PICK r \in Slot : Busy(r) /\ cookie'[b] = req[r].sess
        BY <2>2, CookieChanges DEF IdInv
      <3> QED
        BY <3>1, <1>1, <1>2 DEF IdInv, SessionsIssued
    <2> QED
      BY <2>1, <2>2
  <1>4. ASSUME NEW r \in Slot, Busy(r)'
        PROVE  req'[r].sess.admin < nextId'
    <2>1. CASE req'[r].sess.admin = NoAdmin
      BY <2>1, <1>1
    <2>2. CASE Busy(r) /\ req'[r].sess.admin = req[r].sess.admin
      BY <2>2, <1>1, <1>2 DEF IdInv, SessionsIssued
    <2>3. ASSUME NEW b \in Browser, req'[r].sess.admin = cookie[b].admin
          PROVE  req'[r].sess.admin < nextId'
      BY <2>3, <1>1, <1>2 DEF IdInv, SessionsIssued
    <2>4. CASE req'[r].sess.admin \in AdminId /\ Exists(req'[r].sess.admin)
      <3>1. req'[r].sess.admin < nextId /\ req'[r].sess.admin \in Nat
        BY <2>4, ConstantsAssumption DEF IdInv, RowsIssued
      <3> QED
        BY <3>1, <1>1
    <2> QED
      BY <1>4, <2>1, <2>2, <2>3, <2>4, SessionChanges DEF IdInv
  <1> QED
    BY <1>3, <1>4 DEF SessionsIssued

LEMMA IdInvariant == Spec => []IdInv
  <1>1. Init => IdInv
    <2>1. Init => RowsIssued /\ SessionsIssued
      BY ConstantsAssumption DEF Init, RowsIssued, SessionsIssued, Exists, Anonymous,
         Busy, Idle, NoRow
    <2> QED
      BY <2>1, TypeInit DEF IdInv
  <1>2. IdInv /\ [Next]_vars => IdInv'
    BY TypeStep, RowsIssuedStep, SessionsIssuedStep DEF IdInv
  <1> QED
    BY <1>1, <1>2, PTL DEF Spec

LEMMA RevokedStep ==
    ASSUME IdInv, [Next]_vars, NEW s \in Sessions, s.admin # NoAdmin, ~Exists(s.admin)
    PROVE  ~Exists(s.admin)'
  <1> DEFINE i == s.admin
  <1>1. i \in AdminId /\ i < nextId
    <2>1. \A r \in Slot : Busy(r) => req[r].sess \in Session
      BY BusyRequest DEF IdInv, TypeInv, Request
    <2>2. s \in Session
      BY <2>1 DEF Sessions, IdInv, TypeInv, TypeOK
    <2>3. s.admin < nextId
      BY DEF Sessions, IdInv, SessionsIssued
    <2> QED
      BY <2>2, <2>3 DEF Session
  <1>2. admins \in [AdminId -> Row \cup {NoRow}] /\ admins[i] = NoRow
    BY DEF IdInv, TypeInv, TypeOK, Exists
  <1>3. ASSUME NEW r \in Slot, Inserts(r)
        PROVE  admins'[i] = NoRow
    BY <1>1, <1>2, <1>3, ConstantsAssumption DEF Inserts
  <1>4. ASSUME NEW r \in Slot, Updates(r)
        PROVE  admins'[i] = NoRow
    BY <1>1, <1>2, <1>4 DEF Updates, Exists
  <1>5. ASSUME NEW r \in Slot, Deletes(r)
        PROVE  admins'[i] = NoRow
    BY <1>1, <1>2, <1>5 DEF Deletes
  <1> QED
    BY <1>2, <1>3, <1>4, <1>5, TableChanges DEF IdInv, Exists

\* A session that outlived its account never acts for a later account.
THEOREM RevokedStaysRevokedHolds == Spec => RevokedStaysRevoked
  <1>1. IdInv /\ [Next]_vars =>
          [\A s \in Sessions : s.admin # NoAdmin /\ ~Exists(s.admin) => ~Exists(s.admin)']_vars
    BY RevokedStep
  <1> QED
    BY <1>1, IdInvariant, PTL DEF Spec, RevokedStaysRevoked

-----------------------------------------------------------------------------
(* The last administrator.                                                  *)

LEMMA EmptiedStep ==
    ASSUME TypeInv, [Next]_vars,
           NEW i \in AdminId, Exists(i), \A j \in AdminId : ~Exists(j)'
    PROVE  \E r \in Slot : /\ Busy(r) /\ req[r].in.op = "delete"
                           /\ LoggedIn(r) /\ ~Exists(req[r].sess.admin)
  <1>0. admins \in [AdminId -> Row \cup {NoRow}]
    BY DEF TypeInv, TypeOK
  <1>1. ~UNCHANGED admins
    BY DEF Exists
  <1>2. \A r \in Slot : ~Inserts(r) /\ ~Updates(r)
    <2>1. ASSUME NEW r \in Slot, Inserts(r)
          PROVE  FALSE
      <3> DEFINE n == nextId
      <3>1. n \in AdminId /\ admins'[n] # NoRow
        BY <1>0, <2>1, WrittenRow DEF Inserts
      <3> QED
        BY <3>1 DEF Exists
    <2>2. ASSUME NEW r \in Slot, Updates(r)
          PROVE  FALSE
      <3> DEFINE t == req[r].in.target
      <3>1. t \in AdminId /\ admins'[t] # NoRow
        BY <1>0, <2>2, WrittenRow DEF Updates
      <3> QED
        BY <3>1 DEF Exists
    <2> QED
      BY <2>1, <2>2
  <1>3. PICK r \in Slot : Deletes(r)
    BY <1>1, <1>2, TableChanges
  <1>4. req[r].sess.admin \in AdminId
    <2>1. req[r] \in Request
      BY <1>3, BusyRequest DEF Deletes, TypeInv
    <2> QED
      BY <2>1, <1>3 DEF Deletes, LoggedIn, Request, Session
  <1>5. admins[req[r].sess.admin] = NoRow
    BY <1>0, <1>3, <1>4 DEF Deletes, Exists
  <1> QED
    BY <1>3, <1>5 DEF Deletes, Exists

\* Only a session whose account is gone can delete the last administrator.
THEOREM EmptiedOnlyByRevokedHolds == Spec => EmptiedOnlyByRevoked
  <1>1. TypeInv /\ [Next]_vars =>
          [(\E i \in AdminId : Exists(i)) /\ (\A i \in AdminId : ~Exists(i)') =>
             \E r \in Slot : /\ Busy(r) /\ req[r].in.op = "delete"
                             /\ LoggedIn(r) /\ ~Exists(req[r].sess.admin)]_vars
    BY EmptiedStep
  <1> QED
    BY <1>1, TypeInit, TypeStep, PTL DEF Spec, EmptiedOnlyByRevoked

-----------------------------------------------------------------------------
(* Addresses.  The look-up before a write is enough when nothing can happen *)
(* between the two; otherwise it takes the constraint in the table.         *)

Serial == \A q, r \in Slot : q = r

Looked ==
    \A r \in Slot :
        /\ Busy(r) /\ req[r].pc = "insert" => ~Taken(req[r].in.email, NoAdmin)
        /\ Busy(r) /\ req[r].pc = "update" => ~Taken(req[r].in.email, req[r].in.target)

\* How a request comes to be about to write.
LEMMA AboutToWrite ==
    ASSUME TypeInv, [Next]_vars, NEW r \in Slot, Serial,
           Busy(r)', req'[r].pc \in {"insert", "update"}
    PROVE  UNCHANGED vars \/ CreateCheck(r) \/ EditCheck(r)
  <1>0. req \in [Slot -> {Idle} \cup Request]
    BY DEF TypeInv, TypeOK
  <1>1. \A s, m : Reply(r, s, m) => req'[r].pc = "reply"
    BY <1>0 DEF Reply
  <1>2. /\ FlashAndRedirect(r) => req'[r].pc = "reply"
        /\ FlashAndRender(r) => req'[r].pc = "reply"
        /\ RenderAdminPage(r) => req'[r].pc = "reply"
    BY <1>1 DEF FlashAndRedirect, FlashAndRender, RenderAdminPage
  <1>3. ASSUME NEW b \in Browser, NEW in \in Inputs, Send(r, b, in)
        PROVE  req'[r].pc = "start"
    BY <1>0, <1>3 DEF Send
  <1>4. ASSUME Deliver(r) \/ LoseResponse(r)
        PROVE  req'[r].pc = "idle"
    BY <1>0, <1>4 DEF Deliver, LoseResponse, Idle
  <1>5. ASSUME Step(r), ~CreateCheck(r), ~EditCheck(r)
        PROVE  req'[r].pc = "reply"
    BY <1>1, <1>2, <1>5 DEF Step, LoginRequired, LoginAccepted, LoginRejected, Logout, Prefer,
       ListAdmins, EditForm, CreateInsert, EditUpdate, Delete, DatabaseError
  <1> QED
    BY <1>3, <1>4, <1>5 DEF Next, Serial

LEMMA LookedStep == TypeInv /\ Looked /\ Serial /\ [Next]_vars => Looked'
  <1> DEFINE Free(e, self) == \A i \in AdminId \ {self} : admins'[i].email # e
  <1> SUFFICES ASSUME TypeInv, Looked, Serial, [Next]_vars, NEW r \in Slot, Busy(r)',
                      req'[r].pc \in {"insert", "update"}
               PROVE  /\ req'[r].pc = "insert" => Free(req'[r].in.email, NoAdmin)
                      /\ req'[r].pc = "update" => Free(req'[r].in.email, req'[r].in.target)
    BY DEF Looked, Taken
  <1>0. req \in [Slot -> {Idle} \cup Request]
    BY DEF TypeInv, TypeOK
  <1>1. CASE UNCHANGED vars
    BY <1>1 DEF vars, Looked, Taken, Busy
  <1>2. ASSUME NEW label, GoTo(r, label), Busy(r)
        PROVE  req'[r].pc = label /\ req'[r].in = req[r].in
    <2>1. req[r] \in Request
      BY <1>2, BusyRequest DEF TypeInv
    <2>2. req'[r] = [req[r] EXCEPT !.pc = label]
      BY <1>0, <1>2 DEF GoTo
    <2> QED
      BY <2>1, <2>2 DEF Request
  <1>3. ASSUME FlashAndRedirect(r) \/ FlashAndRender(r)
        PROVE  req'[r].pc = "reply"
    <2>1. \A s, m : Reply(r, s, m) => req'[r].pc = "reply"
      BY <1>0 DEF Reply
    <2> QED
      BY <1>3, <2>1 DEF FlashAndRedirect, FlashAndRender
  <1>4. CASE CreateCheck(r)
    <2>1. Busy(r) /\ ~Taken(req[r].in.email, NoAdmin) /\ GoTo(r, "insert") /\ UNCHANGED admins
      BY <1>3, <1>4 DEF CreateCheck, Allowed, At, Busy
    <2> QED
      BY <2>1, <1>2 DEF Taken
  <1>5. CASE EditCheck(r)
    <2>1. /\ Busy(r) /\ ~Taken(req[r].in.email, req[r].in.target) /\ GoTo(r, "update")
          /\ UNCHANGED admins
      BY <1>3, <1>5 DEF EditCheck, Allowed, At, Busy
    <2> QED
      BY <2>1, <1>2 DEF Taken
  <1> QED
    BY <1>1, <1>4, <1>5, AboutToWrite

LEMMA UniqueStep ==
    ASSUME TypeInv, EmailsUnique, [Next]_vars, UniqueEmail \/ Looked
    PROVE  EmailsUnique'
  <1> SUFFICES ASSUME NEW i \in AdminId, NEW j \in AdminId, i # j, Exists(i)', Exists(j)'
               PROVE  admins'[i].email # admins'[j].email
    BY DEF EmailsUnique
  <1>0. admins \in [AdminId -> Row \cup {NoRow}] /\ NoAdmin \notin AdminId
    BY DEF TypeInv, TypeOK
  <1>1. CASE UNCHANGED admins
    BY <1>1 DEF EmailsUnique, Exists
  <1>2. ASSUME NEW r \in Slot, Inserts(r)
        PROVE  admins'[i].email # admins'[j].email
    <2>1. \A k \in AdminId : admins[k].email # req[r].in.email
      BY <1>0, <1>2 DEF Inserts, Violates, Taken, Looked, Busy
    <2> QED
      BY <2>1, <1>0, <1>2 DEF Inserts, EmailsUnique, Exists
  <1>3. ASSUME NEW r \in Slot, Updates(r)
        PROVE  admins'[i].email # admins'[j].email
    <2>1. \A k \in AdminId \ {req[r].in.target} : admins[k].email # req[r].in.email
      BY <1>3 DEF Updates, Violates, Taken, Looked, Busy
    <2> QED
      BY <2>1, <1>0, <1>3 DEF Updates, EmailsUnique, Exists
  <1>4. ASSUME NEW r \in Slot, Deletes(r)
        PROVE  admins'[i].email # admins'[j].email
    BY <1>0, <1>4 DEF Deletes, EmailsUnique, Exists
  <1> QED
    BY <1>1, <1>2, <1>3, <1>4, TableChanges

LEMMA UniqueInit == Init => EmailsUnique /\ Looked
  BY DEF Init, EmailsUnique, Looked, Exists, Busy, Idle

\* No two administrators share an address, if the table forbids it or requests
\* are handled one at a time.
THEOREM EmailsUniqueHolds ==
    ASSUME UniqueEmail \/ Serial
    PROVE  Spec => []EmailsUnique
  <1>1. CASE UniqueEmail
    <2>1. TypeInv /\ EmailsUnique /\ [Next]_vars => TypeInv' /\ EmailsUnique'
      BY <1>1, TypeStep, UniqueStep
    <2> QED
      BY <2>1, TypeInit, UniqueInit, PTL DEF Spec
  <1>2. CASE Serial
    <2>1. TypeInv /\ EmailsUnique /\ Looked /\ [Next]_vars
            => TypeInv' /\ EmailsUnique' /\ Looked'
      BY <1>2, TypeStep, UniqueStep, LookedStep
    <2> QED
      BY <2>1, TypeInit, UniqueInit, PTL DEF Spec
  <1> QED
    BY <1>1, <1>2

-----------------------------------------------------------------------------
(* A browser that waits for each response.  Its one request works on the    *)
(* session the browser still holds, so only a login can change who it is.   *)

Alone == \A q, r \in Slot :
    Busy(q) /\ Busy(r) /\ req[q].browser = req[r].browser => q = r
Own == \A r \in Slot :
    Busy(r) /\ req[r].in.op # "login" =>
        req[r].sess.admin \in {NoAdmin, cookie[req[r].browser].admin}
TabInv == TypeInv /\ Alone /\ Own

\* A request stays with its browser, and stays a login or something else.
LEMMA RequestKept ==
    ASSUME TypeInv, [Next]_vars, NEW r \in Slot, Busy(r)'
    PROVE  \/ \E b \in Browser, in \in Inputs : Send(r, b, in)
           \/ /\ Busy(r) /\ req'[r].browser = req[r].browser
              /\ req'[r].in.op = "login" <=> req[r].in.op = "login"
              /\ Preferring(r)' <=> Preferring(r)
  <1> DEFINE Kept == /\ Busy(r) /\ req'[r].browser = req[r].browser
                     /\ req'[r].in.op = "login" <=> req[r].in.op = "login"
                     /\ Preferring(r)' <=> Preferring(r)
  <1>0. req \in [Slot -> {Idle} \cup Request]
    BY DEF TypeInv, TypeOK
  <1>1. CASE req'[r] = req[r]
    BY <1>1 DEF Busy, Preferring
  <1>2. ASSUME NEW s, NEW m, Reply(r, s, m), Busy(r)
        PROVE  Kept
    <2>1. req'[r].browser = req[r].browser /\ req'[r].in = Plain(Kind(req[r].in.op))
      BY <1>0, <1>2 DEF Reply
    <2> QED
      BY <1>2, <2>1 DEF Plain, Kind, Preferring
  <1>3. ASSUME FlashAndRedirect(r) \/ FlashAndRender(r) \/ RenderAdminPage(r), Busy(r)
        PROVE  Kept
    BY <1>2, <1>3 DEF FlashAndRedirect, FlashAndRender, RenderAdminPage
  <1>4. ASSUME NEW label, GoTo(r, label), Busy(r)
        PROVE  Kept
    <2>1. req[r] \in Request
      BY <1>4, BusyRequest DEF TypeInv
    <2>2. req'[r] = [req[r] EXCEPT !.pc = label]
      BY <1>0, <1>4 DEF GoTo
    <2> QED
      BY <1>4, <2>1, <2>2 DEF Request, Preferring
  <1>5. ASSUME Step(r)
        PROVE  Kept
    <2>0. Busy(r)
      BY <1>5 DEF Step, LoginRequired, LoginAccepted, LoginRejected, Logout, Prefer,
         ListAdmins, EditForm, CreateCheck, CreateInsert, EditCheck, EditUpdate,
         Delete, DatabaseError, Allowed, At, Busy
    <2>1. \/ \E s, m : Reply(r, s, m)
          \/ FlashAndRedirect(r) \/ FlashAndRender(r) \/ RenderAdminPage(r)
          \/ \E label : GoTo(r, label)
      BY <1>5 DEF Step, LoginRequired, LoginAccepted, LoginRejected, Logout, Prefer,
         ListAdmins, EditForm, CreateCheck, CreateInsert, EditCheck, EditUpdate,
         Delete, DatabaseError
    <2> QED
      BY <2>0, <2>1, <1>2, <1>3, <1>4
  <1>6. ASSUME Deliver(r) \/ LoseResponse(r)
        PROVE  ~Busy(r)'
    BY <1>0, <1>6 DEF Deliver, LoseResponse, Busy, Idle
  <1>7. ASSUME NEW q \in Slot, q # r,
               (\E b \in Browser, in \in Inputs : Send(q, b, in))
                 \/ Step(q) \/ Deliver(q) \/ LoseResponse(q)
        PROVE  req'[r] = req[r]
    BY <1>0, <1>7 DEF Send, Step, Deliver, LoseResponse, Reply, GoTo, FlashAndRedirect,
       FlashAndRender, RenderAdminPage, LoginRequired, LoginAccepted, LoginRejected,
       Logout, Prefer, ListAdmins, EditForm, CreateCheck, CreateInsert, EditCheck, EditUpdate,
       Delete, DatabaseError
  <1> QED
    BY <1>1, <1>5, <1>6, <1>7 DEF Next, vars

\* What a new request finds when browsers wait.
LEMMA SendAlone ==
    ASSUME OneTab, TypeInv, NEW r \in Slot, NEW b \in Browser, NEW in \in Inputs,
           Send(r, b, in)
    PROVE  /\ req'[r].browser = b /\ req'[r].sess = cookie[b] /\ UNCHANGED cookie
           /\ \A q \in Slot : q # r => req'[q] = req[q] /\ (Busy(q) => req[q].browser # b)
  BY DEF Send, TypeInv, TypeOK

LEMMA AloneStep ==
    ASSUME OneTab, TabInv, [Next]_vars
    PROVE  Alone'
  <1> SUFFICES ASSUME NEW q \in Slot, NEW r \in Slot, Busy(q)', Busy(r)',
                      req'[q].browser = req'[r].browser, q # r
               PROVE  FALSE
    BY DEF Alone
  <1>1. ASSUME NEW b \in Browser, NEW in \in Inputs, Send(r, b, in)
        PROVE  FALSE
    BY <1>1, SendAlone DEF TabInv, Busy
  <1>2. ASSUME NEW b \in Browser, NEW in \in Inputs, Send(q, b, in)
        PROVE  FALSE
    BY <1>2, SendAlone DEF TabInv, Busy
  <1> QED
    BY <1>1, <1>2, RequestKept DEF TabInv, Alone

\* The cookie of a browser stays while its request is handled.
LEMMA CookieKept ==
    ASSUME TabInv, [Next]_vars, NEW r \in Slot, Busy(r), Busy(r)'
    PROVE  cookie'[req[r].browser] = cookie[req[r].browser]
  <1>1. req[r].browser \in Browser
    BY BusyRequest DEF TabInv, TypeInv, Request
  <1>2. ASSUME cookie'[req[r].browser] # cookie[req[r].browser]
        PROVE  FALSE
    <2>1. PICK q \in Slot : Busy(q) /\ req[q].browser = req[r].browser /\ req'[q] = Idle
      BY <1>1, <1>2, CookieChanges DEF TabInv
    <2>2. q = r
      BY <2>1 DEF TabInv, Alone
    <2> QED
      BY <2>1, <2>2 DEF Busy, Idle
  <1> QED
    BY <1>2

LEMMA OwnStep ==
    ASSUME OneTab, TabInv, [Next]_vars
    PROVE  Own'
  <1> SUFFICES ASSUME NEW r \in Slot, Busy(r)', req'[r].in.op # "login"
               PROVE  req'[r].sess.admin \in {NoAdmin, cookie'[req'[r].browser].admin}
    BY DEF Own
  <1>1. ASSUME NEW b \in Browser, NEW in \in Inputs, Send(r, b, in)
        PROVE  req'[r].sess.admin = cookie'[req'[r].browser].admin
    BY <1>1, SendAlone DEF TabInv
  <1>2. CASE /\ Busy(r) /\ req'[r].browser = req[r].browser /\ req[r].in.op # "login"
    <2>1. req[r].sess.admin \in {NoAdmin, cookie[req[r].browser].admin}
      BY <1>2 DEF TabInv, Own
    <2>2. req'[r].sess.admin \in {NoAdmin, req[r].sess.admin}
      BY <1>2, SessionChanges DEF TabInv
    <2>3. cookie'[req[r].browser] = cookie[req[r].browser]
      BY <1>2, CookieKept
    <2> QED
      BY <1>2, <2>1, <2>2, <2>3
  <1> QED
    BY <1>1, <1>2, RequestKept DEF TabInv

LEMMA IdentityStep ==
    ASSUME TabInv, [Next]_vars, NEW b \in Browser,
           cookie'[b].admin \notin {NoAdmin, cookie[b].admin}
    PROVE  \E r \in Slot : /\ Busy(r) /\ req'[r] = Idle
                           /\ req[r].browser = b /\ req[r].in.op = "login"
  <1>1. PICK r \in Slot : /\ Busy(r) /\ req[r].browser = b /\ req'[r] = Idle
                          /\ cookie'[b] = req[r].sess
    BY CookieChanges DEF TabInv
  <1> QED
    BY <1>1 DEF TabInv, Own

LEMMA TabInit == Init => TabInv
  <1>1. Init => Alone /\ Own
    BY DEF Init, Alone, Own, Busy, Idle
  <1> QED
    BY <1>1, TypeInit DEF TabInv

\* With one request at a time per browser, a browser becomes an administrator,
\* or another one, only by logging in: a logout lasts.
THEOREM IdentityOnlyByLoginHolds ==
    ASSUME OneTab
    PROVE  Spec => IdentityOnlyByLogin
  <1>1. TabInv /\ [Next]_vars => TabInv'
    BY TypeStep, AloneStep, OwnStep DEF TabInv
  <1>2. TabInv /\ [Next]_vars =>
          [\A b \in Browser : cookie'[b].admin \notin {NoAdmin, cookie[b].admin} =>
             \E r \in Slot : /\ Busy(r) /\ req'[r] = Idle
                             /\ req[r].browser = b /\ req[r].in.op = "login"]_vars
    BY IdentityStep
  <1> QED
    BY <1>1, <1>2, TabInit, PTL DEF Spec, IdentityOnlyByLogin

-----------------------------------------------------------------------------
(* Preferences.  A request that is not about them carries those its browser *)
(* still holds, so its response changes nothing.                            *)

Sends(r) == Busy(r) /\ (req[r].pc = "reply" => req[r].dirty)
OwnPrefs == \A r \in Slot :
    Sends(r) /\ ~Preferring(r) => Prefs(req[r].sess) = Prefs(cookie[req[r].browser])

\* A handler that is not about preferences keeps them.
LEMMA PrefsChange ==
    ASSUME TypeInv, [Next]_vars, NEW r \in Slot, Busy(r), Sends(r)', ~Preferring(r)
    PROVE  Sends(r) /\ Prefs(req'[r].sess) = Prefs(req[r].sess)
  <1> DEFINE Kept == Sends(r) /\ Prefs(req'[r].sess) = Prefs(req[r].sess)
  <1>0. req \in [Slot -> {Idle} \cup Request]
    BY DEF TypeInv, TypeOK
  <1>1. req[r] \in Request /\ req[r].sess \in Session
    BY BusyRequest DEF TypeInv, Request
  <1>2. CASE req'[r] = req[r]
    BY <1>2 DEF Sends, Busy
  <1>3. ASSUME NEW s, NEW m \in BOOLEAN, Reply(r, s, m)
        PROVE  req'[r].sess = s
    BY <1>0, <1>3 DEF Reply, Sends
  <1>4. ASSUME FlashAndRedirect(r) \/ FlashAndRender(r) \/ RenderAdminPage(r)
        PROVE  Prefs(req'[r].sess) = Prefs(req[r].sess)
    <2>1. /\ Prefs([req[r].sess EXCEPT !.flash = TRUE]) = Prefs(req[r].sess)
          /\ Prefs([req[r].sess EXCEPT !.flash = FALSE]) = Prefs(req[r].sess)
          /\ req[r].sess.flash \in BOOLEAN
      BY <1>1 DEF Session, Prefs
    <2> QED
      BY <1>3, <1>4, <2>1 DEF FlashAndRedirect, FlashAndRender, RenderAdminPage
  <1>5. ASSUME NEW label, GoTo(r, label)
        PROVE  Prefs(req'[r].sess) = Prefs(req[r].sess)
    BY <1>0, <1>1, <1>5 DEF GoTo, Request
  <1>6. ASSUME Step(r)
        PROVE  Kept
    <2>0. req[r].pc # "reply"
      BY <1>6 DEF Step, LoginRequired, LoginAccepted, LoginRejected, Logout, Prefer,
         ListAdmins, EditForm, CreateCheck, CreateInsert, EditCheck, EditUpdate,
         Delete, DatabaseError, Allowed, At
    <2>1. CASE LoginAccepted(r)
      <3>1. PICK i \in AdminId : Reply(r, SignedIn(r, i), TRUE)
        BY <2>1 DEF LoginAccepted
      <3>2. Prefs(SignedIn(r, i)) = Prefs(req[r].sess)
        BY <1>1 DEF SignedIn, Prefs, Session
      <3> QED
        BY <2>0, <3>1, <3>2, <1>3 DEF Sends
    <2>2. ~Logout(r) /\ ~Prefer(r)
      BY DEF Logout, Prefer, At, Preferring
    <2>3. CASE DatabaseError(r)
      <3>1. \/ Reply(r, req[r].sess, FALSE)
            \/ FlashAndRedirect(r) \/ FlashAndRender(r)
        BY <2>3 DEF DatabaseError
      <3> QED
        BY <3>1, <2>0, <1>3, <1>4 DEF Sends
    <2>4. CASE CreateCheck(r) \/ EditCheck(r)
      BY <2>0, <2>4, <1>4, <1>5 DEF CreateCheck, EditCheck, Sends
    <2>5. CASE \/ LoginRequired(r) \/ LoginRejected(r) \/ ListAdmins(r) \/ EditForm(r)
               \/ Delete(r) \/ CreateInsert(r) \/ EditUpdate(r)
      <3>1. FlashAndRedirect(r) \/ FlashAndRender(r) \/ RenderAdminPage(r)
        BY <2>5 DEF LoginRequired, LoginRejected, ListAdmins, EditForm, Delete,
           CreateInsert, EditUpdate
      <3> QED
        BY <3>1, <2>0, <1>4 DEF Sends
    <2> QED
      BY <1>6, <2>1, <2>2, <2>3, <2>4, <2>5 DEF Step
  <1>7. ASSUME Deliver(r) \/ LoseResponse(r)
        PROVE  ~Busy(r)'
    BY <1>0, <1>7 DEF Deliver, LoseResponse, Busy, Idle
  <1>8. ASSUME NEW q \in Slot, q # r,
               (\E b \in Browser, in \in Inputs : Send(q, b, in))
                 \/ Step(q) \/ Deliver(q) \/ LoseResponse(q)
        PROVE  req'[r] = req[r]
    BY <1>0, <1>8 DEF Send, Step, Deliver, LoseResponse, Reply, GoTo, FlashAndRedirect,
       FlashAndRender, RenderAdminPage, LoginRequired, LoginAccepted, LoginRejected,
       Logout, Prefer, ListAdmins, EditForm, CreateCheck, CreateInsert, EditCheck,
       EditUpdate, Delete, DatabaseError
  <1>9. \A b \in Browser, in \in Inputs : ~Send(r, b, in)
    BY DEF Send
  <1> QED
    BY <1>2, <1>6, <1>7, <1>8, <1>9 DEF Next, vars, Sends

LEMMA OwnPrefsStep ==
    ASSUME OneTab, TabInv, OwnPrefs, [Next]_vars
    PROVE  OwnPrefs'
  <1> SUFFICES ASSUME NEW r \in Slot, Sends(r)', ~Preferring(r)'
               PROVE  Prefs(req'[r].sess) = Prefs(cookie'[req'[r].browser])
    BY DEF OwnPrefs
  <1>1. ASSUME NEW b \in Browser, NEW in \in Inputs, Send(r, b, in)
        PROVE  Prefs(req'[r].sess) = Prefs(cookie'[req'[r].browser])
    BY <1>1, SendAlone DEF TabInv
  <1>2. CASE Busy(r) /\ req'[r].browser = req[r].browser /\ ~Preferring(r)
    <2>1. Sends(r) /\ Prefs(req'[r].sess) = Prefs(req[r].sess)
      BY <1>2, PrefsChange DEF TabInv
    <2>2. cookie'[req[r].browser] = cookie[req[r].browser]
      BY <1>2, CookieKept DEF Sends
    <2> QED
      BY <1>2, <2>1, <2>2 DEF OwnPrefs
  <1> QED
    BY <1>1, <1>2, RequestKept DEF TabInv, Sends

LEMMA PrefsStep ==
    ASSUME TabInv, OwnPrefs, [Next]_vars, NEW b \in Browser,
           Prefs(cookie'[b]) # Prefs(cookie[b])
    PROVE  \E r \in Slot : /\ Busy(r) /\ req'[r] = Idle /\ req[r].browser = b
                           /\ Preferring(r)
  <1>1. PICK r \in Slot : /\ Busy(r) /\ req[r].pc = "reply" /\ req[r].browser = b
                          /\ req[r].dirty /\ req'[r] = Idle /\ cookie'[b] = req[r].sess
    BY CookieChanges DEF TabInv
  <1> QED
    BY <1>1 DEF OwnPrefs, Sends

\* With one request at a time per browser, its language and way of display change
\* only by the response to a request for them or to a logout.
THEOREM PreferencesKeptHolds ==
    ASSUME OneTab
    PROVE  Spec => PreferencesKept
  <1>1. Init => OwnPrefs
    BY DEF Init, OwnPrefs, Sends, Busy, Idle
  <1>2. TabInv /\ OwnPrefs /\ [Next]_vars => TabInv' /\ OwnPrefs'
    BY TypeStep, AloneStep, OwnStep, OwnPrefsStep DEF TabInv
  <1>3. TabInv /\ OwnPrefs /\ [Next]_vars =>
          [\A b \in Browser : Prefs(cookie'[b]) # Prefs(cookie[b]) =>
             \E r \in Slot : /\ Busy(r) /\ req'[r] = Idle /\ req[r].browser = b
                             /\ Preferring(r)]_vars
    BY PrefsStep
  <1> QED
    BY <1>1, <1>2, <1>3, TabInit, PTL DEF Spec, PreferencesKept

-----------------------------------------------------------------------------
(* The handlers implement AccountBook.                                      *)

LEMMA BookInit == Init => Book!Init
  <1> SUFFICES ASSUME Init PROVE Book!Init
    OBVIOUS
  <1>1. PICK row \in [email : Email, password : Password] :
          admins = [i \in AdminId |-> IF i = 1 THEN row ELSE NoRow]
    BY DEF Init
  <1>2. row # NoRow /\ 1 \in AdminId
    BY ConstantsAssumption DEF NoRow
  <1>3. Accounts = [j \in {1} |-> row]
    BY <1>1, <1>2 DEF Accounts, Exists
  <1>4. Issued = {1}
    BY DEF Init, Issued
  <1> QED
    BY <1>2, <1>3, <1>4 DEF Book!Init, Book!Account

\* An address no other row uses is free in the book.
LEMMA FreeAddress ==
    ASSUME TypeInv, NEW e \in Email, NEW i, ~Taken(e, i)
    PROVE  ~Book!Has(e, i)
  BY DEF Book!Has, Taken, Accounts

\* Only whole accounts are in the table.
LEMMA WholeAccount ==
    ASSUME TypeInv, NoBlankPassword, NEW i \in AdminId, Exists(i)
    PROVE  admins[i] \in Book!Account
  <1>1. admins[i] \in Row /\ admins[i].password # Blank
    BY DEF TypeInv, TypeOK, Exists, NoBlankPassword
  <1> QED
    BY <1>1 DEF Row, Book!Account

LEMMA BookStep ==
    ASSUME TypeInv, TypeInv', NoBlankPassword, RowsIssued, UniqueEmail \/ Looked, [Next]_vars
    PROVE  Book!Next \/ UNCHANGED <<Accounts, Issued>>
  <1>0. /\ admins \in [AdminId -> Row \cup {NoRow}] /\ nextId \in Nat \ {0} /\ MaxId \in Nat
        /\ nextId' \in 1..(MaxId + 1)
    BY ConstantsAssumption DEF TypeInv, TypeOK
  <1>1. ASSUME nextId' = nextId + 1
        PROVE  /\ nextId \in AdminId /\ nextId \notin Issued
               /\ Issued' = Issued \cup {nextId}
    BY <1>0, <1>1 DEF Issued
  <1>2. CASE UNCHANGED <<admins, nextId>>
    BY <1>2 DEF Accounts, Issued, Exists
  <1>3. CASE UNCHANGED admins /\ nextId' = nextId + 1
    <2>1. Accounts' = Accounts
      BY <1>3 DEF Accounts, Exists
    <2>2. Book!Waste(nextId)
      BY <1>1, <1>3, <2>1 DEF Book!Waste
    <2> QED
      BY <1>1, <1>3, <2>2 DEF Book!Next
  <1>4. ASSUME NEW r \in Slot, Inserts(r)
        PROVE  Book!Next
    <2> DEFINE a == [email |-> req[r].in.email, password |-> req[r].in.password]
    <2>1. a \in Book!Account /\ a # NoRow
      BY <1>4, WrittenRow DEF Inserts, Book!Account
    <2>2. ~Book!Has(a.email, nextId)
      <3>1. ~Taken(req[r].in.email, NoAdmin)
        BY <1>4 DEF Inserts, Violates, Looked, Busy, Idle
      <3>2. ~Taken(a.email, nextId)
        BY <3>1 DEF Taken
      <3> QED
        BY <3>2, <1>4, FreeAddress DEF Inserts
    <2>3. admins' = [admins EXCEPT ![nextId] = a] /\ nextId' = nextId + 1
      BY <1>4 DEF Inserts
    <2>4. {j \in AdminId : Exists(j)'} = {j \in AdminId : Exists(j)} \cup {nextId}
      BY <1>0, <1>1, <2>1, <2>3 DEF Exists
    <2>5. Accounts' = [j \in DOMAIN Accounts \cup {nextId} |->
                         IF j = nextId THEN a ELSE Accounts[j]]
      BY <1>0, <1>1, <2>3, <2>4 DEF Accounts
    <2>6. Book!Add(nextId, a)
      BY <1>1, <2>2, <2>3, <2>5 DEF Book!Add
    <2> QED
      BY <1>1, <2>1, <2>3, <2>6 DEF Book!Next
  <1>5. ASSUME NEW r \in Slot, Updates(r)
        PROVE  Book!Next
    <2> DEFINE i == req[r].in.target
    <2> DEFINE a == [email |-> req[r].in.email,
                     password |-> NewPassword(i, req[r].in.password)]
    <2>1. i \in AdminId /\ Exists(i) /\ req[r].in.email \in Email
      BY <1>5 DEF Updates
    <2>2. req[r].in.password \in Password \cup {Blank}
      <3>1. req[r].in \in Inputs /\ req[r].in.op = "edit"
        BY <1>5 DEF Updates, TypeInv, Staged, Busy
      <3> QED
        BY <3>1, InputFields
    <2>3. a \in Book!Account /\ a # NoRow
      <3>1. admins[i].password \in Password
        BY <2>1, WholeAccount DEF Book!Account
      <3> QED
        BY <2>1, <2>2, <3>1, WrittenRow DEF NewPassword, Book!Account
    <2>4. ~Book!Has(a.email, i)
      <3>1. ~Taken(req[r].in.email, i)
        BY <1>5 DEF Updates, Violates, Looked, Busy, Idle
      <3> QED
        BY <2>1, <3>1, FreeAddress
    <2>5. admins' = [admins EXCEPT ![i] = a] /\ nextId' = nextId
      BY <1>5 DEF Updates
    <2>6. {j \in AdminId : Exists(j)'} = {j \in AdminId : Exists(j)}
      BY <1>0, <2>1, <2>3, <2>5 DEF Exists
    <2>7. Accounts' = [Accounts EXCEPT ![i] = a]
      BY <1>0, <2>1, <2>5, <2>6 DEF Accounts
    <2>8. Book!Change(i, a)
      BY <2>1, <2>4, <2>5, <2>7 DEF Book!Change, Accounts, Issued
    <2> QED
      BY <2>1, <2>3, <2>8 DEF Book!Next
  <1>6. ASSUME NEW r \in Slot, Deletes(r)
        PROVE  Book!Next \/ UNCHANGED <<Accounts, Issued>>
    <2> DEFINE i == req[r].in.target
    <2>1. i \in AdminId /\ admins' = [admins EXCEPT ![i] = NoRow] /\ nextId' = nextId
      BY <1>6 DEF Deletes
    <2>2. {j \in AdminId : Exists(j)'} = {j \in AdminId : Exists(j)} \ {i}
      BY <1>0, <2>1 DEF Exists
    <2>3. Accounts' = [j \in DOMAIN Accounts \ {i} |-> Accounts[j]]
      BY <1>0, <2>1, <2>2 DEF Accounts
    <2>4. CASE Exists(i)
      <3>1. Book!Remove(i)
        BY <2>1, <2>3, <2>4 DEF Book!Remove, Accounts, Issued
      <3> QED
        BY <2>1, <3>1 DEF Book!Next
    <2>5. CASE ~Exists(i)
      BY <2>1, <2>3, <2>5 DEF Accounts, Issued
    <2> QED
      BY <2>4, <2>5
  <1> QED
    BY <1>2, <1>3, <1>4, <1>5, <1>6, TableChanges

\* The look-ups, writes and deletes of overlapping requests amount to single steps
\* of the account book, if the table has the constraint or requests do not overlap.
THEOREM AsIfAloneHolds ==
    ASSUME UniqueEmail \/ Serial
    PROVE  Spec => AsIfAlone
  <1> DEFINE Inv == /\ IdInv /\ NoBlankPassword /\ (UniqueEmail \/ Looked)
  <1>1. Init => Inv
    <2>1. Init => RowsIssued /\ SessionsIssued
      BY ConstantsAssumption DEF Init, RowsIssued, SessionsIssued, Exists, Anonymous,
         Busy, Idle, NoRow
    <2>2. Init => NoBlankPassword
      BY ConstantsAssumption DEF Init, NoBlankPassword, Exists
    <2> QED
      BY <2>1, <2>2, TypeInit, UniqueInit DEF IdInv
  <1>2. Inv /\ [Next]_vars => Inv'
    BY TypeStep, RowsIssuedStep, SessionsIssuedStep, NoBlankStep, LookedStep DEF IdInv
  <1>3. Inv /\ Inv' /\ [Next]_vars => [Book!Next]_<<Accounts, Issued>>
    BY BookStep DEF IdInv
  <1> QED
    BY <1>1, <1>2, <1>3, BookInit, PTL DEF Spec, AsIfAlone, Book!Spec

=============================================================================
