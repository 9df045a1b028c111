------------------------- MODULE IngestStoredProofs -------------------------
(***************************************************************************)
(* What IngestInterview stores: an interview whole or not at all, success  *)
(* told of what is stored, and the refinement of InterviewStore.           *)
(***************************************************************************)
EXTENDS IngestInterviewProofs, FiniteSetTheorems

-----------------------------------------------------------------------------
(* The invariant.                                                          *)

Rows == db \cup UNION {tx[w].rows : w \in Worker}

\* Serial ids are taken from the sequence and identify their row, also among the rows
\* that are not committed, which are in one place only.
IdsInv ==
    /\ \A r \in Rows : r.table \in Serials => r.id <= seq[r.table]
    /\ \A q, r \in Rows : q.table \in Serials /\ q.table = r.table /\ q.id = r.id => q = r
    /\ \A w \in Worker : \A r \in tx[w].rows : r.table \in Serials =>
          r \notin db /\ \A v \in Worker \ {w} : r \notin tx[v].rows
FiniteInv == IsFiniteSet(db) /\ \A w \in Worker : IsFiniteSet(tx[w].rows)

\* The interview in hand.
Current(w) == Work[w][Len(Work[w]) - Len(queue[w])]
WordRows(S) == {r \in S : r.table = "keywords"}
NoTexts(S) == \A r \in S : r.table \notin {"text_files", "keywords"}

\* The last statements are those of the keywords.
KeywordsLast(todo, iv) ==
    \A k \in 1..Len(todo) :
        IF k > Len(todo) - Len(iv.keywords)
        THEN todo[k] = Keyword(iv.keywords[k - (Len(todo) - Len(iv.keywords))])[1]
        ELSE todo[k].table # "keywords"
SeeksPerson(st) == st.op = "person" /\ st.var = "person"
Seeks(todo, iv) == \A k \in 1..Len(todo) : SeeksPerson(todo[k]) => todo[k].text = iv.name
Planned(todo, iv) == KeywordsLast(todo, iv) /\ Seeks(todo, iv)

\* The text is still to be inserted, and the interviewee was or will be found.
Ahead(t, iv) ==
    /\ NoTexts(t.rows) /\ Planned(t.todo, iv)
    /\ \E k \in 1..(Len(t.todo) - Len(iv.keywords)) :
          /\ t.todo[k] = TextFile(iv)[1]
          /\ \A j \in 1..Len(t.todo) : j # k => t.todo[j].table # "text_files"
    /\ Nameless(iv.name) => SeeksPerson(t.todo[1])
\* The keywords whose statement is over.
Done(t, iv) == {k \in Stated(iv) : k <= Len(iv.keywords) - Len(t.todo)}
\* The text is inserted, and so are the keywords whose statement is over.
Written(t, iv) ==
    /\ iv.summarised /\ ~Nameless(iv.name) /\ Planned(t.todo, iv)
    /\ \A j \in 1..Len(t.todo) : t.todo[j].table # "text_files"
    /\ \E r \in t.rows : r.table = "text_files" /\ r.text = iv.file /\ r.id = t.env["text"]
    /\ \A r \in t.rows : r.table = "text_files" => r.id = t.env["text"]
    /\ \A q \in WordRows(t.rows) : q.refs = <<t.env["text"]>>
    /\ Cardinality(WordRows(t.rows)) = Cardinality(Done(t, iv))
PassedOver(t, iv) == Nameless(iv.name) /\ t.todo = <<>> /\ NoTexts(t.rows)

PlanInv(w) ==
    tx[w].on =>
        /\ Len(queue[w]) < Len(Work[w]) /\ tx[w].file = Current(w).file
        /\ \/ Ahead(tx[w], Current(w)) \/ Written(tx[w], Current(w))
           \/ PassedOver(tx[w], Current(w))
\* Success is told of a stored text, or of an interview without a name.
ToldInv ==
    \A w \in Worker : \A file \in tx[w].said :
        \/ \E r \in db : r.table = "text_files" /\ r.text = file
        \/ \E k \in 1..Len(Work[w]) : Work[w][k].file = file /\ Nameless(Work[w][k].name)

SInv == IdsInv /\ FiniteInv /\ StoredWhole /\ ToldInv /\ \A w \in Worker : PlanInv(w)

-----------------------------------------------------------------------------
(* What a statement does.                                                  *)

\* It adds the rows N, at most one, to its transaction, which goes on with `next`.
Does(w, N, next) ==
    /\ db' = db /\ queue' = queue /\ \A v \in Worker \ {w} : tx'[v] = tx[v]
    /\ tx[w].on /\ tx'[w].on /\ tx'[w].file = tx[w].file /\ tx'[w].said = tx[w].said
    /\ tx'[w].todo = next /\ tx'[w].rows = tx[w].rows \cup N
    /\ \A q, r \in N : q = r
    /\ \A r \in N : r.table \in Serials => r.id = seq[r.table] + 1 /\ r.id = seq'[r.table]
    /\ \A t \in Serials : seq'[t] \in Nat /\ seq[t] <= seq'[t]
SameText(w) == tx'[w].env["text"] = tx[w].env["text"]

LEMMA AssignDoes ==
    ASSUME IInv, NEW w \in Worker, tx[w].on, NEW var \in Assigned, var # "text",
           NEW value \in Nat, NEW next \in Seq(Stmt), Assign(w, var, value, next)
    PROVE  Does(w, {}, next) /\ SameText(w)
  <1>1. /\ tx \in [Worker -> TxSet] /\ tx[w] \in TxSet /\ var \in Variable
        /\ "text" \in Variable /\ seq \in [Serials -> Nat]
    BY DEF IInv, Typed, Assigned, Variable
  <1> DEFINE u == [tx[w] EXCEPT !.env[var] = value, !.todo = next]
  <1>2. tx' = [tx EXCEPT ![w] = u]
    BY <1>1 DEF Assign, TxSet
  <1>3. /\ u.on = tx[w].on /\ u.rows = tx[w].rows /\ u.todo = next /\ u.file = tx[w].file
        /\ u.said = tx[w].said /\ u.env["text"] = tx[w].env["text"]
    BY <1>1 DEF TxSet
  <1> HIDE DEF u
  <1>4. tx'[w] = u /\ \A v \in Worker \ {w} : tx'[v] = tx[v]
    BY <1>1, <1>2
  <1>5. db' = db /\ queue' = queue /\ seq' = seq
    BY DEF Assign
  <1>6. \A t \in Serials : seq'[t] \in Nat /\ seq[t] <= seq'[t]
    BY <1>1, <1>5
  <1>7. Does(w, {}, next)
    BY <1>3, <1>4, <1>5, <1>6 DEF Does
  <1> QED
    BY <1>3, <1>4, <1>7 DEF SameText

LEMMA InsertRowDoes ==
    ASSUME IInv, NEW w \in Worker, tx[w].on, NEW table \in Serials, NEW text, NEW refs,
           NEW var \in Assigned, NEW next \in Seq(Stmt),
           InsertRow(w, table, text, refs, var, next)
    PROVE  /\ Does(w, {Row(table, seq[table] + 1, text, refs)}, next)
           /\ IF var = "text" THEN tx'[w].env["text"] = seq[table] + 1 ELSE SameText(w)
  <1>1. /\ tx \in [Worker -> TxSet] /\ tx[w] \in TxSet /\ var \in Variable
        /\ "text" \in Variable /\ seq \in [Serials -> Nat]
    BY DEF IInv, Typed, Assigned, Variable
  <1> DEFINE id == seq[table] + 1
             row == Row(table, id, text, refs)
             value == IF var = NoText THEN Null ELSE id
             u == [tx[w] EXCEPT !.rows = @ \cup {row}, !.env[var] = value, !.todo = next]
  <1>2. /\ tx' = [tx EXCEPT ![w] = u] /\ seq' = [seq EXCEPT ![table] = id]
        /\ db' = db /\ queue' = queue
    BY <1>1 DEF InsertRow, TxSet
  <1>3. /\ u.on = tx[w].on /\ u.rows = tx[w].rows \cup {row} /\ u.todo = next
        /\ u.file = tx[w].file /\ u.said = tx[w].said /\ u.env[var] = value
        /\ \A v \in Variable \ {var} : u.env[v] = tx[w].env[v]
    <2> HIDE DEF row, value
    <2> QED
      BY <1>1 DEF TxSet
  <1>4. row.table = table /\ row.id = id /\ id \in Nat
    BY <1>1 DEF Row
  <1>5. \A t \in Serials : seq'[t] \in Nat /\ seq[t] <= seq'[t]
    BY <1>1, <1>2
  <1>6. seq'[table] = id
    BY <1>1, <1>2
  <1>7. var = "text" => value = id
    BY DEF NoText
  <1> HIDE DEF u, row, value
  <1>8. tx'[w] = u /\ \A v \in Worker \ {w} : tx'[v] = tx[v]
    BY <1>1, <1>2
  <1>9. Does(w, {row}, next)
    BY <1>2, <1>3, <1>4, <1>5, <1>6, <1>8 DEF Does
  <1>10. IF var = "text" THEN tx'[w].env["text"] = id ELSE SameText(w)
    BY <1>1, <1>3, <1>7, <1>8 DEF SameText
  <1> QED
    BY <1>9, <1>10 DEF row

\* A name that is not found is created.
LEMMA GetOrCreateDoes ==
    ASSUME IInv, NEW w \in Worker, RunGetOrCreate(w)
    PROVE  \E N : /\ Does(w, N, Tail(tx[w].todo)) /\ SameText(w)
                  /\ \A r \in N : r.table \in Lookups /\ Named(w, r.table, r.text, r.refs) = {}
  <1> DEFINE st == Head(tx[w].todo)
             rest == Tail(tx[w].todo)
             refs == Value(w, st.refs)
             ids == Named(w, st.table, Canon[st.text], refs)
  <1>1. tx[w].on /\ rest \in Seq(Stmt) /\ st \in Creating
    BY ByOp DEF RunGetOrCreate
  <1>2. /\ st.table \in Lookups /\ st.table \in Serials /\ st.var \in Assigned
        /\ st.var # "text"
    BY <1>1 DEF Creating, Serials, Lookups, TableOf
  <1>3. CASE st.text \in Missing
    <2>1. Assign(w, st.var, Null, rest)
      BY <1>3 DEF RunGetOrCreate
    <2> HIDE DEF st, rest
    <2>2. Does(w, {}, rest) /\ SameText(w)
      BY <1>1, <1>2, <2>1, TxTypes, AssignDoes
    <2> QED
      BY <2>2 DEF rest
  <1>4. CASE st.text \notin Missing /\ ids # {}
    <2>1. PICK id \in ids : Assign(w, st.var, id, rest)
      BY <1>4 DEF RunGetOrCreate
    <2>2. id \in Nat
      BY <1>2, NamedHolds
    <2> HIDE DEF st, rest, ids
    <2>3. Does(w, {}, rest) /\ SameText(w)
      BY <1>1, <1>2, <2>1, <2>2, AssignDoes
    <2> QED
      BY <2>3 DEF rest
  <1>5. CASE st.text \notin Missing /\ ids = {}
    <2>1. InsertRow(w, st.table, Canon[st.text], refs, st.var, rest)
      BY <1>5 DEF RunGetOrCreate
    <2> DEFINE row == Row(st.table, seq[st.table] + 1, Canon[st.text], refs)
    <2>2. row.table = st.table /\ row.text = Canon[st.text] /\ row.refs = refs
      BY DEF Row
    <2>3. Does(w, {row}, rest) /\ SameText(w)
      <3> HIDE DEF st, rest, refs
      <3> QED
        BY <1>1, <1>2, <2>1, InsertRowDoes
    <2>4. Named(w, row.table, row.text, row.refs) = {}
      BY <1>5, <2>2
    <2> HIDE DEF row, rest, st
    <2>5. \A r \in {row} : r.table \in Lookups /\ Named(w, r.table, r.text, r.refs) = {}
      BY <1>2, <2>2, <2>4
    <2> QED
      BY <2>3, <2>5 DEF rest
  <1> QED
    BY <1>3, <1>4, <1>5

LEMMA GetDoes ==
    ASSUME IInv, NEW w \in Worker, RunGet(w)
    PROVE  Does(w, {}, Tail(tx[w].todo)) /\ SameText(w)
  <1> DEFINE st == Head(tx[w].todo)
             rest == Tail(tx[w].todo)
  <1>1. tx[w].on /\ rest \in Seq(Stmt) /\ st \in Getting
    BY ByOp DEF RunGet
  <1>2. st.table \in Serials /\ st.var = "level" /\ st.var \in Assigned /\ st.var # "text"
    BY <1>1 DEF Getting, Serials, Assigned, Variable
  <1>3. PICK id : /\ Assign(w, st.var, id, rest)
                  /\ id = Null \/ id \in Named(w, st.table, Canon[st.text], <<>>)
    BY DEF RunGet
  <1>4. id \in Nat
    BY <1>2, <1>3, NamedHolds, TxTypes
  <1> HIDE DEF st, rest
  <1>5. Does(w, {}, rest) /\ SameText(w)
    BY <1>1, <1>2, <1>3, <1>4, AssignDoes
  <1> QED
    BY <1>5 DEF rest

\* A person is found, or the statements that create it come next; without a name for the
\* interviewee nothing more is done.
PersonInsert(st) ==
    Statement("insert", "people", Canon[st.text],
              IF st.refs = <<>> THEN <<"none", "none">> ELSE <<"birthCountry", "birthCity">>,
              st.var)
LEMMA PersonDoes ==
    ASSUME IInv, NEW w \in Worker, RunPerson(w),
           NEW st, st = Head(tx[w].todo), NEW rest, rest = Tail(tx[w].todo)
    PROVE  /\ SameText(w)
           /\ \/ Nameless(st.text) /\ Does(w, {}, IF st.var = "person" THEN <<>> ELSE rest)
              \/ ~Nameless(st.text) /\ Does(w, {}, rest)
              \/ /\ ~Nameless(st.text) /\ Named(w, "people", Canon[st.text], <<>>) = {}
                 /\ (st.refs \o <<PersonInsert(st)>>) \in Seq(Stmt)
                 /\ Does(w, {}, (st.refs \o <<PersonInsert(st)>>) \o rest)
  <1> DEFINE ids == Named(w, "people", Canon[st.text], <<>>)
             front == st.refs \o <<PersonInsert(st)>>
  <1>1. tx[w].on /\ rest \in Seq(Stmt) /\ st \in Finding
    BY ByOp DEF RunPerson
  <1>2. /\ st.text \in Text /\ st.refs \in Seq(Creating) /\ st.var \in {"person", "other"}
        /\ st.var \in Assigned /\ st.var # "text"
    BY <1>1 DEF Finding, Assigned, Variable
  <1>3. CASE Nameless(st.text)
    <2> DEFINE next == IF st.var = "person" THEN <<>> ELSE rest
    <2>1. Assign(w, st.var, Null, next)
      BY <1>3 DEF RunPerson
    <2>2. next \in Seq(Stmt)
      BY <1>1
    <2> HIDE DEF next
    <2>3. Does(w, {}, next) /\ SameText(w)
      BY <1>1, <1>2, <2>1, <2>2, TxTypes, AssignDoes
    <2> QED
      BY <1>3, <2>3 DEF next
  <1>4. CASE ~Nameless(st.text) /\ ids # {}
    <2>1. PICK id \in ids : Assign(w, st.var, id, rest)
      BY <1>4 DEF RunPerson
    <2>2. id \in Nat
      BY NamedHolds, SerialTables
    <2>3. Does(w, {}, rest) /\ SameText(w)
      BY <1>1, <1>2, <2>1, <2>2, AssignDoes
    <2> QED
      BY <1>4, <2>3
  <1>5. CASE ~Nameless(st.text) /\ ids = {}
    <2>1. Assign(w, "none", Null, st.refs \o <<PersonInsert(st)>> \o rest)
      BY <1>5 DEF RunPerson, Continue, PersonInsert
    <2>2. st.refs \in Seq(Stmt)
      <3>1. Creating \subseteq Stmt
        BY DEF Stmt, Plain
      <3> QED
        BY <1>2, <3>1, SeqMonotonic
    <2>3. PersonInsert(st) \in Stmt
      <3>1. Canon[st.text] \in AnyText
        BY <1>2, <1>5, CanonText DEF Nameless
      <3>2. /\ <<"none", "none">> \in Seq(Variable) /\ Fits(<<"none", "none">>, "people")
            /\ <<"birthCountry", "birthCity">> \in Seq(Variable)
            /\ Fits(<<"birthCountry", "birthCity">>, "people")
        BY DEF Variable, Fits, References, TableOf
      <3>3. TableOf(st.var) = "people"
        BY <1>2 DEF TableOf
      <3> DEFINE refs == IF st.refs = <<>> THEN <<"none", "none">>
                         ELSE <<"birthCountry", "birthCity">>
      <3>4. refs \in Seq(Variable) /\ Fits(refs, "people")
        BY <3>2
      <3> HIDE DEF refs
      <3>5. Insert("people", Canon[st.text], refs, st.var) \in Inserting
        BY <1>2, <3>1, <3>3, <3>4, InsertingIs, SerialTables
      <3> QED
        BY <3>5 DEF refs, Insert, PersonInsert, Stmt, Plain
    <2>4. front \in Seq(Stmt)
      <3>1. <<PersonInsert(st)>> \in Seq(Stmt)
        BY <2>3
      <3> HIDE DEF front
      <3> QED
        BY <2>2, <3>1, Joined DEF front
    <2>5. Assign(w, "none", Null, front \o rest)
      BY <2>1
    <2> HIDE DEF front
    <2>6. front \o rest \in Seq(Stmt)
      BY <1>1, <2>4, Joined
    <2>7. Does(w, {}, front \o rest) /\ SameText(w)
      BY <1>1, <2>5, <2>6, NoTextIs, TxTypes, AssignDoes
    <2> QED
      BY <1>5, <2>4, <2>7 DEF front
  <1> QED
    BY <1>3, <1>4, <1>5

\* A row is inserted, or the entry is skipped.
Inserts(w, st, N) ==
    /\ Does(w, N, Tail(tx[w].todo))
    /\ (N = {} <=> Skipped(st, Value(w, st.refs)))
    /\ \A r \in N : /\ r.table = st.table /\ r.text = st.text /\ r.refs = Value(w, st.refs)
                    /\ IF st.var = "text" THEN tx'[w].env["text"] = r.id ELSE SameText(w)
    /\ N = {} => SameText(w)
LEMMA InsertDoes ==
    ASSUME IInv, NEW w \in Worker, RunInsert(w), NEW st, st = Head(tx[w].todo)
    PROVE  \E N : Inserts(w, st, N)
  <1> DEFINE rest == Tail(tx[w].todo)
             refs == Value(w, st.refs)
  <1>1. tx[w].on /\ rest \in Seq(Stmt) /\ st \in Inserting
    BY ByOp DEF RunInsert
  <1>2. st.table \in Serials /\ st.var \in Assigned
    BY <1>1 DEF Inserting
  <1>3. CASE Skipped(st, refs)
    <2>1. Assign(w, "none", Null, rest)
      BY <1>3 DEF RunInsert, Continue
    <2> HIDE DEF rest
    <2>2. Does(w, {}, rest) /\ SameText(w)
      BY <1>1, <2>1, NoTextIs, TxTypes, AssignDoes
    <2>3. Inserts(w, st, {})
      BY <1>3, <2>2 DEF Inserts, rest
    <2> QED
      BY <2>3
  <1>4. CASE ~Skipped(st, refs)
    <2>1. InsertRow(w, st.table, st.text, refs, st.var, rest)
      BY <1>4 DEF RunInsert
    <2> DEFINE row == Row(st.table, seq[st.table] + 1, st.text, refs)
    <2>2. /\ row.table = st.table /\ row.text = st.text /\ row.refs = refs
          /\ row.id = seq[st.table] + 1
      BY DEF Row
    <2>3. /\ Does(w, {row}, rest)
          /\ IF st.var = "text" THEN tx'[w].env["text"] = seq[st.table] + 1 ELSE SameText(w)
      <3> HIDE DEF rest, refs
      <3> QED
        BY <1>1, <1>2, <2>1, InsertRowDoes
    <2> HIDE DEF row, rest
    <2>4. Inserts(w, st, {row})
      BY <1>4, <2>2, <2>3 DEF Inserts, rest
    <2> QED
      BY <2>4
  <1> QED
    BY <1>3, <1>4

\* A statement that is not about a text, a keyword or the interviewee's name.
Quiet(st) == st.table \notin {"text_files", "keywords"} /\ ~SeeksPerson(st)
AllQuiet(front) == front \in Seq(Stmt) /\ \A k \in 1..Len(front) : Quiet(front[k])

LEMMA EmptyFront ==
    ASSUME NEW rest \in Seq(Stmt)
    PROVE  AllQuiet(<<>>) /\ <<>> \o rest = rest
  BY ConcatEmptySeq DEF AllQuiet

LEMMA RelateDoes ==
    ASSUME IInv, NEW w \in Worker, RunRelate(w)
    PROVE  /\ SameText(w)
           /\ \E front : /\ AllQuiet(front) /\ Does(w, {}, front \o Tail(tx[w].todo))
                         /\ \A k \in 1..Len(front) : front[k].op # "insert"
  <1> DEFINE st == Head(tx[w].todo)
             rest == Tail(tx[w].todo)
             c == GetOrCreate("relationships", st.text, <<>>, "relation")
             both == <<c, LinkOther>>
             front == IF Relates(w) THEN both ELSE <<>>
  <1>1. tx[w].on /\ rest \in Seq(Stmt) /\ st \in Relating
    BY ByOp DEF RunRelate
  <1>2. Assign(w, "none", Null, IF ~Relates(w) THEN rest ELSE both \o rest)
    BY DEF RunRelate, Continue, LinkOther
  <1>3. c \in Creating
    <2>1. st.text \in Text
      BY <1>1 DEF Relating
    <2>2. "relation" \in Assigned /\ TableOf("relation") = "relationships"
          /\ "relationships" \in Lookups \ {"cities"}
      BY DEF Assigned, Variable, TableOf, Lookups
    <2> QED
      BY <2>1, <2>2, NamesCreating
  <1>4. Quiet(c) /\ Quiet(LinkOther) /\ c.op # "insert" /\ LinkOther.op # "insert"
    BY DEF Quiet, SeeksPerson, GetOrCreate, LinkOther, Link, Statement
  <1> HIDE DEF c, st, rest
  <1>5. both \in Seq(Stmt) /\ Len(both) = 2 /\ both[1] = c /\ both[2] = LinkOther
    BY <1>3 DEF Stmt, Plain
  <1> HIDE DEF both
  <1>6. AllQuiet(front) /\ \A k \in 1..Len(front) : front[k].op # "insert"
    <2>1. \A k \in 1..2 : k = 1 \/ k = 2
      OBVIOUS
    <2>2. \A k \in 1..Len(both) : Quiet(both[k]) /\ both[k].op # "insert"
      BY <1>4, <1>5, <2>1
    <2>3. AllQuiet(both)
      BY <1>5, <2>2 DEF AllQuiet
    <2>4. AllQuiet(<<>>) /\ \A k \in 1..Len(<<>>) : <<>>[k].op # "insert"
      BY <1>1, EmptyFront
    <2> QED
      BY <2>2, <2>3, <2>4
  <1>7. Assign(w, "none", Null, front \o rest)
    BY <1>1, <1>2, ConcatEmptySeq
  <1>8. front \o rest \in Seq(Stmt)
    BY <1>1, <1>6, Joined DEF AllQuiet
  <1> HIDE DEF front
  <1>9. Does(w, {}, front \o rest) /\ SameText(w)
    BY <1>1, <1>7, <1>8, NoTextIs, TxTypes, AssignDoes
  <1> QED
    BY <1>6, <1>9 DEF rest

LEMMA LinkDoes ==
    ASSUME IInv, NEW w \in Worker, RunLink(w)
    PROVE  \E N : /\ Does(w, N, Tail(tx[w].todo)) /\ SameText(w)
                  /\ \A r \in N : r.table \in Links
  <1> DEFINE st == Head(tx[w].todo)
             row == LinkRow(w, st)
             present == \E q \in Visible(w) : SameKey(q, row)
             N == IF Unlinked(w, st) \/ present THEN {} ELSE {row}
             main == IF st.table = "people_cultures" /\ tx[w].env["mainCulture"] = Null
                     THEN tx[w].env["culture"] ELSE tx[w].env["mainCulture"]
             u == [tx[w] EXCEPT !.todo = Tail(@), !.rows = @ \cup N, !.env["mainCulture"] = main]
  <1>1. tx[w].on /\ st \in Linking \cup {LinkOther}
    BY ByOp DEF RunLink
  <1>2. row.table = st.table /\ row.table \in Links
    BY <1>1, LinkKinds DEF LinkRow, Row
  <1>3. tx \in [Worker -> TxSet] /\ tx[w] \in TxSet /\ "text" \in Variable \ {"mainCulture"}
    BY DEF IInv, Typed, Variable
  <1>4. tx' = [tx EXCEPT ![w] = u] /\ db' = db /\ queue' = queue /\ seq' = seq
    BY <1>3 DEF RunLink, TxSet
  <1>5. /\ u.on = tx[w].on /\ u.todo = Tail(tx[w].todo) /\ u.rows = tx[w].rows \cup N
        /\ u.file = tx[w].file /\ u.said = tx[w].said /\ u.env["text"] = tx[w].env["text"]
    <2> HIDE DEF N, main
    <2> QED
      BY <1>3 DEF TxSet
  <1> HIDE DEF u
  <1>6. tx'[w] = u /\ \A v \in Worker \ {w} : tx'[v] = tx[v]
    BY <1>3, <1>4
  <1>7. \A q, r \in N : q = r
    OBVIOUS
  <1>8. \A r \in N : r.table \in Links /\ r.table \notin Serials
    BY <1>2 DEF Links, Serials, Lookups
  <1>9. \A t \in Serials : seq'[t] \in Nat /\ seq[t] <= seq'[t]
    BY <1>4 DEF IInv, Typed
  <1> HIDE DEF N
  <1>10. Does(w, N, Tail(tx[w].todo)) /\ SameText(w)
    BY <1>1, <1>4, <1>5, <1>6, <1>7, <1>8, <1>9 DEF Does, SameText
  <1> QED
    BY <1>8, <1>10

-----------------------------------------------------------------------------
(* The statements by what they do to the text and its keywords.            *)

Runs(w) == \/ RunGetOrCreate(w) \/ RunGet(w) \/ RunPerson(w) \/ RunInsert(w)
           \/ RunRelate(w) \/ RunLink(w)

QuietStep(w, st, rest) ==
    /\ st.table \notin {"text_files", "keywords"} /\ SameText(w)
    /\ SeeksPerson(st) => ~Nameless(st.text)
    /\ \E N, front : NoTexts(N) /\ AllQuiet(front) /\ Does(w, N, front \o rest)
PassStep(w, st) ==
    SeeksPerson(st) /\ Nameless(st.text) /\ SameText(w) /\ Does(w, {}, <<>>)
TextStep(w, st, rest) ==
    /\ st.op = "insert" /\ st.table = "text_files"
    /\ \E N, r : /\ Does(w, N, rest) /\ N = {r} /\ r.table = "text_files" /\ r.text = st.text
                 /\ st.var = "text" => tx'[w].env["text"] = r.id
WordStep(w, st, rest) ==
    /\ st.op = "insert" /\ st.table = "keywords" /\ SameText(w)
    /\ \E N : /\ Does(w, N, rest) /\ (N = {} <=> st.text \in Missing)
              /\ \A r \in N : r.table = "keywords" /\ r.refs = Value(w, st.refs)

LEMMA CreateQuiet ==
    ASSUME NEW st \in Finding, st.refs \o <<PersonInsert(st)>> \in Seq(Stmt)
    PROVE  AllQuiet(st.refs \o <<PersonInsert(st)>>)
  <1> DEFINE S == Creating \cup {PersonInsert(st)}
             u == st.refs \o <<PersonInsert(st)>>
  <1>1. st.refs \in Seq(S)
    <2>1. st.refs \in Seq(Creating) /\ Creating \subseteq S
      BY DEF Finding
    <2> QED
      BY <2>1, SeqMonotonic
  <1>2. \A s \in S : Quiet(s)
    BY DEF Quiet, SeeksPerson, Creating, PersonInsert, Statement, Lookups
  <1>3. <<PersonInsert(st)>> \in Seq(S)
    OBVIOUS
  <1> HIDE DEF S
  <1>4. u \in Seq(S)
    BY <1>1, <1>3, Joined
  <1> HIDE DEF u
  <1>5. \A k \in 1..Len(u) : u[k] \in S
    BY <1>4, ElementOfSeq
  <1>6. u \in Seq(Stmt)
    BY DEF u
  <1>7. AllQuiet(u)
    BY <1>2, <1>5, <1>6 DEF AllQuiet
  <1> QED
    BY <1>7 DEF u

LEMMA Stepped ==
    ASSUME IInv, NEW w \in Worker, Runs(w),
           NEW st, st = Head(tx[w].todo), NEW rest, rest = Tail(tx[w].todo)
    PROVE  \/ QuietStep(w, st, rest) \/ PassStep(w, st)
           \/ TextStep(w, st, rest) \/ WordStep(w, st, rest)
  <1> DEFINE ids == {"text_files", "keywords"}
  <1>1. /\ st.op = "getOrCreate" => st \in Creating
        /\ st.op = "get" => st \in Getting
        /\ st.op = "person" => st \in Finding
        /\ st.op = "insert" => st \in Inserting
        /\ st.op = "relate" => st \in Relating
        /\ st.op = "link" => st \in Linking \cup {LinkOther}
        /\ rest \in Seq(Stmt)
    BY ByOp DEF Runs, RunGetOrCreate, RunGet, RunPerson, RunInsert, RunRelate, RunLink, Running
  <1>2. AllQuiet(<<>>) /\ <<>> \o rest = rest /\ NoTexts({})
    BY <1>1, EmptyFront DEF NoTexts
  <1>3. CASE RunGetOrCreate(w)
    <2>1. PICK N : /\ Does(w, N, rest) /\ SameText(w)
                   /\ \A r \in N : r.table \in Lookups
      BY <1>3, GetOrCreateDoes
    <2>2. st.op = "getOrCreate" /\ NoTexts(N)
      BY <1>3, <2>1 DEF RunGetOrCreate, Running, NoTexts, Lookups
    <2>3. st.table \notin ids /\ ~SeeksPerson(st)
      BY <1>1, <2>2 DEF Creating, SeeksPerson, Lookups
    <2> QED
      BY <1>2, <2>1, <2>2, <2>3 DEF QuietStep
  <1>4. CASE RunGet(w)
    <2>1. Does(w, {}, rest) /\ SameText(w)
      BY <1>4, GetDoes
    <2>2. st.op = "get"
      BY <1>4 DEF RunGet, Running
    <2>3. st.table \notin ids /\ ~SeeksPerson(st)
      BY <1>1, <2>2 DEF Getting, SeeksPerson, Lookups
    <2> QED
      BY <1>2, <2>1, <2>3 DEF QuietStep
  <1>5. CASE RunPerson(w)
    <2>1. st.op = "person"
      BY <1>5 DEF RunPerson, Running
    <2>2. st.table \notin ids /\ st \in Finding
      BY <1>1, <2>1 DEF Finding
    <2>3. SameText(w)
      BY <1>5, PersonDoes
    <2>4. CASE Nameless(st.text) /\ Does(w, {}, IF st.var = "person" THEN <<>> ELSE rest)
      <3>1. CASE st.var = "person"
        BY <2>1, <2>3, <2>4, <3>1 DEF PassStep, SeeksPerson
      <3>2. CASE st.var # "person"
        BY <1>2, <2>2, <2>3, <2>4, <3>2 DEF QuietStep, SeeksPerson
      <3> QED
        BY <3>1, <3>2
    <2>5. CASE ~Nameless(st.text) /\ Does(w, {}, rest)
      BY <1>2, <2>2, <2>3, <2>5 DEF QuietStep
    <2>6. CASE /\ ~Nameless(st.text) /\ st.refs \o <<PersonInsert(st)>> \in Seq(Stmt)
               /\ Does(w, {}, (st.refs \o <<PersonInsert(st)>>) \o rest)
      <3>1. AllQuiet(st.refs \o <<PersonInsert(st)>>)
        BY <2>2, <2>6, CreateQuiet
      <3> QED
        BY <1>2, <2>2, <2>3, <2>6, <3>1 DEF QuietStep
    <2> QED
      BY <1>5, <2>4, <2>5, <2>6, PersonDoes
  <1>6. CASE RunInsert(w)
    <2> DEFINE refs == Value(w, st.refs)
    <2>0. PICK N : Inserts(w, st, N)
      BY <1>6, InsertDoes
    <2>1. /\ Does(w, N, rest)
          /\ (N = {} <=> Skipped(st, refs))
          /\ \A r \in N : /\ r.table = st.table /\ r.text = st.text /\ r.refs = refs
                          /\ IF st.var = "text" THEN tx'[w].env["text"] = r.id
                             ELSE SameText(w)
          /\ N = {} => SameText(w)
      BY <2>0 DEF Inserts
    <2>2. st.op = "insert" /\ st \in Inserting
      BY <1>1, <1>6 DEF RunInsert, Running
    <2>3. st.var = "text" => st.table = "text_files"
      BY <2>2 DEF Inserting, TableOf
    <2>4. CASE st.table = "text_files"
      <3>1. ~Skipped(st, refs)
        BY <2>4 DEF Skipped
      <3>2. PICK r : r \in N
        BY <2>1, <3>1
      <3>3. \A q1, q2 \in N : q1 = q2
        BY <2>1 DEF Does
      <3>4. N = {r}
        BY <3>2, <3>3
      <3> QED
        BY <2>1, <2>2, <2>4, <3>4 DEF TextStep
    <2>5. CASE st.table = "keywords"
      <3>1. Skipped(st, refs) <=> st.text \in Missing
        BY <2>5 DEF Skipped
      <3>2. SameText(w)
        BY <2>1, <2>3, <2>5
      <3> HIDE DEF refs
      <3>3. /\ Does(w, N, rest) /\ (N = {} <=> st.text \in Missing)
            /\ \A r \in N : r.table = "keywords" /\ r.refs = refs
        BY <2>1, <2>5, <3>1
      <3> QED
        BY <2>2, <2>5, <3>2, <3>3 DEF WordStep, refs
    <2>6. CASE st.table \notin ids
      <3>1. SameText(w) /\ NoTexts(N)
        BY <2>1, <2>3, <2>6 DEF NoTexts
      <3> QED
        BY <1>2, <2>1, <2>2, <2>6, <3>1 DEF QuietStep, SeeksPerson
    <2> QED
      BY <2>4, <2>5, <2>6
  <1>7. CASE RunRelate(w)
    <2>1. st.op = "relate"
      BY <1>7 DEF RunRelate, Running
    <2>2. st.table \notin ids /\ ~SeeksPerson(st)
      BY <1>1, <2>1 DEF Relating, SeeksPerson
    <2>3. SameText(w) /\ \E front : AllQuiet(front) /\ Does(w, {}, front \o rest)
      BY <1>7, RelateDoes
    <2> QED
      BY <1>2, <2>2, <2>3 DEF QuietStep
  <1>8. CASE RunLink(w)
    <2>1. st.op = "link"
      BY <1>8 DEF RunLink, Running
    <2>2. st.table \in Links /\ ~SeeksPerson(st)
      BY <1>1, <2>1, LinkKinds DEF SeeksPerson
    <2>3. PICK N : /\ Does(w, N, rest) /\ SameText(w) /\ \A r \in N : r.table \in Links
      BY <1>8, LinkDoes
    <2>4. st.table \notin ids /\ NoTexts(N)
      BY <2>2, <2>3 DEF Links, NoTexts
    <2> QED
      BY <1>2, <2>2, <2>3, <2>4 DEF QuietStep
  <1> QED
    BY <1>3, <1>4, <1>5, <1>6, <1>7, <1>8 DEF Runs

LEMMA SomeDoes ==
    ASSUME IInv, NEW w \in Worker, Runs(w)
    PROVE  \E N, next : Does(w, N, next)
  <1> DEFINE st == Head(tx[w].todo)
             rest == Tail(tx[w].todo)
  <1>1. QuietStep(w, st, rest) \/ PassStep(w, st) \/ TextStep(w, st, rest) \/ WordStep(w, st, rest)
    BY Stepped
  <1>2. CASE QuietStep(w, st, rest)
    BY <1>2 DEF QuietStep
  <1>3. CASE PassStep(w, st)
    BY <1>3 DEF PassStep
  <1>4. CASE TextStep(w, st, rest)
    BY <1>4 DEF TextStep
  <1>5. CASE WordStep(w, st, rest)
    BY <1>5 DEF WordStep
  <1> QED
    BY <1>1, <1>2, <1>3, <1>4, <1>5

-----------------------------------------------------------------------------
(* What is left to do.                                                     *)

\* The statement in hand is replaced by those of `front`.
LEMMA Shifted ==
    ASSUME NEW todo \in Seq(Stmt), todo # <<>>, NEW front \in Seq(Stmt),
           NEW next, next = front \o Tail(todo)
    PROVE  /\ Len(todo) \in Nat \ {0} /\ Len(front) \in Nat /\ next \in Seq(Stmt)
           /\ Len(next) = Len(front) + (Len(todo) - 1)
           /\ \A k \in 1..Len(next) :
                 \/ k \in 1..Len(front) /\ next[k] = front[k]
                 \/ /\ k > Len(front) /\ (k - Len(front)) + 1 \in 2..Len(todo)
                    /\ next[k] = todo[(k - Len(front)) + 1]
           /\ \A j \in 2..Len(todo) :
                 /\ Len(front) + (j - 1) \in 1..Len(next)
                 /\ next[Len(front) + (j - 1)] = todo[j]
  <1> DEFINE rest == Tail(todo)
  <1>1. /\ Len(todo) \in Nat \ {0} /\ rest \in Seq(Stmt) /\ Len(rest) = Len(todo) - 1
        /\ \A k \in 1..(Len(todo) - 1) : rest[k] = todo[k + 1]
    BY HeadTailProperties, EmptySeq
  <1> HIDE DEF rest
  <1>2. next = front \o rest
    BY DEF rest
  <1>3. /\ next \in Seq(Stmt) /\ Len(front) \in Nat /\ Len(next) = Len(front) + Len(rest)
        /\ \A k \in 1..Len(front) : next[k] = front[k]
        /\ \A k \in 1..Len(rest) : next[Len(front) + k] = rest[k]
        /\ \A k \in 1..Len(next) : k <= Len(front) \/ k - Len(front) \in 1..Len(rest)
    BY <1>1, <1>2, Concatenated
  <1>4. ASSUME NEW k \in 1..Len(next)
        PROVE  \/ k \in 1..Len(front) /\ next[k] = front[k]
               \/ /\ k > Len(front) /\ (k - Len(front)) + 1 \in 2..Len(todo)
                  /\ next[k] = todo[(k - Len(front)) + 1]
    <2>1. CASE k <= Len(front)
      BY <1>3, <2>1
    <2>2. CASE k - Len(front) \in 1..Len(rest)
      <3>1. /\ k > Len(front) /\ (k - Len(front)) + 1 \in 2..Len(todo)
            /\ Len(front) + (k - Len(front)) = k /\ k - Len(front) \in 1..(Len(todo) - 1)
        BY <1>1, <1>3, <2>2
      <3>2. next[k] = rest[k - Len(front)]
        BY <1>3, <2>2, <3>1
      <3> QED
        BY <1>1, <3>1, <3>2
    <2> QED
      BY <1>3, <2>1, <2>2
  <1>5. ASSUME NEW j \in 2..Len(todo)
        PROVE  /\ Len(front) + (j - 1) \in 1..Len(next)
               /\ next[Len(front) + (j - 1)] = todo[j]
    <2>1. /\ j - 1 \in 1..Len(rest) /\ j - 1 \in 1..(Len(todo) - 1) /\ (j - 1) + 1 = j
          /\ Len(front) + (j - 1) \in 1..Len(next)
      BY <1>1, <1>3
    <2> QED
      BY <1>1, <1>3, <2>1
  <1> QED
    BY <1>1, <1>3, <1>4, <1>5

LEMMA KeywordIs ==
    ASSUME NEW text
    PROVE  /\ Keyword(text)[1].table = "keywords" /\ Keyword(text)[1].op = "insert"
           /\ Keyword(text)[1].text = text /\ Keyword(text)[1].refs = <<"text">>
  BY DEF Keyword, Insert, Statement

LEMMA PlannedKept ==
    ASSUME NEW todo \in Seq(Stmt), todo # <<>>, NEW front, AllQuiet(front),
           NEW next, next = front \o Tail(todo),
           NEW iv, Len(iv.keywords) \in Nat, Planned(todo, iv),
           front = <<>> \/ todo[1].table # "keywords"
    PROVE  Planned(next, iv)
  <1> DEFINE n == Len(iv.keywords)
             m == Len(todo)
             f == Len(front)
  <1>1. /\ front \in Seq(Stmt)
        /\ \A k \in 1..f : front[k].table # "keywords" /\ ~SeeksPerson(front[k])
    BY DEF AllQuiet, Quiet
  <1>2. /\ m \in Nat \ {0} /\ f \in Nat /\ Len(next) = f + (m - 1)
        /\ \A k \in 1..Len(next) :
              \/ k \in 1..f /\ next[k] = front[k]
              \/ k > f /\ (k - f) + 1 \in 2..m /\ next[k] = todo[(k - f) + 1]
    BY <1>1, Shifted
  <1>3. \A k \in 1..m :
           IF k > m - n THEN todo[k] = Keyword(iv.keywords[k - (m - n)])[1]
           ELSE todo[k].table # "keywords"
    BY DEF Planned, KeywordsLast
  <1>4. f = 0 \/ m > n
    <2>1. CASE front = <<>>
      BY <2>1, EmptySeq, <1>1
    <2>2. CASE todo[1].table # "keywords"
      <3>1. 1 \in 1..m
        BY <1>2
      <3>2. \E text : 1 > m - n => todo[1] = Keyword(text)[1]
        BY <1>3, <3>1
      <3>3. ~(1 > m - n)
        BY <2>2, <3>2, KeywordIs
      <3>4. m \in Nat \ {0} /\ n \in Nat
        BY <1>2
      <3> HIDE DEF m, n
      <3> QED
        BY <3>3, <3>4
    <2> QED
      BY <2>1, <2>2
  <1>5. n \in Nat
    OBVIOUS
  <1> HIDE DEF m, n, f
  <1>6. ASSUME NEW k \in 1..Len(next)
        PROVE  /\ IF k > Len(next) - n
                  THEN next[k] = Keyword(iv.keywords[k - (Len(next) - n)])[1]
                  ELSE next[k].table # "keywords"
               /\ SeeksPerson(next[k]) => next[k].text = iv.name
    <2>1. CASE k \in 1..f /\ next[k] = front[k]
      <3>1. ~(k > Len(next) - n)
        BY <1>2, <1>4, <1>5, <2>1
      <3> QED
        BY <1>1, <2>1, <3>1 DEF f
    <2>2. CASE k > f /\ (k - f) + 1 \in 2..m /\ next[k] = todo[(k - f) + 1]
      <3> DEFINE j == (k - f) + 1
      <3>1. j \in 1..m
        BY <1>2, <2>2
      <3>2. j - (m - n) = k - (Len(next) - n) /\ (j > m - n <=> k > Len(next) - n)
        <4>1. Len(next) = f + (m - 1) /\ k \in Nat /\ f \in Nat /\ m \in Nat \ {0}
          BY <1>2
        <4>2. j = (k - f) + 1
          OBVIOUS
        <4> HIDE DEF j
        <4>3. j > m - n <=> k > (f + (m - 1)) - n
          BY <1>5, <4>1, <4>2
        <4>4. j - (m - n) = k - ((f + (m - 1)) - n)
          BY <1>5, <4>1, <4>2
        <4> QED
          BY <4>1, <4>3, <4>4
      <3>3. SeeksPerson(todo[j]) => todo[j].text = iv.name
        BY <3>1 DEF Planned, Seeks, m
      <3> HIDE DEF j
      <3>4. next[k] = todo[j]
        BY <2>2 DEF j
      <3> QED
        BY <1>3, <3>1, <3>2, <3>3, <3>4
    <2> QED
      BY <1>2, <2>1, <2>2
  <1> QED
    BY <1>6 DEF Planned, KeywordsLast, Seeks, n

\* What remains when no keyword is in hand, and that keywords remain.
LEMMA PlaceInHand ==
    ASSUME NEW todo \in Seq(Stmt), todo # <<>>,
           NEW iv, Len(iv.keywords) \in Nat, KeywordsLast(todo, iv)
    PROVE  /\ todo[1].table # "keywords" <=> Len(todo) > Len(iv.keywords)
           /\ Len(todo) <= Len(iv.keywords) =>
                 todo[1] = Keyword(iv.keywords[(Len(iv.keywords) - Len(todo)) + 1])[1]
  <1> DEFINE n == Len(iv.keywords)
             m == Len(todo)
  <1>1. m \in Nat \ {0}
    BY EmptySeq
  <1>2. IF 1 > m - n THEN todo[1] = Keyword(iv.keywords[1 - (m - n)])[1]
        ELSE todo[1].table # "keywords"
    <2>1. 1 \in 1..m
      BY <1>1
    <2> QED
      BY <2>1 DEF KeywordsLast
  <1>3. n \in Nat
    OBVIOUS
  <1> HIDE DEF m, n
  <1>4. (1 > m - n <=> ~(m > n)) /\ (m <= n <=> ~(m > n)) /\ 1 - (m - n) = (n - m) + 1
    BY <1>1, <1>3
  <1>5. todo[1].table # "keywords" <=> m > n
    BY <1>2, <1>4, KeywordIs
  <1>6. m <= n => todo[1] = Keyword(iv.keywords[(n - m) + 1])[1]
    BY <1>2, <1>4
  <1> QED
    BY <1>5, <1>6 DEF m, n

LEMMA TextIs ==
    ASSUME NEW iv
    PROVE  /\ TextFile(iv)[1].table = "text_files" /\ TextFile(iv)[1].op \in {"insert", "violate"}
           /\ TextFile(iv)[1].text = iv.file
           /\ TextFile(iv)[1].op = "insert" => iv.summarised /\ TextFile(iv)[1].var = "text"
  BY DEF TextFile, Insert, Statement

\* No keyword is over while other statements are left.
LEMMA NoneDone ==
    ASSUME NEW iv, NEW S, iv.keywords \in Seq(S), NEW t, Len(t.todo) \in Nat,
           Len(t.todo) >= Len(iv.keywords)
    PROVE  Done(t, iv) = {}
  <1>1. Len(iv.keywords) \in Nat /\ DOMAIN iv.keywords = 1..Len(iv.keywords)
    OBVIOUS
  <1>2. \A k \in Stated(iv) : k \in 1..Len(iv.keywords)
    BY <1>1 DEF Stated
  <1>3. \A k \in 1..Len(iv.keywords) : ~(k <= Len(iv.keywords) - Len(t.todo))
    BY <1>1
  <1> QED
    BY <1>2, <1>3 DEF Done

\* Quiet statements change the plan by what they put in front.
LEMMA AheadQuiet ==
    ASSUME NEW t, t.todo \in Seq(Stmt), t.todo # <<>>, t.todo[1].table # "text_files",
           NEW front, AllQuiet(front), NEW N, NoTexts(N),
           NEW u, u.todo = front \o Tail(t.todo), u.rows = t.rows \cup N,
           NEW iv, Len(iv.keywords) \in Nat, Ahead(t, iv), ~Nameless(iv.name)
    PROVE  Ahead(u, iv)
  <1> DEFINE n == Len(iv.keywords)
             m == Len(t.todo)
             f == Len(front)
             l == Len(u.todo)
             text == TextFile(iv)[1]
  <1>1. PICK k \in 1..(m - n) :
           t.todo[k] = text /\ \A j \in 1..m : j # k => t.todo[j].table # "text_files"
    BY DEF Ahead
  <1>2. /\ m \in Nat \ {0} /\ f \in Nat /\ l = f + (m - 1)
        /\ \A i \in 1..l :
              \/ i \in 1..f /\ u.todo[i] = front[i]
              \/ i > f /\ (i - f) + 1 \in 2..m /\ u.todo[i] = t.todo[(i - f) + 1]
        /\ \A j \in 2..m : f + (j - 1) \in 1..l /\ u.todo[f + (j - 1)] = t.todo[j]
    BY Shifted DEF AllQuiet
  <1>3. \A i \in 1..f : front[i].table # "text_files"
    BY DEF AllQuiet, Quiet
  <1>4. text.table = "text_files"
    BY TextIs
  <1>5. m > n
    <2>1. k \in 1..(m - n) /\ n \in Nat /\ m \in Nat
      BY <1>2
    <2> HIDE DEF m, n
    <2> QED
      BY <2>1
  <1>6. Planned(u.todo, iv)
    <2>1. KeywordsLast(t.todo, iv) /\ Planned(t.todo, iv)
      BY DEF Ahead, Planned
    <2>2. t.todo[1].table # "keywords"
      BY <1>5, <2>1, PlaceInHand
    <2> QED
      BY <2>1, <2>2, PlannedKept
  <1>7. NoTexts(u.rows)
    BY DEF Ahead, NoTexts
  <1>8. n \in Nat
    OBVIOUS
  <1> HIDE DEF m, n, f, l, text
  <1>9. k \in 2..m
    <2>1. k # 1
      BY <1>1, <1>4
    <2> QED
      BY <1>2, <1>5, <1>8, <2>1
  <1> DEFINE p == f + (k - 1)
  <1>10. p \in 1..l /\ u.todo[p] = text
    BY <1>1, <1>2, <1>9
  <1>11. p \in 1..(l - n)
    <2>1. k <= m - n /\ k \in Nat /\ p = f + (k - 1)
      BY <1>2, <1>8, <1>9
    <2> HIDE DEF p
    <2> QED
      BY <1>2, <1>8, <1>10, <2>1
  <1>12. ASSUME NEW i \in 1..l, i # p
         PROVE  u.todo[i].table # "text_files"
    <2>1. CASE i \in 1..f /\ u.todo[i] = front[i]
      BY <1>3, <2>1
    <2>2. CASE i > f /\ (i - f) + 1 \in 2..m /\ u.todo[i] = t.todo[(i - f) + 1]
      <3>1. (i - f) + 1 # k /\ (i - f) + 1 \in 1..m
        BY <1>2, <1>9, <1>12, <2>2
      <3> QED
        BY <1>1, <2>2, <3>1
    <2> QED
      BY <1>2, <2>1, <2>2
  <1> HIDE DEF p
  <1>13. \E q \in 1..(l - n) :
            u.todo[q] = text /\ \A i \in 1..l : i # q => u.todo[i].table # "text_files"
    BY <1>10, <1>11, <1>12
  <1> QED
    BY <1>6, <1>7, <1>13 DEF Ahead, l, n, text

LEMMA WrittenQuiet ==
    ASSUME NEW t, t.todo \in Seq(Stmt), t.todo # <<>>, t.todo[1].table # "keywords",
           NEW front, AllQuiet(front), NEW N, NoTexts(N),
           NEW u, u.todo = front \o Tail(t.todo), u.rows = t.rows \cup N,
           u.env["text"] = t.env["text"],
           NEW iv, NEW S, iv.keywords \in Seq(S), Written(t, iv)
    PROVE  Written(u, iv)
  <1>1. Len(iv.keywords) \in Nat
    OBVIOUS
  <1>2. Planned(t.todo, iv) /\ Len(t.todo) > Len(iv.keywords) /\ Planned(u.todo, iv)
    BY <1>1, PlaceInHand, PlannedKept DEF Written, Planned
  <1>3. /\ Len(t.todo) \in Nat \ {0} /\ Len(front) \in Nat
        /\ Len(u.todo) = Len(front) + (Len(t.todo) - 1)
        /\ \A i \in 1..Len(u.todo) :
              \/ i \in 1..Len(front) /\ u.todo[i] = front[i]
              \/ /\ i > Len(front) /\ (i - Len(front)) + 1 \in 2..Len(t.todo)
                 /\ u.todo[i] = t.todo[(i - Len(front)) + 1]
    BY Shifted DEF AllQuiet
  <1>4. Done(t, iv) = {} /\ Done(u, iv) = {}
    <2>1. /\ Len(u.todo) \in Nat /\ Len(u.todo) >= Len(iv.keywords)
          /\ Len(t.todo) >= Len(iv.keywords) /\ Len(t.todo) \in Nat
      BY <1>1, <1>2, <1>3
    <2> QED
      BY <2>1, NoneDone
  <1>5. WordRows(u.rows) = WordRows(t.rows)
    BY DEF WordRows, NoTexts
  <1>6. \A i \in 1..Len(u.todo) : u.todo[i].table # "text_files"
    <2>1. \A i \in 1..Len(front) : front[i].table # "text_files"
      BY DEF AllQuiet, Quiet
    <2>2. \A i \in 2..Len(t.todo) : t.todo[i].table # "text_files"
      BY <1>3 DEF Written
    <2> QED
      BY <1>3, <2>1, <2>2
  <1>7. \A r \in u.rows : r.table = "text_files" => r \in t.rows
    BY DEF NoTexts
  <1> QED
    BY <1>2, <1>4, <1>5, <1>6, <1>7 DEF Written

\* The text is inserted first, and nothing of the keywords is over yet.
LEMMA AheadWritten ==
    ASSUME NEW t, t.todo \in Seq(Stmt), t.todo # <<>>, t.todo[1].table = "text_files",
           t.todo[1].op = "insert", NEW r, r.table = "text_files", r.text = t.todo[1].text,
           NEW u, u.todo = Tail(t.todo), u.rows = t.rows \cup {r},
           t.todo[1].var = "text" => u.env["text"] = r.id,
           NEW iv, NEW S, iv.keywords \in Seq(S), Ahead(t, iv)
    PROVE  Written(u, iv)
  <1> DEFINE n == Len(iv.keywords)
             m == Len(t.todo)
  <1>1. PICK k \in 1..(m - n) :
           t.todo[k] = TextFile(iv)[1] /\ \A j \in 1..m : j # k => t.todo[j].table # "text_files"
    BY DEF Ahead
  <1>2. /\ m \in Nat \ {0} /\ n \in Nat /\ Len(u.todo) = m - 1 /\ 1 \in 1..m
        /\ \A i \in 1..(m - 1) : u.todo[i] = t.todo[i + 1]
    BY HeadTailProperties, EmptySeq
  <1>3. k = 1
    BY <1>1, <1>2
  <1>4. t.todo[1] = TextFile(iv)[1]
    BY <1>1, <1>3
  <1>5. iv.summarised /\ u.env["text"] = r.id /\ r.text = iv.file
    BY <1>4, TextIs
  <1>6. ~Nameless(iv.name)
    BY DEF Ahead, SeeksPerson
  <1>7. Planned(u.todo, iv)
    <2>1. Tail(t.todo) \in Seq(Stmt)
      BY HeadTailProperties
    <2>2. AllQuiet(<<>>) /\ u.todo = <<>> \o Tail(t.todo)
      BY <2>1, EmptyFront
    <2> QED
      BY <1>2, <2>2, PlannedKept DEF Ahead
  <1>8. \A i \in 1..Len(u.todo) : u.todo[i].table # "text_files"
    <2>1. \A i \in 1..(m - 1) : i + 1 \in 1..m /\ i + 1 # 1
      BY <1>2
    <2> QED
      BY <1>1, <1>2, <1>3, <2>1
  <1>9. Done(u, iv) = {}
    <2>1. m - n >= 1
      BY <1>1, <1>2
    <2>2. Len(u.todo) \in Nat /\ Len(u.todo) >= n
      BY <1>2, <2>1
    <2> QED
      BY <2>2, NoneDone
  <1>10. WordRows(u.rows) = {}
    BY DEF WordRows, Ahead, NoTexts
  <1>11. \A q \in u.rows : q.table = "text_files" => q = r
    BY DEF Ahead, NoTexts
  <1> QED
    BY <1>5, <1>6, <1>7, <1>8, <1>9, <1>10, <1>11 DEF Written

\* One more keyword is over, and its row is there if the interview states it.
LEMMA WrittenWord ==
    ASSUME NEW t, t.todo \in Seq(Stmt), t.todo # <<>>, t.todo[1].table = "keywords",
           NEW N, N = {} <=> t.todo[1].text \in Missing, \A q, r \in N : q = r,
           \A r \in N : r.table = "keywords" /\ r.refs = <<t.env["text"]>> /\ r \notin t.rows,
           IsFiniteSet(t.rows),
           NEW u, u.todo = Tail(t.todo), u.rows = t.rows \cup N,
           u.env["text"] = t.env["text"],
           NEW iv, NEW S, iv.keywords \in Seq(S), Written(t, iv)
    PROVE  Written(u, iv)
  <1> DEFINE n == Len(iv.keywords)
             m == Len(t.todo)
             j == (n - m) + 1
  <1>1. /\ m \in Nat \ {0} /\ n \in Nat /\ Len(u.todo) = m - 1
        /\ \A i \in 1..(m - 1) : u.todo[i] = t.todo[i + 1]
    BY HeadTailProperties, EmptySeq
  <1>2. m <= n /\ t.todo[1] = Keyword(iv.keywords[j])[1]
    <2>1. KeywordsLast(t.todo, iv)
      BY DEF Written, Planned
    <2>2. /\ t.todo[1].table # "keywords" <=> m > n
          /\ m <= n => t.todo[1] = Keyword(iv.keywords[j])[1]
      BY <1>1, <2>1, PlaceInHand
    <2> HIDE DEF m, n
    <2> QED
      BY <1>1, <2>2
  <1>3. t.todo[1].text = iv.keywords[j]
    <2>1. \A text : Keyword(text)[1].text = text
      BY KeywordIs
    <2> HIDE DEF j
    <2> QED
      BY <1>2, <2>1
  <1>4. j \in DOMAIN iv.keywords /\ DOMAIN iv.keywords = 1..n
    <2>1. DOMAIN iv.keywords = 1..n
      OBVIOUS
    <2> HIDE DEF m, n
    <2> QED
      BY <1>1, <1>2, <2>1
  <1>5. Planned(u.todo, iv)
    <2>1. Tail(t.todo) \in Seq(Stmt)
      BY HeadTailProperties
    <2>2. AllQuiet(<<>>) /\ u.todo = <<>> \o Tail(t.todo)
      BY <2>1, EmptyFront
    <2> QED
      BY <1>1, <2>2, PlannedKept DEF Written
  <1>6. \A i \in 1..Len(u.todo) : u.todo[i].table # "text_files"
    <2>1. \A i \in 1..(m - 1) : i + 1 \in 1..m
      BY <1>1
    <2> QED
      BY <1>1, <2>1 DEF Written
  <1>7. Done(u, iv) = Done(t, iv) \cup ({j} \cap Stated(iv)) /\ j \notin Done(t, iv)
    <2>1. Len(u.todo) = m - 1
      BY <1>1
    <2>2. \A k \in Stated(iv) : k \in 1..n
      BY <1>4 DEF Stated
    <2> HIDE DEF m, n
    <2>3. \A k \in 1..n : (k <= n - (m - 1) <=> k <= n - m \/ k = (n - m) + 1)
                          /\ (k = (n - m) + 1 => ~(k <= n - m))
      BY <1>1
    <2>4. ~((n - m) + 1 <= n - m)
      BY <1>1
    <2> QED
      BY <2>1, <2>2, <2>3, <2>4 DEF Done, n, m
  <1>8. IsFiniteSet(Done(t, iv)) /\ Cardinality(Done(t, iv)) \in Nat
    <2>1. Done(t, iv) \subseteq 1..n
      BY <1>4 DEF Done, Stated
    <2>2. IsFiniteSet(1..n)
      BY <1>1, FS_Interval
    <2> QED
      BY <2>1, <2>2, FS_Subset, FS_CardinalityType
  <1>9. IsFiniteSet(WordRows(t.rows))
    BY FS_Subset DEF WordRows
  <1>10. j \in Stated(iv) <=> N # {}
    BY <1>3, <1>4 DEF Stated
  <1> HIDE DEF j
  <1>11. Cardinality(WordRows(u.rows)) = Cardinality(Done(u, iv))
    <2>1. Cardinality(WordRows(t.rows)) = Cardinality(Done(t, iv))
      BY DEF Written
    <2>2. CASE N = {}
      <3>1. Done(u, iv) = Done(t, iv) /\ u.rows = t.rows
        BY <1>7, <1>10, <2>2
      <3> QED
        BY <2>1, <3>1
    <2>3. CASE N # {}
      <3>1. PICK r : r \in N
        BY <2>3
      <3>2. WordRows(u.rows) = WordRows(t.rows) \cup {r} /\ r \notin WordRows(t.rows)
        BY <3>1 DEF WordRows
      <3>3. Done(u, iv) = Done(t, iv) \cup {j}
        BY <1>7, <1>10, <2>3
      <3>4. Cardinality(WordRows(u.rows)) = Cardinality(WordRows(t.rows)) + 1
        BY <1>9, <3>2, FS_AddElement
      <3>5. Cardinality(Done(u, iv)) = Cardinality(Done(t, iv)) + 1
        BY <1>7, <1>8, <3>3, FS_AddElement
      <3> QED
        BY <2>1, <3>4, <3>5
    <2> QED
      BY <2>2, <2>3
  <1>12. /\ \A r \in u.rows : r.table = "text_files" => r \in t.rows
         /\ \A r \in WordRows(u.rows) : r.refs = <<t.env["text"]>>
    BY DEF Written, WordRows
  <1> QED
    BY <1>5, <1>6, <1>11, <1>12 DEF Written

-----------------------------------------------------------------------------
(* A statement keeps the invariant.                                        *)

LEMMA CurrentIs ==
    ASSUME IInv, NEW w \in Worker, tx[w].on, PlanInv(w)
    PROVE  /\ Current(w) \in Interview /\ Current(w).keywords \in Seq(Text)
           /\ Len(Work[w]) - Len(queue[w]) \in 1..Len(Work[w])
  <1>1. Work[w] \in Seq(Interview) /\ queue[w] \in Seq(Interview)
    BY WorkAssumption DEF IInv, Typed
  <1>2. Len(Work[w]) \in Nat /\ Len(queue[w]) \in Nat /\ Len(queue[w]) < Len(Work[w])
    BY <1>1 DEF PlanInv
  <1>3. Len(Work[w]) - Len(queue[w]) \in 1..Len(Work[w])
    <2> DEFINE a == Len(Work[w])
               b == Len(queue[w])
    <2>1. a \in Nat /\ b \in Nat /\ b < a
      BY <1>2
    <2> HIDE DEF a, b
    <2>2. a - b \in 1..a
      BY <2>1
    <2> QED
      BY <2>2 DEF a, b
  <1>4. Current(w) \in Interview
    BY <1>1, <1>3, ElementOfSeq DEF Current
  <1> QED
    BY <1>3, <1>4 DEF Interview

\* A row with a new id is nowhere yet.
LEMMA NewRows ==
    ASSUME IInv, IdsInv, NEW w \in Worker, NEW N, NEW next, Does(w, N, next),
           NEW q \in Rows, NEW r \in N, r.table \in Serials
    PROVE  q # r /\ ~(q.table = r.table /\ q.id = r.id)
  <1>1. r.id = seq[r.table] + 1 /\ seq[r.table] \in Nat
    BY DEF Does, IInv, Typed
  <1>2. q \in RowSet
    <2>1. CASE q \in db
      BY <2>1 DEF IInv, RowsInv, Sound, Formed
    <2>2. CASE q \notin db
      BY <2>2, TxTypes DEF Rows
    <2> QED
      BY <2>1, <2>2
  <1>3. q.table = r.table => q.id \in Nat /\ q.id <= seq[r.table]
    BY <1>2 DEF IdsInv, RowSet
  <1> QED
    BY <1>1, <1>3

LEMMA DoesRows ==
    ASSUME IInv, NEW w \in Worker, NEW N, NEW next, Does(w, N, next)
    PROVE  Rows' = Rows \cup N
  <1>1. db' = db /\ tx'[w].rows = tx[w].rows \cup N /\ \A v \in Worker \ {w} : tx'[v] = tx[v]
    BY DEF Does
  <1>2. UNION {tx'[v].rows : v \in Worker} = (UNION {tx[v].rows : v \in Worker}) \cup N
    BY <1>1
  <1> QED
    BY <1>1, <1>2 DEF Rows

LEMMA IdsStep ==
    ASSUME IInv, IdsInv, NEW w \in Worker, NEW N, NEW next, Does(w, N, next)
    PROVE  IdsInv'
  <1>1. /\ db' = db /\ tx'[w].rows = tx[w].rows \cup N
        /\ \A v \in Worker \ {w} : tx'[v] = tx[v]
        /\ \A q, r \in N : q = r
        /\ \A r \in N : r.table \in Serials => r.id = seq[r.table] + 1 /\ r.id = seq'[r.table]
        /\ \A t \in Serials : seq'[t] \in Nat /\ seq[t] <= seq'[t]
    BY DEF Does
  <1>2. Rows' = Rows \cup N
    BY DoesRows
  <1>3. ASSUME NEW q \in Rows, NEW r \in N, r.table \in Serials
        PROVE  q # r /\ ~(q.table = r.table /\ q.id = r.id)
    BY <1>3, NewRows
  <1>4. ASSUME NEW r \in Rows', r.table \in Serials
        PROVE  r.id <= seq'[r.table]
    <2>1. CASE r \in Rows
      <3>1. r.id \in Nat
        <4>1. CASE r \in db
          BY <4>1 DEF IInv, RowsInv, Sound, Formed, RowSet
        <4>2. CASE r \notin db
          BY <2>1, <4>2, TxTypes DEF Rows, RowSet
        <4> QED
          BY <4>1, <4>2
      <3>2. /\ r.id <= seq[r.table] /\ seq[r.table] \in Nat /\ seq'[r.table] \in Nat
            /\ seq[r.table] <= seq'[r.table]
        <4>1. seq[r.table] \in Nat
          BY <1>4 DEF IInv, Typed
        <4>2. r.id <= seq[r.table]
          BY <1>4, <2>1 DEF IdsInv
        <4>3. seq'[r.table] \in Nat /\ seq[r.table] <= seq'[r.table]
          BY <1>1, <1>4
        <4> QED
          BY <4>1, <4>2, <4>3
      <3> QED
        BY <3>1, <3>2
    <2>2. CASE r \in N
      BY <1>1, <1>4, <2>2
    <2> QED
      BY <1>2, <2>1, <2>2
  <1>5. ASSUME NEW q \in Rows', NEW r \in Rows', q.table \in Serials,
               q.table = r.table, q.id = r.id
        PROVE  q = r
    <2>1. CASE q \in Rows /\ r \in Rows
      BY <1>5, <2>1 DEF IdsInv
    <2>2. CASE q \in N /\ r \in N
      BY <1>1, <2>2
    <2>3. CASE q \in Rows /\ r \in N
      BY <1>3, <1>5, <2>3
    <2>4. CASE q \in N /\ r \in Rows
      BY <1>3, <1>5, <2>4
    <2> QED
      BY <1>2, <2>1, <2>2, <2>3, <2>4
  <1>6. ASSUME NEW v \in Worker, NEW r \in tx'[v].rows, r.table \in Serials
        PROVE  r \notin db' /\ \A u \in Worker \ {v} : r \notin tx'[u].rows
    <2>1. \A u \in Worker : tx[u].rows \subseteq Rows
      BY DEF Rows
    <2>2. db \subseteq Rows
      BY DEF Rows
    <2>3. CASE v # w
      <3>1. r \in tx[v].rows
        BY <1>1, <1>6, <2>3
      <3>2. r \notin db /\ \A u \in Worker \ {v} : r \notin tx[u].rows
        BY <1>6, <3>1 DEF IdsInv
      <3>3. r \notin N
        BY <1>3, <1>6, <2>1, <3>1
      <3> QED
        BY <1>1, <3>2, <3>3
    <2>4. CASE v = w /\ r \in tx[w].rows
      <3>1. r \notin db /\ \A u \in Worker \ {w} : r \notin tx[u].rows
        BY <1>6, <2>4 DEF IdsInv
      <3> QED
        BY <1>1, <2>4, <3>1
    <2>5. CASE v = w /\ r \in N
      <3>1. r \notin Rows
        BY <1>3, <1>6, <2>5
      <3> QED
        BY <1>1, <2>1, <2>2, <2>5, <3>1
    <2> QED
      BY <1>1, <1>6, <2>3, <2>4, <2>5
  <1>7. /\ \A r \in Rows' : r.table \in Serials => r.id <= seq'[r.table]
        /\ \A q, r \in Rows' : q.table \in Serials /\ q.table = r.table /\ q.id = r.id => q = r
    BY <1>4, <1>5
  <1> QED
    BY <1>6, <1>7 DEF IdsInv

LEMMA FiniteStep ==
    ASSUME FiniteInv, NEW w \in Worker, NEW N, NEW next, Does(w, N, next)
    PROVE  FiniteInv'
  <1>1. /\ db' = db /\ tx'[w].rows = tx[w].rows \cup N
        /\ \A v \in Worker \ {w} : tx'[v] = tx[v]
        /\ \A q, r \in N : q = r
    BY DEF Does
  <1>2. IsFiniteSet(tx'[w].rows)
    <2>1. CASE N = {}
      BY <1>1, <2>1 DEF FiniteInv
    <2>2. CASE N # {}
      <3>1. PICK r : r \in N
        BY <2>2
      <3>2. N = {r}
        BY <1>1, <3>1
      <3> QED
        BY <1>1, <3>2, FS_AddElement DEF FiniteInv
    <2> QED
      BY <2>1, <2>2
  <1>3. \A v \in Worker : IsFiniteSet(tx'[v].rows)
    BY <1>1, <1>2 DEF FiniteInv
  <1> QED
    BY <1>1, <1>3 DEF FiniteInv

LEMMA ValueText ==
    ASSUME NEW w \in Worker
    PROVE  Value(w, <<"text">>) = <<tx[w].env["text"]>>
  BY DEF Value

LEMMA PlanStep ==
    ASSUME IInv, SInv, NEW w \in Worker, Runs(w)
    PROVE  PlanInv(w)'
  <1> DEFINE st == Head(tx[w].todo)
             rest == Tail(tx[w].todo)
             iv == Current(w)
  <1>1. /\ tx[w].todo # <<>> /\ tx[w].todo \in Seq(Stmt) /\ st = tx[w].todo[1] /\ tx[w].on
        /\ rest \in Seq(Stmt)
    <2>1. tx[w].todo # <<>>
      BY DEF Runs, RunGetOrCreate, RunGet, RunPerson, RunInsert, RunRelate, RunLink, Running
    <2> QED
      BY <2>1, HeadIs, TxTypes
  <1>2. /\ Len(queue[w]) < Len(Work[w]) /\ tx[w].file = iv.file
        /\ Ahead(tx[w], iv) \/ Written(tx[w], iv) \/ PassedOver(tx[w], iv)
    BY <1>1 DEF SInv, PlanInv
  <1>3. iv \in Interview /\ iv.keywords \in Seq(Text) /\ Len(iv.keywords) \in Nat
    <2>1. iv \in Interview /\ iv.keywords \in Seq(Text)
      BY <1>1, CurrentIs DEF SInv
    <2> QED
      BY <2>1
  <1>4. ~PassedOver(tx[w], iv)
    BY <1>1 DEF PassedOver
  <1>5. SeeksPerson(st) => st.text = iv.name
    <2>1. 1 \in 1..Len(tx[w].todo)
      BY <1>1, EmptySeq
    <2> HIDE DEF iv, st
    <2>2. Seeks(tx[w].todo, iv)
      BY <1>2, <1>4 DEF Ahead, Written, Planned
    <2> QED
      BY <1>1, <2>1, <2>2 DEF Seeks
  <1>6. st.table = "text_files" => ~Written(tx[w], iv)
    <2>1. 1 \in 1..Len(tx[w].todo)
      BY <1>1, EmptySeq
    <2> HIDE DEF iv, st
    <2> QED
      BY <1>1, <2>1 DEF Written
  <1>7. st.table = "keywords" => ~Ahead(tx[w], iv)
    <2> SUFFICES ASSUME Ahead(tx[w], iv), st.table = "keywords" PROVE FALSE
      OBVIOUS
    <2> HIDE DEF iv, st
    <2>1. KeywordsLast(tx[w].todo, iv)
      BY DEF Ahead, Planned
    <2>2. ~(Len(tx[w].todo) > Len(iv.keywords))
      BY <1>1, <1>3, <2>1, PlaceInHand
    <2>3. PICK k \in 1..(Len(tx[w].todo) - Len(iv.keywords)) : TRUE
      BY DEF Ahead
    <2>4. Len(tx[w].todo) \in Nat
      BY <1>1
    <2> QED
      BY <1>3, <2>2, <2>3, <2>4
  <1>8. \A N, next : Does(w, N, next) =>
           /\ tx'[w].todo = next /\ tx'[w].rows = tx[w].rows \cup N
           /\ tx'[w].file = tx[w].file /\ queue' = queue /\ tx'[w].on
    BY DEF Does
  <1> HIDE DEF iv, st, rest
  <1>9. Ahead(tx'[w], iv) \/ Written(tx'[w], iv) \/ PassedOver(tx'[w], iv)
    <2>1. CASE QuietStep(w, st, rest)
      <3>1. PICK N, front : NoTexts(N) /\ AllQuiet(front) /\ Does(w, N, front \o rest)
        BY <2>1 DEF QuietStep
      <3>2. /\ tx'[w].todo = front \o Tail(tx[w].todo) /\ tx'[w].rows = tx[w].rows \cup N
            /\ tx'[w].env["text"] = tx[w].env["text"]
            /\ tx[w].todo[1].table # "text_files" /\ tx[w].todo[1].table # "keywords"
        BY <1>1, <1>8, <2>1, <3>1 DEF QuietStep, SameText, rest
      <3>3. CASE Ahead(tx[w], iv)
        <4>1. ~Nameless(iv.name)
          BY <1>1, <1>5, <2>1, <3>3 DEF QuietStep, Ahead
        <4> QED
          BY <1>1, <1>3, <3>1, <3>2, <3>3, <4>1, AheadQuiet
      <3>4. CASE Written(tx[w], iv)
        BY <1>1, <1>3, <3>1, <3>2, <3>4, WrittenQuiet
      <3> QED
        BY <1>2, <1>4, <3>3, <3>4
    <2>2. CASE PassStep(w, st)
      <3>1. Nameless(iv.name)
        BY <1>5, <2>2 DEF PassStep
      <3>2. Ahead(tx[w], iv)
        BY <1>2, <1>4, <3>1 DEF Written
      <3>3. tx'[w].todo = <<>> /\ tx'[w].rows = tx[w].rows
        <4>1. Does(w, {}, <<>>)
          BY <2>2 DEF PassStep
        <4>2. tx'[w].todo = <<>> /\ tx'[w].rows = tx[w].rows \cup {}
          BY <1>8, <4>1
        <4> QED
          BY <4>2
      <3> QED
        BY <3>1, <3>2, <3>3 DEF Ahead, PassedOver
    <2>3. CASE TextStep(w, st, rest)
      <3>1. PICK N, r : /\ Does(w, N, rest) /\ N = {r}
                        /\ r.table = "text_files" /\ r.text = st.text
                        /\ st.var = "text" => tx'[w].env["text"] = r.id
        BY <2>3 DEF TextStep
      <3>2. /\ tx'[w].todo = Tail(tx[w].todo) /\ tx'[w].rows = tx[w].rows \cup {r}
            /\ st.table = "text_files" /\ st.op = "insert"
        BY <1>8, <2>3, <3>1 DEF TextStep, rest
      <3>3. Ahead(tx[w], iv)
        BY <1>2, <1>4, <1>6, <3>2
      <3> QED
        BY <1>1, <1>3, <3>1, <3>2, <3>3, AheadWritten
    <2>4. CASE WordStep(w, st, rest)
      <3>1. PICK N : /\ Does(w, N, rest) /\ (N = {} <=> st.text \in Missing)
                     /\ \A r \in N : r.table = "keywords" /\ r.refs = Value(w, st.refs)
        BY <2>4 DEF WordStep
      <3>2. /\ tx'[w].todo = Tail(tx[w].todo) /\ tx'[w].rows = tx[w].rows \cup N
            /\ st.table = "keywords" /\ tx'[w].env["text"] = tx[w].env["text"]
        BY <1>8, <2>4, <3>1 DEF WordStep, rest, SameText
      <3>3. Written(tx[w], iv)
        BY <1>2, <1>4, <1>7, <3>2
      <3>4. st.refs = <<"text">>
        <4>1. KeywordsLast(tx[w].todo, iv)
          BY <3>3 DEF Written, Planned
        <4>2. /\ tx[w].todo[1].table # "keywords" <=> Len(tx[w].todo) > Len(iv.keywords)
              /\ Len(tx[w].todo) <= Len(iv.keywords) =>
                    tx[w].todo[1] =
                      Keyword(iv.keywords[(Len(iv.keywords) - Len(tx[w].todo)) + 1])[1]
          BY <1>1, <1>3, <4>1, PlaceInHand
        <4>3. Len(tx[w].todo) <= Len(iv.keywords)
          <5>1. ~(Len(tx[w].todo) > Len(iv.keywords)) /\ Len(tx[w].todo) \in Nat
            BY <1>1, <3>2, <4>2
          <5> QED
            BY <1>3, <5>1
        <4>4. \A text : Keyword(text)[1].refs = <<"text">>
          BY KeywordIs
        <4> QED
          BY <1>1, <4>2, <4>3, <4>4
      <3>5. \A r \in N : r.refs = <<tx[w].env["text"]>>
        BY <3>1, <3>4, ValueText
      <3>6. \A q, r \in N : q = r
        BY <3>1 DEF Does
      <3>7. \A r \in N : r \notin tx[w].rows
        <4>1. tx[w].rows \subseteq Rows
          BY DEF Rows
        <4>2. \A q \in Rows, r \in N : r.table \in Serials => q # r
          BY <3>1, NewRows DEF SInv
        <4> QED
          BY <3>1, <4>1, <4>2, SerialTables
      <3>8. IsFiniteSet(tx[w].rows)
        BY DEF SInv, FiniteInv
      <3> QED
        BY <1>1, <1>3, <3>1, <3>2, <3>3, <3>5, <3>6, <3>7, <3>8, WrittenWord
    <2> QED
      BY <2>1, <2>2, <2>3, <2>4, Stepped DEF st, rest
  <1>10. queue' = queue /\ tx'[w].file = tx[w].file /\ tx'[w].on
    BY <1>8, SomeDoes
  <1>11. Current(w)' = iv
    BY <1>10 DEF Current, iv
  <1> QED
    BY <1>2, <1>9, <1>10, <1>11 DEF PlanInv, iv

\* Nothing new is committed, and nothing new is told.
LEMMA ToldKept ==
    ASSUME SInv, db' = db, \A v \in Worker : tx'[v].said = tx[v].said
    PROVE  StoredWhole' /\ ToldInv'
  <1>1. StoredWhole'
    BY DEF SInv, StoredWhole
  <1>2. ToldInv'
    BY DEF SInv, ToldInv
  <1> QED
    BY <1>1, <1>2

LEMMA RunKeeps ==
    ASSUME IInv, SInv, NEW w \in Worker, Runs(w)
    PROVE  SInv'
  <1>1. PICK N, next : Does(w, N, next)
    BY SomeDoes
  <1>2. /\ db' = db /\ queue' = queue /\ \A v \in Worker \ {w} : tx'[v] = tx[v]
        /\ tx'[w].said = tx[w].said
    BY <1>1 DEF Does
  <1>3. IdsInv' /\ FiniteInv'
    BY <1>1, IdsStep, FiniteStep DEF SInv
  <1>4. StoredWhole' /\ ToldInv'
    <2>1. \A v \in Worker : tx'[v].said = tx[v].said
      BY <1>2
    <2> QED
      BY <1>2, <2>1, ToldKept
  <1>5. ASSUME NEW v \in Worker PROVE PlanInv(v)'
    <2>1. CASE v = w
      BY <2>1, PlanStep
    <2>2. CASE v # w
      <3>1. tx'[v] = tx[v] /\ PlanInv(v)
        BY <1>2, <2>2 DEF SInv
      <3> QED
        BY <1>2, <3>1 DEF PlanInv, Current
    <2> QED
      BY <2>1, <2>2
  <1> QED
    BY <1>3, <1>4, <1>5 DEF SInv

-----------------------------------------------------------------------------
(* An interview is taken up.                                               *)

LEMMA InnerQuiet ==
    ASSUME NEW st \in Inner
    PROVE  Quiet(st)
  <1>1. \A s \in Creating \cup Getting \cup Relating : Quiet(s)
    BY DEF Quiet, SeeksPerson, Creating, Getting, Relating, Lookups
  <1>2. \A s \in Mentioning : Quiet(s)
    BY DEF Quiet, SeeksPerson, Mentioning, Finding
  <1>3. \A s \in Detailing : Quiet(s)
    BY DEF Quiet, SeeksPerson, Detailing, Inserting
  <1>4. \A s \in Linking : Quiet(s)
    BY DEF Quiet, SeeksPerson, Linking, Link, Statement
  <1> QED
    BY <1>1, <1>2, <1>3, <1>4 DEF Inner

LEMMA ProgramAhead ==
    ASSUME NEW iv \in Interview, NEW t, t.rows = {}, t.todo = Program(iv)
    PROVE  Ahead(t, iv)
  <1> DEFINE s == Program(iv)
             m == Len(s)
             n == Len(iv.keywords)
             p == FindPerson(iv.name, Place(iv.home, "birthCountry", "birthCity"), "person")
  <1>1. /\ s \in Seq(Plain) /\ n \in Nat /\ m >= n + 2 /\ s[1] = p /\ s[2] = TextFile(iv)[1]
        /\ \A k \in 3..(m - n) : s[k] \in Inner
        /\ \A k \in 1..n : s[(m - n) + k] = Keyword(iv.keywords[k])[1]
    BY ProgramShape
  <1>2. m \in Nat
    BY <1>1
  <1>3. SeeksPerson(p) /\ p.text = iv.name /\ p.table = "people"
    BY DEF FindPerson, Statement, SeeksPerson
  <1>4. t.todo = s
    OBVIOUS
  <1> HIDE DEF m, n, s, p
  <1>5. ASSUME NEW k \in 1..m, ~(k > m - n)
        PROVE  s[k].table # "keywords" /\ (SeeksPerson(s[k]) => s[k].text = iv.name)
               /\ (k # 2 => s[k].table # "text_files")
    <2>1. k = 1 \/ k = 2 \/ k \in 3..(m - n)
      BY <1>1, <1>2, <1>5
    <2>2. CASE k = 1
      BY <1>1, <1>3, <2>2
    <2>3. CASE k = 2
      BY <1>1, <2>3, TextIs DEF SeeksPerson
    <2>4. CASE k \in 3..(m - n)
      BY <1>1, <2>4, InnerQuiet DEF Quiet
    <2> QED
      BY <2>1, <2>2, <2>3, <2>4
  <1>6. ASSUME NEW k \in 1..m, k > m - n
        PROVE  s[k] = Keyword(iv.keywords[k - (m - n)])[1]
    <2>1. k - (m - n) \in 1..n /\ (m - n) + (k - (m - n)) = k
      BY <1>1, <1>2, <1>6
    <2> QED
      BY <1>1, <2>1
  <1>7. ASSUME NEW k \in 1..m, k > m - n
        PROVE  ~SeeksPerson(s[k]) /\ s[k].table # "text_files"
    BY <1>6, <1>7, KeywordIs DEF SeeksPerson
  <1>8. KeywordsLast(s, iv)
    BY <1>5, <1>6 DEF KeywordsLast, m, n
  <1>9. Seeks(s, iv)
    BY <1>5, <1>7 DEF Seeks, m
  <1>10. 2 \in 1..(m - n) /\ \A j \in 1..m : j # 2 => s[j].table # "text_files"
    BY <1>1, <1>2, <1>5, <1>7
  <1>11. \E k \in 1..(m - n) :
            s[k] = TextFile(iv)[1] /\ \A j \in 1..m : j # k => s[j].table # "text_files"
    BY <1>1, <1>10
  <1>12. NoTexts(t.rows)
    BY DEF NoTexts
  <1> QED
    BY <1>1, <1>3, <1>4, <1>8, <1>9, <1>11, <1>12 DEF Ahead, Planned, m, n

\* What is left of a list.
LEMMA SuffixIs ==
    ASSUME NEW S, NEW s \in Seq(S), NEW k \in 0..Len(s),
           NEW q, q = SubSeq(s, k + 1, Len(s)), q # <<>>
    PROVE  Len(s) \in Nat /\ k < Len(s) /\ Len(q) = Len(s) - k /\ Head(q) = s[k + 1]
  <1>1. Len(s) \in Nat /\ k \in Nat /\ k # Len(s)
    OBVIOUS
  <1>2. Len(q) = Len(s) - k /\ k < Len(s)
    BY <1>1
  <1>3. k + 1 \in 1..Len(s) /\ Len(s) \in (k + 1)..Len(s)
    BY <1>1, <1>2
  <1>4. Head(q) = s[k + 1]
    BY <1>3, HeadTailOfSubSeq
  <1> QED
    BY <1>1, <1>2, <1>4

LEMMA BeginIs ==
    ASSUME IInv, NEW w \in Worker, Begin(w), NEW iv, iv = Head(queue[w])
    PROVE  /\ db' = db /\ seq' = seq /\ iv \in Interview
           /\ \A v \in Worker \ {w} : tx'[v] = tx[v] /\ queue'[v] = queue[v]
           /\ tx[w].rows = {} /\ tx'[w].rows = {} /\ ~tx[w].on /\ tx'[w].on
           /\ tx'[w].file = iv.file
           /\ tx'[w].todo = Program(iv) /\ tx'[w].said = tx[w].said
           /\ Len(queue[w]) \in 1..Len(Work[w]) /\ Len(queue'[w]) = Len(queue[w]) - 1
           /\ Current(w)' = iv
  <1> DEFINE u == [Idle EXCEPT !.on = TRUE, !.file = iv.file, !.todo = Program(iv),
                               !.said = tx[w].said]
  <1>1. /\ ~tx[w].on /\ queue[w] # <<>> /\ db' = db /\ seq' = seq
        /\ queue' = [queue EXCEPT ![w] = Tail(@)]
        /\ tx' = [tx EXCEPT ![w] = u]
    BY DEF Begin
  <1>2. /\ tx \in [Worker -> TxSet] /\ queue \in [Worker -> Seq(Interview)]
        /\ Work[w] \in Seq(Interview) /\ tx[w] = [Idle EXCEPT !.said = tx[w].said]
    BY <1>1, WorkAssumption DEF IInv, Typed
  <1>3. PICK k \in 0..Len(Work[w]) : queue[w] = SubSeq(Work[w], k + 1, Len(Work[w]))
    BY DEF IInv, InOrder
  <1>4. tx[w].rows = {}
    BY <1>2 DEF Idle
  <1>5. /\ u.rows = {} /\ u.on /\ u.file = iv.file /\ u.todo = Program(iv)
        /\ u.said = tx[w].said
    BY DEF Idle
  <1>6. iv \in Interview
    BY <1>1, <1>2, <1>3, TailSuffix
  <1> HIDE DEF u
  <1>7. /\ tx'[w] = u /\ queue'[w] = Tail(queue[w])
        /\ \A v \in Worker \ {w} : tx'[v] = tx[v] /\ queue'[v] = queue[v]
    BY <1>1, <1>2
  <1> DEFINE l == Len(Work[w])
  <1>8. /\ l \in Nat /\ k \in 0..l /\ Len(queue[w]) = l - k /\ k < l
        /\ Head(queue[w]) = Work[w][k + 1]
    BY <1>1, <1>2, <1>3, SuffixIs
  <1>9. Len(queue'[w]) = (l - k) - 1
    BY <1>1, <1>2, <1>7, <1>8, HeadTailProperties
  <1> HIDE DEF l
  <1>10. (l - k) - 1 = l - (k + 1) /\ l - ((l - k) - 1) = k + 1 /\ l - k \in 1..l
    BY <1>8
  <1>11. Current(w)' = iv
    BY <1>8, <1>9, <1>10 DEF Current, l
  <1> QED
    BY <1>1, <1>4, <1>5, <1>6, <1>7, <1>8, <1>9, <1>10, <1>11 DEF l

\* A process has nothing uncommitted after the step; its rows are kept or given up.
LEMMA IdsClose ==
    ASSUME IdsInv, NEW w \in Worker, seq' = seq,
           tx'[w].rows = {}, \A v \in Worker \ {w} : tx'[v] = tx[v],
           db' = db \/ db' = db \cup tx[w].rows
    PROVE  IdsInv'
  <1>1. Rows' \subseteq Rows
    BY DEF Rows
  <1>2. ASSUME NEW v \in Worker, NEW r \in tx'[v].rows, r.table \in Serials
        PROVE  r \notin db' /\ \A u \in Worker \ {v} : r \notin tx'[u].rows
    <2>1. v # w /\ r \in tx[v].rows
      BY <1>2
    <2>2. r \notin db /\ \A u \in Worker \ {v} : r \notin tx[u].rows
      BY <1>2, <2>1 DEF IdsInv
    <2>3. r \notin db'
      BY <2>1, <2>2
    <2> QED
      BY <2>2, <2>3
  <1>3. /\ \A r \in Rows' : r.table \in Serials => r.id <= seq'[r.table]
        /\ \A q, r \in Rows' : q.table \in Serials /\ q.table = r.table /\ q.id = r.id => q = r
    BY <1>1 DEF IdsInv
  <1> QED
    BY <1>2, <1>3 DEF IdsInv

LEMMA FiniteClose ==
    ASSUME FiniteInv, NEW w \in Worker, tx'[w].rows = {},
           \A v \in Worker \ {w} : tx'[v] = tx[v],
           db' = db \/ db' = db \cup tx[w].rows
    PROVE  FiniteInv'
  <1>1. IsFiniteSet(db) /\ IsFiniteSet(tx[w].rows) /\ IsFiniteSet({})
    BY FS_EmptySet DEF FiniteInv
  <1>2. IsFiniteSet(db \cup tx[w].rows)
    BY <1>1, FS_Union
  <1>3. IsFiniteSet(db')
    BY <1>1, <1>2
  <1>4. \A v \in Worker : IsFiniteSet(tx'[v].rows)
    BY <1>1 DEF FiniteInv
  <1> QED
    BY <1>3, <1>4 DEF FiniteInv

LEMMA TakeKeeps ==
    ASSUME IInv, SInv, NEW w \in Worker, Begin(w)
    PROVE  SInv'
  <1> DEFINE iv == Head(queue[w])
  <1>1. /\ db' = db /\ seq' = seq /\ iv \in Interview
        /\ \A v \in Worker \ {w} : tx'[v] = tx[v] /\ queue'[v] = queue[v]
        /\ tx[w].rows = {} /\ tx'[w].rows = {} /\ tx'[w].on /\ tx'[w].file = iv.file
        /\ tx'[w].todo = Program(iv) /\ tx'[w].said = tx[w].said
        /\ Len(queue[w]) \in 1..Len(Work[w]) /\ Len(queue'[w]) = Len(queue[w]) - 1
        /\ Current(w)' = iv
    BY BeginIs
  <1> HIDE DEF iv
  <1>2. IdsInv' /\ FiniteInv'
    <2>1. IdsInv /\ FiniteInv
      BY DEF SInv
    <2> QED
      BY <1>1, <2>1, IdsClose, FiniteClose
  <1>3. StoredWhole' /\ ToldInv'
    <2>1. \A v \in Worker : tx'[v].said = tx[v].said
      BY <1>1
    <2> QED
      BY <1>1, <2>1, ToldKept
  <1>4. PlanInv(w)'
    <2>1. Ahead(tx'[w], iv)
      BY <1>1, ProgramAhead
    <2>2. Len(queue'[w]) < Len(Work[w])
      <3> DEFINE a == Len(Work[w])
                 b == Len(queue[w])
      <3>1. Work[w] \in Seq(Interview)
        BY WorkAssumption
      <3>2. a \in Nat /\ b \in 1..a /\ Len(queue'[w]) = b - 1
        BY <1>1, <3>1
      <3> HIDE DEF a, b
      <3>3. Len(queue'[w]) < a
        BY <3>2
      <3> QED
        BY <3>3 DEF a
    <2> QED
      BY <1>1, <2>1, <2>2 DEF PlanInv
  <1>5. ASSUME NEW v \in Worker \ {w} PROVE PlanInv(v)'
    <2>1. tx'[v] = tx[v] /\ queue'[v] = queue[v] /\ PlanInv(v)
      BY <1>1 DEF SInv
    <2> QED
      BY <2>1 DEF PlanInv, Current
  <1> QED
    BY <1>2, <1>3, <1>4, <1>5 DEF SInv

-----------------------------------------------------------------------------
(* A transaction ends.                                                     *)

LEMMA CloseIs ==
    ASSUME IInv, NEW w \in Worker, NEW files, Close(w, files)
    PROVE  /\ seq' = seq /\ queue' = queue /\ \A v \in Worker \ {w} : tx'[v] = tx[v]
           /\ ~tx'[w].on /\ tx'[w].rows = {} /\ tx'[w].said = tx[w].said \cup files
           /\ tx'[w].todo = <<>>
  <1> DEFINE u == [Idle EXCEPT !.said = tx[w].said \cup files]
  <1>1. tx' = [tx EXCEPT ![w] = u] /\ seq' = seq /\ queue' = queue
    BY DEF Close
  <1>2. ~u.on /\ u.rows = {} /\ u.said = tx[w].said \cup files /\ u.todo = <<>>
    BY DEF Idle
  <1> HIDE DEF u
  <1>3. tx \in [Worker -> TxSet]
    BY DEF IInv, Typed
  <1>4. tx'[w] = u /\ \A v \in Worker \ {w} : tx'[v] = tx[v]
    BY <1>1, <1>3
  <1> QED
    BY <1>1, <1>2, <1>4

\* The rows of a transaction that is over: a text with the keywords of the interview in
\* hand, or neither when the interviewee has no name.
LEMMA Finished ==
    ASSUME IInv, SInv, NEW w \in Worker, tx[w].on, tx[w].todo = <<>>,
           NEW iv, iv = Current(w)
    PROVE  \/ Nameless(iv.name) /\ NoTexts(tx[w].rows)
           \/ /\ iv.summarised /\ ~Nameless(iv.name)
              /\ \E r \in tx[w].rows :
                    /\ r.table = "text_files" /\ r.text = iv.file
                    /\ \A q \in tx[w].rows : q.table = "text_files" => q = r
                    /\ \A q \in WordRows(tx[w].rows) : q.refs = <<r.id>>
              /\ Cardinality(WordRows(tx[w].rows)) = Cardinality(Stated(iv))
  <1>1. Len(tx[w].todo) = 0
    OBVIOUS
  <1>2. iv.keywords \in Seq(Text) /\ Len(iv.keywords) \in Nat
    <2>1. iv.keywords \in Seq(Text)
      BY CurrentIs DEF SInv
    <2> QED
      BY <2>1
  <1>3. ~Ahead(tx[w], iv)
    <2> SUFFICES ASSUME Ahead(tx[w], iv) PROVE FALSE
      OBVIOUS
    <2>1. PICK k \in 1..(Len(tx[w].todo) - Len(iv.keywords)) : TRUE
      BY DEF Ahead
    <2> QED
      BY <1>1, <1>2, <2>1
  <1>4. CASE PassedOver(tx[w], iv)
    BY <1>4 DEF PassedOver
  <1>5. CASE Written(tx[w], iv)
    <2>1. PICK r \in tx[w].rows :
             r.table = "text_files" /\ r.text = iv.file /\ r.id = tx[w].env["text"]
      BY <1>5 DEF Written
    <2>2. ASSUME NEW q \in tx[w].rows, q.table = "text_files" PROVE q = r
      <3>1. q.id = r.id /\ q \in Rows /\ r \in Rows /\ "text_files" \in Serials
        BY <1>5, <2>1, <2>2, SerialTables DEF Written, Rows
      <3> QED
        BY <2>1, <2>2, <3>1 DEF SInv, IdsInv
    <2>3. \A q \in WordRows(tx[w].rows) : q.refs = <<r.id>>
      BY <1>5, <2>1 DEF Written
    <2>4. Done(tx[w], iv) = Stated(iv)
      <3>1. \A k \in Stated(iv) : k \in 1..Len(iv.keywords)
        BY <1>2 DEF Stated
      <3>2. \A k \in 1..Len(iv.keywords) : k <= Len(iv.keywords) - Len(tx[w].todo)
        BY <1>1, <1>2
      <3> QED
        BY <3>1, <3>2 DEF Done
    <2>5. iv.summarised /\ ~Nameless(iv.name)
          /\ Cardinality(WordRows(tx[w].rows)) = Cardinality(Stated(iv))
      BY <1>5, <2>4 DEF Written
    <2> QED
      BY <2>1, <2>2, <2>3, <2>5
  <1> QED
    BY <1>3, <1>4, <1>5 DEF SInv, PlanInv

\* The text a committed keyword refers to is committed.
LEMMA WordsApart ==
    ASSUME IInv, IdsInv, NEW q \in db, q.table = "keywords",
           NEW r \in Rows, r.table = "text_files", q.refs[1] = r.id
    PROVE  r \in db
  <1>1. Formed(r)
    <2>1. CASE r \in db
      BY <2>1 DEF IInv, RowsInv, Sound
    <2>2. CASE r \notin db
      <3>1. PICK v \in Worker : r \in Visible(v)
        BY <2>2 DEF Rows, Visible
      <3> QED
        BY <3>1 DEF IInv, RowsInv, Sound
    <2> QED
      BY <2>1, <2>2
  <1>2. "text_files" \in Serials /\ References("keywords") = <<"text_files">>
    BY SerialTables DEF References
  <1>3. r.id # Null
    BY <1>1, <1>2 DEF Formed
  <1>4. Grounded(q, db) /\ Formed(q)
    BY DEF IInv, RowsInv, Sound
  <1>5. 1 \in 1..Len(q.refs)
    BY <1>2, <1>4 DEF Formed
  <1>6. Holds(db, References("keywords")[1], r.id)
    BY <1>3, <1>4, <1>5 DEF Grounded
  <1>7. PICK p \in db : p.table = "text_files" /\ p.id = r.id
    BY <1>2, <1>6 DEF Holds
  <1>8. p \in Rows
    BY DEF Rows
  <1>9. p = r
    BY <1>2, <1>7, <1>8 DEF IdsInv
  <1> QED
    BY <1>9

LEMMA CommitStores ==
    ASSUME IInv, SInv, NEW w \in Worker, tx[w].on, tx[w].todo = <<>>,
           db' = db \cup tx[w].rows
    PROVE  StoredWhole'
  <1> DEFINE iv == Current(w)
             mine == tx[w].rows
             Words(S, id) == {q \in S : q.table = "keywords" /\ q.refs = <<id>>}
  <1>1. \/ Nameless(iv.name) /\ NoTexts(mine)
        \/ /\ iv.summarised /\ ~Nameless(iv.name)
           /\ \E r \in mine :
                 /\ r.table = "text_files" /\ r.text = iv.file
                 /\ \A q \in mine : q.table = "text_files" => q = r
                 /\ \A q \in WordRows(mine) : q.refs = <<r.id>>
           /\ Cardinality(WordRows(mine)) = Cardinality(Stated(iv))
    BY Finished
  <1>2. iv \in Interviews
    <2>1. Work[w] \in Seq(Interview) /\ Len(Work[w]) - Len(queue[w]) \in 1..Len(Work[w])
      BY CurrentIs, WorkAssumption DEF SInv
    <2>2. DOMAIN Work[w] = 1..Len(Work[w])
      BY <2>1
    <2> QED
      BY <2>1, <2>2 DEF Interviews, Current, Range
  <1>3. mine \subseteq Rows /\ db \subseteq Rows /\ IdsInv /\ "text_files" \in Serials
    BY SerialTables DEF Rows, SInv
  <1>4. \A r \in mine : r.table \in Serials => r \notin db
    BY <1>3 DEF IdsInv
  <1>5. db' = db \cup mine
    OBVIOUS
  <1> HIDE DEF iv, mine
  <1>6. ASSUME NEW r \in db, r.table = "text_files"
        PROVE  Words(db', r.id) = Words(db, r.id)
    <2>1. ASSUME NEW q \in mine, q.table = "keywords", q.refs = <<r.id>> PROVE FALSE
      <3>1. PICK t \in mine : t.table = "text_files" /\ q.refs = <<t.id>>
        BY <1>1, <2>1 DEF NoTexts, WordRows
      <3>2. t.id = r.id
        BY <2>1, <3>1
      <3>3. t = r
        BY <1>3, <1>6, <3>1, <3>2 DEF IdsInv
      <3> QED
        BY <1>3, <1>4, <3>1, <3>3
    <2> QED
      BY <1>5, <2>1
  <1>7. ASSUME NEW r \in mine, r.table = "text_files"
        PROVE  /\ iv.file = r.text
               /\ Cardinality(Words(db', r.id)) = Cardinality(Stated(iv))
    <2>1. /\ r.text = iv.file /\ \A q \in WordRows(mine) : q.refs = <<r.id>>
          /\ Cardinality(WordRows(mine)) = Cardinality(Stated(iv))
      BY <1>1, <1>7 DEF NoTexts
    <2>2. ASSUME NEW q \in db, q.table = "keywords", q.refs = <<r.id>> PROVE FALSE
      <3>1. r \in db
        BY <1>3, <1>7, <2>2, WordsApart
      <3> QED
        BY <1>3, <1>4, <1>7, <3>1
    <2>3. Words(db', r.id) = WordRows(mine)
      BY <1>5, <2>1, <2>2 DEF WordRows
    <2> QED
      BY <2>1, <2>3
  <1>8. ASSUME NEW r \in db', r.table = "text_files"
        PROVE  \E i \in Interviews : /\ i.file = r.text
                                     /\ Cardinality(Words(db', r.id)) = Cardinality(Stated(i))
    <2>1. CASE r \in db
      <3>1. PICK i \in Interviews : /\ i.file = r.text
                                    /\ Cardinality(Words(db, r.id)) = Cardinality(Stated(i))
        BY <1>8, <2>1 DEF SInv, StoredWhole
      <3> QED
        BY <1>6, <1>8, <2>1, <3>1
    <2>2. CASE r \in mine
      BY <1>2, <1>7, <1>8, <2>2
    <2> QED
      BY <1>5, <2>1, <2>2
  <1> QED
    BY <1>8 DEF StoredWhole

\* What is told after a commit is there, or was passed over.
LEMMA CommitTells ==
    ASSUME IInv, SInv, NEW w \in Worker, tx[w].on, tx[w].todo = <<>>,
           db' = db \cup tx[w].rows,
           \A v \in Worker \ {w} : tx'[v] = tx[v],
           tx'[w].said \subseteq tx[w].said \cup {tx[w].file}
    PROVE  ToldInv'
  <1> DEFINE iv == Current(w)
             Told(v, file) ==
                \/ \E r \in db' : r.table = "text_files" /\ r.text = file
                \/ \E k \in 1..Len(Work[v]) :
                      Work[v][k].file = file /\ Nameless(Work[v][k].name)
  <1>1. tx[w].file = iv.file
    BY DEF SInv, PlanInv
  <1>2. Told(w, iv.file)
    <2>1. Len(Work[w]) - Len(queue[w]) \in 1..Len(Work[w])
      BY CurrentIs DEF SInv
    <2>2. \/ Nameless(iv.name)
          \/ \E r \in tx[w].rows : r.table = "text_files" /\ r.text = iv.file
      BY Finished
    <2>3. CASE Nameless(iv.name)
      BY <2>1, <2>3 DEF Current
    <2>4. CASE \E r \in tx[w].rows : r.table = "text_files" /\ r.text = iv.file
      BY <2>4
    <2> QED
      BY <2>2, <2>3, <2>4
  <1>3. ASSUME NEW v \in Worker, NEW file \in tx[v].said
        PROVE  Told(v, file)
    BY DEF SInv, ToldInv
  <1> HIDE DEF iv
  <1>4. ASSUME NEW v \in Worker, NEW file \in tx'[v].said
        PROVE  Told(v, file)
    <2>1. CASE file \in tx[v].said
      BY <1>3, <2>1
    <2>2. CASE file \notin tx[v].said
      <3>1. v = w /\ file = iv.file
        BY <1>1, <1>4, <2>2
      <3> QED
        BY <1>2, <3>1
    <2> QED
      BY <2>1, <2>2
  <1> QED
    BY <1>4 DEF ToldInv

LEMMA CloseKeepsStored ==
    ASSUME IInv, SInv, NEW w \in Worker, tx[w].on, NEW files, Close(w, files),
           \/ db' = db /\ files = {}
           \/ db' = db \cup tx[w].rows /\ tx[w].todo = <<>> /\ files \subseteq {tx[w].file}
    PROVE  SInv'
  <1>1. /\ seq' = seq /\ queue' = queue /\ \A v \in Worker \ {w} : tx'[v] = tx[v]
        /\ ~tx'[w].on /\ tx'[w].rows = {} /\ tx'[w].said = tx[w].said \cup files
    BY CloseIs
  <1>2. IdsInv' /\ FiniteInv'
    <2>1. IdsInv /\ FiniteInv /\ (db' = db \/ db' = db \cup tx[w].rows)
      BY DEF SInv
    <2> QED
      BY <1>1, <2>1, IdsClose, FiniteClose
  <1>3. StoredWhole' /\ ToldInv'
    <2>1. CASE db' = db /\ files = {}
      <3>1. \A v \in Worker : tx'[v].said = tx[v].said
        BY <1>1, <2>1
      <3> QED
        BY <2>1, <3>1, ToldKept
    <2>2. CASE db' = db \cup tx[w].rows /\ tx[w].todo = <<>> /\ files \subseteq {tx[w].file}
      BY <1>1, <2>2, CommitStores, CommitTells
    <2> QED
      BY <2>1, <2>2
  <1>4. ASSUME NEW v \in Worker PROVE PlanInv(v)'
    <2>1. CASE v = w
      BY <1>1, <2>1 DEF PlanInv
    <2>2. CASE v # w
      <3>1. tx'[v] = tx[v] /\ PlanInv(v)
        BY <1>1, <2>2 DEF SInv
      <3> QED
        BY <1>1, <3>1 DEF PlanInv, Current
    <2> QED
      BY <2>1, <2>2
  <1> QED
    BY <1>2, <1>3, <1>4 DEF SInv

-----------------------------------------------------------------------------
(* The invariant holds.                                                    *)

LEMMA StoredInit == Init => SInv
  <1> SUFFICES ASSUME Init PROVE SInv
    OBVIOUS
  <1>1. Len(Levels) \in Nat /\ DOMAIN Levels = 1..Len(Levels)
    BY WorkAssumption, LenProperties
  <1>2. \A w \in Worker : tx[w].rows = {} /\ ~tx[w].on /\ tx[w].said = {}
    BY DEF Init, Idle
  <1>3. ASSUME NEW r \in db
        PROVE  \E i \in 1..Len(Levels) : r = Row("education_levels", i, Levels[i], <<>>)
    BY <1>1 DEF Init
  <1>4. \A i, text : LET r == Row("education_levels", i, text, <<>>)
                    IN  r.table = "education_levels" /\ r.id = i
    BY DEF Row
  <1>5. Rows = db
    BY <1>2 DEF Rows
  <1>6. IdsInv
    <2>1. ASSUME NEW r \in db PROVE r.id <= seq[r.table]
      <3>1. PICK i \in 1..Len(Levels) : r = Row("education_levels", i, Levels[i], <<>>)
        BY <1>3
      <3>2. r.table = "education_levels" /\ r.id = i
        BY <1>4, <3>1
      <3>3. seq["education_levels"] = Len(Levels)
        BY DEF Init, Serials, Lookups
      <3> QED
        BY <1>1, <3>2, <3>3
    <2>2. ASSUME NEW q \in db, NEW r \in db, q.id = r.id PROVE q = r
      <3>1. PICK i \in 1..Len(Levels) : q = Row("education_levels", i, Levels[i], <<>>)
        BY <1>3
      <3>2. PICK j \in 1..Len(Levels) : r = Row("education_levels", j, Levels[j], <<>>)
        BY <1>3
      <3>3. q.id = i /\ r.id = j
        BY <1>4, <3>1, <3>2
      <3> QED
        BY <2>2, <3>1, <3>2, <3>3
    <2> QED
      BY <1>2, <1>5, <2>1, <2>2 DEF IdsInv
  <1>7. FiniteInv
    <2> DEFINE f == [i \in 1..Len(Levels) |-> Row("education_levels", i, Levels[i], <<>>)]
    <2>1. db = {f[i] : i \in 1..Len(Levels)}
      BY <1>1 DEF Init
    <2>2. f \in [1..Len(Levels) -> db]
      BY <2>1
    <2>3. \A r \in db : \E i \in 1..Len(Levels) : f[i] = r
      BY <2>1
    <2> HIDE DEF f
    <2>4. f \in Surjection(1..Len(Levels), db)
      BY <2>2, <2>3 DEF Surjection
    <2>5. IsFiniteSet(1..Len(Levels))
      BY <1>1, FS_Interval
    <2>6. IsFiniteSet(db) /\ IsFiniteSet({})
      BY <2>4, <2>5, FS_Surjection, FS_EmptySet
    <2> QED
      BY <1>2, <2>6 DEF FiniteInv
  <1>8. StoredWhole
    BY <1>3, <1>4 DEF StoredWhole
  <1>9. ToldInv /\ \A w \in Worker : PlanInv(w)
    BY <1>2 DEF ToldInv, PlanInv
  <1> QED
    BY <1>6, <1>7, <1>8, <1>9 DEF SInv

\* A step runs a statement, takes up an interview, or ends a transaction.
LEMMA StepKinds ==
    ASSUME IInv, Next
    PROVE  \E w \in Worker :
              \/ Runs(w) \/ Begin(w)
              \/ /\ tx[w].on /\ tx[w].todo = <<>> /\ db' = db \cup tx[w].rows
                 /\ Close(w, {tx[w].file}) \/ Close(w, {})
              \/ tx[w].on /\ db' = db /\ Close(w, {})
  <1>1. PICK w \in Worker : Proceed(w) \/ CommitUnacknowledged(w) \/ Rollback(w)
    BY DEF Next
  <1>2. \/ Runs(w) \/ Begin(w) \/ Commit(w) \/ CommitUnacknowledged(w) \/ Rollback(w)
    BY <1>1 DEF Proceed, Runs, Violation, DeadlockAbort
  <1> QED
    BY <1>2 DEF Commit, CommitUnacknowledged, Rollback, Committed, RolledBack

LEMMA StoredStep == IInv /\ SInv /\ [Next]_vars => SInv'
  <1> SUFFICES ASSUME IInv, SInv, [Next]_vars PROVE SInv'
    OBVIOUS
  <1>1. CASE Next
    <2>1. PICK w \in Worker :
             \/ Runs(w) \/ Begin(w)
             \/ /\ tx[w].on /\ tx[w].todo = <<>> /\ db' = db \cup tx[w].rows
                /\ Close(w, {tx[w].file}) \/ Close(w, {})
             \/ tx[w].on /\ db' = db /\ Close(w, {})
      BY <1>1, StepKinds
    <2>2. CASE Runs(w)
      BY <2>2, RunKeeps
    <2>3. CASE Begin(w)
      BY <2>3, TakeKeeps
    <2>4. ASSUME NEW files, files \subseteq {tx[w].file}, tx[w].on, tx[w].todo = <<>>,
                 db' = db \cup tx[w].rows, Close(w, files)
          PROVE  SInv'
      BY <2>4, CloseKeepsStored
    <2>5. CASE tx[w].on /\ db' = db /\ Close(w, {})
      BY <2>5, CloseKeepsStored
    <2> QED
      BY <2>1, <2>2, <2>3, <2>4, <2>5
  <1>2. CASE UNCHANGED vars
    <2>1. db' = db /\ seq' = seq /\ queue' = queue /\ tx' = tx
      BY <1>2 DEF vars
    <2>2. Rows' = Rows
      BY <2>1 DEF Rows
    <2>3. IdsInv'
      BY <2>1, <2>2 DEF SInv, IdsInv
    <2>4. FiniteInv' /\ StoredWhole' /\ ToldInv'
      BY <2>1 DEF SInv, FiniteInv, StoredWhole, ToldInv
    <2>5. \A w \in Worker : PlanInv(w)'
      BY <2>1 DEF SInv, PlanInv, Current
    <2> QED
      BY <2>3, <2>4, <2>5 DEF SInv
  <1> QED
    BY <1>1, <1>2

LEMMA StoredInvariant == Spec => [](IInv /\ SInv)
  <1>1. Init => IInv /\ SInv
    BY InitHolds, StoredInit
  <1>2. (IInv /\ SInv) /\ [Next]_vars => (IInv /\ SInv)'
    BY StepKeeps, StoredStep
  <1> QED
    BY <1>1, <1>2, PTL DEF Spec

-----------------------------------------------------------------------------
(* The theorems.                                                           *)

\* However the statements of several CALLs interleave, and whichever transactions are
\* rolled back, a text that is committed has as many keywords as its interview states.
THEOREM StoredWholeHolds == Spec => []StoredWhole
  <1>1. SInv => StoredWhole
    BY DEF SInv
  <1> QED
    BY <1>1, StoredInvariant, PTL

\* "Successfully ingested data into DB for: ..." is printed of a file that the database
\* holds, if every interview has the name of its interviewee.
THEOREM IngestedIsStoredHolds ==
    ASSUME \A w \in Worker : \A k \in 1..Len(Work[w]) : ~Nameless(Work[w][k].name)
    PROVE  Spec => []IngestedIsStored
  <1>1. SInv => IngestedIsStored
    BY DEF SInv, ToldInv, IngestedIsStored
  <1> QED
    BY <1>1, StoredInvariant, PTL

\* Without that: of a file that it holds, or of an interview the procedure left at its
\* first statement because the interviewee has no name.
THEOREM ToldHolds == Spec => []ToldInv
  <1>1. SInv => ToldInv
    BY DEF SInv
  <1> QED
    BY <1>1, StoredInvariant, PTL

-----------------------------------------------------------------------------
(* The transactions implement InterviewStore.                              *)

Item(iv) == [file |-> iv.file, named |-> ~Nameless(iv.name), complete |-> iv.summarised,
             words |-> Cardinality(Stated(iv))]

LEMMA AgendaIs ==
    ASSUME NEW w \in Worker
    PROVE  /\ Work[w] \in Seq(Interview) /\ Len(Work[w]) \in Nat
           /\ DOMAIN Agenda[w] = 1..Len(Work[w]) /\ Len(Agenda[w]) = Len(Work[w])
           /\ \A k \in 1..Len(Work[w]) : Agenda[w][k] = Item(Work[w][k])
           /\ Agenda[w] \in Seq(Range(Agenda[w]))
  <1>1. Work[w] \in Seq(Interview)
    BY WorkAssumption
  <1>2. Len(Work[w]) \in Nat /\ DOMAIN Work[w] = 1..Len(Work[w])
    BY <1>1
  <1>3. Agenda[w] = [k \in 1..Len(Work[w]) |-> Item(Work[w][k])]
    BY <1>2 DEF Agenda, Item
  <1>4. /\ DOMAIN Agenda[w] = 1..Len(Work[w])
        /\ \A k \in 1..Len(Work[w]) : Agenda[w][k] = Item(Work[w][k])
    BY <1>3
  <1>5. Agenda[w] \in [1..Len(Work[w]) -> Range(Agenda[w])]
    BY <1>3, <1>4 DEF Range
  <1>6. Agenda[w] \in Seq(Range(Agenda[w])) /\ Len(Agenda[w]) = Len(Work[w])
    BY <1>2, <1>4, <1>5, SeqDef, LenProperties
  <1> QED
    BY <1>1, <1>2, <1>4, <1>6

LEMMA FilesAre == Store!File = Files
  <1>1. ASSUME NEW w \in Worker
        PROVE  {Agenda[w][k].file : k \in DOMAIN Agenda[w]} = {iv.file : iv \in Range(Work[w])}
    <2>1. DOMAIN Work[w] = 1..Len(Work[w])
      BY AgendaIs
    <2>2. \A k \in 1..Len(Work[w]) : Agenda[w][k].file = Work[w][k].file
      <3>1. \A iv : Item(iv).file = iv.file
        BY DEF Item
      <3> QED
        BY <3>1, AgendaIs
    <2>3. DOMAIN Agenda[w] = 1..Len(Work[w])
      BY AgendaIs
    <2> QED
      BY <2>1, <2>2, <2>3 DEF Range
  <1>2. ASSUME NEW f
        PROVE  f \in Store!File <=>
                 \E w \in Worker : f \in {Agenda[w][k].file : k \in DOMAIN Agenda[w]}
    BY DEF Store!File
  <1>3. ASSUME NEW f
        PROVE  f \in Files <=> \E w \in Worker : f \in {iv.file : iv \in Range(Work[w])}
    BY DEF Files, Interviews
  <1>4. \A f : f \in Store!File <=> f \in Files
    BY <1>1, <1>2, <1>3
  <1> QED
    BY <1>4

LEMMA OverIs ==
    ASSUME IInv, SInv, NEW w \in Worker
    PROVE  /\ Len(queue[w]) \in Nat /\ Over(w) \in 0..Len(Work[w])
           /\ tx[w].on => Over(w) + 1 = Len(Work[w]) - Len(queue[w])
                          /\ Over(w) + 1 \in 1..Len(Work[w])
  <1> DEFINE l == Len(Work[w])
             q == Len(queue[w])
  <1>1. l \in Nat /\ q \in Nat
    BY AgendaIs DEF IInv, Typed
  <1>2. PICK k \in 0..l : queue[w] = SubSeq(Work[w], k + 1, l)
    BY DEF IInv, InOrder
  <1>3. q <= l
    <2>1. CASE queue[w] = <<>>
      BY <1>1, <2>1
    <2>2. CASE queue[w] # <<>>
      <3>1. q = l - k
        BY <1>2, <2>2, AgendaIs, SuffixIs
      <3> QED
        BY <1>1, <1>2, <3>1
    <2> QED
      BY <2>1, <2>2
  <1>4. tx[w].on => q < l
    BY DEF SInv, PlanInv
  <1>5. tx[w].on \in BOOLEAN /\ Over(w) = l - q - (IF tx[w].on THEN 1 ELSE 0)
    BY TxTypes DEF Over
  <1> HIDE DEF l, q
  <1>6. CASE tx[w].on
    <2>1. Over(w) = l - q - 1
      BY <1>5, <1>6
    <2>2. Over(w) \in 0..l /\ Over(w) + 1 = l - q /\ Over(w) + 1 \in 1..l
      BY <1>1, <1>4, <1>6, <2>1
    <2> QED
      BY <1>1, <2>2 DEF l, q
  <1>7. CASE ~tx[w].on
    <2>1. Over(w) = l - q - 0
      BY <1>5, <1>7
    <2>2. Over(w) \in 0..l
      BY <1>1, <1>3, <2>1
    <2> QED
      BY <1>1, <1>7, <2>2 DEF l, q
  <1> QED
    BY <1>5, <1>6, <1>7

LEMMA StoreInit == Init => Store!Init
  <1> SUFFICES ASSUME Init PROVE Store!Init
    OBVIOUS
  <1>1. ASSUME NEW w \in Worker PROVE Pending(w) = Agenda[w] /\ tx[w].said = {}
    <2>1. Len(queue[w]) = Len(Work[w]) /\ ~tx[w].on /\ tx[w].said = {}
      BY DEF Init, Idle
    <2>2. Over(w) = 0
      <3> DEFINE l == Len(Work[w])
      <3>1. l \in Nat /\ Over(w) = l - l - 0
        BY <2>1, AgendaIs DEF Over
      <3> HIDE DEF l
      <3> QED
        BY <3>1
    <2>3. Agenda[w] \in Seq(Range(Agenda[w]))
      BY AgendaIs
    <2>4. Pending(w) = SubSeq(Agenda[w], 1, Len(Agenda[w]))
      BY <2>2 DEF Pending
    <2> QED
      BY <2>1, <2>3, <2>4, SubSeqFull
  <1>2. Waiting = Agenda
    BY <1>1 DEF Waiting, Agenda
  <1>3. \A r \in db : r.table = "education_levels"
    BY DEF Init, Row
  <1>4. \A f \in Files : TextsOf(f) = {} /\ WordsOf(f) = {}
    BY <1>3 DEF TextsOf, WordsOf
  <1>5. Cardinality({}) = 0
    BY FS_EmptySet
  <1>6. StoredTexts = [f \in Store!File |-> 0] /\ StoredWords = [f \in Store!File |-> 0]
    BY <1>4, <1>5, FilesAre DEF StoredTexts, StoredWords
  <1>7. Said = [w \in Worker |-> {}]
    BY <1>1 DEF Said
  <1> QED
    BY <1>2, <1>6, <1>7 DEF Store!Init

\* Taking an interview up and running its statements change nothing of what is stored.
LEMMA Unchanging ==
    ASSUME IInv, SInv, NEW w \in Worker, Runs(w) \/ Begin(w)
    PROVE  UNCHANGED <<Waiting, StoredTexts, StoredWords, Said>>
  <1>1. /\ db' = db /\ \A v \in Worker : Over(v)' = Over(v) /\ tx'[v].said = tx[v].said
    <2>1. CASE Runs(w)
      <3>1. PICK N, next : Does(w, N, next)
        BY <2>1, SomeDoes
      <3>2. /\ db' = db /\ queue' = queue /\ \A v \in Worker \ {w} : tx'[v] = tx[v]
            /\ tx'[w].said = tx[w].said /\ tx[w].on /\ tx'[w].on
        BY <3>1 DEF Does
      <3> QED
        BY <3>2 DEF Over
    <2>2. CASE Begin(w)
      <3>1. /\ db' = db /\ \A v \in Worker \ {w} : tx'[v] = tx[v] /\ queue'[v] = queue[v]
            /\ ~tx[w].on /\ tx'[w].on /\ tx'[w].said = tx[w].said
            /\ Len(queue'[w]) = Len(queue[w]) - 1
        BY <2>2, BeginIs
      <3>2. Over(w)' = Over(w)
        <4> DEFINE l == Len(Work[w])
                   q == Len(queue[w])
        <4>1. l \in Nat /\ q \in Nat
          BY AgendaIs, OverIs
        <4>2. Over(w) = l - q - 0 /\ Over(w)' = l - (q - 1) - 1
          BY <3>1 DEF Over
        <4> HIDE DEF l, q
        <4>3. l - q - 0 = l - (q - 1) - 1
          BY <4>1
        <4> QED
          BY <4>2, <4>3
      <3>3. \A v \in Worker \ {w} : Over(v)' = Over(v)
        BY <3>1 DEF Over
      <3> QED
        BY <3>1, <3>2, <3>3
    <2> QED
      BY <2>1, <2>2
  <1>2. Waiting' = Waiting /\ Said' = Said
    BY <1>1 DEF Waiting, Pending, Said
  <1>3. \A f \in Files : TextsOf(f)' = TextsOf(f) /\ WordsOf(f)' = WordsOf(f)
    BY <1>1 DEF TextsOf, WordsOf
  <1>4. StoredTexts' = StoredTexts /\ StoredWords' = StoredWords
    BY <1>3 DEF StoredTexts, StoredWords
  <1> QED
    BY <1>2, <1>4

\* The interview in hand is over.
LEMMA Ending ==
    ASSUME IInv, SInv, NEW w \in Worker, tx[w].on, NEW files, Close(w, files)
    PROVE  /\ Store!Ends(w) /\ Head(Waiting[w]) = Item(Current(w))
           /\ Said' = [Said EXCEPT ![w] = @ \cup files]
  <1>1. /\ queue' = queue /\ \A v \in Worker \ {w} : tx'[v] = tx[v]
        /\ ~tx'[w].on /\ tx'[w].said = tx[w].said \cup files
    BY CloseIs
  <1> DEFINE l == Len(Work[w])
             q == Len(queue[w])
             k == Over(w) + 1
             a == Agenda[w]
  <1>2. l \in Nat /\ q \in Nat /\ Over(w) \in 0..l /\ k = l - q /\ k \in 1..l
    BY AgendaIs, OverIs
  <1>3. Over(w)' = k
    <2>1. Over(w)' = l - q - 0
      BY <1>1 DEF Over
    <2> HIDE DEF l, q, k
    <2>2. l - q - 0 = l - q
      BY <1>2
    <2> QED
      BY <1>2, <2>1, <2>2
  <1>4. a \in Seq(Range(a)) /\ Len(a) = l /\ a[k] = Item(Work[w][k])
    BY <1>2, AgendaIs
  <1>5. Work[w][k] = Current(w)
    BY <1>2 DEF Current
  <1> HIDE DEF a, l, q, k
  <1>6. k \in 1..Len(a) /\ Len(a) \in k..Len(a)
    BY <1>2, <1>4
  <1>7. Pending(w) = SubSeq(a, k, Len(a)) /\ Pending(w)' = SubSeq(a, k + 1, Len(a))
    BY <1>3 DEF Pending, a, k
  <1>8. /\ Head(Pending(w)) = a[k] /\ Pending(w)' = Tail(Pending(w))
        /\ Pending(w) # <<>>
    <2>1. Head(SubSeq(a, k, Len(a))) = a[k]
          /\ Tail(SubSeq(a, k, Len(a))) = SubSeq(a, k + 1, Len(a))
      BY <1>4, <1>6, HeadTailOfSubSeq
    <2>2. \A i \in k..Len(a) : a[i] \in Range(a)
      <3>1. \A i \in k..Len(a) : i \in 1..Len(a)
        BY <1>2, <1>4
      <3> QED
        BY <1>4, <3>1, ElementOfSeq
    <2>3. Len(SubSeq(a, k, Len(a))) = Len(a) - k + 1
      <3>1. k \in Int /\ Len(a) \in Int /\ k <= Len(a)
        BY <1>2, <1>4, <1>6
      <3> QED
        BY <2>2, <3>1, SubSeqProperties
    <2>4. Len(a) - k + 1 # 0
      BY <1>2, <1>4
    <2> QED
      BY <1>7, <2>1, <2>3, <2>4, EmptySeq
  <1>9. \A v \in Worker \ {w} : Pending(v)' = Pending(v)
    BY <1>1 DEF Pending, Over
  <1>10. Waiting' = [Waiting EXCEPT ![w] = Tail(@)] /\ Waiting[w] = Pending(w)
    BY <1>8, <1>9 DEF Waiting
  <1>11. Said' = [Said EXCEPT ![w] = @ \cup files]
    BY <1>1 DEF Said
  <1> QED
    BY <1>4, <1>5, <1>8, <1>10, <1>11 DEF Store!Ends

LEMMA StoredFinite ==
    ASSUME FiniteInv, NEW f
    PROVE  IsFiniteSet(TextsOf(f)) /\ IsFiniteSet(WordsOf(f))
  <1> DEFINE S == {q \in db : q.table = "text_files" /\ q.text = f}
             g == [r \in S |-> r.id]
  <1>1. IsFiniteSet(S) /\ IsFiniteSet(WordsOf(f))
    BY FS_Subset DEF FiniteInv, WordsOf
  <1>2. g \in Surjection(S, TextsOf(f))
    <2>1. TextsOf(f) = {r.id : r \in S}
      BY DEF TextsOf
    <2> HIDE DEF S
    <2>2. g \in [S -> TextsOf(f)] /\ \A i \in TextsOf(f) : \E r \in S : g[r] = i
      BY <2>1
    <2> HIDE DEF g
    <2> QED
      BY <2>2 DEF Surjection
  <1> HIDE DEF S, g
  <1> QED
    BY <1>1, <1>2, FS_Surjection

\* A transaction without a text adds nothing that counts.
LEMMA NothingStored ==
    ASSUME NEW N, NoTexts(N), db' = db \cup N
    PROVE  StoredTexts' = StoredTexts /\ StoredWords' = StoredWords
  <1>1. \A f \in Files : TextsOf(f)' = TextsOf(f) /\ WordsOf(f)' = WordsOf(f)
    <2>1. ASSUME NEW f \in Files PROVE TextsOf(f)' = TextsOf(f)
      BY DEF TextsOf, NoTexts
    <2>2. ASSUME NEW f \in Files PROVE WordsOf(f)' = WordsOf(f)
      BY <2>1 DEF WordsOf, NoTexts
    <2> QED
      BY <2>1, <2>2
  <1> QED
    BY <1>1 DEF StoredTexts, StoredWords

\* A text is one more for its file, with as many keywords as the transaction has.
LEMMA TextStored ==
    ASSUME IInv, SInv, NEW w \in Worker, NEW r \in tx[w].rows, r.table = "text_files",
           \A q \in tx[w].rows : q.table = "text_files" => q = r,
           \A q \in WordRows(tx[w].rows) : q.refs = <<r.id>>,
           db' = db \cup tx[w].rows
    PROVE  /\ StoredTexts' = [StoredTexts EXCEPT ![r.text] = @ + 1]
           /\ StoredWords' = [StoredWords EXCEPT ![r.text] = @ + Cardinality(WordRows(tx[w].rows))]
  <1> DEFINE mine == tx[w].rows
             own == WordRows(tx[w].rows)
  <1>1. /\ "text_files" \in Serials /\ "keywords" \in Serials /\ IdsInv /\ FiniteInv
        /\ db \subseteq Rows /\ mine \subseteq Rows
    BY SerialTables DEF SInv, Rows
  <1>2. \A q \in mine : q.table \in Serials => q \notin db
    BY <1>1 DEF IdsInv
  <1>3. ASSUME NEW q \in db, q.table = "text_files" PROVE q.id # r.id
    BY <1>1, <1>2, <1>3 DEF IdsInv
  <1>4. ASSUME NEW q \in db, q.table = "keywords" PROVE q.refs[1] # r.id
    BY <1>1, <1>2, <1>4, WordsApart
  <1>5. r.id \notin TextsOf(r.text) /\ \A f : r.id \notin TextsOf(f)
    BY <1>3 DEF TextsOf
  <1>6. \A q \in own : q.table = "keywords" /\ q.refs[1] = r.id
    BY DEF WordRows
  <1>7. db' = db \cup mine
    OBVIOUS
  <1>8. ASSUME NEW f
        PROVE  TextsOf(f)' = IF f = r.text THEN TextsOf(f) \cup {r.id} ELSE TextsOf(f)
    <2> DEFINE S == {q \in db : q.table = "text_files" /\ q.text = f}
               T == {q \in mine : q.table = "text_files" /\ q.text = f}
    <2>1. TextsOf(f)' = {q.id : q \in S \cup T} /\ TextsOf(f) = {q.id : q \in S}
      BY <1>7 DEF TextsOf
    <2>2. T = IF f = r.text THEN {r} ELSE {}
      OBVIOUS
    <2> HIDE DEF S, T
    <2>3. {q.id : q \in S \cup T} = {q.id : q \in S} \cup {q.id : q \in T}
      OBVIOUS
    <2>4. CASE f = r.text
      BY <2>1, <2>2, <2>3, <2>4
    <2>5. CASE f # r.text
      BY <2>1, <2>2, <2>3, <2>5
    <2> QED
      BY <2>4, <2>5
  <1>9. ASSUME NEW f
        PROVE  WordsOf(f)' = IF f = r.text THEN WordsOf(f) \cup own ELSE WordsOf(f)
    <2>1. WordsOf(f)' = {q \in db \cup mine : q.table = "keywords" /\ q.refs[1] \in TextsOf(f)'}
      BY <1>7 DEF WordsOf
    <2>2. \A q \in db : q.table = "keywords" =>
             (q.refs[1] \in TextsOf(f)' <=> q.refs[1] \in TextsOf(f))
      BY <1>4, <1>8
    <2>3. \A q \in mine : q.table = "keywords" =>
             q \in own /\ (q.refs[1] \in TextsOf(f)' <=> f = r.text)
      BY <1>5, <1>6, <1>8 DEF WordRows
    <2>4. WordsOf(f) = {q \in db : q.table = "keywords" /\ q.refs[1] \in TextsOf(f)}
      BY DEF WordsOf
    <2>5. \A q : q \in own => q \in mine /\ q.table = "keywords"
      BY DEF WordRows
    <2> HIDE DEF own, mine
    <2>6. ASSUME NEW q
          PROVE  q \in WordsOf(f)' <=> q \in WordsOf(f) \/ (f = r.text /\ q \in own)
      BY <2>1, <2>2, <2>3, <2>4, <2>5
    <2> QED
      BY <2>6
  <1>10. /\ IsFiniteSet(TextsOf(r.text)) /\ IsFiniteSet(WordsOf(r.text)) /\ IsFiniteSet(own)
         /\ WordsOf(r.text) \cap own = {}
    <2>1. IsFiniteSet(own)
      BY <1>1, FS_Subset DEF FiniteInv, WordRows
    <2>2. WordsOf(r.text) \cap own = {}
      BY <1>1, <1>2, <1>6 DEF WordsOf, WordRows
    <2> QED
      BY <1>1, <2>1, <2>2, StoredFinite
  <1> HIDE DEF own
  <1>11. Cardinality(TextsOf(r.text)') = Cardinality(TextsOf(r.text)) + 1
    BY <1>5, <1>8, <1>10, FS_AddElement
  <1>12. Cardinality(WordsOf(r.text)') = Cardinality(WordsOf(r.text)) + Cardinality(own)
    <2>1. WordsOf(r.text)' = WordsOf(r.text) \cup own
      BY <1>9
    <2>2. Cardinality(WordsOf(r.text) \cup own) =
             Cardinality(WordsOf(r.text)) + Cardinality(own) - Cardinality({})
      BY <1>10, FS_Union
    <2>3. Cardinality({}) = 0 /\ Cardinality(WordsOf(r.text)) \in Nat /\ Cardinality(own) \in Nat
      BY <1>10, FS_EmptySet, FS_CardinalityType
    <2> QED
      BY <2>1, <2>2, <2>3
  <1>13. StoredTexts' = [StoredTexts EXCEPT ![r.text] = @ + 1]
    BY <1>8, <1>11 DEF StoredTexts
  <1>14. StoredWords' = [StoredWords EXCEPT ![r.text] = @ + Cardinality(own)]
    BY <1>9, <1>12 DEF StoredWords
  <1> QED
    BY <1>13, <1>14 DEF own

LEMMA ItemIs ==
    ASSUME NEW iv
    PROVE  /\ Item(iv).file = iv.file /\ Item(iv).named = ~Nameless(iv.name)
           /\ Item(iv).complete = iv.summarised /\ Item(iv).words = Cardinality(Stated(iv))
  BY DEF Item

LEMMA CommitMaps ==
    ASSUME IInv, SInv, NEW w \in Worker, tx[w].on, tx[w].todo = <<>>,
           db' = db \cup tx[w].rows, NEW files, Close(w, files),
           files = {} \/ files = {tx[w].file}
    PROVE  Store!Next
  <1> DEFINE iv == Current(w)
  <1>1. /\ Store!Ends(w) /\ Head(Waiting[w]) = Item(iv)
        /\ Said' = [Said EXCEPT ![w] = @ \cup files]
    BY Ending
  <1>2. tx[w].file = iv.file
    BY DEF SInv, PlanInv
  <1>3. /\ files = {tx[w].file} => Store!Tells(w)
        /\ files = {} => Said' = Said
    <2>1. files = {tx[w].file} => Store!Tells(w)
      BY <1>1, <1>2, ItemIs DEF Store!Tells
    <2>2. Said = [Said EXCEPT ![w] = @ \cup {}]
      BY DEF Said
    <2> QED
      BY <1>1, <2>1, <2>2
  <1>4. CASE Nameless(iv.name) /\ NoTexts(tx[w].rows)
    <2>1. StoredTexts' = StoredTexts /\ StoredWords' = StoredWords
      BY <1>4, NothingStored
    <2>2. ~Head(Waiting[w]).named
      BY <1>1, <1>4, ItemIs
    <2>3. CASE files = {tx[w].file}
      <3>1. Store!PassOver(w)
        BY <1>1, <1>3, <2>1, <2>2, <2>3 DEF Store!PassOver
      <3> QED
        BY <3>1 DEF Store!Next
    <2>4. CASE files = {}
      <3>1. Store!Fail(w)
        BY <1>1, <1>3, <2>1, <2>4 DEF Store!Fail
      <3> QED
        BY <3>1 DEF Store!Next
    <2> QED
      BY <2>3, <2>4
  <1>5. CASE /\ iv.summarised /\ ~Nameless(iv.name)
             /\ \E r \in tx[w].rows :
                   /\ r.table = "text_files" /\ r.text = iv.file
                   /\ \A q \in tx[w].rows : q.table = "text_files" => q = r
                   /\ \A q \in WordRows(tx[w].rows) : q.refs = <<r.id>>
             /\ Cardinality(WordRows(tx[w].rows)) = Cardinality(Stated(iv))
    <2>1. /\ StoredTexts' = [StoredTexts EXCEPT ![iv.file] = @ + 1]
          /\ StoredWords' = [StoredWords EXCEPT ![iv.file] = @ + Cardinality(Stated(iv))]
      BY <1>5, TextStored
    <2>2. /\ Item(iv).named /\ Item(iv).complete /\ Item(iv).file = iv.file
          /\ Item(iv).words = Cardinality(Stated(iv))
      BY <1>5, ItemIs
    <2>3. Store!Tells(w) \/ Said' = Said
      BY <1>3
    <2> HIDE DEF iv
    <2>4. Store!Store(w)
      BY <1>1, <2>1, <2>2, <2>3 DEF Store!Store
    <2> QED
      BY <2>4 DEF Store!Next
  <1> QED
    BY <1>4, <1>5, Finished

LEMMA RollbackMaps ==
    ASSUME IInv, SInv, NEW w \in Worker, tx[w].on, db' = db, Close(w, {})
    PROVE  Store!Next
  <1>1. Store!Ends(w) /\ Said' = [Said EXCEPT ![w] = @ \cup {}]
    BY Ending
  <1>2. Said' = Said
    BY <1>1 DEF Said
  <1>3. NoTexts({}) /\ db' = db \cup {}
    BY DEF NoTexts
  <1>4. StoredTexts' = StoredTexts /\ StoredWords' = StoredWords
    BY <1>3, NothingStored
  <1>5. Store!Fail(w)
    BY <1>1, <1>2, <1>4 DEF Store!Fail
  <1> QED
    BY <1>5 DEF Store!Next

LEMMA StoreStep ==
    ASSUME IInv, SInv, Next
    PROVE  Store!Next \/ UNCHANGED <<Waiting, StoredTexts, StoredWords, Said>>
  <1>1. PICK w \in Worker :
           \/ Runs(w) \/ Begin(w)
           \/ /\ tx[w].on /\ tx[w].todo = <<>> /\ db' = db \cup tx[w].rows
              /\ Close(w, {tx[w].file}) \/ Close(w, {})
           \/ tx[w].on /\ db' = db /\ Close(w, {})
    BY StepKinds
  <1>2. CASE Runs(w) \/ Begin(w)
    BY <1>2, Unchanging
  <1>3. ASSUME NEW files, files = {} \/ files = {tx[w].file}, tx[w].on, tx[w].todo = <<>>,
               db' = db \cup tx[w].rows, Close(w, files)
        PROVE  Store!Next
    BY <1>3, CommitMaps
  <1>4. CASE tx[w].on /\ db' = db /\ Close(w, {})
    BY <1>4, RollbackMaps
  <1> QED
    BY <1>1, <1>2, <1>3, <1>4

\* The rows a CALL inserts one by one, between those of other processes, and whatever it
\* gives up, amount to storing interviews whole at one instant, in each process's order.
THEOREM StoresAtOnceHolds == Spec => StoresAtOnce
  <1>1. (IInv /\ SInv) /\ [Next]_vars =>
           [Store!Next]_<<Waiting, StoredTexts, StoredWords, Said>>
    <2>1. ASSUME UNCHANGED vars
          PROVE  UNCHANGED <<Waiting, StoredTexts, StoredWords, Said>>
      BY <2>1 DEF vars, Waiting, Pending, Over, StoredTexts, StoredWords, TextsOf, WordsOf, Said
    <2> QED
      BY <2>1, StoreStep
  <1> QED
    BY <1>1, StoreInit, StoredInvariant, PTL DEF Spec, StoresAtOnce, Store!Spec, Store!vars
=============================================================================
