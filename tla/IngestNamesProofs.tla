-------------------------- MODULE IngestNamesProofs --------------------------
(***************************************************************************)
(* When one process ingests, IngestInterview keeps one row per name: a     *)
(* name is looked up before it is created, and nothing comes in between.   *)
(***************************************************************************)
EXTENDS IngestStoredProofs

-----------------------------------------------------------------------------
(* The invariant.                                                          *)

NameTables == Lookups \cup {"people"}
SameName(q, r) ==
    q.table = r.table /\ q.text = r.text /\ (q.table = "cities" => q.refs = r.refs)
Distinct(S) == \A q, r \in S : q.table \in NameTables /\ SameName(q, r) => q = r

\* A person that was not found is created as soon as the birthplace is known, and is
\* still not there.
Adds(st) == st.op = "insert" /\ st.table = "people"
Unmet(S, name) == \A r \in S : r.table = "people" => r.text # name
CreatesFresh(w) ==
    \A k \in 1..Len(tx[w].todo) : Adds(tx[w].todo[k]) =>
        /\ \A j \in 1..(k - 1) : tx[w].todo[j].op = "getOrCreate"
        /\ Unmet(Visible(w), tx[w].todo[k].text)

NInv == Distinct(db) /\ \A w \in Worker : Distinct(Visible(w)) /\ CreatesFresh(w)

-----------------------------------------------------------------------------
(* A statement keeps it.                                                   *)

\* The rows a statement adds have no namesake.
Unheard(w, N) ==
    \A r \in N : r.table \in NameTables => \A q \in Visible(w) : ~SameName(q, r)

LEMMA NamesakeFree ==
    ASSUME IInv, IInv', NEW w \in Worker, NEW N, NEW next, Does(w, N, next), NEW r \in N,
           r.table \in NameTables,
           Named(w, r.table, r.text, r.refs) = {}
    PROVE  \A q \in Visible(w) : ~SameName(q, r)
  <1> SUFFICES ASSUME NEW q \in Visible(w), SameName(q, r) PROVE FALSE
    OBVIOUS
  <1>1. q.table = r.table /\ q.text = r.text /\ (q.table = "cities" => q.refs = r.refs)
    BY DEF SameName
  <1>2. r \in Visible(w)'
    BY DEF Does, Visible
  <1>3. Formed(q)
    BY DEF IInv, RowsInv, Sound
  <1>4. Formed(r)
    <2>1. \A s \in Visible(w)' : Formed(s)
      BY DEF IInv, RowsInv, Sound
    <2> QED
      BY <1>2, <2>1
  <1>5. q.table = "people" \/ q.refs = r.refs
    <2>1. CASE r.table \in Lookups \ {"cities"}
      <3>1. Len(References(r.table)) = 0
        BY <2>1 DEF References, Lookups
      <3>2. q.refs \in Seq(Nat) /\ r.refs \in Seq(Nat) /\ Len(q.refs) = 0 /\ Len(r.refs) = 0
        BY <1>1, <1>3, <1>4, <3>1 DEF Formed, RowSet
      <3> QED
        BY <3>2, EmptySeq
    <2> QED
      BY <1>1, <2>1 DEF NameTables
  <1>6. q.id \in Named(w, r.table, r.text, r.refs)
    BY <1>1, <1>5 DEF Named
  <1> QED
    BY <1>6

LEMMA DistinctStep ==
    ASSUME \A u, v \in Worker : u = v, Distinct(db), NEW w \in Worker, Distinct(Visible(w)),
           NEW N, NEW next, Does(w, N, next), Unheard(w, N), CreatesFresh(w)'
    PROVE  NInv'
  <1>1. Visible(w)' = Visible(w) \cup N /\ db' = db /\ \A q, r \in N : q = r
    BY DEF Does, Visible
  <1>2. Distinct(Visible(w)')
    <2> SUFFICES ASSUME NEW q \in Visible(w) \cup N, NEW r \in Visible(w) \cup N,
                        q.table \in NameTables, SameName(q, r)
                 PROVE  q = r
      BY <1>1 DEF Distinct
    <2>1. SameName(r, q) /\ r.table \in NameTables
      BY DEF SameName
    <2> QED
      BY <1>1, <2>1 DEF Unheard, Distinct
  <1>3. Distinct(db')
    BY <1>1
  <1>4. \A v \in Worker : v = w
    OBVIOUS
  <1> QED
    BY <1>2, <1>3, <1>4 DEF NInv

\* After a statement that is not a lookup, nobody is about to be created.
LEMMA NobodyWaits ==
    ASSUME IInv, NEW w \in Worker, tx[w].todo # <<>>, CreatesFresh(w),
           tx[w].todo[1].op # "getOrCreate"
    PROVE  \A k \in 2..Len(tx[w].todo) : ~Adds(tx[w].todo[k])
  <1>1. Len(tx[w].todo) \in Nat
    BY HeadIs
  <1>2. ASSUME NEW k \in 2..Len(tx[w].todo) PROVE ~Adds(tx[w].todo[k])
    <2>1. k \in 1..Len(tx[w].todo) /\ 1 \in 1..(k - 1)
      BY <1>1
    <2> QED
      BY <2>1 DEF CreatesFresh
  <1> QED
    BY <1>2

LEMMA FreshRest ==
    ASSUME IInv, NEW w \in Worker, tx[w].todo # <<>>, CreatesFresh(w), NEW N,
           Does(w, N, Tail(tx[w].todo)),
           tx[w].todo[1].op = "getOrCreate" => \A r \in N : r.table # "people"
    PROVE  CreatesFresh(w)'
  <1> DEFINE todo == tx[w].todo
             rest == Tail(tx[w].todo)
  <1>1. /\ Len(todo) \in Nat \ {0} /\ Len(rest) = Len(todo) - 1
        /\ \A k \in 1..(Len(todo) - 1) : rest[k] = todo[k + 1]
    BY HeadIs
  <1>2. tx'[w].todo = rest /\ Visible(w)' = Visible(w) \cup N
    BY DEF Does, Visible
  <1>3. \A k \in 1..Len(todo) : Adds(todo[k]) =>
           /\ \A j \in 1..(k - 1) : todo[j].op = "getOrCreate"
           /\ Unmet(Visible(w), todo[k].text)
    BY DEF CreatesFresh
  <1> HIDE DEF todo, rest
  <1>4. ASSUME NEW k \in 1..Len(rest), Adds(rest[k])
        PROVE  /\ \A j \in 1..(k - 1) : rest[j].op = "getOrCreate"
               /\ Unmet(Visible(w) \cup N, rest[k].text)
    <2>1. /\ k \in 1..(Len(todo) - 1) /\ k + 1 \in 1..Len(todo) /\ (k + 1) - 1 = k
          /\ 1 \in 1..k /\ \A j \in 1..(k - 1) : j \in 1..(Len(todo) - 1) /\ j + 1 \in 1..k
      BY <1>1
    <2>2. rest[k] = todo[k + 1] /\ Adds(todo[k + 1])
      BY <1>1, <1>4, <2>1
    <2>3. /\ \A j \in 1..k : todo[j].op = "getOrCreate"
          /\ Unmet(Visible(w), todo[k + 1].text)
      BY <1>3, <2>1, <2>2
    <2>4. \A r \in N : r.table # "people"
      BY <2>1, <2>3 DEF todo
    <2>5. Unmet(Visible(w) \cup N, rest[k].text)
      BY <2>2, <2>3, <2>4 DEF Unmet
    <2>6. \A j \in 1..(k - 1) : rest[j].op = "getOrCreate"
      BY <1>1, <2>1, <2>3
    <2> QED
      BY <2>5, <2>6
  <1>5. \A k \in 1..Len(rest) : Adds(rest[k]) =>
           /\ \A j \in 1..(k - 1) : rest[j].op = "getOrCreate"
           /\ Unmet(Visible(w)', rest[k].text)
    BY <1>2, <1>4
  <1> QED
    BY <1>2, <1>5 DEF CreatesFresh

LEMMA FreshFront ==
    ASSUME IInv, NEW w \in Worker, tx[w].todo # <<>>, CreatesFresh(w),
           tx[w].todo[1].op # "getOrCreate",
           NEW front \in Seq(Stmt), Does(w, {}, front \o Tail(tx[w].todo)),
           \A k \in 1..Len(front) : Adds(front[k]) =>
               /\ \A j \in 1..(k - 1) : front[j].op = "getOrCreate"
               /\ Unmet(Visible(w), front[k].text)
    PROVE  CreatesFresh(w)'
  <1> DEFINE todo == tx[w].todo
             next == front \o Tail(tx[w].todo)
  <1>1. todo \in Seq(Stmt)
    BY TxTypes
  <1>2. /\ Len(front) \in Nat
        /\ \A k \in 1..Len(next) :
              \/ k \in 1..Len(front) /\ next[k] = front[k]
              \/ /\ k > Len(front) /\ (k - Len(front)) + 1 \in 2..Len(todo)
                 /\ next[k] = todo[(k - Len(front)) + 1]
    BY <1>1, Shifted
  <1>3. \A k \in 2..Len(todo) : ~Adds(todo[k])
    BY NobodyWaits
  <1>4. tx'[w].todo = next /\ Visible(w)' = Visible(w)
    BY DEF Does, Visible
  <1> HIDE DEF todo, next
  <1>5. ASSUME NEW k \in 1..Len(next), Adds(next[k])
        PROVE  /\ \A j \in 1..(k - 1) : next[j].op = "getOrCreate"
               /\ Unmet(Visible(w), next[k].text)
    <2>1. k \in 1..Len(front) /\ next[k] = front[k]
      BY <1>2, <1>3, <1>5
    <2>2. /\ \A j \in 1..(k - 1) : front[j].op = "getOrCreate"
          /\ Unmet(Visible(w), front[k].text)
      BY <1>5, <2>1
    <2>3. ASSUME NEW j \in 1..(k - 1) PROVE next[j] = front[j]
      <3>1. j \in 1..Len(next) /\ ~(j > Len(front))
        BY <1>2, <2>1
      <3> QED
        BY <1>2, <3>1
    <2> QED
      BY <2>1, <2>2, <2>3
  <1> QED
    BY <1>4, <1>5 DEF CreatesFresh

\* The statements that create a person: its birthplace's, then its own.
LEMMA FrontAdds ==
    ASSUME NEW st \in Finding, NEW front, front = st.refs \o <<PersonInsert(st)>>,
           NEW k \in 1..Len(front), Adds(front[k])
    PROVE  (\A j \in 1..(k - 1) : front[j].op = "getOrCreate") /\ front[k].text = Canon[st.text]
  <1> DEFINE p == PersonInsert(st)
             n == Len(st.refs)
  <1>1. st.refs \in Seq(Creating) /\ \A s \in Creating : s.op = "getOrCreate"
    BY DEF Finding, Creating
  <1>2. p.text = Canon[st.text]
    BY DEF PersonInsert, Statement
  <1> HIDE DEF p
  <1>3. /\ st.refs \in Seq(Creating \cup {p}) /\ <<p>> \in Seq(Creating \cup {p})
        /\ Len(<<p>>) = 1 /\ <<p>>[1] = p
    BY <1>1, SeqMonotonic
  <1>4. /\ n \in Nat /\ Len(front) = n + 1 /\ \A j \in 1..n : front[j] = st.refs[j]
        /\ front[n + 1] = p
    <2>1. front = st.refs \o <<p>>
      BY DEF p
    <2>2. /\ n \in Nat /\ Len(front) = n + Len(<<p>>) /\ \A j \in 1..n : front[j] = st.refs[j]
          /\ \A j \in 1..Len(<<p>>) : front[n + j] = <<p>>[j]
      BY <1>3, <2>1, Concatenated
    <2> QED
      BY <1>3, <2>2
  <1>5. \A j \in 1..n : front[j].op = "getOrCreate"
    BY <1>1, <1>4, ElementOfSeq
  <1> HIDE DEF n
  <1>6. k = n + 1
    <2>1. ~(k \in 1..n)
      BY <1>5 DEF Adds
    <2> QED
      BY <1>4, <2>1
  <1>7. \A j \in 1..(k - 1) : j \in 1..n
    BY <1>4, <1>6
  <1> QED
    BY <1>2, <1>4, <1>5, <1>6, <1>7

LEMMA RunNames ==
    ASSUME \A u, v \in Worker : u = v, IInv, IInv', NInv, NEW w \in Worker, Runs(w)
    PROVE  NInv'
  <1> DEFINE st == Head(tx[w].todo)
             rest == Tail(tx[w].todo)
  <1>1. Distinct(db) /\ Distinct(Visible(w)) /\ CreatesFresh(w)
    BY DEF NInv
  <1>2. tx[w].todo # <<>> /\ tx[w].todo[1] = st /\ rest \in Seq(Stmt)
    BY HeadIs DEF Runs, RunGetOrCreate, RunGet, RunPerson, RunInsert, RunRelate, RunLink,
                  Running
  <1>3. Unheard(w, {})
    BY DEF Unheard
  <1>4. CASE RunGetOrCreate(w)
    <2>1. PICK N : /\ Does(w, N, rest)
                   /\ \A r \in N : /\ r.table \in Lookups
                                   /\ Named(w, r.table, r.text, r.refs) = {}
      BY <1>4, GetOrCreateDoes
    <2>2. \A r \in N : r.table \in NameTables /\ r.table # "people"
      BY <2>1 DEF NameTables, Lookups
    <2>3. Unheard(w, N)
      BY <2>1, <2>2, NamesakeFree DEF Unheard
    <2>4. CreatesFresh(w)'
      BY <1>1, <1>2, <2>1, <2>2, FreshRest
    <2> QED
      BY <1>1, <2>1, <2>3, <2>4, DistinctStep
  <1>5. CASE RunGet(w)
    <2>1. Does(w, {}, rest)
      BY <1>5, GetDoes
    <2>2. CreatesFresh(w)'
      BY <1>1, <1>2, <2>1, FreshRest
    <2> QED
      BY <1>1, <1>3, <2>1, <2>2, DistinctStep
  <1>6. CASE RunPerson(w)
    <2>1. st.op = "person" /\ st \in Finding
      BY <1>6, ByOp DEF RunPerson, Running
    <2> DEFINE front == st.refs \o <<PersonInsert(st)>>
    <2>2. \/ Does(w, {}, <<>>) \/ Does(w, {}, rest)
          \/ /\ Named(w, "people", Canon[st.text], <<>>) = {} /\ front \in Seq(Stmt)
             /\ Does(w, {}, front \o rest)
      BY <1>6, PersonDoes
    <2>3. CASE Does(w, {}, <<>>)
      <3>1. CreatesFresh(w)'
        BY <2>3, EmptySeq DEF Does, CreatesFresh
      <3> QED
        BY <1>1, <1>3, <2>3, <3>1, DistinctStep
    <2>4. CASE Does(w, {}, rest)
      <3>1. CreatesFresh(w)'
        BY <1>1, <1>2, <2>4, FreshRest
      <3> QED
        BY <1>1, <1>3, <2>4, <3>1, DistinctStep
    <2>5. CASE /\ Named(w, "people", Canon[st.text], <<>>) = {} /\ front \in Seq(Stmt)
               /\ Does(w, {}, front \o rest)
      <3>1. Unmet(Visible(w), Canon[st.text])
        BY <2>5 DEF Named, Unmet
      <3>2. \A k \in 1..Len(front) : Adds(front[k]) =>
               /\ \A j \in 1..(k - 1) : front[j].op = "getOrCreate"
               /\ Unmet(Visible(w), front[k].text)
        BY <2>1, <3>1, FrontAdds
      <3> HIDE DEF front, st, rest
      <3>3. CreatesFresh(w)'
        BY <1>1, <1>2, <2>1, <2>5, <3>2, FreshFront DEF rest
      <3> QED
        BY <1>1, <1>3, <2>5, <3>3, DistinctStep
    <2> QED
      BY <2>2, <2>3, <2>4, <2>5
  <1>7. CASE RunInsert(w)
    <2>1. PICK N : /\ Does(w, N, rest)
                   /\ \A r \in N : r.table = st.table /\ r.text = st.text
      BY <1>7, InsertDoes DEF Inserts
    <2>2. st.op = "insert" /\ st.table \notin Lookups
      BY <1>7, ByOp DEF RunInsert, Running, Inserting
    <2>3. Unheard(w, N)
      <3>1. st.table = "people" => Unmet(Visible(w), st.text)
        <4>1. 1 \in 1..Len(tx[w].todo)
          BY <1>2, HeadIs
        <4> QED
          BY <1>1, <1>2, <2>2, <4>1 DEF CreatesFresh, Adds
      <3> HIDE DEF st
      <3> QED
        BY <2>1, <2>2, <3>1 DEF Unheard, Unmet, NameTables, SameName
    <2>4. CreatesFresh(w)'
      BY <1>1, <1>2, <2>1, <2>2, FreshRest
    <2> QED
      BY <1>1, <2>1, <2>3, <2>4, DistinctStep
  <1>8. CASE RunRelate(w)
    <2>1. PICK front : /\ AllQuiet(front) /\ Does(w, {}, front \o rest)
                       /\ \A k \in 1..Len(front) : front[k].op # "insert"
      BY <1>8, RelateDoes
    <2>2. st.op = "relate"
      BY <1>8 DEF RunRelate, Running
    <2>3. \A k \in 1..Len(front) : ~Adds(front[k])
      BY <2>1 DEF Adds
    <2>4. CreatesFresh(w)'
      BY <1>1, <1>2, <2>1, <2>2, <2>3, FreshFront DEF AllQuiet
    <2> QED
      BY <1>1, <1>3, <2>1, <2>4, DistinctStep
  <1>9. CASE RunLink(w)
    <2>1. PICK N : Does(w, N, rest) /\ \A r \in N : r.table \in Links
      BY <1>9, LinkDoes
    <2>2. st.op = "link" /\ \A r \in N : r.table \notin NameTables
      BY <1>9, <2>1 DEF RunLink, Running, Links, NameTables, Lookups
    <2>3. Unheard(w, N)
      BY <2>2 DEF Unheard
    <2>4. CreatesFresh(w)'
      BY <1>1, <1>2, <2>1, <2>2, FreshRest
    <2> QED
      BY <1>1, <2>1, <2>3, <2>4, DistinctStep
  <1> QED
    BY <1>4, <1>5, <1>6, <1>7, <1>8, <1>9 DEF Runs

-----------------------------------------------------------------------------
(* The other steps.                                                        *)

\* The interview's own statements insert no person: FindPerson does when it runs.
LEMMA ProgramAdds ==
    ASSUME NEW iv \in Interview, NEW k \in 1..Len(Program(iv))
    PROVE  ~Adds(Program(iv)[k])
  <1> DEFINE s == Program(iv)
             m == Len(s)
             n == Len(iv.keywords)
  <1>1. /\ s \in Seq(Plain) /\ n \in Nat /\ m >= n + 2
        /\ s[1] = FindPerson(iv.name, Place(iv.home, "birthCountry", "birthCity"), "person")
        /\ s[2] = TextFile(iv)[1]
        /\ \A j \in 3..(m - n) : s[j] \in Inner
        /\ \A j \in 1..n : s[(m - n) + j] = Keyword(iv.keywords[j])[1]
    BY ProgramShape
  <1>2. m \in Nat
    BY <1>1
  <1>3. k \in 1..m
    OBVIOUS
  <1>4. FindPerson(iv.name, Place(iv.home, "birthCountry", "birthCity"), "person").op # "insert"
    BY DEF FindPerson, Statement
  <1>5. \A st \in Inner : ~Adds(st)
    <2>1. \A st \in Creating \cup Getting \cup Mentioning \cup Relating : ~Adds(st)
      BY DEF Adds, Creating, Getting, Mentioning, Finding, Relating
    <2>2. \A st \in Detailing : ~Adds(st)
      BY DEF Adds, Detailing
    <2>3. \A st \in Linking : ~Adds(st)
      BY DEF Adds, Linking, Link, Statement
    <2> QED
      BY <2>1, <2>2, <2>3 DEF Inner
  <1> HIDE DEF s, m, n
  <1>6. k = 1 \/ k = 2 \/ k \in 3..(m - n) \/ (k - (m - n) \in 1..n /\ (m - n) + (k - (m - n)) = k)
    BY <1>1, <1>2, <1>3
  <1>7. CASE k = 1
    BY <1>1, <1>4, <1>7 DEF Adds, s
  <1>8. CASE k = 2
    BY <1>1, <1>8, TextIs DEF Adds, s
  <1>9. CASE k \in 3..(m - n)
    BY <1>1, <1>5, <1>9 DEF s
  <1>10. CASE k - (m - n) \in 1..n /\ (m - n) + (k - (m - n)) = k
    <2>1. s[k] = Keyword(iv.keywords[k - (m - n)])[1]
      BY <1>1, <1>10
    <2> QED
      BY <2>1, KeywordIs DEF Adds, s
  <1> QED
    BY <1>6, <1>7, <1>8, <1>9, <1>10

LEMMA NamesInit ==
    ASSUME \A i, j \in DOMAIN Levels : Levels[i] = Levels[j] => i = j
    PROVE  Init => NInv
  <1> SUFFICES ASSUME Init PROVE NInv
    OBVIOUS
  <1>1. \A w \in Worker : Visible(w) = db /\ tx[w].todo = <<>>
    BY DEF Init, Visible, Idle
  <1>2. ASSUME NEW q \in db, NEW r \in db, SameName(q, r) PROVE q = r
    <2>1. PICK i \in DOMAIN Levels : q = Row("education_levels", i, Levels[i], <<>>)
      BY DEF Init
    <2>2. PICK j \in DOMAIN Levels : r = Row("education_levels", j, Levels[j], <<>>)
      BY DEF Init
    <2>3. q.text = Levels[i] /\ r.text = Levels[j]
      BY <2>1, <2>2 DEF Row
    <2> QED
      BY <1>2, <2>1, <2>2, <2>3 DEF SameName
  <1>3. Distinct(db)
    BY <1>2 DEF Distinct
  <1>4. \A w \in Worker : CreatesFresh(w)
    BY <1>1, EmptySeq DEF CreatesFresh
  <1> QED
    BY <1>1, <1>3, <1>4 DEF NInv

LEMMA NamesStep ==
    ASSUME \A u, v \in Worker : u = v
    PROVE  IInv /\ NInv /\ [Next]_vars => NInv'
  <1> SUFFICES ASSUME IInv, NInv, [Next]_vars PROVE NInv'
    OBVIOUS
  <1>1. CASE Next
    <2>1. PICK w \in Worker :
             \/ Runs(w) \/ Begin(w)
             \/ /\ tx[w].on /\ tx[w].todo = <<>> /\ db' = db \cup tx[w].rows
                /\ Close(w, {tx[w].file}) \/ Close(w, {})
             \/ tx[w].on /\ db' = db /\ Close(w, {})
      BY <1>1, StepKinds
    <2>2. \A v \in Worker : v = w
      OBVIOUS
    <2>3. CASE Runs(w)
      <3>1. IInv'
        BY <1>1, StepKeeps
      <3> QED
        BY <2>3, <3>1, RunNames
    <2>4. CASE Begin(w)
      <3> DEFINE iv == Head(queue[w])
      <3>1. db' = db /\ tx'[w].rows = {} /\ tx'[w].todo = Program(iv) /\ iv \in Interview
        BY <2>4, BeginIs
      <3> HIDE DEF iv
      <3>2. CreatesFresh(w)'
        BY <3>1, ProgramAdds DEF CreatesFresh
      <3>3. Visible(w)' = db
        BY <3>1 DEF Visible
      <3> QED
        BY <2>2, <3>1, <3>2, <3>3 DEF NInv
    <2>5. ASSUME NEW files, Close(w, files), db' = db \/ db' = Visible(w) PROVE NInv'
      <3>1. tx'[w].rows = {} /\ tx'[w].todo = <<>>
        BY <2>5, CloseIs
      <3>2. CreatesFresh(w)'
        BY <3>1, EmptySeq DEF CreatesFresh
      <3>3. Visible(w)' = db' /\ Distinct(db')
        BY <2>5, <3>1 DEF Visible, NInv
      <3> QED
        BY <2>2, <3>2, <3>3 DEF NInv
    <2> QED
      BY <2>1, <2>3, <2>4, <2>5 DEF Visible
  <1>2. CASE UNCHANGED vars
    <2>1. db' = db /\ tx' = tx
      BY <1>2 DEF vars
    <2>2. \A w \in Worker : Visible(w)' = Visible(w) /\ (CreatesFresh(w) => CreatesFresh(w)')
      BY <2>1 DEF Visible, CreatesFresh
    <2> QED
      BY <2>1, <2>2 DEF NInv
  <1> QED
    BY <1>1, <1>2

-----------------------------------------------------------------------------
(* The theorem.                                                            *)

\* Whatever the case and the blanks around a name, a lookup table and the people have one
\* row for it, if one process ingests and the education levels, which no code fills, are
\* all different (get_..._id_by_name, find_or_create_person).
THEOREM OneRowPerNameHolds ==
    ASSUME \A v, w \in Worker : v = w,
           \A i, j \in DOMAIN Levels : Levels[i] = Levels[j] => i = j
    PROVE  Spec => []OneRowPerName
  <1>1. Init => IInv /\ NInv
    BY InitHolds, NamesInit
  <1>2. (IInv /\ NInv) /\ [Next]_vars => (IInv /\ NInv)'
    BY StepKeeps, NamesStep
  <1>3. NInv => OneRowPerName
    BY DEF NInv, OneRowPerName, Distinct, SameName, NameTables
  <1> QED
    BY <1>1, <1>2, <1>3, PTL DEF Spec

=============================================================================
