-------------------------- MODULE IngestInterview --------------------------
(***************************************************************************)
(* The stored procedure ingest_interview_from_ai_json_v2 and its helper    *)
(* functions, run by processes that each ingest a list of interviews: one  *)
(* CALL per interview, one transaction per CALL (READ COMMITTED, and every *)
(* statement of a VOLATILE function takes a fresh snapshot).  The code only *)
(* ever inserts, so the database is a set of rows, and a transaction sees  *)
(* the committed rows and its own.                                         *)
(***************************************************************************)
EXTENDS Naturals, FiniteSets, SequencesExt

CONSTANTS
    Worker,      \* processes that ingest
    Work,        \* the interviews of each, in order
    Missing,     \* absent values: NULL and the empty string
    Canon,       \* lower(trim(p)) of the other texts
    EmptyName,   \* lower(trim(p)) of a text of blanks
    Levels       \* names in education_levels, which no code fills

Text == DOMAIN Canon \cup Missing
Home == [country : Text, city : Text]
\* An answer of Gemini, as far as the procedure reads it.
Interview ==
    [file : STRING, name : Text, home : Home, summarised : BOOLEAN,
     moves : Seq([from : Home, to : Home, travel : Text]), jobs : Seq(Text),
     schools : Seq([school : Text, level : Text]), others : Seq([name : Text, as : Text]),
     cultures : Seq(Text), languages : Seq(Text), events : Seq(Text), keywords : Seq(Text)]

ASSUME WorkAssumption ==
    /\ IsFiniteSet(Worker)
    /\ Work \in [Worker -> Seq(Interview)]
    /\ EmptyName \in Range(Canon) /\ DOMAIN Canon \cap Missing = {}
    /\ Levels \in Seq(Range(Canon))

VARIABLES
    db,     \* the committed rows
    seq,    \* the last value of each table's sequence
    queue,  \* the interviews each process still has to ingest
    tx      \* each process's transaction: what it still has to run, its
            \* uncommitted rows and the variables of the procedure

vars == <<db, seq, queue, tx>>

Null == 0
NoText == "none"
Lookups == {"countries", "cities", "travel_types", "education_levels", "schools",
            "relationships", "cultures", "languages", "historic_events"}
Serials == Lookups \cup {"people", "text_files", "immigrations", "jobs",
                         "person_education", "keywords"}
Links == {"people_relationships", "people_cultures", "culture_languages",
          "people_in_historic_events"}

\* The tables a row refers to, in the order of its columns.
References(table) ==
    CASE table = "cities" -> <<"countries">>
      [] table = "people" -> <<"countries", "cities">>
      [] table = "text_files" -> <<"people">>
      [] table = "immigrations" ->
           <<"people", "countries", "cities", "countries", "cities", "travel_types">>
      [] table = "jobs" -> <<"people", "education_levels">>
      [] table = "person_education" -> <<"people", "schools", "education_levels">>
      [] table = "people_relationships" -> <<"people", "people">>
      [] table = "people_cultures" -> <<"people", "cultures">>
      [] table = "culture_languages" -> <<"cultures", "languages">>
      [] table = "people_in_historic_events" -> <<"people", "historic_events">>
      [] table = "keywords" -> <<"text_files">>
      [] OTHER -> <<>>

\* A row: its serial id (for a people_relationships row its id_type), its text
\* and the ids it refers to.
Row(table, id, text, refs) == [table |-> table, id |-> id, text |-> text, refs |-> refs]

-----------------------------------------------------------------------------
(* The procedure as the statements one interview makes it run.  `var` is the *)
(* plpgsql variable a statement assigns, `refs` those it reads.             *)

Statement(op, table, text, refs, var) ==
    [op |-> op, table |-> table, text |-> text, refs |-> refs, var |-> var]

\* get_..._id_by_name(text, TRUE), get_..._id_by_name(text), find_or_create_person.
GetOrCreate(table, text, refs, var) == Statement("getOrCreate", table, text, refs, var)
Get(table, text, var) == Statement("get", table, text, <<>>, var)
\* The birthplace is looked up only for a person that is created.
FindPerson(text, birthplace, var) == Statement("person", "people", text, birthplace, var)
\* INSERT of a row with a serial id, and INSERT ... ON CONFLICT DO NOTHING.
Insert(table, text, refs, var) == Statement("insert", table, text, refs, var)
Link(table, refs) == Statement("link", table, NoText, refs, NoText)

\* The statements of a section: each of its entries makes n of them run.
Each(items, n, Statements(_)) ==
    [k \in 1..(n * Len(items)) |-> Statements(items[((k - 1) \div n) + 1])[((k - 1) % n) + 1]]

Place(p, country, city) ==
    << GetOrCreate("countries", p.country, <<>>, country),
       GetOrCreate("cities", p.city, <<country>>, city) >>

TextFile(iv) ==
    << IF iv.summarised THEN Insert("text_files", iv.file, <<"person">>, "text")
       ELSE Statement("violate", "text_files", iv.file, <<>>, NoText) >>

\* (A mutation: two columns are swapped.)
Immigration_Swapped(e) ==
    Place(e.from, "country", "city") \o Place(e.to, "country2", "city2")
    \o << GetOrCreate("travel_types", e.travel, <<>>, "travel"),
          Insert("immigrations", NoText,
                 <<"person", "country", "city", "city2", "country2", "travel">>, NoText) >>
Immigration(e) ==
    Place(e.from, "country", "city") \o Place(e.to, "country2", "city2")
    \o << GetOrCreate("travel_types", e.travel, <<>>, "travel"),
          Insert("immigrations", NoText,
                 <<"person", "country", "city", "country2", "city2", "travel">>, NoText) >>

Job(level) == << Get("education_levels", level, "level"),
                 Insert("jobs", NoText, <<"person", "level">>, NoText) >>

Education(e) == << GetOrCreate("schools", e.school, <<>>, "school"),
                   Get("education_levels", e.level, "level"),
                   Insert("person_education", NoText, <<"person", "school", "level">>, NoText) >>

OtherPerson(o) == << FindPerson(o.name, <<>>, "other"),
                     Statement("relate", "relationships", o.as, <<>>, NoText) >>

Culture(c) == << GetOrCreate("cultures", c, <<>>, "culture"),
                 Link("people_cultures", <<"person", "culture">>) >>

Language(l) == << GetOrCreate("languages", l, <<>>, "language"),
                  Link("culture_languages", <<"mainCulture", "language">>) >>

HistoricEvent(e) == << GetOrCreate("historic_events", e, <<>>, "event"),
                       Link("people_in_historic_events", <<"person", "event">>) >>

Keyword(k) == << Insert("keywords", k, <<"text">>, NoText) >>

Program(iv) ==
    << FindPerson(iv.name, Place(iv.home, "birthCountry", "birthCity"), "person") >>
    \o TextFile(iv)
    \o Each(iv.moves, 6, Immigration) \o Each(iv.jobs, 2, Job)
    \o Each(iv.schools, 3, Education) \o Each(iv.others, 2, OtherPerson)
    \o Each(iv.cultures, 2, Culture) \o Each(iv.languages, 2, Language)
    \o Each(iv.events, 2, HistoricEvent) \o Each(iv.keywords, 1, Keyword)

-----------------------------------------------------------------------------
Variable == {"person", "text", "country", "city", "country2", "city2", "travel",
             "level", "school", "other", "relation", "culture", "mainCulture",
             "language", "event", "birthCountry", "birthCity", "none"}
Idle == [on |-> FALSE, file |-> NoText, todo |-> <<>>, rows |-> {},
         env |-> [v \in Variable |-> Null], said |-> {}]

Init ==
    /\ db = {Row("education_levels", i, Levels[i], <<>>) : i \in DOMAIN Levels}
    /\ seq = [t \in Serials |-> IF t = "education_levels" THEN Len(Levels) ELSE 0]
    /\ queue = Work
    /\ tx = [w \in Worker |-> Idle]

Visible(w) == db \cup tx[w].rows
Running(w, op) == tx[w].todo # <<>> /\ Head(tx[w].todo).op = op
Value(w, refs) == [k \in DOMAIN refs |-> tx[w].env[refs[k]]]

\* (A mutation: a person is matched on the birthplace too.)
Named_Exactly(w, table, name, refs) ==
    {r.id : r \in {q \in Visible(w) : q.table = table /\ q.text = name /\ q.refs = refs}}

\* Ids of the visible rows with a name; a city is looked up with its country.
Named(w, table, name, refs) ==
    {r.id : r \in {q \in Visible(w) : q.table = table /\ q.text = name
                                    /\ (table = "people" \/ q.refs = refs)}}

\* Finish the current statement: assign var, and go on with `next`.
Assign(w, var, value, next) ==
    /\ tx' = [tx EXCEPT ![w].env[var] = value, ![w].todo = next]
    /\ UNCHANGED <<db, seq, queue>>
Continue(w, next) == Assign(w, "none", Null, next)

\* Insert a row with the next id of its table.
InsertRow(w, table, text, refs, var, next) ==
    LET id == seq[table] + 1 IN
    /\ seq' = [seq EXCEPT ![table] = id]
    /\ tx' = [tx EXCEPT ![w].rows = @ \cup {Row(table, id, text, refs)},
                        ![w].env[var] = IF var = NoText THEN Null ELSE id,
                        ![w].todo = next]
    /\ UNCHANGED <<db, queue>>

\* get_X_id_by_name(p, TRUE): blank texts are refused before they are trimmed.
RunGetOrCreate(w) ==
    /\ Running(w, "getOrCreate")
    /\ LET st == Head(tx[w].todo)
           rest == Tail(tx[w].todo)
           refs == Value(w, st.refs)
           ids == Named(w, st.table, Canon[st.text], refs)
       IN IF st.text \in Missing THEN Assign(w, st.var, Null, rest)
          ELSE IF ids # {} THEN \E id \in ids : Assign(w, st.var, id, rest)
          ELSE InsertRow(w, st.table, Canon[st.text], refs, st.var, rest)

\* get_X_id_by_name(p): no row is created.
RunGet(w) ==
    /\ Running(w, "get")
    /\ LET st == Head(tx[w].todo)
           ids == IF st.text \in Missing THEN {}
                  ELSE Named(w, st.table, Canon[st.text], <<>>)
       IN \E id \in IF ids = {} THEN {Null} ELSE ids :
             Assign(w, st.var, id, Tail(tx[w].todo))

\* find_or_create_person(p, ...): the name is trimmed first.  Without an
\* interviewee the procedure returns.
Nameless(text) == text \in Missing \/ Canon[text] = EmptyName
RunPerson(w) ==
    /\ Running(w, "person")
    /\ LET st == Head(tx[w].todo)
           rest == Tail(tx[w].todo)
           ids == Named(w, "people", Canon[st.text], <<>>)
           create == Statement("insert", "people", Canon[st.text],
                               IF st.refs = <<>> THEN <<"none", "none">>
                               ELSE <<"birthCountry", "birthCity">>, st.var)
       IN IF Nameless(st.text)
          THEN Assign(w, st.var, Null, IF st.var = "person" THEN <<>> ELSE rest)
          ELSE IF ids # {} THEN \E id \in ids : Assign(w, st.var, id, rest)
          ELSE Continue(w, st.refs \o <<create>> \o rest)

\* An education entry needs its school and its level, a keyword its text.
Skipped(st, refs) ==
    \/ st.table = "person_education" /\ \E k \in DOMAIN refs : refs[k] = Null
    \/ st.table = "keywords" /\ st.text \in Missing
RunInsert(w) ==
    /\ Running(w, "insert")
    /\ LET st == Head(tx[w].todo)
           rest == Tail(tx[w].todo)
           refs == Value(w, st.refs)
       IN IF Skipped(st, refs) THEN Continue(w, rest)
          ELSE InsertRow(w, st.table, st.text, refs, st.var, rest)

\* (A mutation: the interviewee is not told apart.)
Relates_Oneself(w) == tx[w].env["other"] # Null

\* The relationship of a person mentioned: not to oneself.
Relates(w) == tx[w].env["other"] \notin {Null, tx[w].env["person"]}
RunRelate(w) ==
    /\ Running(w, "relate")
    /\ LET st == Head(tx[w].todo)
           rest == Tail(tx[w].todo)
       IN Continue(w, IF ~Relates(w) THEN rest
             ELSE << GetOrCreate("relationships", st.text, <<>>, "relation"),
                     Link("people_relationships", <<"person", "other">>) >> \o rest)

\* (A mutation: the relative and the type are swapped.)
LinkRow_Swapped(w, st) ==
    IF st.table = "people_relationships"
    THEN Row(st.table, tx[w].env["other"], NoText,
             <<tx[w].env["person"], tx[w].env["relation"]>>)
    ELSE Row(st.table, Null, NoText, Value(w, st.refs))

\* The row a link statement would insert; a relationship carries its type.
LinkRow(w, st) ==
    Row(st.table, IF st.table = "people_relationships" THEN tx[w].env["relation"] ELSE Null,
        NoText, Value(w, st.refs))
\* The primary key of a link table.  (A mutation: it includes the type.)
SameKey_Typed(q, r) == q.table = r.table /\ q.refs = r.refs /\ q.id = r.id
SameKey(q, r) == q.table = r.table /\ q.refs = r.refs
Unlinked(w, st) ==
    \/ \E k \in DOMAIN st.refs : tx[w].env[st.refs[k]] = Null
    \/ st.table = "people_relationships" /\ tx[w].env["relation"] = Null

\* An INSERT waits for a transaction that inserted the same key and is still open.
WaitsFor(w, v) ==
    /\ v # w /\ Running(w, "link")
    /\ LET st == Head(tx[w].todo) IN
       /\ ~Unlinked(w, st)
       /\ \A q \in Visible(w) : ~SameKey(q, LinkRow(w, st))
       /\ \E q \in tx[v].rows : SameKey(q, LinkRow(w, st))

RunLink(w) ==
    /\ Running(w, "link")
    /\ \A v \in Worker : ~WaitsFor(w, v)
    /\ LET st == Head(tx[w].todo)
           env == tx[w].env
           present == \E q \in Visible(w) : SameKey(q, LinkRow(w, st))
       IN tx' = [tx EXCEPT
            ![w].todo = Tail(@),
            ![w].rows = IF Unlinked(w, st) \/ present THEN @ ELSE @ \cup {LinkRow(w, st)},
            ![w].env["mainCulture"] =
                IF st.table = "people_cultures" /\ @ = Null THEN env["culture"] ELSE @]
    /\ UNCHANGED <<db, seq, queue>>

-----------------------------------------------------------------------------
(* store_extracted_data_v2 around the CALL.                                 *)

\* Take the next interview and open a transaction.
Begin(w) ==
    /\ ~tx[w].on /\ queue[w] # <<>>
    /\ queue' = [queue EXCEPT ![w] = Tail(@)]
    /\ LET iv == Head(queue[w]) IN
       tx' = [tx EXCEPT ![w] = [Idle EXCEPT !.on = TRUE, !.file = iv.file,
                                            !.todo = Program(iv),
                                            !.said = tx[w].said]]
    /\ UNCHANGED <<db, seq>>

\* (Mutations: the variables of a call leak into the next; the connection is never
\* closed; the success is told before the commit, which fails; an error is followed
\* by a commit.)
Close_Leaks(w, files) ==
    /\ tx' = [tx EXCEPT ![w].on = FALSE, ![w].said = @ \cup files]
    /\ UNCHANGED <<seq, queue>>
Close_Never(w, files) ==
    /\ tx' = [tx EXCEPT ![w].said = @ \cup files]
    /\ UNCHANGED <<seq, queue>>
Committed_Nothing(w) == db
RolledBack_Not(w) == db \cup tx[w].rows

Committed(w) == db \cup tx[w].rows
RolledBack(w) == db

\* Close the transaction; success is told of `files`.
Close(w, files) ==
    /\ tx' = [tx EXCEPT ![w] = [Idle EXCEPT !.said = tx[w].said \cup files]]
    /\ UNCHANGED <<seq, queue>>

Commit(w) ==
    /\ tx[w].on /\ tx[w].todo = <<>>
    /\ db' = Committed(w)
    /\ Close(w, {tx[w].file})

\* The acknowledgement of the commit is lost with the connection.
CommitUnacknowledged(w) ==
    /\ tx[w].on /\ tx[w].todo = <<>>
    /\ db' = db \cup tx[w].rows
    /\ Close(w, {})

\* A statement fails (NOT NULL story_title or story_summary) or the connection
\* is lost: rollback.  Sequences are not rolled back.
Rollback(w) ==
    /\ tx[w].on
    /\ db' = RolledBack(w)
    /\ Close(w, {})

Violation(w) == Running(w, "violate") /\ Rollback(w)

\* PostgreSQL finds a cycle of waiting transactions and fails one of them.
DeadlockAbort(w) ==
    /\ \E S \in SUBSET Worker : w \in S /\ \A u \in S : \E v \in S : WaitsFor(u, v)
    /\ Rollback(w)

Proceed(w) ==
    \/ Begin(w) \/ RunGetOrCreate(w) \/ RunGet(w) \/ RunPerson(w) \/ RunInsert(w)
    \/ RunRelate(w) \/ RunLink(w) \/ Violation(w) \/ Commit(w) \/ DeadlockAbort(w)

Next == \E w \in Worker : Proceed(w) \/ CommitUnacknowledged(w) \/ Rollback(w)

Spec == Init /\ [][Next]_vars
\* Each process goes on while it can; no failure of the connection is needed.
FairSpec == Spec /\ \A w \in Worker : WF_vars(Proceed(w))

-----------------------------------------------------------------------------
(* Properties.                                                             *)

Interviews == UNION {Range(Work[w]) : w \in Worker}
\* The keywords an interview gives, by their places: an absent one is passed over.
Stated(iv) == {k \in DOMAIN iv.keywords : iv.keywords[k] \notin Missing}

TypeOK ==
    /\ \A r \in db : r.table \in Serials \cup Links /\ r.id \in Nat
                    /\ Len(r.refs) = Len(References(r.table))
    /\ seq \in [Serials -> Nat]
    /\ \A w \in Worker :
        /\ \E k \in 0..Len(Work[w]) : queue[w] = SubSeq(Work[w], k + 1, Len(Work[w]))
        /\ tx[w].on \in BOOLEAN /\ tx[w].env \in [Variable -> Nat]
        /\ ~tx[w].on => tx[w] = [Idle EXCEPT !.said = tx[w].said]

\* Whatever a transaction sees, every id a row refers to is the id of a row: no
\* statement of the procedure runs into a foreign key, also when another
\* process's rows come and go.
NoDanglingIds ==
    \A w \in Worker : \A r \in Visible(w) :
        /\ \A k \in DOMAIN r.refs : r.refs[k] # Null =>
              \E q \in Visible(w) : q.table = References(r.table)[k] /\ q.id = r.refs[k]
        /\ r.table = "people_relationships" =>
              \E q \in Visible(w) : q.table = "relationships" /\ q.id = r.id

\* A pair is linked once, whatever the interviews say and however many processes
\* ingest: two people have one relationship type, the first one stored
\* (ingest_interview_data.sql:196-198).
LinkedOnce ==
    \A q, r \in db : q.table \in Links /\ q.table = r.table /\ q.refs = r.refs => q = r

\* Links say what the interview said: nobody is a relative of himself, and a
\* culture has a language only if it is someone's culture (lines 193, 222-224).
LinksMeaningful ==
    \A r \in db :
        /\ r.table = "people_relationships" => r.refs[1] # r.refs[2]
        /\ r.table = "culture_languages" =>
              \E q \in db : q.table = "people_cultures" /\ q.refs[2] = r.refs[1]

\* An interview is stored whole or not at all: a stored text has all its
\* keywords, which are inserted last.
StoredWhole ==
    \A r \in db : r.table = "text_files" =>
        \E iv \in Interviews :
            /\ iv.file = r.text
            /\ Cardinality({q \in db : q.table = "keywords" /\ q.refs = <<r.id>>})
                 = Cardinality(Stated(iv))

\* "Successfully ingested data into DB for: ..." (genai_data_extraction.py:463)
\* is said only of a file that the database then holds.
IngestedIsStored ==
    \A w \in Worker : \A file \in tx[w].said :
        \E r \in db : r.table = "text_files" /\ r.text = file

\* Looking a name up, whatever its case and blanks, before creating it keeps one
\* row per name when a single process ingests.
OneRowPerName ==
    \A q, r \in db : q.table = r.table /\ q.text = r.text /\ q.table \in Lookups \cup {"people"}
                     /\ (q.table = "cities" => q.refs = r.refs) => q = r

\* Every process gets through its interviews: waits for another's insert end, and
\* a cycle of waits is broken.
AllIngested == <>[](\A w \in Worker : queue[w] = <<>> /\ ~tx[w].on)

-----------------------------------------------------------------------------
(* What the transactions amount to.                                        *)

Agenda == [w \in Worker |-> [k \in DOMAIN Work[w] |-> LET iv == Work[w][k] IN
             [file |-> iv.file, named |-> ~Nameless(iv.name), complete |-> iv.summarised,
              words |-> Cardinality(Stated(iv))]]]
\* How many interviews of w are over, and those that are not, the one in hand included.
Over(w) == Len(Work[w]) - Len(queue[w]) - (IF tx[w].on THEN 1 ELSE 0)
Pending(w) == SubSeq(Agenda[w], Over(w) + 1, Len(Agenda[w]))
TextsOf(f) == {r.id : r \in {q \in db : q.table = "text_files" /\ q.text = f}}
WordsOf(f) == {q \in db : q.table = "keywords" /\ q.refs[1] \in TextsOf(f)}
Files == {iv.file : iv \in Interviews}

Waiting == [w \in Worker |-> Pending(w)]
StoredTexts == [f \in Files |-> Cardinality(TextsOf(f))]
StoredWords == [f \in Files |-> Cardinality(WordsOf(f))]
Said == [w \in Worker |-> tx[w].said]

Store == INSTANCE InterviewStore WITH
    waiting <- Waiting, texts <- StoredTexts, words <- StoredWords, said <- Said

\* The statements of a CALL, interleaved with those of other processes, take effect
\* together at its commit or not at all, and the loop goes on to the next interview
\* (genai_data_extraction.py:389-482).
StoresAtOnce == Store!Spec

=============================================================================
