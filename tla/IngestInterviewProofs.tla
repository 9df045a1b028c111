----------------------- MODULE IngestInterviewProofs -----------------------
(***************************************************************************)
(* Theorems about IngestInterview, for any number of processes and any     *)
(* interviews.                                                             *)
(***************************************************************************)
EXTENDS IngestInterview, SequenceTheorems, TLAPS

-----------------------------------------------------------------------------
(* The statements the procedure runs, by the tables and variables they use. *)

\* The table whose ids a variable holds.
TableOf(v) ==
    CASE v \in {"person", "other"} -> "people"
      [] v = "text" -> "text_files"
      [] v \in {"country", "country2", "birthCountry"} -> "countries"
      [] v \in {"city", "city2", "birthCity"} -> "cities"
      [] v = "travel" -> "travel_types"
      [] v = "level" -> "education_levels"
      [] v = "school" -> "schools"
      [] v = "relation" -> "relationships"
      [] v \in {"culture", "mainCulture"} -> "cultures"
      [] v = "language" -> "languages"
      [] v = "event" -> "historic_events"
      [] OTHER -> "nothing"

\* Variables that can be the references of a row of the table.
Fits(refs, table) ==
    /\ Len(refs) = Len(References(table))
    /\ \A k \in 1..Len(refs) : refs[k] = "none" \/ TableOf(refs[k]) = References(table)[k]

AnyText == STRING \cup {NoText} \cup Text \cup Range(Canon)

\* What a statement other than a link assigns.
Assigned == Variable \ {"mainCulture"}

Creating ==
    {st \in [op : {"getOrCreate"}, table : Lookups, text : Text,
             refs : Seq(Variable), var : Assigned] :
        TableOf(st.var) = st.table /\ Fits(st.refs, st.table)}
Getting ==
    {st \in [op : {"get"}, table : Lookups, text : Text, refs : {<<>>}, var : {"level"}] :
        TableOf(st.var) = st.table}
Finding == [op : {"person"}, table : {"people"}, text : Text, refs : Seq(Creating),
            var : {"person", "other"}]
Inserting ==
    {st \in [op : {"insert"}, table : Serials \ Lookups, text : AnyText,
             refs : Seq(Variable), var : Assigned] :
        (st.var = "none" \/ TableOf(st.var) = st.table) /\ Fits(st.refs, st.table)}
Relating == [op : {"relate"}, table : {"relationships"}, text : Text, refs : {<<>>},
             var : {"none"}]
Violating == [op : {"violate"}, table : {"text_files"}, text : STRING, refs : {<<>>},
              var : {"none"}]
\* Links, but for the one that "relate" prepares.
Linking == { Link("people_cultures", <<"person", "culture">>),
             Link("culture_languages", <<"mainCulture", "language">>),
             Link("people_in_historic_events", <<"person", "event">>) }
LinkOther == Link("people_relationships", <<"person", "other">>)

Plain == Creating \cup Getting \cup Finding \cup Inserting \cup Relating \cup Violating
         \cup Linking
Stmt == Plain \cup {LinkOther}
\* What the sections between the text and its keywords run: nothing about a text, a
\* keyword or the interviewee.
Mentioning == {st \in Finding : st.var = "other"}
Detailing == {st \in Inserting : st.table \in {"immigrations", "jobs", "person_education"}}
Inner == Creating \cup Getting \cup Mentioning \cup Detailing \cup Relating \cup Linking

-----------------------------------------------------------------------------
(* The program of an interview is made of them.                            *)

LEMMA NoTextIs == NoText = "none" /\ NoText \in AnyText /\ NoText \in Assigned
  <1>1. NoText = "none" /\ NoText \in Assigned
    BY DEF NoText, Variable, Assigned
  <1> QED
    BY <1>1 DEF AnyText

LEMMA Joined ==
    ASSUME NEW S, NEW s \in Seq(S), NEW t \in Seq(S)
    PROVE  s \o t \in Seq(S) /\ Len(s \o t) = Len(s) + Len(t)
  BY ConcatProperties

LEMMA SerialTables ==
    {"people", "text_files", "immigrations", "jobs", "person_education", "keywords"}
      \subseteq Serials \ Lookups
  BY DEF Serials, Lookups

LEMMA Retyped ==
    ASSUME NEW S, NEW T, NEW s \in Seq(S), \A k \in 1..Len(s) : s[k] \in T
    PROVE  s \in Seq(T)
  <1>1. Len(s) \in Nat /\ s \in [1..Len(s) -> S]
    BY LenProperties
  <1>2. s \in [1..Len(s) -> T]
    BY <1>1
  <1> QED
    BY <1>1, <1>2, SeqDef

LEMMA Prefixed ==
    ASSUME NEW S, NEW s \in Seq(S), Len(s) > 0, NEW t \in Seq(S)
    PROVE  s \o t \in Seq(S) /\ Len(s \o t) > 0 /\ (s \o t)[1] = s[1]
  <1>1. Len(s) \in Nat /\ Len(t) \in Nat
    OBVIOUS
  <1>2. 1 \in 1..(Len(s) + Len(t)) /\ 1 <= Len(s)
    BY <1>1
  <1> QED
    BY <1>1, <1>2, ConcatProperties

LEMMA Concatenated ==
    ASSUME NEW S, NEW s \in Seq(S), NEW t \in Seq(S), NEW u, u = s \o t
    PROVE  /\ u \in Seq(S) /\ Len(s) \in Nat /\ Len(t) \in Nat /\ Len(u) = Len(s) + Len(t)
           /\ \A k \in 1..Len(s) : u[k] = s[k]
           /\ \A k \in 1..Len(t) : u[Len(s) + k] = t[k]
           /\ \A k \in 1..Len(u) : k <= Len(s) \/ k - Len(s) \in 1..Len(t)
  <1>1. Len(s) \in Nat /\ Len(t) \in Nat
    OBVIOUS
  <1>2. /\ u \in Seq(S) /\ Len(u) = Len(s) + Len(t)
        /\ \A k \in 1..(Len(s) + Len(t)) : u[k] = IF k <= Len(s) THEN s[k] ELSE t[k - Len(s)]
    BY ConcatProperties
  <1>3. ASSUME NEW k \in 1..Len(s) PROVE u[k] = s[k]
    <2>1. k \in 1..(Len(s) + Len(t)) /\ k <= Len(s)
      BY <1>1
    <2> QED
      BY <1>2, <2>1
  <1>4. ASSUME NEW k \in 1..Len(t) PROVE u[Len(s) + k] = t[k]
    <2>1. /\ Len(s) + k \in 1..(Len(s) + Len(t)) /\ ~(Len(s) + k <= Len(s))
          /\ (Len(s) + k) - Len(s) = k
      BY <1>1
    <2> QED
      BY <1>2, <2>1
  <1>5. \A k \in 1..(Len(s) + Len(t)) : k <= Len(s) \/ k - Len(s) \in 1..Len(t)
    BY <1>1
  <1> QED
    BY <1>1, <1>2, <1>3, <1>4, <1>5

LEMMA CreatingIs ==
    ASSUME NEW table \in Lookups, NEW text \in Text, NEW refs \in Seq(Variable),
           NEW var \in Assigned, TableOf(var) = table, Fits(refs, table)
    PROVE  GetOrCreate(table, text, refs, var) \in Creating
  BY DEF GetOrCreate, Statement, Creating

LEMMA InsertingIs ==
    ASSUME NEW table \in Serials \ Lookups, NEW text \in AnyText, NEW refs \in Seq(Variable),
           NEW var \in Assigned, var = "none" \/ TableOf(var) = table, Fits(refs, table)
    PROVE  Insert(table, text, refs, var) \in Inserting
  BY DEF Insert, Statement, Inserting

LEMMA DetailingIs ==
    ASSUME NEW table \in {"immigrations", "jobs", "person_education"},
           NEW refs \in Seq(Variable), Fits(refs, table)
    PROVE  Insert(table, NoText, refs, NoText) \in Detailing
  <1>1. table \in Serials \ Lookups
    BY SerialTables
  <1>2. Insert(table, NoText, refs, NoText) \in Inserting
    BY <1>1, InsertingIs, NoTextIs
  <1> QED
    BY <1>2 DEF Insert, Statement, Detailing

LEMMA InnerPlain == Inner \subseteq Plain
  BY DEF Inner, Plain, Mentioning, Detailing

LEMMA GettingIs ==
    ASSUME NEW text \in Text
    PROVE  Get("education_levels", text, "level") \in Getting
  BY DEF Get, Statement, Getting, Lookups, TableOf

LEMMA NamesCreating ==
    ASSUME NEW table \in Lookups \ {"cities"}, NEW text \in Text,
           NEW var \in Assigned, TableOf(var) = table
    PROVE  GetOrCreate(table, text, <<>>, var) \in Creating
  <1>1. References(table) = <<>>
    BY DEF References, Lookups
  <1>2. Fits(<<>>, table) /\ <<>> \in Seq(Variable)
    BY <1>1 DEF Fits
  <1> QED
    BY <1>2, CreatingIs

LEMMA PlaceIs ==
    ASSUME NEW p \in Home,
           NEW country \in {"country", "country2", "birthCountry"},
           NEW city \in {"city", "city2", "birthCity"}
    PROVE  /\ Place(p, country, city) \in Seq(Creating)
           /\ Len(Place(p, country, city)) = 2
  <1>1. /\ country \in Assigned /\ TableOf(country) = "countries"
        /\ city \in Assigned /\ TableOf(city) = "cities"
    BY DEF Variable, Assigned, TableOf
  <1>2. GetOrCreate("countries", p.country, <<>>, country) \in Creating
    BY <1>1, NamesCreating DEF Lookups, Home
  <1>3. Fits(<<country>>, "cities") /\ <<country>> \in Seq(Variable)
    BY <1>1 DEF Fits, References, Assigned
  <1>4. GetOrCreate("cities", p.city, <<country>>, city) \in Creating
    BY <1>1, <1>3, CreatingIs DEF Lookups, Home
  <1> QED
    BY <1>2, <1>4 DEF Place

\* Where the k-th statement of a section comes from.
LEMMA EachIndex ==
    ASSUME NEW n \in {1, 2, 3, 6}, NEW m \in Nat, NEW k \in 1..(n * m)
    PROVE  ((k - 1) \div n) + 1 \in 1..m /\ ((k - 1) % n) + 1 \in 1..n
  <1>1. CASE n = 1
    BY <1>1
  <1>2. CASE n = 2
    BY <1>2
  <1>3. CASE n = 3
    BY <1>3
  <1>4. CASE n = 6
    BY <1>4
  <1> QED
    BY <1>1, <1>2, <1>3, <1>4

LEMMA OneOf ==
    ASSUME NEW S, NEW items \in Seq(S), NEW n \in {1, 2, 3, 6},
           NEW k \in 1..(n * Len(items))
    PROVE  items[((k - 1) \div n) + 1] \in S /\ ((k - 1) % n) + 1 \in 1..n
  BY EachIndex, LenProperties, ElementOfSeq

LEMMA MovesTyped ==
    ASSUME NEW iv \in Interview
    PROVE  Each(iv.moves, 6, Immigration) \in Seq(Inner)
  <1> DEFINE M == [from : Home, to : Home, travel : Text]
  <1>1. ASSUME NEW e \in M
        PROVE  Immigration(e) \in Seq(Inner) /\ Len(Immigration(e)) = 6
    <2>1. /\ Place(e.from, "country", "city") \in Seq(Creating)
          /\ Len(Place(e.from, "country", "city")) = 2
          /\ Place(e.to, "country2", "city2") \in Seq(Creating)
          /\ Len(Place(e.to, "country2", "city2")) = 2
      BY PlaceIs
    <2>2. GetOrCreate("travel_types", e.travel, <<>>, "travel") \in Creating
      BY NamesCreating DEF Lookups, Variable, Assigned, TableOf
    <2> DEFINE refs == <<"person", "country", "city", "country2", "city2", "travel">>
    <2>3. refs \in Seq(Variable) /\ Fits(refs, "immigrations")
      BY DEF Variable, Fits, References, TableOf
    <2>4. Insert("immigrations", NoText, refs, NoText) \in Detailing
      BY <2>3, DetailingIs
    <2> DEFINE a == Place(e.from, "country", "city")
               b == Place(e.to, "country2", "city2")
               c == GetOrCreate("travel_types", e.travel, <<>>, "travel")
               d == Insert("immigrations", NoText, refs, NoText)
    <2>5. Immigration(e) = a \o b \o <<c, d>>
      BY DEF Immigration
    <2>6. Creating \subseteq Inner /\ Detailing \subseteq Inner
      BY DEF Inner
    <2> HIDE DEF a, b, c, d
    <2>7. /\ a \in Seq(Inner) /\ b \in Seq(Inner) /\ <<c, d>> \in Seq(Inner)
          /\ Len(a) = 2 /\ Len(b) = 2
      BY <2>1, <2>2, <2>4, <2>6, SeqMonotonic DEF a, b, c, d
    <2>8. a \o b \in Seq(Inner) /\ Len(a \o b) = Len(a) + Len(b)
      BY <2>7, Joined
    <2>9. /\ (a \o b) \o <<c, d>> \in Seq(Inner)
          /\ Len((a \o b) \o <<c, d>>) = Len(a \o b) + Len(<<c, d>>)
      BY <2>7, <2>8, Joined
    <2>10. Len(<<c, d>>) = 2
      OBVIOUS
    <2> QED
      BY <2>5, <2>7, <2>8, <2>9, <2>10
  <1>2. iv.moves \in Seq(M)
    BY DEF Interview
  <1>3. \A k \in 1..(6 * Len(iv.moves)) :
           Immigration(iv.moves[((k - 1) \div 6) + 1])[((k - 1) % 6) + 1] \in Inner
    BY <1>1, <1>2, OneOf, ElementOfSeq
  <1>4. 6 * Len(iv.moves) \in Nat
    BY <1>2
  <1> QED
    BY <1>3, <1>4, IsASeq DEF Each

LEMMA JobsTyped ==
    ASSUME NEW iv \in Interview
    PROVE  Each(iv.jobs, 2, Job) \in Seq(Inner)
  <1>1. ASSUME NEW level \in Text
        PROVE  Job(level) \in Seq(Inner) /\ Len(Job(level)) = 2
    <2>1. /\ <<"person", "level">> \in Seq(Variable)
          /\ Fits(<<"person", "level">>, "jobs")
      BY DEF Variable, Fits, References, TableOf
    <2>2. Insert("jobs", NoText, <<"person", "level">>, NoText) \in Detailing
      BY <2>1, DetailingIs
    <2>3. Get("education_levels", level, "level") \in Getting
      BY GettingIs
    <2> QED
      BY <2>2, <2>3 DEF Job, Inner
  <1>2. iv.jobs \in Seq(Text)
    BY DEF Interview
  <1>3. \A k \in 1..(2 * Len(iv.jobs)) :
           Job(iv.jobs[((k - 1) \div 2) + 1])[((k - 1) % 2) + 1] \in Inner
    BY <1>1, <1>2, OneOf, ElementOfSeq
  <1>4. 2 * Len(iv.jobs) \in Nat
    BY <1>2
  <1> QED
    BY <1>3, <1>4, IsASeq DEF Each

LEMMA SchoolsTyped ==
    ASSUME NEW iv \in Interview
    PROVE  Each(iv.schools, 3, Education) \in Seq(Inner)
  <1> DEFINE E == [school : Text, level : Text]
  <1>1. ASSUME NEW e \in E
        PROVE  Education(e) \in Seq(Inner) /\ Len(Education(e)) = 3
    <2>1. /\ <<"person", "school", "level">> \in Seq(Variable)
          /\ Fits(<<"person", "school", "level">>, "person_education")
      BY DEF Variable, Fits, References, TableOf
    <2>2. Insert("person_education", NoText, <<"person", "school", "level">>, NoText)
            \in Detailing
      BY <2>1, DetailingIs
    <2>3. Get("education_levels", e.level, "level") \in Getting
      BY GettingIs
    <2>4. GetOrCreate("schools", e.school, <<>>, "school") \in Creating
      BY NamesCreating DEF Lookups, Variable, Assigned, TableOf
    <2> QED
      BY <2>2, <2>3, <2>4 DEF Education, Inner
  <1>2. iv.schools \in Seq(E)
    BY DEF Interview
  <1>3. \A k \in 1..(3 * Len(iv.schools)) :
           Education(iv.schools[((k - 1) \div 3) + 1])[((k - 1) % 3) + 1] \in Inner
    BY <1>1, <1>2, OneOf, ElementOfSeq
  <1>4. 3 * Len(iv.schools) \in Nat
    BY <1>2
  <1> QED
    BY <1>3, <1>4, IsASeq DEF Each

LEMMA OthersTyped ==
    ASSUME NEW iv \in Interview
    PROVE  Each(iv.others, 2, OtherPerson) \in Seq(Inner)
  <1> DEFINE O == [name : Text, as : Text]
  <1>1. ASSUME NEW o \in O
        PROVE  OtherPerson(o) \in Seq(Inner) /\ Len(OtherPerson(o)) = 2
    <2>1. FindPerson(o.name, <<>>, "other") \in Finding
      BY DEF FindPerson, Statement, Finding
    <2>2. Statement("relate", "relationships", o.as, <<>>, NoText) \in Relating
      BY DEF Statement, Relating, NoText
    <2> QED
      BY <2>1, <2>2 DEF OtherPerson, Inner, Mentioning, FindPerson, Statement
  <1>2. iv.others \in Seq(O)
    BY DEF Interview
  <1>3. \A k \in 1..(2 * Len(iv.others)) :
           OtherPerson(iv.others[((k - 1) \div 2) + 1])[((k - 1) % 2) + 1] \in Inner
    BY <1>1, <1>2, OneOf, ElementOfSeq
  <1>4. 2 * Len(iv.others) \in Nat
    BY <1>2
  <1> QED
    BY <1>3, <1>4, IsASeq DEF Each

LEMMA CulturesTyped ==
    ASSUME NEW iv \in Interview
    PROVE  Each(iv.cultures, 2, Culture) \in Seq(Inner)
  <1>1. ASSUME NEW c \in Text
        PROVE  Culture(c) \in Seq(Inner) /\ Len(Culture(c)) = 2
    <2>1. GetOrCreate("cultures", c, <<>>, "culture") \in Creating
      BY NamesCreating DEF Lookups, Variable, Assigned, TableOf
    <2> QED
      BY <2>1 DEF Culture, Inner, Linking
  <1>2. iv.cultures \in Seq(Text)
    BY DEF Interview
  <1>3. \A k \in 1..(2 * Len(iv.cultures)) :
           Culture(iv.cultures[((k - 1) \div 2) + 1])[((k - 1) % 2) + 1] \in Inner
    BY <1>1, <1>2, OneOf, ElementOfSeq
  <1>4. 2 * Len(iv.cultures) \in Nat
    BY <1>2
  <1> QED
    BY <1>3, <1>4, IsASeq DEF Each

LEMMA LanguagesTyped ==
    ASSUME NEW iv \in Interview
    PROVE  Each(iv.languages, 2, Language) \in Seq(Inner)
  <1>1. ASSUME NEW l \in Text
        PROVE  Language(l) \in Seq(Inner) /\ Len(Language(l)) = 2
    <2>1. GetOrCreate("languages", l, <<>>, "language") \in Creating
      BY NamesCreating DEF Lookups, Variable, Assigned, TableOf
    <2> QED
      BY <2>1 DEF Language, Inner, Linking
  <1>2. iv.languages \in Seq(Text)
    BY DEF Interview
  <1>3. \A k \in 1..(2 * Len(iv.languages)) :
           Language(iv.languages[((k - 1) \div 2) + 1])[((k - 1) % 2) + 1] \in Inner
    BY <1>1, <1>2, OneOf, ElementOfSeq
  <1>4. 2 * Len(iv.languages) \in Nat
    BY <1>2
  <1> QED
    BY <1>3, <1>4, IsASeq DEF Each

LEMMA EventsTyped ==
    ASSUME NEW iv \in Interview
    PROVE  Each(iv.events, 2, HistoricEvent) \in Seq(Inner)
  <1>1. ASSUME NEW e \in Text
        PROVE  HistoricEvent(e) \in Seq(Inner) /\ Len(HistoricEvent(e)) = 2
    <2>1. GetOrCreate("historic_events", e, <<>>, "event") \in Creating
      BY NamesCreating DEF Lookups, Variable, Assigned, TableOf
    <2> QED
      BY <2>1 DEF HistoricEvent, Inner, Linking
  <1>2. iv.events \in Seq(Text)
    BY DEF Interview
  <1>3. \A k \in 1..(2 * Len(iv.events)) :
           HistoricEvent(iv.events[((k - 1) \div 2) + 1])[((k - 1) % 2) + 1] \in Inner
    BY <1>1, <1>2, OneOf, ElementOfSeq
  <1>4. 2 * Len(iv.events) \in Nat
    BY <1>2
  <1> QED
    BY <1>3, <1>4, IsASeq DEF Each

LEMMA KeywordsTyped ==
    ASSUME NEW iv \in Interview
    PROVE  Each(iv.keywords, 1, Keyword) \in Seq(Plain)
  <1>1. ASSUME NEW w \in Text
        PROVE  Keyword(w) \in Seq(Plain) /\ Len(Keyword(w)) = 1
    <2>1. <<"text">> \in Seq(Variable) /\ Fits(<<"text">>, "keywords")
      BY DEF Variable, Fits, References, TableOf
    <2>2. w \in AnyText
      BY DEF AnyText
    <2>3. Insert("keywords", w, <<"text">>, NoText) \in Inserting
      BY <2>1, <2>2, InsertingIs, NoTextIs, SerialTables
    <2> QED
      BY <2>3 DEF Keyword, Plain
  <1>2. iv.keywords \in Seq(Text)
    BY DEF Interview
  <1>3. \A k \in 1..(1 * Len(iv.keywords)) :
           Keyword(iv.keywords[((k - 1) \div 1) + 1])[((k - 1) % 1) + 1] \in Plain
    BY <1>1, <1>2, OneOf, ElementOfSeq
  <1>4. 1 * Len(iv.keywords) \in Nat
    BY <1>2
  <1> QED
    BY <1>3, <1>4, IsASeq DEF Each

LEMMA KeywordsLaid ==
    ASSUME NEW iv \in Interview
    PROVE  /\ Len(iv.keywords) \in Nat
           /\ Len(Each(iv.keywords, 1, Keyword)) = Len(iv.keywords)
           /\ \A k \in 1..Len(iv.keywords) :
                 Each(iv.keywords, 1, Keyword)[k] = Keyword(iv.keywords[k])[1]
  <1> DEFINE n == Len(iv.keywords)
  <1>1. iv.keywords \in Seq(Text)
    BY DEF Interview
  <1>2. n \in Nat
    BY <1>1
  <1> HIDE DEF n
  <1>3. 1..(1 * n) = 1..n
    BY <1>2
  <1>4. Each(iv.keywords, 1, Keyword) =
           [k \in 1..n |-> Keyword(iv.keywords[((k - 1) \div 1) + 1])[((k - 1) % 1) + 1]]
    BY <1>3 DEF Each, n
  <1>5. \A k \in 1..n : ((k - 1) \div 1) + 1 = k /\ ((k - 1) % 1) + 1 = 1
    BY <1>2
  <1>6. \A k \in 1..n : Each(iv.keywords, 1, Keyword)[k] = Keyword(iv.keywords[k])[1]
    BY <1>4, <1>5
  <1>7. Len(Each(iv.keywords, 1, Keyword)) = n
    BY <1>2, <1>4
  <1> QED
    BY <1>2, <1>6, <1>7 DEF n

\* The interviewee, the text, the sections, and the keywords at the end.
LEMMA ProgramShape ==
    ASSUME NEW iv \in Interview
    PROVE  /\ Program(iv) \in Seq(Plain) /\ Len(iv.keywords) \in Nat
           /\ Len(Program(iv)) >= Len(iv.keywords) + 2
           /\ Program(iv)[1] =
                 FindPerson(iv.name, Place(iv.home, "birthCountry", "birthCity"), "person")
           /\ Program(iv)[2] = TextFile(iv)[1]
           /\ \A k \in 3..(Len(Program(iv)) - Len(iv.keywords)) : Program(iv)[k] \in Inner
           /\ \A k \in 1..Len(iv.keywords) :
                 Program(iv)[(Len(Program(iv)) - Len(iv.keywords)) + k] = Keyword(iv.keywords[k])[1]
  <1> DEFINE p == FindPerson(iv.name, Place(iv.home, "birthCountry", "birthCity"), "person")
             a == Each(iv.moves, 6, Immigration)
             b == Each(iv.jobs, 2, Job)
             c == Each(iv.schools, 3, Education)
             d == Each(iv.others, 2, OtherPerson)
             e == Each(iv.cultures, 2, Culture)
             f == Each(iv.languages, 2, Language)
             g == Each(iv.events, 2, HistoricEvent)
             h == Each(iv.keywords, 1, Keyword)
             t == TextFile(iv)
  <1>1. p \in Plain
    <2>1. Place(iv.home, "birthCountry", "birthCity") \in Seq(Creating) /\ iv.name \in Text
      BY PlaceIs DEF Interview
    <2> QED
      BY <2>1 DEF FindPerson, Statement, Finding, Plain
  <1>2. t \in Seq(Plain) /\ Len(t) = 1
    <2>1. iv.file \in STRING /\ iv.file \in AnyText
      BY DEF Interview, AnyText
    <2>2. <<"person">> \in Seq(Variable) /\ Fits(<<"person">>, "text_files")
      BY DEF Variable, Fits, References, TableOf
    <2>3. "text" \in Assigned /\ TableOf("text") = "text_files"
      BY DEF Variable, Assigned, TableOf
    <2>4. Insert("text_files", iv.file, <<"person">>, "text") \in Inserting
      BY <2>1, <2>2, <2>3, InsertingIs, SerialTables
    <2>5. Statement("violate", "text_files", iv.file, <<>>, NoText) \in Violating
      BY <2>1, NoTextIs DEF Statement, Violating
    <2> QED
      BY <2>4, <2>5 DEF TextFile, Plain
  <1>3. /\ a \in Seq(Inner) /\ b \in Seq(Inner) /\ c \in Seq(Inner) /\ d \in Seq(Inner)
        /\ e \in Seq(Inner) /\ f \in Seq(Inner) /\ g \in Seq(Inner)
    BY MovesTyped, JobsTyped, SchoolsTyped, OthersTyped, CulturesTyped, LanguagesTyped,
       EventsTyped
  <1>4. /\ h \in Seq(Plain) /\ Len(iv.keywords) \in Nat /\ Len(h) = Len(iv.keywords)
        /\ \A k \in 1..Len(iv.keywords) : h[k] = Keyword(iv.keywords[k])[1]
    BY KeywordsTyped, KeywordsLaid
  <1>5. Program(iv) = <<p>> \o t \o a \o b \o c \o d \o e \o f \o g \o h
    BY DEF Program
  <1> HIDE DEF p, a, b, c, d, e, f, g, h, t
  <1> DEFINE s0 == <<p>>
             s1 == s0 \o t
             s2 == s1 \o a
             s3 == s2 \o b
             s4 == s3 \o c
             s5 == s4 \o d
             s6 == s5 \o e
             s7 == s6 \o f
             s8 == s7 \o g
             s9 == s8 \o h
             Begins(s) == /\ s \in Seq(Plain) /\ Len(s) >= 2 /\ s[1] = p /\ s[2] = t[1]
                          /\ \A k \in 3..Len(s) : s[k] \in Inner
  <1>6. Program(iv) = s9
    BY <1>5
  <1>7. ASSUME NEW s, Begins(s), NEW u \in Seq(Inner)
        PROVE  Begins(s \o u)
    <2> DEFINE v == s \o u
    <2>1. s \in Seq(Plain) /\ u \in Seq(Plain)
      BY <1>7, InnerPlain, SeqMonotonic
    <2>2. \A k \in 1..Len(u) : u[k] \in Inner
      BY ElementOfSeq
    <2>3. /\ v \in Seq(Plain) /\ Len(s) \in Nat /\ Len(u) \in Nat /\ Len(v) = Len(s) + Len(u)
          /\ \A k \in 1..Len(s) : v[k] = s[k]
          /\ \A k \in 1..Len(u) : v[Len(s) + k] = u[k]
          /\ \A k \in 1..Len(v) : k <= Len(s) \/ k - Len(s) \in 1..Len(u)
      BY <2>1, Concatenated
    <2> HIDE DEF v
    <2>4. ASSUME NEW k \in 3..Len(v) PROVE v[k] \in Inner
      <3>1. CASE k <= Len(s)
        <4>1. k \in 1..Len(s) /\ k \in 3..Len(s)
          BY <2>3, <3>1
        <4> QED
          BY <1>7, <2>3, <4>1
      <3>2. CASE ~(k <= Len(s))
        <4>1. k - Len(s) \in 1..Len(u) /\ Len(s) + (k - Len(s)) = k
          BY <2>3, <3>2
        <4> QED
          BY <2>2, <2>3, <4>1
      <3> QED
        BY <3>1, <3>2
    <2>5. 1 \in 1..Len(s) /\ 2 \in 1..Len(s) /\ Len(v) >= 2
      BY <1>7, <2>3
    <2>6. Begins(v)
      BY <1>7, <2>3, <2>4, <2>5
    <2> QED
      BY <2>6 DEF v
  <1>8. Begins(s1)
    <2>1. s0 \in Seq(Plain) /\ Len(s0) = 1 /\ s0[1] = p
      BY <1>1
    <2>2. s1 = s0 \o t
      OBVIOUS
    <2> HIDE DEF s0, s1
    <2>3. s0 \in Seq(Plain) /\ t \in Seq(Plain)
      BY <1>2, <2>1
    <2>4. /\ s1 \in Seq(Plain) /\ Len(s1) = Len(s0) + Len(t)
          /\ \A k \in 1..Len(s0) : s1[k] = s0[k]
          /\ \A k \in 1..Len(t) : s1[Len(s0) + k] = t[k]
      BY <2>2, <2>3, Concatenated
    <2>5. Len(s1) = 2
      BY <1>2, <2>1, <2>4
    <2>6. 1 \in 1..Len(s0) /\ 1 \in 1..Len(t) /\ Len(s0) + 1 = 2
      BY <1>2, <2>1
    <2>7. s1[1] = s0[1] /\ s1[2] = t[1]
      BY <2>4, <2>6
    <2>8. s1 \in Seq(Plain) /\ Len(s1) >= 2 /\ s1[1] = p /\ s1[2] = t[1]
      BY <2>1, <2>4, <2>5, <2>7
    <2>9. \A k \in 3..Len(s1) : s1[k] \in Inner
      BY <2>5
    <2> QED
      BY <2>8, <2>9
  <1> HIDE DEF Begins, s1
  <1>9. Begins(s2)
    BY <1>3, <1>7, <1>8
  <1> HIDE DEF s2
  <1>10. Begins(s3)
    BY <1>3, <1>7, <1>9
  <1> HIDE DEF s3
  <1>11. Begins(s4)
    BY <1>3, <1>7, <1>10
  <1> HIDE DEF s4
  <1>12. Begins(s5)
    BY <1>3, <1>7, <1>11
  <1> HIDE DEF s5
  <1>13. Begins(s6)
    BY <1>3, <1>7, <1>12
  <1> HIDE DEF s6
  <1>14. Begins(s7)
    BY <1>3, <1>7, <1>13
  <1> HIDE DEF s7
  <1>15. Begins(s8)
    BY <1>3, <1>7, <1>14
  <1> HIDE DEF s8
  <1>16. /\ s8 \in Seq(Plain) /\ Len(s8) \in Nat /\ Len(s8) >= 2 /\ s8[1] = p /\ s8[2] = t[1]
         /\ \A k \in 3..Len(s8) : s8[k] \in Inner
    BY <1>15 DEF Begins
  <1>17. /\ s9 \in Seq(Plain) /\ Len(h) \in Nat /\ Len(s9) = Len(s8) + Len(h)
         /\ \A k \in 1..Len(s8) : s9[k] = s8[k]
         /\ \A k \in 1..Len(h) : s9[Len(s8) + k] = h[k]
    <2>1. s9 = s8 \o h
      OBVIOUS
    <2>2. s8 \in Seq(Plain) /\ h \in Seq(Plain)
      BY <1>4, <1>16
    <2> HIDE DEF s9
    <2> QED
      BY <2>1, <2>2, Concatenated
  <1> HIDE DEF s9
  <1>18. Len(s9) - Len(iv.keywords) = Len(s8) /\ Len(s9) >= Len(iv.keywords) + 2
    BY <1>4, <1>16, <1>17
  <1>19. 1 \in 1..Len(s8) /\ 2 \in 1..Len(s8) /\ \A k \in 3..Len(s8) : k \in 1..Len(s8)
    BY <1>16
  <1>20. s9[1] = p /\ s9[2] = t[1] /\ \A k \in 3..Len(s8) : s9[k] \in Inner
    BY <1>16, <1>17, <1>19
  <1>21. \A k \in 1..Len(iv.keywords) : s9[Len(s8) + k] = Keyword(iv.keywords[k])[1]
    BY <1>4, <1>17
  <1> QED
    BY <1>4, <1>6, <1>17, <1>18, <1>20, <1>21 DEF p, t

LEMMA ProgramTyped ==
    ASSUME NEW iv \in Interview
    PROVE  /\ Program(iv) \in Seq(Plain) /\ Program(iv) # <<>>
           /\ Program(iv)[1].op = "person" /\ Program(iv)[1].var = "person"
  <1> DEFINE p == FindPerson(iv.name, Place(iv.home, "birthCountry", "birthCity"), "person")
             s == Program(iv)
  <1>1. /\ s \in Seq(Plain) /\ Len(iv.keywords) \in Nat /\ Len(s) >= Len(iv.keywords) + 2
        /\ s[1] = p
    BY ProgramShape
  <1>2. p.op = "person" /\ p.var = "person"
    BY DEF FindPerson, Statement
  <1> HIDE DEF p, s
  <1>3. s # <<>>
    BY <1>1, EmptySeq
  <1> QED
    BY <1>1, <1>2, <1>3 DEF s

-----------------------------------------------------------------------------
(* The invariant.                                                          *)

RowSet == [table : Serials \cup Links, id : Nat, text : AnyText, refs : Seq(Nat)]
TxSet == [on : BOOLEAN, file : AnyText, todo : Seq(Stmt), rows : SUBSET RowSet,
          env : [Variable -> Nat], said : SUBSET AnyText]

\* A row has the columns of its table, and a serial id is not the null.
Formed(r) ==
    /\ r \in RowSet /\ Len(r.refs) = Len(References(r.table))
    /\ r.table \in Serials => r.id # Null

Holds(S, table, id) == \E q \in S : q.table = table /\ q.id = id
CultureOf(S, culture) == \E q \in S : q.table = "people_cultures" /\ q.refs[2] = culture

\* What row r needs among the rows S.
Grounded(r, S) ==
    /\ \A k \in 1..Len(r.refs) :
          r.refs[k] # Null => Holds(S, References(r.table)[k], r.refs[k])
    /\ r.table = "people_relationships" =>
          Holds(S, "relationships", r.id) /\ r.refs[1] # r.refs[2]
    /\ r.table = "culture_languages" => CultureOf(S, r.refs[1])

Sound(S) == \A r \in S : Formed(r) /\ Grounded(r, S)
Single(S) == \A q, r \in S : q.table \in Links /\ SameKey(q, r) => q = r

Typed ==
    /\ seq \in [Serials -> Nat] /\ queue \in [Worker -> Seq(Interview)]
    /\ tx \in [Worker -> TxSet]
    /\ \A w \in Worker : ~tx[w].on => tx[w] = [Idle EXCEPT !.said = tx[w].said]
InOrder ==
    \A w \in Worker : \E k \in 0..Len(Work[w]) :
        queue[w] = SubSeq(Work[w], k + 1, Len(Work[w]))

\* What a transaction sees is sound, and so is what is committed.
RowsInv ==
    /\ Sound(db) /\ Single(db)
    /\ \A w \in Worker : Sound(Visible(w)) /\ Single(Visible(w))
\* Open transactions do not hold the same link: the second one waits.
KeysInv ==
    \A w, v \in Worker : w # v =>
        \A q \in tx[w].rows, r \in tx[v].rows : q.table \in Links => ~SameKey(q, r)
\* A variable holds an id of its table, and the main culture is somebody's.
EnvInv(w) ==
    \A v \in Variable : tx[w].env[v] # Null => Holds(Visible(w), TableOf(v), tx[w].env[v])
MainInv(w) ==
    tx[w].env["mainCulture"] # Null => CultureOf(Visible(w), tx[w].env["mainCulture"])
\* The link of another person comes right after its preparation.
OtherInv(w) ==
    \A k \in 1..Len(tx[w].todo) : tx[w].todo[k] = LinkOther =>
        /\ Relates(w)
        /\ \/ k = 1
           \/ k = 2 /\ tx[w].todo[1].op = "getOrCreate" /\ tx[w].todo[1].var = "relation"
\* The interviewee is known before anything else is done.
PersonInv(w) ==
    \/ tx[w].env["person"] # Null
    \/ tx[w].todo = <<>>
    \/ \E k \in 1..Len(tx[w].todo) :
          /\ tx[w].todo[k].var = "person" /\ tx[w].todo[k].op \in {"person", "insert"}
          /\ \A j \in 1..(k - 1) : tx[w].todo[j].op = "getOrCreate"

LocalInv(w) == EnvInv(w) /\ MainInv(w) /\ OtherInv(w) /\ PersonInv(w)
IInv == Typed /\ InOrder /\ RowsInv /\ KeysInv /\ \A w \in Worker : LocalInv(w)

-----------------------------------------------------------------------------
(* What the invariant says of the statement in hand.                       *)

\* More rows need no more rows.
LEMMA GroundedMore ==
    ASSUME NEW r, NEW S, NEW T, S \subseteq T, Grounded(r, S)
    PROVE  Grounded(r, T)
  BY DEF Grounded, Holds, CultureOf

LEMMA SoundUnion ==
    ASSUME NEW S, NEW T, Sound(S), Sound(T)
    PROVE  Sound(S \cup T)
  <1>1. ASSUME NEW r \in S PROVE Formed(r) /\ Grounded(r, S \cup T)
    BY <1>1, GroundedMore DEF Sound
  <1>2. ASSUME NEW r \in T PROVE Formed(r) /\ Grounded(r, S \cup T)
    BY <1>2, GroundedMore DEF Sound
  <1> QED
    BY <1>1, <1>2 DEF Sound

LEMMA TxTypes ==
    ASSUME IInv, NEW w \in Worker
    PROVE  /\ tx[w] \in TxSet /\ tx[w].todo \in Seq(Stmt) /\ tx[w].env \in [Variable -> Nat]
           /\ tx[w].rows \subseteq RowSet /\ tx[w].on \in BOOLEAN
           /\ Null \in Nat
  BY DEF IInv, Typed, TxSet, Null

LEMMA HeadIs ==
    ASSUME IInv, NEW w \in Worker, tx[w].todo # <<>>
    PROVE  /\ tx[w].on /\ Len(tx[w].todo) \in Nat \ {0}
           /\ Head(tx[w].todo) \in Stmt /\ Head(tx[w].todo) = tx[w].todo[1]
           /\ Tail(tx[w].todo) \in Seq(Stmt)
           /\ Len(Tail(tx[w].todo)) = Len(tx[w].todo) - 1
           /\ \A k \in 1..(Len(tx[w].todo) - 1) : Tail(tx[w].todo)[k] = tx[w].todo[k + 1]
  <1>1. tx[w].todo \in Seq(Stmt)
    BY TxTypes
  <1>2. tx[w].on
    BY DEF IInv, Typed, Idle
  <1> QED
    BY <1>1, <1>2, HeadTailProperties, EmptySeq

LEMMA OtherNotPlain == LinkOther \notin Plain
  BY DEF LinkOther, Plain, Creating, Getting, Finding, Inserting, Relating, Violating,
         Linking, Link, Statement

LEMMA EmptyNone == Null = 0 /\ "nothing" \notin Serials \cup Links
  BY DEF Null, Serials, Lookups, Links

\* The ids a statement refers to are there.
LEMMA ValueFits ==
    ASSUME IInv, NEW w \in Worker, NEW table, NEW refs \in Seq(Variable), Fits(refs, table)
    PROVE  /\ Value(w, refs) \in Seq(Nat)
           /\ Len(Value(w, refs)) = Len(References(table))
           /\ \A k \in 1..Len(Value(w, refs)) : Value(w, refs)[k] # Null =>
                 Holds(Visible(w), References(table)[k], Value(w, refs)[k])
  <1>1. /\ DOMAIN refs = 1..Len(refs) /\ Len(refs) \in Nat
        /\ \A k \in 1..Len(refs) : refs[k] \in Variable
    BY LenProperties
  <1>2. \A k \in 1..Len(refs) : tx[w].env[refs[k]] \in Nat
    BY <1>1, TxTypes
  <1>3. Value(w, refs) = [k \in 1..Len(refs) |-> tx[w].env[refs[k]]]
    BY <1>1 DEF Value
  <1>4. Value(w, refs) \in Seq(Nat) /\ Len(Value(w, refs)) = Len(refs)
    BY <1>1, <1>2, <1>3
  <1>5. tx[w].env["none"] = Null
    <2>1. "none" \in Variable /\ TableOf("none") = "nothing"
      BY DEF Variable, TableOf
    <2>2. \A q \in Visible(w) : q.table # "nothing"
      BY EmptyNone DEF IInv, RowsInv, Sound, Formed, RowSet
    <2> QED
      BY <2>1, <2>2 DEF IInv, LocalInv, EnvInv, Holds
  <1>6. ASSUME NEW k \in 1..Len(refs), tx[w].env[refs[k]] # Null
        PROVE  Holds(Visible(w), References(table)[k], tx[w].env[refs[k]])
    <2>1. TableOf(refs[k]) = References(table)[k]
      BY <1>5, <1>6 DEF Fits
    <2> QED
      BY <1>1, <1>6, <2>1 DEF IInv, LocalInv, EnvInv
  <1> QED
    BY <1>3, <1>4, <1>6 DEF Fits

\* A name that is found is the id of a row.
LEMMA NamedHolds ==
    ASSUME IInv, NEW w \in Worker, NEW table \in Serials, NEW name, NEW refs,
           NEW id \in Named(w, table, name, refs)
    PROVE  id \in Nat /\ id # Null /\ Holds(Visible(w), table, id)
  <1>1. PICK r \in Visible(w) : r.table = table /\ r.id = id
    BY DEF Named
  <1>2. Formed(r)
    BY <1>1 DEF IInv, RowsInv, Sound
  <1> QED
    BY <1>1, <1>2 DEF Formed, RowSet, Holds

-----------------------------------------------------------------------------
(* What the steps of a transaction have in common.                         *)

\* It adds at most one row, whose references are there, and a link only if nobody
\* has it.
LEMMA Worked ==
    ASSUME IInv, NEW w \in Worker, NEW N,
           db' = db, queue' = queue, seq' \in [Serials -> Nat],
           tx' \in [Worker -> TxSet], \A v \in Worker \ {w} : tx'[v] = tx[v],
           tx'[w].on, tx'[w].rows = tx[w].rows \cup N,
           \A q, r \in N : q = r,
           \A r \in N : Formed(r) /\ Grounded(r, Visible(w) \cup N),
           \A r \in N : r.table \in Links =>
               /\ \A q \in Visible(w) : ~SameKey(q, r)
               /\ \A v \in Worker \ {w} : \A q \in tx[v].rows : ~SameKey(q, r),
           \A v \in Variable : \/ tx'[w].env[v] = tx[w].env[v]
                               \/ tx'[w].env[v] = Null
                               \/ Holds(Visible(w) \cup N, TableOf(v), tx'[w].env[v]),
           MainInv(w)', OtherInv(w)', PersonInv(w)'
    PROVE  IInv'
  <1>1. /\ Visible(w)' = Visible(w) \cup N
        /\ \A v \in Worker \ {w} : Visible(v)' = Visible(v)
    BY DEF Visible
  <1>2. Typed'
    BY DEF IInv, Typed, Idle
  <1>3. InOrder'
    BY DEF IInv, InOrder
  <1>4. Sound(Visible(w)')
    <2>1. \A r \in Visible(w) : Formed(r) /\ Grounded(r, Visible(w) \cup N)
      BY GroundedMore DEF IInv, RowsInv, Sound
    <2> QED
      BY <1>1, <2>1 DEF Sound
  <1>5. Single(Visible(w)')
    <2> SUFFICES ASSUME NEW q \in Visible(w) \cup N, NEW r \in Visible(w) \cup N,
                        q.table \in Links, SameKey(q, r)
                 PROVE  q = r
      BY <1>1 DEF Single
    <2>1. r.table \in Links /\ SameKey(r, q)
      BY DEF SameKey
    <2>2. CASE q \in Visible(w) /\ r \in Visible(w)
      BY <2>2 DEF IInv, RowsInv, Single
    <2>3. CASE q \in N /\ r \in N
      BY <2>3
    <2> QED
      BY <2>1, <2>2, <2>3
  <1>6. RowsInv'
    <2>1. Sound(db)' /\ Single(db)'
      BY DEF IInv, RowsInv, Sound, Single, Formed, Grounded, Holds, CultureOf, SameKey
    <2>2. ASSUME NEW v \in Worker \ {w} PROVE Sound(Visible(v)') /\ Single(Visible(v)')
      BY <1>1 DEF IInv, RowsInv
    <2>3. \A v \in Worker : Sound(Visible(v)') /\ Single(Visible(v)')
      BY <1>4, <1>5, <2>2
    <2> QED
      BY <2>1, <2>3 DEF RowsInv, Sound, Single, Formed, Grounded, Holds, CultureOf, SameKey
  <1>7. KeysInv'
    <2> SUFFICES ASSUME NEW u \in Worker, NEW v \in Worker, u # v,
                        NEW q \in tx'[u].rows, NEW r \in tx'[v].rows, q.table \in Links,
                        SameKey(q, r)
                 PROVE  FALSE
      BY DEF KeysInv, SameKey
    <2>1. r.table \in Links /\ SameKey(r, q)
      BY DEF SameKey
    <2>2. CASE q \in tx[u].rows /\ r \in tx[v].rows
      BY <2>2 DEF IInv, KeysInv
    <2>3. CASE u = w /\ q \in N
      BY <2>1, <2>3
    <2>4. CASE v = w /\ r \in N
      BY <2>1, <2>4
    <2> QED
      BY <2>2, <2>3, <2>4
  <1>8. EnvInv(w)'
    <2>1. ASSUME NEW v \in Variable, tx'[w].env[v] # Null
          PROVE  Holds(Visible(w)', TableOf(v), tx'[w].env[v])
      BY <2>1, <1>1 DEF IInv, LocalInv, EnvInv, Holds
    <2> QED
      BY <2>1 DEF EnvInv, Holds, TableOf
  <1>9. ASSUME NEW v \in Worker \ {w} PROVE LocalInv(v)'
    <2>1. LocalInv(v) /\ tx'[v] = tx[v] /\ Visible(v)' = Visible(v)
      BY <1>1 DEF IInv
    <2>2. EnvInv(v)' /\ MainInv(v)'
      BY <2>1 DEF LocalInv, EnvInv, MainInv, Holds, CultureOf
    <2>3. OtherInv(v)'
      BY <2>1 DEF LocalInv, OtherInv, Relates
    <2>4. PersonInv(v)'
      BY <2>1 DEF LocalInv, PersonInv
    <2> QED
      BY <2>2, <2>3, <2>4 DEF LocalInv
  <1> QED
    BY <1>2, <1>3, <1>6, <1>7, <1>8, <1>9 DEF IInv, LocalInv

LEMMA AfterAssign ==
    ASSUME IInv, NEW w \in Worker, NEW var \in Assigned, NEW value \in Nat,
           NEW next \in Seq(Stmt), Assign(w, var, value, next)
    PROVE  /\ tx' \in [Worker -> TxSet] /\ \A v \in Worker \ {w} : tx'[v] = tx[v]
           /\ tx'[w].on = tx[w].on /\ tx'[w].rows = tx[w].rows /\ tx'[w].todo = next
           /\ tx'[w].env[var] = value
           /\ \A v \in Variable \ {var} : tx'[w].env[v] = tx[w].env[v]
           /\ db' = db /\ queue' = queue /\ seq' = seq
  <1>1. tx \in [Worker -> TxSet] /\ var \in Variable
    BY DEF IInv, Typed, Assigned
  <1> DEFINE u == [tx[w] EXCEPT !.env[var] = value, !.todo = next]
  <1>2. tx' = [tx EXCEPT ![w] = u]
    BY <1>1 DEF Assign, TxSet
  <1>3. tx[w] \in TxSet
    BY <1>1
  <1>5. db' = db /\ queue' = queue /\ seq' = seq
    BY DEF Assign
  <1>4. /\ u \in TxSet /\ u.on = tx[w].on /\ u.rows = tx[w].rows /\ u.todo = next
        /\ u.env[var] = value /\ \A v \in Variable \ {var} : u.env[v] = tx[w].env[v]
    BY <1>1, <1>3 DEF TxSet
  <1> HIDE DEF u
  <1>6. /\ tx' \in [Worker -> TxSet] /\ tx'[w] = u
        /\ \A v \in Worker \ {w} : tx'[v] = tx[v]
    BY <1>1, <1>2, <1>4
  <1> QED
    BY <1>4, <1>5, <1>6

LEMMA AssignKeeps ==
    ASSUME IInv, NEW w \in Worker, tx[w].on, NEW var \in Assigned, NEW value \in Nat,
           value = Null \/ Holds(Visible(w), TableOf(var), value),
           NEW next \in Seq(Stmt), Assign(w, var, value, next), OtherInv(w)', PersonInv(w)'
    PROVE  IInv'
  <1>1. /\ tx' \in [Worker -> TxSet] /\ \A v \in Worker \ {w} : tx'[v] = tx[v]
        /\ tx'[w].on = tx[w].on /\ tx'[w].rows = tx[w].rows
        /\ tx'[w].env[var] = value
        /\ \A v \in Variable \ {var} : tx'[w].env[v] = tx[w].env[v]
        /\ db' = db /\ queue' = queue /\ seq' = seq
    BY AfterAssign
  <1>2. seq' \in [Serials -> Nat]
    BY <1>1 DEF IInv, Typed
  <1>3. MainInv(w)'
    <2>1. "mainCulture" \in Variable \ {var}
      BY DEF Assigned, Variable
    <2>2. MainInv(w) /\ Visible(w)' = Visible(w)
      BY <1>1 DEF IInv, LocalInv, Visible
    <2> QED
      BY <1>1, <2>1, <2>2 DEF MainInv, CultureOf
  <1>4. \A v \in Variable : \/ tx'[w].env[v] = tx[w].env[v]
                            \/ tx'[w].env[v] = Null
                            \/ Holds(Visible(w) \cup {}, TableOf(v), tx'[w].env[v])
    BY <1>1
  <1> DEFINE N == {}
  <1>5. /\ tx'[w].rows = tx[w].rows \cup N /\ \A q, r \in N : q = r
        /\ \A r \in N : Formed(r) /\ Grounded(r, Visible(w) \cup N)
        /\ \A r \in N : r.table \in Links =>
               /\ \A q \in Visible(w) : ~SameKey(q, r)
               /\ \A v \in Worker \ {w} : \A q \in tx[v].rows : ~SameKey(q, r)
    BY <1>1
  <1> QED
    BY <1>1, <1>2, <1>3, <1>4, <1>5, Worked

\* What an insert leaves behind.
Inserted(w, table, text, refs, var, next) ==
    /\ tx' \in [Worker -> TxSet] /\ \A v \in Worker \ {w} : tx'[v] = tx[v]
    /\ tx'[w].on = tx[w].on /\ tx'[w].todo = next
    /\ tx'[w].rows = tx[w].rows \cup {Row(table, seq[table] + 1, text, refs)}
    /\ tx'[w].env[var] = IF var = "none" THEN Null ELSE seq[table] + 1
    /\ \A v \in Variable \ {var} : tx'[w].env[v] = tx[w].env[v]
    /\ db' = db /\ queue' = queue /\ seq' \in [Serials -> Nat]
    /\ seq[table] + 1 \in Nat /\ seq[table] + 1 # Null

LEMMA AfterInsert ==
    ASSUME IInv, NEW w \in Worker, NEW table \in Serials, NEW text \in AnyText,
           NEW refs \in Seq(Nat), NEW var \in Assigned, NEW next \in Seq(Stmt),
           InsertRow(w, table, text, refs, var, next)
    PROVE  Inserted(w, table, text, refs, var, next)
  <1>1. /\ tx \in [Worker -> TxSet] /\ var \in Variable /\ seq \in [Serials -> Nat]
    BY DEF IInv, Typed, Assigned
  <1> DEFINE id == seq[table] + 1
             row == Row(table, id, text, refs)
             value == IF var = "none" THEN Null ELSE id
             u == [tx[w] EXCEPT !.rows = @ \cup {row}, !.env[var] = value, !.todo = next]
  <1>2. id \in Nat /\ id # Null /\ value \in Nat
    BY <1>1 DEF Null
  <1>3. row \in RowSet
    BY <1>2 DEF Row, RowSet
  <1>4. /\ tx' = [tx EXCEPT ![w] = u] /\ seq' = [seq EXCEPT ![table] = id]
        /\ db' = db /\ queue' = queue
    BY <1>1, NoTextIs DEF InsertRow, TxSet
  <1>5. tx[w] \in TxSet
    BY <1>1
  <1>6. /\ u \in TxSet /\ u.on = tx[w].on /\ u.rows = tx[w].rows \cup {row} /\ u.todo = next
        /\ u.env[var] = value /\ \A v \in Variable \ {var} : u.env[v] = tx[w].env[v]
    <2> HIDE DEF row, value
    <2> QED
      BY <1>1, <1>2, <1>3, <1>5 DEF TxSet
  <1>7. seq' \in [Serials -> Nat]
    BY <1>1, <1>2, <1>4
  <1> HIDE DEF u, row
  <1>8. tx' \in [Worker -> TxSet] /\ tx'[w] = u /\ \A v \in Worker \ {w} : tx'[v] = tx[v]
    BY <1>1, <1>4, <1>6
  <1> QED
    BY <1>2, <1>4, <1>6, <1>7, <1>8 DEF row, Inserted

LEMMA InsertKeeps ==
    ASSUME IInv, NEW w \in Worker, tx[w].on, NEW table \in Serials, NEW text \in AnyText,
           NEW refs \in Seq(Nat), Len(refs) = Len(References(table)),
           \A k \in 1..Len(refs) :
               refs[k] # Null => Holds(Visible(w), References(table)[k], refs[k]),
           NEW var \in Assigned, var = "none" \/ TableOf(var) = table,
           NEW next \in Seq(Stmt), InsertRow(w, table, text, refs, var, next),
           OtherInv(w)', PersonInv(w)'
    PROVE  IInv'
  <1> DEFINE id == seq[table] + 1
             row == Row(table, id, text, refs)
             N == {row}
  <1>1. /\ tx' \in [Worker -> TxSet] /\ \A v \in Worker \ {w} : tx'[v] = tx[v]
        /\ tx'[w].on = tx[w].on /\ tx'[w].rows = tx[w].rows \cup N
        /\ tx'[w].env[var] = IF var = "none" THEN Null ELSE id
        /\ \A v \in Variable \ {var} : tx'[w].env[v] = tx[w].env[v]
        /\ db' = db /\ queue' = queue /\ seq' \in [Serials -> Nat]
        /\ id \in Nat /\ id # Null
    <2> HIDE DEF id, N, row
    <2>1. N = {Row(table, id, text, refs)} /\ id = seq[table] + 1
      BY DEF N, row, id
    <2>2. Inserted(w, table, text, refs, var, next)
      BY AfterInsert
    <2> QED
      BY <2>1, <2>2 DEF Inserted
  <1>2. /\ row.table = table /\ row.id = id /\ row.refs = refs /\ row.text = text
        /\ row \in RowSet
    BY <1>1 DEF Row, RowSet
  <1>3. table \notin Links
    BY DEF Serials, Lookups, Links
  <1> HIDE DEF row
  <1>4. Formed(row) /\ Grounded(row, Visible(w) \cup N)
    <2>1. Formed(row)
      BY <1>1, <1>2 DEF Formed
    <2>2. Grounded(row, Visible(w))
      BY <1>2, <1>3 DEF Grounded, Links
    <2> QED
      BY <2>1, <2>2, GroundedMore
  <1>5. MainInv(w)'
    <2>1. "mainCulture" \in Variable \ {var}
      BY DEF Assigned, Variable
    <2>2. MainInv(w) /\ Visible(w)' = Visible(w) \cup N
      BY <1>1 DEF IInv, LocalInv, Visible
    <2> QED
      BY <1>1, <2>1, <2>2 DEF MainInv, CultureOf
  <1>6. \A v \in Variable : \/ tx'[w].env[v] = tx[w].env[v]
                            \/ tx'[w].env[v] = Null
                            \/ Holds(Visible(w) \cup N, TableOf(v), tx'[w].env[v])
    <2>1. var # "none" => Holds(Visible(w) \cup N, TableOf(var), id)
      BY <1>2 DEF Holds
    <2> QED
      BY <1>1, <2>1
  <1>7. /\ \A q, r \in N : q = r
        /\ \A r \in N : Formed(r) /\ Grounded(r, Visible(w) \cup N)
        /\ \A r \in N : r.table \notin Links
    BY <1>2, <1>3, <1>4
  <1> HIDE DEF N
  <1> QED
    BY <1>1, <1>5, <1>6, <1>7, Worked

-----------------------------------------------------------------------------
(* What is left to do after a statement.                                   *)

\* Plain statements hold no link of another person.
LEMMA PlainOther ==
    ASSUME NEW w \in Worker, tx'[w].todo \in Seq(Plain)
    PROVE  OtherInv(w)'
  <1>1. \A k \in 1..Len(tx'[w].todo) : tx'[w].todo[k] # LinkOther
    BY OtherNotPlain, ElementOfSeq
  <1> QED
    BY <1>1 DEF OtherInv, LinkOther, Link, Statement

LEMMA TailPlain ==
    ASSUME IInv, NEW w \in Worker, tx[w].todo # <<>>,
           \/ tx[w].todo[1].op # "getOrCreate"
           \/ tx[w].todo[1].var # "relation"
    PROVE  Tail(tx[w].todo) \in Seq(Plain)
  <1> DEFINE s == tx[w].todo
             t == Tail(s)
  <1>1. /\ Len(s) \in Nat \ {0} /\ t \in Seq(Stmt) /\ Len(t) = Len(s) - 1
        /\ \A k \in 1..(Len(s) - 1) : t[k] = s[k + 1]
    BY HeadIs
  <1>2. ASSUME NEW k \in 1..Len(t) PROVE t[k] \in Plain
    <2>1. t[k] \in Stmt
      BY <1>1, <1>2, ElementOfSeq
    <2>2. k + 1 \in 1..Len(s) /\ t[k] = s[k + 1] /\ k + 1 # 1
      BY <1>1, <1>2
    <2>3. OtherInv(w)
      BY DEF IInv, LocalInv
    <2>4. s[k + 1] # LinkOther
      BY <2>2, <2>3 DEF OtherInv
    <2> QED
      BY <2>1, <2>2, <2>4 DEF Stmt
  <1> HIDE DEF t
  <1>3. t \in Seq(Plain)
    BY <1>1, <1>2, Retyped
  <1> QED
    BY <1>3 DEF t

\* A statement that does not look for the interviewee is run when he is known.
LEMMA PersonKnown ==
    ASSUME IInv, NEW w \in Worker, tx[w].todo # <<>>,
           tx[w].todo[1].op # "getOrCreate",
           tx[w].todo[1].var # "person" \/ tx[w].todo[1].op \notin {"person", "insert"}
    PROVE  tx[w].env["person"] # Null
  <1>1. PersonInv(w) /\ Len(tx[w].todo) \in Nat \ {0}
    BY HeadIs DEF IInv, LocalInv
  <1>2. ASSUME NEW k \in 1..Len(tx[w].todo),
               tx[w].todo[k].var = "person", tx[w].todo[k].op \in {"person", "insert"},
               \A j \in 1..(k - 1) : tx[w].todo[j].op = "getOrCreate"
        PROVE  FALSE
    <2>1. k # 1
      BY <1>2
    <2>2. 1 \in 1..(k - 1)
      BY <2>1
    <2> QED
      BY <1>2, <2>2
  <1> QED
    BY <1>1, <1>2 DEF PersonInv

\* The statement in hand is of the kind its op says.
LEMMA ByOp ==
    ASSUME IInv, NEW w \in Worker, NEW op, Running(w, op)
    PROVE  /\ tx[w].todo # <<>> /\ tx[w].on /\ tx[w].todo[1].op = op
           /\ Head(tx[w].todo) = tx[w].todo[1]
           /\ Tail(tx[w].todo) \in Seq(Stmt)
           /\ op = "getOrCreate" => Head(tx[w].todo) \in Creating
           /\ op = "get" => Head(tx[w].todo) \in Getting
           /\ op = "person" => Head(tx[w].todo) \in Finding
           /\ op = "insert" => Head(tx[w].todo) \in Inserting
           /\ op = "relate" => Head(tx[w].todo) \in Relating
           /\ op = "link" => Head(tx[w].todo) \in Linking \cup {LinkOther}
  <1>1. tx[w].todo # <<>> /\ Head(tx[w].todo).op = op
    BY DEF Running
  <1>2. /\ tx[w].on /\ Head(tx[w].todo) = tx[w].todo[1] /\ Head(tx[w].todo) \in Stmt
        /\ Tail(tx[w].todo) \in Seq(Stmt)
    BY <1>1, HeadIs
  <1>3. ASSUME NEW st \in Stmt
        PROVE  /\ st.op = "getOrCreate" => st \in Creating
               /\ st.op = "get" => st \in Getting
               /\ st.op = "person" => st \in Finding
               /\ st.op = "insert" => st \in Inserting
               /\ st.op = "relate" => st \in Relating
               /\ st.op = "link" => st \in Linking \cup {LinkOther}
    BY DEF Stmt, Plain, Creating, Getting, Finding, Inserting, Relating, Violating, Linking,
           LinkOther, Link, Statement
  <1> QED
    BY <1>1, <1>2, <1>3

LEMMA RestOther ==
    ASSUME IInv, NEW w \in Worker, tx[w].todo # <<>>, tx'[w].todo = Tail(tx[w].todo),
           tx[w].todo[1].op = "getOrCreate" /\ tx[w].todo[1].var = "relation" =>
               /\ tx'[w].env["other"] = tx[w].env["other"]
               /\ tx'[w].env["person"] = tx[w].env["person"]
    PROVE  OtherInv(w)'
  <1>1. CASE tx[w].todo[1].op # "getOrCreate" \/ tx[w].todo[1].var # "relation"
    BY <1>1, TailPlain, PlainOther
  <1>2. CASE tx[w].todo[1].op = "getOrCreate" /\ tx[w].todo[1].var = "relation"
    <2>1. /\ Len(tx[w].todo) \in Nat \ {0}
          /\ Len(tx'[w].todo) = Len(tx[w].todo) - 1
          /\ \A k \in 1..(Len(tx[w].todo) - 1) : tx'[w].todo[k] = tx[w].todo[k + 1]
      BY HeadIs
    <2>2. OtherInv(w)
      BY DEF IInv, LocalInv
    <2>3. ASSUME NEW k \in 1..Len(tx'[w].todo), tx'[w].todo[k] = LinkOther
          PROVE  Relates(w) /\ k = 1
      <3>1. k + 1 \in 1..Len(tx[w].todo) /\ tx[w].todo[k + 1] = LinkOther /\ k + 1 # 1
        BY <2>1, <2>3
      <3>2. Relates(w) /\ k + 1 = 2
        BY <2>2, <3>1 DEF OtherInv
      <3> QED
        BY <3>2
    <2>4. Relates(w) => Relates(w)'
      BY <1>2 DEF Relates
    <2>5. \A k \in 1..Len(tx'[w].todo) : tx'[w].todo[k] = LinkOther =>
             Relates(w)' /\ k = 1
      BY <2>3, <2>4
    <2> QED
      BY <2>5 DEF OtherInv, LinkOther, Link, Statement
  <1> QED
    BY <1>1, <1>2

\* Between the look-ups of the birthplace and the insertion of the interviewee.
LEMMA RestPerson ==
    ASSUME IInv, NEW w \in Worker, tx[w].todo # <<>>, tx'[w].todo = Tail(tx[w].todo),
           tx[w].todo[1].op = "getOrCreate", tx'[w].env["person"] = tx[w].env["person"]
    PROVE  PersonInv(w)'
  <1>1. /\ Len(tx[w].todo) \in Nat \ {0}
        /\ Len(tx'[w].todo) = Len(tx[w].todo) - 1
        /\ \A k \in 1..(Len(tx[w].todo) - 1) : tx'[w].todo[k] = tx[w].todo[k + 1]
    BY HeadIs
  <1>2. CASE tx[w].env["person"] # Null
    BY <1>2 DEF PersonInv, Null
  <1>3. CASE tx[w].env["person"] = Null
    <2>1. PICK k \in 1..Len(tx[w].todo) :
             /\ tx[w].todo[k].var = "person" /\ tx[w].todo[k].op \in {"person", "insert"}
             /\ \A j \in 1..(k - 1) : tx[w].todo[j].op = "getOrCreate"
      BY <1>3 DEF IInv, LocalInv, PersonInv
    <2>2. k # 1
      BY <2>1
    <2>3. k - 1 \in 1..Len(tx'[w].todo) /\ tx'[w].todo[k - 1] = tx[w].todo[k]
      BY <1>1, <2>2
    <2>4. \A j \in 1..((k - 1) - 1) : tx'[w].todo[j].op = "getOrCreate"
      <3> SUFFICES ASSUME NEW j \in 1..((k - 1) - 1)
                   PROVE  tx'[w].todo[j].op = "getOrCreate"
        OBVIOUS
      <3>1. j + 1 \in 1..(k - 1) /\ tx'[w].todo[j] = tx[w].todo[j + 1]
        BY <1>1, <2>3
      <3> QED
        BY <2>1, <3>1
    <2> QED
      BY <2>1, <2>3, <2>4 DEF PersonInv
  <1> QED
    BY <1>2, <1>3

-----------------------------------------------------------------------------
(* Each action keeps the invariant.                                        *)

LEMMA CanonText ==
    ASSUME NEW text \in Text, text \notin Missing
    PROVE  Canon[text] \in AnyText
  BY DEF Text, AnyText, Range

LEMMA GetOrCreateKeeps ==
    ASSUME IInv, NEW w \in Worker, RunGetOrCreate(w)
    PROVE  IInv'
  <1> DEFINE st == Head(tx[w].todo)
             rest == Tail(tx[w].todo)
             refs == Value(w, st.refs)
             ids == Named(w, st.table, Canon[st.text], refs)
  <1>1. /\ tx[w].todo # <<>> /\ tx[w].on /\ tx[w].todo[1].op = "getOrCreate"
        /\ st = tx[w].todo[1] /\ rest \in Seq(Stmt) /\ st \in Creating
    BY ByOp DEF RunGetOrCreate
  <1>2. /\ st.table \in Lookups /\ st.text \in Text /\ st.refs \in Seq(Variable)
        /\ st.var \in Assigned /\ TableOf(st.var) = st.table /\ Fits(st.refs, st.table)
    BY <1>1 DEF Creating
  <1>3. st.table \in Serials /\ st.var \in Variable /\ st.var \notin {"person", "other", "none"}
    BY <1>2 DEF Serials, Lookups, TableOf, Assigned
  <1>4. ASSUME NEW value \in Nat, Assign(w, st.var, value, rest),
               value = Null \/ Holds(Visible(w), TableOf(st.var), value)
        PROVE  IInv'
    <2> HIDE DEF st, rest
    <2>1. /\ tx'[w].todo = rest
          /\ \A v \in Variable \ {st.var} : tx'[w].env[v] = tx[w].env[v]
      BY <1>1, <1>2, <1>4, AfterAssign
    <2>2. /\ tx'[w].env["person"] = tx[w].env["person"]
          /\ tx'[w].env["other"] = tx[w].env["other"]
      BY <1>3, <2>1 DEF Variable
    <2>3. OtherInv(w)' /\ PersonInv(w)'
      BY <1>1, <2>1, <2>2, RestOther, RestPerson DEF rest
    <2> QED
      BY <1>1, <1>2, <1>4, <2>3, AssignKeeps
  <1>5. CASE st.text \in Missing
    <2>1. Assign(w, st.var, Null, rest)
      BY <1>5 DEF RunGetOrCreate
    <2> QED
      BY <1>4, <2>1, TxTypes
  <1>6. CASE st.text \notin Missing /\ ids # {}
    <2>1. PICK id \in ids : Assign(w, st.var, id, rest)
      BY <1>6 DEF RunGetOrCreate
    <2>2. id \in Nat /\ Holds(Visible(w), st.table, id)
      BY <1>3, NamedHolds
    <2> QED
      BY <1>2, <1>4, <2>1, <2>2
  <1>7. CASE st.text \notin Missing /\ ids = {}
    <2>1. InsertRow(w, st.table, Canon[st.text], refs, st.var, rest)
      BY <1>7 DEF RunGetOrCreate
    <2>2. /\ refs \in Seq(Nat) /\ Len(refs) = Len(References(st.table))
          /\ \A k \in 1..Len(refs) :
                refs[k] # Null => Holds(Visible(w), References(st.table)[k], refs[k])
      BY <1>2, ValueFits
    <2>3. Canon[st.text] \in AnyText
      BY <1>2, <1>7, CanonText
    <2> HIDE DEF st, rest, refs
    <2>4. Inserted(w, st.table, Canon[st.text], refs, st.var, rest)
      BY <1>1, <1>2, <1>3, <2>1, <2>2, <2>3, AfterInsert
    <2>5. /\ tx'[w].env["person"] = tx[w].env["person"]
          /\ tx'[w].env["other"] = tx[w].env["other"] /\ tx'[w].todo = rest
      BY <1>3, <2>4 DEF Variable, Inserted
    <2>6. OtherInv(w)' /\ PersonInv(w)'
      BY <1>1, <2>5, RestOther, RestPerson DEF rest
    <2> QED
      BY <1>1, <1>2, <1>3, <2>1, <2>2, <2>3, <2>6, InsertKeeps
  <1> QED
    BY <1>5, <1>6, <1>7

LEMMA GetKeeps ==
    ASSUME IInv, NEW w \in Worker, RunGet(w)
    PROVE  IInv'
  <1> DEFINE st == Head(tx[w].todo)
             rest == Tail(tx[w].todo)
  <1>1. /\ tx[w].todo # <<>> /\ tx[w].on /\ tx[w].todo[1].op = "get"
        /\ st = tx[w].todo[1] /\ rest \in Seq(Stmt) /\ st \in Getting
    BY ByOp DEF RunGet
  <1>2. /\ st.table \in Serials /\ st.var = "level" /\ TableOf(st.var) = st.table
        /\ st.var \in Assigned
    BY <1>1 DEF Getting, Serials, Assigned, Variable
  <1>3. PICK id : /\ Assign(w, st.var, id, rest)
                  /\ \/ id = Null
                     \/ id \in Named(w, st.table, Canon[st.text], <<>>)
    BY DEF RunGet
  <1>4. id \in Nat /\ (id = Null \/ Holds(Visible(w), TableOf(st.var), id))
    BY <1>2, <1>3, NamedHolds, TxTypes
  <1> HIDE DEF st, rest
  <1>5. /\ tx'[w].todo = rest
        /\ \A v \in Variable \ {st.var} : tx'[w].env[v] = tx[w].env[v]
    BY <1>1, <1>2, <1>3, <1>4, AfterAssign
  <1>6. tx[w].env["person"] # Null
    BY <1>1, PersonKnown
  <1>7. PersonInv(w)'
    BY <1>2, <1>5, <1>6 DEF PersonInv, Variable, Null
  <1>8. OtherInv(w)'
    BY <1>1, <1>5, RestOther DEF rest
  <1> QED
    BY <1>1, <1>2, <1>3, <1>4, <1>7, <1>8, AssignKeeps

\* The insertion of a person that is not there, after its birthplace.
Creates(plan, var) ==
    \E n \in 1..Len(plan) :
        /\ plan \in Seq(Plain) /\ plan[n].var = var /\ plan[n].op = "insert"
        /\ \A j \in 1..(n - 1) : plan[j].op = "getOrCreate"

LEMMA CreatePlan ==
    ASSUME NEW text \in AnyText, NEW var \in {"person", "other"}, NEW before \in Seq(Creating),
           NEW rest \in Seq(Plain), NEW refs,
           refs = <<"none", "none">> \/ refs = <<"birthCountry", "birthCity">>,
           NEW plan,
           plan = before \o <<Statement("insert", "people", text, refs, var)>> \o rest
    PROVE  Creates(plan, var)
  <1> DEFINE create == Statement("insert", "people", text, refs, var)
             some == before \o <<create>>
  <1>1. create \in Plain /\ create.var = var /\ create.op = "insert"
    <2>1. refs \in Seq(Variable) /\ Fits(refs, "people")
      <3>1. /\ <<"none", "none">> \in Seq(Variable) /\ Fits(<<"none", "none">>, "people")
        BY DEF Variable, Fits, References
      <3>2. /\ <<"birthCountry", "birthCity">> \in Seq(Variable)
            /\ Fits(<<"birthCountry", "birthCity">>, "people")
        BY DEF Variable, Fits, References, TableOf
      <3> QED
        BY <3>1, <3>2
    <2>2. var \in Assigned /\ TableOf(var) = "people"
      BY DEF Assigned, Variable, TableOf
    <2>3. Insert("people", text, refs, var) \in Inserting
      BY <2>1, <2>2, InsertingIs, SerialTables
    <2> QED
      BY <2>3 DEF Insert, Statement, Plain
  <1> HIDE DEF create
  <1>2. before \in Seq(Plain) /\ Len(before) \in Nat /\ Len(rest) \in Nat
        /\ \A j \in 1..Len(before) : before[j] \in Creating
    <2>1. Creating \subseteq Plain
      BY DEF Plain
    <2> QED
      BY <2>1, SeqMonotonic, ElementOfSeq, LenProperties
  <1>3. <<create>> \in Seq(Plain) /\ Len(<<create>>) = 1 /\ <<create>>[1] = create
    BY <1>1
  <1>4. /\ some \in Seq(Plain) /\ Len(some) = Len(before) + 1
        /\ \A j \in 1..Len(before) : some[j] = before[j]
        /\ some[Len(before) + 1] = create
    <2>1. /\ some \in Seq(Plain) /\ Len(some) = Len(before) + Len(<<create>>)
          /\ \A j \in 1..(Len(before) + Len(<<create>>)) :
                some[j] = IF j <= Len(before) THEN before[j] ELSE <<create>>[j - Len(before)]
      BY <1>2, <1>3, ConcatProperties
    <2>2. Len(before) + 1 \in 1..(Len(before) + Len(<<create>>))
          /\ ~(Len(before) + 1 <= Len(before)) /\ (Len(before) + 1) - Len(before) = 1
      BY <1>2, <1>3
    <2>3. some[Len(before) + 1] = create
      BY <1>3, <2>1, <2>2
    <2> QED
      BY <1>2, <1>3, <2>1, <2>3
  <1>5. /\ plan \in Seq(Plain) /\ Len(plan) = Len(some) + Len(rest)
        /\ \A j \in 1..Len(some) : plan[j] = some[j]
    <2>1. plan = some \o rest
      BY DEF create
    <2>2. some \in Seq(Plain) /\ Len(some) \in Nat /\ Len(rest) \in Nat
      BY <1>2, <1>4
    <2> HIDE DEF some
    <2>3. /\ some \o rest \in Seq(Plain) /\ Len(some \o rest) = Len(some) + Len(rest)
          /\ \A j \in 1..(Len(some) + Len(rest)) :
                (some \o rest)[j] = IF j <= Len(some) THEN some[j] ELSE rest[j - Len(some)]
      BY <2>2, ConcatProperties
    <2>4. ASSUME NEW j \in 1..Len(some) PROVE (some \o rest)[j] = some[j]
      <3>1. j \in 1..(Len(some) + Len(rest)) /\ j <= Len(some)
        BY <2>2
      <3> QED
        BY <2>3, <3>1
    <2> QED
      BY <2>1, <2>3, <2>4
  <1> HIDE DEF some
  <1>6. /\ plan \in Seq(Plain) /\ Len(before) + 1 \in 1..Len(plan)
        /\ plan[Len(before) + 1] = create
        /\ \A j \in 1..Len(before) : plan[j] = before[j]
    BY <1>2, <1>4, <1>5
  <1>7. \A j \in 1..Len(before) : plan[j].op = "getOrCreate"
    BY <1>2, <1>6 DEF Creating
  <1>8. (Len(before) + 1) - 1 = Len(before)
    BY <1>2
  <1> QED
    BY <1>1, <1>6, <1>7, <1>8 DEF Creates

LEMMA PersonKeeps ==
    ASSUME IInv, NEW w \in Worker, RunPerson(w)
    PROVE  IInv'
  <1> DEFINE st == Head(tx[w].todo)
             rest == Tail(tx[w].todo)
             ids == Named(w, "people", Canon[st.text], <<>>)
             refs == IF st.refs = <<>> THEN <<"none", "none">>
                     ELSE <<"birthCountry", "birthCity">>
             plan == st.refs \o <<Statement("insert", "people", Canon[st.text], refs, st.var)>>
                       \o rest
  <1>1. /\ tx[w].todo # <<>> /\ tx[w].on /\ tx[w].todo[1].op = "person"
        /\ st = tx[w].todo[1] /\ rest \in Seq(Stmt) /\ st \in Finding
    BY ByOp DEF RunPerson
  <1>2. /\ st.text \in Text /\ st.refs \in Seq(Creating) /\ st.var \in {"person", "other"}
        /\ st.var \in Assigned /\ TableOf(st.var) = "people"
    BY <1>1 DEF Finding, Assigned, Variable, TableOf
  <1>3. rest \in Seq(Plain)
    BY <1>1, TailPlain
  <1>4. Plain \subseteq Stmt
    BY DEF Stmt
  <1>5. st.var # "person" => tx[w].env["person"] # Null
    BY <1>1, PersonKnown
  <1>6. ASSUME NEW value \in Nat, NEW next \in Seq(Plain), Assign(w, st.var, value, next),
               value = Null \/ Holds(Visible(w), "people", value),
               st.var = "person" /\ value = Null => next = <<>>
        PROVE  IInv'
    <2> HIDE DEF st
    <2>1. next \in Seq(Stmt)
      BY <1>4, SeqMonotonic
    <2>2. /\ tx'[w].todo = next /\ tx'[w].env[st.var] = value
          /\ \A v \in Variable \ {st.var} : tx'[w].env[v] = tx[w].env[v]
      <3>1. st.var \in Assigned /\ Assign(w, st.var, value, next)
        BY <1>2, <1>6
      <3> QED
        BY <2>1, <3>1, AfterAssign
    <2>3. OtherInv(w)'
      BY <2>2, PlainOther
    <2>4. CASE st.var = "person"
      <3>1. PersonInv(w)'
        BY <1>6, <2>2, <2>4 DEF PersonInv, Null
      <3> QED
        BY <1>1, <1>2, <1>6, <2>1, <2>3, <3>1, AssignKeeps
    <2>5. CASE st.var = "other"
      <3>1. PersonInv(w)'
        BY <1>5, <2>2, <2>5 DEF PersonInv, Null, Variable
      <3> QED
        BY <1>1, <1>2, <1>6, <2>1, <2>3, <3>1, AssignKeeps
    <2> QED
      BY <1>2, <2>4, <2>5
  <1>7. CASE Nameless(st.text)
    <2>1. Assign(w, st.var, Null, IF st.var = "person" THEN <<>> ELSE rest)
      BY <1>7 DEF RunPerson
    <2>2. <<>> \in Seq(Plain)
      OBVIOUS
    <2> QED
      BY <1>3, <1>6, <2>1, <2>2, TxTypes
  <1>8. CASE ~Nameless(st.text) /\ ids # {}
    <2>1. PICK id \in ids : Assign(w, st.var, id, rest)
      BY <1>8 DEF RunPerson
    <2>2. id \in Nat /\ id # Null /\ Holds(Visible(w), "people", id)
      BY NamedHolds, SerialTables
    <2> QED
      BY <1>3, <1>6, <2>1, <2>2
  <1>9. CASE ~Nameless(st.text) /\ ids = {}
    <2>1. Assign(w, "none", Null, plan)
      BY <1>9 DEF RunPerson, Continue
    <2>2. Canon[st.text] \in AnyText
      BY <1>2, <1>9, CanonText DEF Nameless
    <2>3. Creates(plan, st.var)
      <3> HIDE DEF st, rest
      <3>1. refs = <<"none", "none">> \/ refs = <<"birthCountry", "birthCity">>
        OBVIOUS
      <3> HIDE DEF refs
      <3>2. /\ st.var \in {"person", "other"} /\ st.refs \in Seq(Creating)
            /\ rest \in Seq(Plain) /\ Canon[st.text] \in AnyText
        BY <1>2, <1>3, <2>2
      <3>3. plan = st.refs \o <<Statement("insert", "people", Canon[st.text], refs, st.var)>>
                     \o rest
        OBVIOUS
      <3> HIDE DEF plan
      <3> QED
        BY <3>1, <3>2, <3>3, CreatePlan
    <2> HIDE DEF plan, st
    <2>8. plan \in Seq(Plain)
      BY <2>3 DEF Creates
    <2>4. plan \in Seq(Stmt) /\ "none" \in Assigned /\ Null \in Nat
      BY <1>4, <2>8, SeqMonotonic, NoTextIs, TxTypes
    <2>5. /\ tx'[w].todo = plan
          /\ \A v \in Variable \ {"none"} : tx'[w].env[v] = tx[w].env[v]
      BY <2>1, <2>4, AfterAssign
    <2>6. OtherInv(w)'
      BY <2>5, <2>8, PlainOther
    <2>7. PersonInv(w)'
      <3>1. CASE st.var = "person"
        BY <2>3, <2>5, <3>1 DEF PersonInv, Creates
      <3>2. CASE st.var # "person"
        BY <1>5, <2>5, <3>2 DEF PersonInv, Null, Variable
      <3> QED
        BY <3>1, <3>2
    <2> QED
      BY <1>1, <2>1, <2>4, <2>6, <2>7, AssignKeeps
  <1> QED
    BY <1>7, <1>8, <1>9

LEMMA InsertStepKeeps ==
    ASSUME IInv, NEW w \in Worker, RunInsert(w)
    PROVE  IInv'
  <1> DEFINE st == Head(tx[w].todo)
             rest == Tail(tx[w].todo)
             refs == Value(w, st.refs)
  <1>1. /\ tx[w].todo # <<>> /\ tx[w].on /\ tx[w].todo[1].op = "insert"
        /\ st = tx[w].todo[1] /\ rest \in Seq(Stmt) /\ st \in Inserting
    BY ByOp DEF RunInsert
  <1>2. /\ st.table \in Serials /\ st.text \in AnyText /\ st.refs \in Seq(Variable)
        /\ st.var \in Assigned /\ (st.var = "none" \/ TableOf(st.var) = st.table)
        /\ Fits(st.refs, st.table)
    BY <1>1 DEF Inserting
  <1>3. st.var # "person" => tx[w].env["person"] # Null
    BY <1>1, PersonKnown
  <1>4. CASE Skipped(st, refs)
    <2>1. Assign(w, "none", Null, rest)
      BY <1>4 DEF RunInsert, Continue
    <2>2. st.var # "person"
      BY <1>2, <1>4 DEF Skipped, TableOf
    <2> HIDE DEF st, rest
    <2>3. /\ tx'[w].todo = rest
          /\ \A v \in Variable \ {"none"} : tx'[w].env[v] = tx[w].env[v]
      BY <1>1, <2>1, NoTextIs, TxTypes, AfterAssign
    <2>4. PersonInv(w)'
      BY <1>3, <2>2, <2>3 DEF PersonInv, Null, Variable
    <2>5. OtherInv(w)'
      BY <1>1, <2>3, RestOther DEF rest
    <2> QED
      BY <1>1, <2>1, <2>4, <2>5, NoTextIs, TxTypes, AssignKeeps
  <1>5. CASE ~Skipped(st, refs)
    <2>1. InsertRow(w, st.table, st.text, refs, st.var, rest)
      BY <1>5 DEF RunInsert
    <2>2. /\ refs \in Seq(Nat) /\ Len(refs) = Len(References(st.table))
          /\ \A k \in 1..Len(refs) :
                refs[k] # Null => Holds(Visible(w), References(st.table)[k], refs[k])
      BY <1>2, ValueFits
    <2> HIDE DEF st, rest, refs
    <2>3. Inserted(w, st.table, st.text, refs, st.var, rest)
      BY <1>1, <1>2, <2>1, <2>2, AfterInsert
    <2>4. /\ tx'[w].todo = rest
          /\ tx'[w].env["person"] =
                IF st.var = "person" THEN seq[st.table] + 1 ELSE tx[w].env["person"]
          /\ seq[st.table] + 1 # Null
      <3>1. CASE st.var = "person"
        BY <2>3, <3>1 DEF Inserted
      <3>2. CASE st.var # "person"
        BY <2>3, <3>2 DEF Inserted, Variable
      <3> QED
        BY <3>1, <3>2
    <2>5. tx'[w].env["person"] # Null
      BY <1>3, <2>4
    <2>6. PersonInv(w)'
      BY <2>5 DEF PersonInv, Null
    <2>7. OtherInv(w)'
      BY <1>1, <2>4, RestOther DEF rest
    <2> QED
      BY <1>1, <1>2, <2>1, <2>2, <2>6, <2>7, InsertKeeps
  <1> QED
    BY <1>4, <1>5

LEMMA RelateKeeps ==
    ASSUME IInv, NEW w \in Worker, RunRelate(w)
    PROVE  IInv'
  <1> DEFINE st == Head(tx[w].todo)
             rest == Tail(tx[w].todo)
             c == GetOrCreate("relationships", st.text, <<>>, "relation")
             both == <<c, LinkOther>>
             next == IF ~Relates(w) THEN rest ELSE both \o rest
  <1>1. /\ tx[w].todo # <<>> /\ tx[w].on /\ tx[w].todo[1].op = "relate"
        /\ st = tx[w].todo[1] /\ rest \in Seq(Stmt) /\ st \in Relating
    BY ByOp DEF RunRelate
  <1>2. rest \in Seq(Plain)
    BY <1>1, TailPlain
  <1>3. Assign(w, "none", Null, next)
    BY DEF RunRelate, Continue, LinkOther
  <1>4. c \in Creating /\ c.op = "getOrCreate" /\ c.var = "relation"
    <2>1. st.text \in Text
      BY <1>1 DEF Relating
    <2>2. "relation" \in Assigned /\ TableOf("relation") = "relationships"
          /\ "relationships" \in Lookups \ {"cities"}
      BY DEF Assigned, Variable, TableOf, Lookups
    <2>3. c \in Creating
      BY <2>1, <2>2, NamesCreating
    <2> QED
      BY <2>3 DEF GetOrCreate, Statement
  <1> HIDE DEF c, rest, st
  <1>5. both \in Seq(Stmt) /\ Len(both) = 2 /\ both[1] = c /\ both[2] = LinkOther
    BY <1>4 DEF Stmt, Plain
  <1> HIDE DEF both
  <1>6. /\ both \o rest \in Seq(Stmt) /\ Len(both \o rest) = 2 + Len(rest)
        /\ \A k \in 1..(2 + Len(rest)) :
              (both \o rest)[k] = IF k <= 2 THEN both[k] ELSE rest[k - 2]
    <2>1. both \in Seq(Stmt) /\ rest \in Seq(Stmt)
      BY <1>1, <1>5
    <2>2. /\ both \o rest \in Seq(Stmt) /\ Len(both \o rest) = Len(both) + Len(rest)
          /\ \A k \in 1..(Len(both) + Len(rest)) :
                (both \o rest)[k] = IF k <= Len(both) THEN both[k] ELSE rest[k - Len(both)]
      BY <2>1, ConcatProperties
    <2> QED
      BY <1>5, <2>2
  <1>7. next \in Seq(Stmt)
    BY <1>1, <1>6
  <1> HIDE DEF next
  <1>8. /\ tx'[w].todo = next
        /\ \A v \in Variable \ {"none"} : tx'[w].env[v] = tx[w].env[v]
    BY <1>3, <1>7, NoTextIs, TxTypes, AfterAssign
  <1>9. /\ tx'[w].env["person"] = tx[w].env["person"]
        /\ tx'[w].env["other"] = tx[w].env["other"]
    BY <1>8 DEF Variable
  <1>10. PersonInv(w)'
    <2>1. tx[w].env["person"] # Null
      BY <1>1, PersonKnown
    <2> QED
      BY <1>9, <2>1 DEF PersonInv, Null
  <1>11. OtherInv(w)'
    <2>1. CASE ~Relates(w)
      <3>1. tx'[w].todo \in Seq(Plain)
        BY <1>2, <1>8, <2>1 DEF next
      <3> QED
        BY <3>1, PlainOther
    <2>2. CASE Relates(w)
      <3>1. tx'[w].todo = both \o rest /\ Relates(w)' /\ Len(rest) \in Nat
        BY <1>1, <1>8, <1>9, <2>2 DEF next, Relates, Null
      <3>2. ASSUME NEW k \in 1..(2 + Len(rest)), (both \o rest)[k] = LinkOther
            PROVE  k = 1 \/ k = 2
        <4>1. CASE k > 2
          <5>1. k - 2 \in 1..Len(rest) /\ rest[k - 2] = LinkOther
            BY <1>6, <3>1, <3>2, <4>1
          <5>2. rest[k - 2] \in Plain
            BY <1>2, <5>1, ElementOfSeq
          <5> QED
            BY <5>1, <5>2, OtherNotPlain
        <4> QED
          BY <3>1, <4>1
      <3>3. (both \o rest)[1] = c
        <4>1. 1 \in 1..(2 + Len(rest))
          BY <3>1
        <4> QED
          BY <1>5, <1>6, <4>1
      <3>4. \A k \in 1..Len(tx'[w].todo) : tx'[w].todo[k] = LinkOther =>
               /\ Relates(w)'
               /\ \/ k = 1
                  \/ /\ k = 2
                     /\ tx'[w].todo[1].op = "getOrCreate"
                     /\ tx'[w].todo[1].var = "relation"
        BY <1>4, <1>6, <3>1, <3>2, <3>3
      <3> QED
        BY <3>4 DEF OtherInv, LinkOther, Link, Statement
    <2> QED
      BY <2>1, <2>2
  <1> QED
    BY <1>1, <1>3, <1>7, <1>10, <1>11, NoTextIs, TxTypes, AssignKeeps

\* The links the procedure makes.
LEMMA LinkKinds ==
    ASSUME NEW st \in Linking \cup {LinkOther}
    PROVE  /\ st.table \in Links /\ st.refs \in Seq(Variable) /\ Len(st.refs) = 2
           /\ Fits(st.refs, st.table)
           /\ st.table = "people_relationships" =>
                 st = LinkOther /\ st.refs = <<"person", "other">>
           /\ st.table = "people_cultures" => st.refs = <<"person", "culture">>
           /\ st.table = "culture_languages" => st.refs = <<"mainCulture", "language">>
  <1>1. CASE st = Link("people_cultures", <<"person", "culture">>)
    BY <1>1 DEF Link, Statement, Links, Variable, Fits, References, TableOf
  <1>2. CASE st = Link("culture_languages", <<"mainCulture", "language">>)
    BY <1>2 DEF Link, Statement, Links, Variable, Fits, References, TableOf
  <1>3. CASE st = Link("people_in_historic_events", <<"person", "event">>)
    BY <1>3 DEF Link, Statement, Links, Variable, Fits, References, TableOf
  <1>4. CASE st = LinkOther
    BY <1>4 DEF LinkOther, Link, Statement, Links, Variable, Fits, References, TableOf
  <1> QED
    BY <1>1, <1>2, <1>3, <1>4 DEF Linking

LEMMA PairValue ==
    ASSUME NEW w, NEW a, NEW b
    PROVE  /\ Value(w, <<a, b>>)[1] = tx[w].env[a] /\ Value(w, <<a, b>>)[2] = tx[w].env[b]
           /\ \A k \in DOMAIN <<a, b>> : k \in {1, 2}
           /\ 1 \in DOMAIN <<a, b>> /\ <<a, b>>[1] = a /\ <<a, b>>[2] = b
  BY DEF Value

\* A link row that is inserted is well formed, and what it needs is visible.
LEMMA LinkRowFits ==
    ASSUME IInv, NEW w \in Worker, Running(w, "link"), NEW st, st = Head(tx[w].todo)
    PROVE  /\ LinkRow(w, st).table = st.table /\ st.table \in Links
           /\ LinkRow(w, st).refs = Value(w, st.refs)
           /\ LinkRow(w, st) \in RowSet
           /\ ~Unlinked(w, st) =>
                 Formed(LinkRow(w, st)) /\ Grounded(LinkRow(w, st), Visible(w))
  <1> DEFINE row == LinkRow(w, st)
             refs == Value(w, st.refs)
  <1>1. /\ st \in Linking \cup {LinkOther} /\ st = tx[w].todo[1]
        /\ tx[w].todo # <<>>
    BY ByOp
  <1>2. /\ st.table \in Links /\ st.refs \in Seq(Variable) /\ Len(st.refs) = 2
        /\ Fits(st.refs, st.table)
        /\ st.table = "people_relationships" =>
              st = LinkOther /\ st.refs = <<"person", "other">>
        /\ st.table = "people_cultures" => st.refs = <<"person", "culture">>
        /\ st.table = "culture_languages" => st.refs = <<"mainCulture", "language">>
    BY <1>1, LinkKinds
  <1>3. /\ refs \in Seq(Nat) /\ Len(refs) = Len(References(st.table))
        /\ \A k \in 1..Len(refs) :
              refs[k] # Null => Holds(Visible(w), References(st.table)[k], refs[k])
    BY <1>2, ValueFits
  <1>4. tx[w].env["relation"] \in Nat /\ Null \in Nat
    BY TxTypes DEF Variable
  <1> DEFINE id == IF st.table = "people_relationships" THEN tx[w].env["relation"] ELSE Null
  <1>5. row = Row(st.table, id, NoText, refs) /\ id \in Nat
    BY <1>4 DEF LinkRow
  <1>6. st.table \notin Serials
    BY <1>2 DEF Serials, Lookups, Links
  <1>7. ASSUME ~Unlinked(w, st), st.table = "people_relationships"
        PROVE  Holds(Visible(w), "relationships", id) /\ refs[1] # refs[2]
    <2>1. id # Null /\ id = tx[w].env["relation"]
      BY <1>7 DEF Unlinked
    <2>2. "relation" \in Variable /\ TableOf("relation") = "relationships"
      BY DEF Variable, TableOf
    <2>3. Holds(Visible(w), "relationships", id)
      BY <2>1, <2>2 DEF IInv, LocalInv, EnvInv
    <2>4. Len(tx[w].todo) \in Nat \ {0} /\ tx[w].todo[1] = LinkOther
      BY <1>1, <1>2, <1>7, HeadIs
    <2>5. Relates(w)
      BY <2>4 DEF IInv, LocalInv, OtherInv
    <2>6. refs[1] = tx[w].env["person"] /\ refs[2] = tx[w].env["other"]
      BY <1>2, <1>7, PairValue
    <2> QED
      BY <2>3, <2>5, <2>6 DEF Relates
  <1>8. ASSUME ~Unlinked(w, st), st.table = "culture_languages"
        PROVE  CultureOf(Visible(w), refs[1])
    <2>1. refs[1] = tx[w].env["mainCulture"]
      BY <1>2, <1>8, PairValue
    <2>2. tx[w].env["mainCulture"] # Null
      <3>1. \A k \in DOMAIN st.refs : tx[w].env[st.refs[k]] # Null
        BY <1>8 DEF Unlinked
      <3>2. /\ 1 \in DOMAIN <<"mainCulture", "language">>
            /\ <<"mainCulture", "language">>[1] = "mainCulture"
        BY PairValue
      <3>3. st.refs = <<"mainCulture", "language">>
        BY <1>2, <1>8
      <3> QED
        BY <3>1, <3>2, <3>3
    <2>3. MainInv(w)
      BY DEF IInv, LocalInv
    <2> QED
      BY <2>1, <2>2, <2>3 DEF MainInv
  <1> HIDE DEF refs, id
  <1>9. /\ row.table = st.table /\ row.refs = refs /\ row.id = id /\ row \in RowSet
    BY <1>2, <1>3, <1>5, NoTextIs DEF Row, RowSet
  <1> HIDE DEF row
  <1>10. ASSUME ~Unlinked(w, st) PROVE Formed(row) /\ Grounded(row, Visible(w))
    BY <1>3, <1>6, <1>7, <1>8, <1>9, <1>10 DEF Formed, Grounded
  <1> QED
    BY <1>2, <1>9, <1>10 DEF row, refs

LEMMA LinkStepKeeps ==
    ASSUME IInv, NEW w \in Worker, RunLink(w)
    PROVE  IInv'
  <1> DEFINE st == Head(tx[w].todo)
             row == LinkRow(w, st)
             present == \E q \in Visible(w) : SameKey(q, row)
             N == IF Unlinked(w, st) \/ present THEN {} ELSE {row}
             main == IF st.table = "people_cultures" /\ tx[w].env["mainCulture"] = Null
                     THEN tx[w].env["culture"] ELSE tx[w].env["mainCulture"]
             u == [tx[w] EXCEPT !.todo = Tail(@), !.rows = @ \cup N, !.env["mainCulture"] = main]
  <1>1. /\ tx[w].todo # <<>> /\ tx[w].on /\ tx[w].todo[1].op = "link"
        /\ st = tx[w].todo[1] /\ Tail(tx[w].todo) \in Seq(Stmt)
        /\ st \in Linking \cup {LinkOther} /\ Running(w, "link")
    BY ByOp DEF RunLink
  <1>2. /\ row.table = st.table /\ row.table \in Links /\ row \in RowSet
        /\ row.refs = Value(w, st.refs)
        /\ ~Unlinked(w, st) => Formed(row) /\ Grounded(row, Visible(w))
    BY <1>1, LinkRowFits
  <1>3. tx \in [Worker -> TxSet] /\ tx[w] \in TxSet
    BY DEF IInv, Typed
  <1>4. main \in Nat /\ "mainCulture" \in Variable /\ "culture" \in Variable
    BY TxTypes DEF Variable
  <1>5. /\ tx' = [tx EXCEPT ![w] = u]
        /\ db' = db /\ queue' = queue /\ seq' = seq
    BY <1>3 DEF RunLink, TxSet
  <1>6. N \subseteq RowSet /\ (N = {} \/ N = {row})
    BY <1>2
  <1>7. /\ u \in TxSet /\ u.on /\ u.todo = Tail(tx[w].todo) /\ u.rows = tx[w].rows \cup N
        /\ u.env["mainCulture"] = main
        /\ \A v \in Variable \ {"mainCulture"} : u.env[v] = tx[w].env[v]
    <2> HIDE DEF N, main
    <2> QED
      BY <1>1, <1>3, <1>4, <1>6 DEF TxSet
  <1> HIDE DEF u
  <1>8. /\ tx' \in [Worker -> TxSet] /\ tx'[w] = u
        /\ \A v \in Worker \ {w} : tx'[v] = tx[v]
    BY <1>3, <1>5, <1>7
  <1>9. ASSUME N # {}
        PROVE  /\ N = {row} /\ ~Unlinked(w, st)
               /\ \A q \in Visible(w) : ~SameKey(q, row)
               /\ \A v \in Worker \ {w} : \A q \in tx[v].rows : ~SameKey(q, row)
    <2>1. N = {row} /\ ~Unlinked(w, st) /\ ~present
      BY <1>9
    <2>2. \A v \in Worker \ {w} : \A q \in tx[v].rows : ~SameKey(q, row)
      BY <1>1, <2>1 DEF RunLink, WaitsFor
    <2> QED
      BY <2>1, <2>2
  <1>10. /\ \A q, r \in N : q = r
         /\ \A r \in N : Formed(r) /\ Grounded(r, Visible(w) \cup N)
         /\ \A r \in N : r.table \in Links =>
               /\ \A q \in Visible(w) : ~SameKey(q, r)
               /\ \A v \in Worker \ {w} : \A q \in tx[v].rows : ~SameKey(q, r)
    <2> HIDE DEF N, row
    <2>1. CASE N = {}
      BY <2>1
    <2>2. CASE N # {}
      <3>1. Formed(row) /\ Grounded(row, Visible(w)) /\ N = {row}
        BY <1>2, <1>9, <2>2
      <3>2. Grounded(row, Visible(w) \cup N)
        BY <3>1, GroundedMore
      <3> QED
        BY <1>9, <2>2, <3>1, <3>2
    <2> QED
      BY <2>1, <2>2
  <1>11. tx[w].env["person"] # Null
    BY <1>1, PersonKnown DEF LinkOther, Linking, Link, Statement
  <1>12. PersonInv(w)'
    BY <1>7, <1>8, <1>11 DEF PersonInv, Variable, Null
  <1>13. OtherInv(w)'
    BY <1>1, <1>7, <1>8, RestOther
  <1>14. EnvInv(w) /\ MainInv(w)
    BY DEF IInv, LocalInv
  <1>15. \A v \in Variable : \/ tx'[w].env[v] = tx[w].env[v]
                             \/ tx'[w].env[v] = Null
                             \/ Holds(Visible(w) \cup N, TableOf(v), tx'[w].env[v])
    <2>1. TableOf("culture") = TableOf("mainCulture")
      BY DEF TableOf
    <2>2. tx[w].env["culture"] # Null =>
             Holds(Visible(w), TableOf("mainCulture"), tx[w].env["culture"])
      BY <1>4, <1>14, <2>1 DEF EnvInv
    <2>3. \/ main = tx[w].env["mainCulture"]
          \/ main = Null
          \/ Holds(Visible(w) \cup N, TableOf("mainCulture"), main)
      BY <2>2 DEF Holds
    <2> HIDE DEF main, N
    <2> QED
      BY <1>7, <1>8, <2>3
  <1>16. MainInv(w)'
    <2>1. Visible(w)' = Visible(w) \cup N
      BY <1>5, <1>7, <1>8 DEF Visible
    <2>2. CASE main = tx[w].env["mainCulture"]
      <3> HIDE DEF main, N
      <3> QED
        BY <1>7, <1>8, <1>14, <2>1, <2>2 DEF MainInv, CultureOf, Null
    <2>3. CASE main # tx[w].env["mainCulture"] /\ main # Null
      <3>1. st.table = "people_cultures" /\ main = tx[w].env["culture"]
        BY <2>3
      <3>2. st.refs = <<"person", "culture">>
        BY <1>1, <3>1, LinkKinds
      <3>3. row.refs[2] = tx[w].env["culture"]
        <4>1. row.refs = Value(w, <<"person", "culture">>)
          BY <1>2, <3>2
        <4> HIDE DEF row
        <4> QED
          BY <4>1, PairValue
      <3>4. ~Unlinked(w, st)
        <4> HIDE DEF st, main
        <4>1. \A k \in DOMAIN st.refs : tx[w].env[st.refs[k]] # Null
          BY <1>11, <2>3, <3>1, <3>2, PairValue
        <4> QED
          BY <3>1, <4>1 DEF Unlinked
      <3>5. \E q \in Visible(w) \cup N : SameKey(q, row)
        BY <3>4 DEF SameKey
      <3>6. \E q \in Visible(w) \cup N : q.table = "people_cultures" /\ q.refs[2] = main
        BY <1>2, <3>1, <3>3, <3>5 DEF SameKey
      <3> HIDE DEF main, N
      <3> QED
        BY <1>7, <1>8, <2>1, <3>6 DEF MainInv, CultureOf
    <2>4. CASE main = Null
      BY <1>7, <1>8, <2>4 DEF MainInv, Null
    <2> QED
      BY <2>2, <2>3, <2>4
  <1>17. seq' \in [Serials -> Nat]
    BY <1>5 DEF IInv, Typed
  <1>18. tx'[w].on /\ tx'[w].rows = tx[w].rows \cup N
    BY <1>7, <1>8
  <1> HIDE DEF N
  <1> QED
    BY <1>5, <1>8, <1>10, <1>12, <1>13, <1>15, <1>16, <1>17, <1>18, Worked

LEMMA TailSuffix ==
    ASSUME NEW S, NEW s \in Seq(S), NEW k \in 0..Len(s),
           SubSeq(s, k + 1, Len(s)) # <<>>
    PROVE  /\ k + 1 \in 0..Len(s)
           /\ Head(SubSeq(s, k + 1, Len(s))) \in S
           /\ Tail(SubSeq(s, k + 1, Len(s))) = SubSeq(s, (k + 1) + 1, Len(s))
           /\ Tail(SubSeq(s, k + 1, Len(s))) \in Seq(S)
  <1>1. /\ Len(s) \in Nat /\ k \in Nat
    OBVIOUS
  <1>2. SubSeq(s, k + 1, Len(s)) \in Seq(S)
    BY <1>1
  <1>3. k # Len(s)
    BY <1>1
  <1>4. Len(SubSeq(s, k + 1, Len(s))) = Len(s) - k
    BY <1>1, <1>3
  <1> QED
    BY <1>1, <1>2, <1>3, <1>4

LEMMA BeginKeeps ==
    ASSUME IInv, NEW w \in Worker, Begin(w)
    PROVE  IInv'
  <1> DEFINE iv == Head(queue[w])
             u == [Idle EXCEPT !.on = TRUE, !.file = iv.file, !.todo = Program(iv),
                               !.said = tx[w].said]
  <1>1. /\ ~tx[w].on /\ queue[w] # <<>> /\ db' = db /\ seq' = seq
        /\ queue' = [queue EXCEPT ![w] = Tail(@)]
        /\ tx' = [tx EXCEPT ![w] = u]
    BY DEF Begin
  <1>2. /\ tx \in [Worker -> TxSet] /\ queue \in [Worker -> Seq(Interview)]
        /\ Work \in [Worker -> Seq(Interview)]
        /\ tx[w] = [Idle EXCEPT !.said = tx[w].said]
    BY <1>1, WorkAssumption DEF IInv, Typed
  <1>3. PICK k \in 0..Len(Work[w]) : queue[w] = SubSeq(Work[w], k + 1, Len(Work[w]))
    BY DEF IInv, InOrder
  <1>4. /\ iv \in Interview /\ k + 1 \in 0..Len(Work[w]) /\ Tail(queue[w]) \in Seq(Interview)
        /\ Tail(queue[w]) = SubSeq(Work[w], (k + 1) + 1, Len(Work[w]))
    <2>1. Work[w] \in Seq(Interview)
      BY <1>2
    <2> QED
      BY <1>1, <1>3, <2>1, TailSuffix
  <1>5. /\ Program(iv) \in Seq(Plain) /\ Program(iv) # <<>>
        /\ Program(iv)[1].op = "person" /\ Program(iv)[1].var = "person"
        /\ iv.file \in AnyText
    BY <1>4, ProgramTyped DEF Interview, AnyText
  <1>6. Program(iv) \in Seq(Stmt)
    BY <1>5, SeqMonotonic DEF Stmt
  <1>7. Idle \in TxSet /\ Null = 0
    BY NoTextIs DEF Idle, TxSet, Null
  <1> HIDE DEF iv
  <1>8. /\ u \in TxSet /\ u.on /\ u.todo = Program(iv) /\ u.rows = {}
        /\ \A v \in Variable : u.env[v] = Null
    <2>1. tx[w].said \in SUBSET AnyText
      BY <1>2 DEF TxSet
    <2>2. u \in TxSet /\ u.on /\ u.todo = Program(iv)
      BY <1>5, <1>6, <1>7, <2>1 DEF TxSet
    <2>3. u.rows = {} /\ \A v \in Variable : u.env[v] = Null
      BY DEF Idle
    <2> QED
      BY <2>2, <2>3
  <1> HIDE DEF u
  <1>9. /\ tx' \in [Worker -> TxSet] /\ tx'[w] = u
        /\ \A v \in Worker \ {w} : tx'[v] = tx[v] /\ queue'[v] = queue[v]
        /\ queue' \in [Worker -> Seq(Interview)] /\ queue'[w] = Tail(queue[w])
    BY <1>1, <1>2, <1>4, <1>8
  <1>10. tx[w].rows = {}
    BY <1>2 DEF Idle
  <1>11. \A v \in Worker : tx'[v].rows = tx[v].rows /\ Visible(v)' = Visible(v)
    BY <1>1, <1>8, <1>9, <1>10 DEF Visible
  <1>12. Typed'
    BY <1>1, <1>8, <1>9 DEF IInv, Typed, Idle
  <1>13. InOrder'
    BY <1>4, <1>9 DEF IInv, InOrder
  <1>14. RowsInv'
    BY <1>1, <1>11 DEF IInv, RowsInv, Sound, Single, Formed, Grounded, Holds, CultureOf, SameKey
  <1>15. KeysInv'
    BY <1>11 DEF IInv, KeysInv, SameKey
  <1>16. LocalInv(w)'
    <2>1. EnvInv(w)' /\ MainInv(w)'
      BY <1>8, <1>9 DEF EnvInv, MainInv, Variable
    <2>2. OtherInv(w)'
      BY <1>5, <1>8, <1>9, PlainOther
    <2>3. PersonInv(w)'
      <3>1. 1 \in 1..Len(tx'[w].todo)
        BY <1>5, <1>8, <1>9, EmptySeq, LenProperties
      <3>2. \A j \in 1..(1 - 1) : tx'[w].todo[j].op = "getOrCreate"
        OBVIOUS
      <3> QED
        BY <1>5, <1>8, <1>9, <3>1, <3>2 DEF PersonInv
    <2> QED
      BY <2>1, <2>2, <2>3 DEF LocalInv
  <1>17. ASSUME NEW v \in Worker \ {w} PROVE LocalInv(v)'
    <2>1. LocalInv(v) /\ tx'[v] = tx[v] /\ Visible(v)' = Visible(v)
      BY <1>9, <1>11 DEF IInv
    <2>2. EnvInv(v)' /\ MainInv(v)'
      BY <2>1 DEF LocalInv, EnvInv, MainInv, Holds, CultureOf
    <2>3. OtherInv(v)'
      BY <2>1 DEF LocalInv, OtherInv, Relates
    <2>4. PersonInv(v)'
      BY <2>1 DEF LocalInv, PersonInv
    <2> QED
      BY <2>2, <2>3, <2>4 DEF LocalInv
  <1> QED
    BY <1>12, <1>13, <1>14, <1>15, <1>16, <1>17 DEF IInv

\* A transaction ends: its rows become everybody's, or nobody's.
LEMMA CloseKeeps ==
    ASSUME IInv, NEW w \in Worker, tx[w].on, NEW files, files \subseteq AnyText,
           Close(w, files), db' = db \/ db' = db \cup tx[w].rows
    PROVE  IInv'
  <1> DEFINE u == [Idle EXCEPT !.said = tx[w].said \cup files]
  <1>1. tx' = [tx EXCEPT ![w] = u] /\ seq' = seq /\ queue' = queue
    BY DEF Close
  <1>2. tx \in [Worker -> TxSet] /\ Idle \in TxSet /\ Null = 0
    BY NoTextIs DEF IInv, Typed, Idle, TxSet, Null
  <1>3. /\ u \in TxSet /\ ~u.on /\ u.rows = {} /\ u.todo = <<>> /\ u = [Idle EXCEPT !.said = u.said]
        /\ \A v \in Variable : u.env[v] = Null
    <2>1. tx[w].said \cup files \in SUBSET AnyText
      BY <1>2 DEF TxSet
    <2>2. u \in TxSet
      BY <1>2, <2>1 DEF TxSet
    <2> QED
      BY <2>2 DEF Idle
  <1> HIDE DEF u
  <1>4. /\ tx' \in [Worker -> TxSet] /\ tx'[w] = u
        /\ \A v \in Worker \ {w} : tx'[v] = tx[v]
    BY <1>1, <1>2, <1>3
  <1>5. /\ Visible(w)' = db'
        /\ \A v \in Worker \ {w} : \/ Visible(v)' = Visible(v)
                                   \/ Visible(v)' = Visible(w) \cup Visible(v)
        /\ db' = db \/ db' = Visible(w)
    BY <1>3, <1>4 DEF Visible
  <1>6. \A v \in Worker \ {w} : Visible(v) \subseteq Visible(v)'
    BY <1>5
  <1>7. Typed'
    <2>1. \A v \in Worker : ~tx'[v].on => tx'[v] = [Idle EXCEPT !.said = tx'[v].said]
      BY <1>3, <1>4 DEF IInv, Typed
    <2> QED
      BY <1>1, <1>4, <2>1 DEF IInv, Typed, Idle
  <1>8. InOrder'
    BY <1>1 DEF IInv, InOrder
  <1>9. Sound(db') /\ Single(db')
    BY <1>5 DEF IInv, RowsInv
  <1>10. ASSUME NEW v \in Worker \ {w} PROVE Sound(Visible(v)') /\ Single(Visible(v)')
    <2>1. Sound(Visible(v)) /\ Single(Visible(v)) /\ Sound(Visible(w)) /\ Single(Visible(w))
      BY DEF IInv, RowsInv
    <2>2. CASE Visible(v)' = Visible(v)
      BY <2>1, <2>2
    <2>3. CASE Visible(v)' = Visible(w) \cup Visible(v)
      <3>1. Sound(Visible(w) \cup Visible(v))
        BY <2>1, SoundUnion
      <3>2. ASSUME NEW q \in Visible(w) \cup Visible(v), NEW r \in Visible(w) \cup Visible(v),
                   q.table \in Links, SameKey(q, r)
            PROVE  q = r
        <4>1. r.table \in Links /\ SameKey(r, q)
          BY <3>2 DEF SameKey
        <4>2. CASE q \in Visible(w) /\ r \in Visible(w)
          BY <2>1, <3>2, <4>2 DEF Single
        <4>3. CASE q \in Visible(v) /\ r \in Visible(v)
          BY <2>1, <3>2, <4>3 DEF Single
        <4>4. CASE q \in tx[w].rows /\ r \in tx[v].rows
          BY <3>2, <4>4 DEF IInv, KeysInv
        <4>5. CASE r \in tx[w].rows /\ q \in tx[v].rows
          BY <4>1, <4>5 DEF IInv, KeysInv
        <4> QED
          BY <4>2, <4>3, <4>4, <4>5 DEF Visible
      <3> QED
        BY <2>3, <3>1, <3>2 DEF Single
    <2> QED
      BY <1>5, <2>2, <2>3
  <1>11. RowsInv'
    <2>1. \A v \in Worker : Sound(Visible(v)') /\ Single(Visible(v)')
      BY <1>5, <1>9, <1>10
    <2> QED
      BY <1>9, <2>1 DEF RowsInv, Sound, Single, Formed, Grounded, Holds, CultureOf, SameKey
  <1>12. KeysInv'
    <2>1. \A v \in Worker : tx'[v].rows \subseteq tx[v].rows
      BY <1>3, <1>4
    <2> QED
      BY <2>1 DEF IInv, KeysInv, SameKey
  <1>13. LocalInv(w)'
    BY <1>3, <1>4 DEF LocalInv, EnvInv, MainInv, OtherInv, PersonInv, Variable
  <1>14. ASSUME NEW v \in Worker \ {w} PROVE LocalInv(v)'
    <2>1. LocalInv(v) /\ tx'[v] = tx[v] /\ Visible(v) \subseteq Visible(v)'
      BY <1>4, <1>6 DEF IInv
    <2>2. EnvInv(v)' /\ MainInv(v)'
      BY <2>1 DEF LocalInv, EnvInv, MainInv, Holds, CultureOf
    <2>3. OtherInv(v)' /\ PersonInv(v)'
      BY <2>1 DEF LocalInv, OtherInv, PersonInv, Relates
    <2> QED
      BY <2>2, <2>3 DEF LocalInv
  <1> QED
    BY <1>7, <1>8, <1>11, <1>12, <1>13, <1>14 DEF IInv

LEMMA InitHolds == Init => IInv
  <1> SUFFICES ASSUME Init PROVE IInv
    OBVIOUS
  <1>1. /\ Levels \in Seq(Range(Canon)) /\ Len(Levels) \in Nat /\ DOMAIN Levels = 1..Len(Levels)
        /\ \A i \in 1..Len(Levels) : Levels[i] \in Range(Canon)
        /\ Work \in [Worker -> Seq(Interview)]
    BY WorkAssumption, LenProperties
  <1>2. Idle \in TxSet /\ Null = 0
    BY NoTextIs DEF Idle, TxSet, Null
  <1>3. /\ \A w \in Worker : tx[w] = Idle /\ Visible(w) = db
        /\ tx \in [Worker -> TxSet]
    BY <1>2 DEF Init, Visible, Idle
  <1>4. Typed
    <2>1. seq \in [Serials -> Nat]
      BY <1>1 DEF Init
    <2>2. \A w \in Worker : tx[w] = [Idle EXCEPT !.said = tx[w].said]
      BY <1>3 DEF Idle
    <2> QED
      BY <1>1, <1>3, <2>1, <2>2 DEF Init, Typed
  <1>5. InOrder
    <2>1. ASSUME NEW w \in Worker PROVE queue[w] = SubSeq(Work[w], 0 + 1, Len(Work[w]))
      <3>1. Work[w] \in Seq(Interview) /\ queue[w] = Work[w]
        BY <1>1 DEF Init
      <3> QED
        BY <3>1
    <2>2. \A w \in Worker : 0 \in 0..Len(Work[w])
      BY <1>1
    <2> QED
      BY <2>1, <2>2 DEF InOrder
  <1>6. ASSUME NEW r \in db
        PROVE  Formed(r) /\ Grounded(r, db) /\ r.table \notin Links
    <2>1. PICK i \in 1..Len(Levels) : r = Row("education_levels", i, Levels[i], <<>>)
      BY <1>1 DEF Init
    <2>2. /\ r.table = "education_levels" /\ r.id = i /\ r.text = Levels[i] /\ r.refs = <<>>
      BY <2>1 DEF Row
    <2>3. Levels[i] \in AnyText /\ i \in Nat /\ i # Null
      BY <1>1, <1>2 DEF AnyText
    <2>4. /\ References("education_levels") = <<>> /\ "education_levels" \in Serials
          /\ "education_levels" \notin Links
      BY DEF References, Serials, Lookups, Links
    <2>5. r \in RowSet
      BY <2>1, <2>3, <2>4 DEF Row, RowSet
    <2>6. Formed(r)
      BY <2>2, <2>3, <2>4, <2>5 DEF Formed
    <2>7. Grounded(r, db)
      BY <2>2 DEF Grounded
    <2> QED
      BY <2>2, <2>4, <2>6, <2>7
  <1>7. RowsInv
    <2>1. Sound(db) /\ Single(db)
      BY <1>6 DEF Sound, Single
    <2> QED
      BY <1>3, <2>1 DEF RowsInv
  <1>8. KeysInv
    BY <1>3 DEF KeysInv, Idle
  <1>9. ASSUME NEW w \in Worker PROVE LocalInv(w)
    <2>1. tx[w].todo = <<>> /\ \A v \in Variable : tx[w].env[v] = Null
      BY <1>3 DEF Idle
    <2> QED
      BY <2>1 DEF LocalInv, EnvInv, MainInv, OtherInv, PersonInv, Variable
  <1> QED
    BY <1>4, <1>5, <1>7, <1>8, <1>9 DEF IInv

LEMMA StepKeeps == IInv /\ [Next]_vars => IInv'
  <1> SUFFICES ASSUME IInv, [Next]_vars PROVE IInv'
    OBVIOUS
  <1>1. ASSUME NEW w \in Worker, Begin(w) PROVE IInv'
    BY <1>1, BeginKeeps
  <1>2. ASSUME NEW w \in Worker, RunGetOrCreate(w) PROVE IInv'
    BY <1>2, GetOrCreateKeeps
  <1>3. ASSUME NEW w \in Worker, RunGet(w) PROVE IInv'
    BY <1>3, GetKeeps
  <1>4. ASSUME NEW w \in Worker, RunPerson(w) PROVE IInv'
    BY <1>4, PersonKeeps
  <1>5. ASSUME NEW w \in Worker, RunInsert(w) PROVE IInv'
    BY <1>5, InsertStepKeeps
  <1>6. ASSUME NEW w \in Worker, RunRelate(w) PROVE IInv'
    BY <1>6, RelateKeeps
  <1>7. ASSUME NEW w \in Worker, RunLink(w) PROVE IInv'
    BY <1>7, LinkStepKeeps
  <1>8. ASSUME NEW w \in Worker, Rollback(w) PROVE IInv'
    <2>1. tx[w].on /\ db' = db /\ Close(w, {})
      BY <1>8 DEF Rollback, RolledBack
    <2> QED
      BY <2>1, CloseKeeps
  <1>9. ASSUME NEW w \in Worker, Commit(w) PROVE IInv'
    <2>1. tx[w].on /\ db' = db \cup tx[w].rows /\ Close(w, {tx[w].file})
      BY <1>9 DEF Commit, Committed
    <2>2. {tx[w].file} \subseteq AnyText
      BY TxTypes DEF TxSet
    <2> QED
      BY <2>1, <2>2, CloseKeeps
  <1>10. ASSUME NEW w \in Worker, CommitUnacknowledged(w) PROVE IInv'
    <2>1. tx[w].on /\ db' = db \cup tx[w].rows /\ Close(w, {})
      BY <1>10 DEF CommitUnacknowledged
    <2> QED
      BY <2>1, CloseKeeps
  <1>11. CASE UNCHANGED vars
    BY <1>11 DEF vars, IInv, Typed, InOrder, RowsInv, KeysInv, LocalInv, EnvInv, MainInv,
                 OtherInv, PersonInv, Relates, Visible, Sound, Single, Formed, Grounded, Holds,
                 CultureOf, SameKey
  <1>12. CASE Next
    <2>1. PICK w \in Worker : Proceed(w) \/ CommitUnacknowledged(w) \/ Rollback(w)
      BY <1>12 DEF Next
    <2>2. \/ Begin(w) \/ RunGetOrCreate(w) \/ RunGet(w) \/ RunPerson(w) \/ RunInsert(w)
          \/ RunRelate(w) \/ RunLink(w) \/ Commit(w) \/ CommitUnacknowledged(w) \/ Rollback(w)
      BY <2>1 DEF Proceed, Violation, DeadlockAbort
    <2> QED
      BY <1>1, <1>2, <1>3, <1>4, <1>5, <1>6, <1>7, <1>8, <1>9, <1>10, <2>2
  <1> QED
    BY <1>11, <1>12

-----------------------------------------------------------------------------
(* The theorems.                                                           *)

LEMMA Invariant == Spec => []IInv
  BY InitHolds, StepKeeps, PTL DEF Spec

\* The rows have their table's columns, and what is left to a process is a suffix of
\* its interviews.
THEOREM TypeCorrect == Spec => []TypeOK
  <1>1. IInv => TypeOK
    <2> SUFFICES ASSUME IInv PROVE TypeOK
      OBVIOUS
    <2>1. \A r \in db : Formed(r)
      BY DEF IInv, RowsInv, Sound
    <2>2. \A r \in db : /\ r.table \in Serials \cup Links /\ r.id \in Nat
                        /\ Len(r.refs) = Len(References(r.table))
      BY <2>1 DEF Formed, RowSet
    <2>3. \A w \in Worker : tx[w].on \in BOOLEAN /\ tx[w].env \in [Variable -> Nat]
      BY TxTypes
    <2> QED
      BY <2>2, <2>3 DEF IInv, Typed, InOrder, TypeOK
  <1> QED
    BY <1>1, Invariant, PTL

\* The ids that get_or_create, find_or_create_person and RETURNING hand on are ids of
\* rows the transaction sees, whatever the other processes commit or roll back.
THEOREM NoDanglingIdsHolds == Spec => []NoDanglingIds
  <1>1. IInv => NoDanglingIds
    <2> SUFFICES ASSUME IInv, NEW w \in Worker, NEW r \in Visible(w)
                 PROVE  /\ \A k \in DOMAIN r.refs : r.refs[k] # Null =>
                              Holds(Visible(w), References(r.table)[k], r.refs[k])
                        /\ r.table = "people_relationships" =>
                              Holds(Visible(w), "relationships", r.id)
      BY DEF NoDanglingIds, Holds
    <2>1. Formed(r) /\ Grounded(r, Visible(w))
      BY DEF IInv, RowsInv, Sound
    <2>2. DOMAIN r.refs = 1..Len(r.refs)
      BY <2>1, LenProperties DEF Formed, RowSet
    <2> QED
      BY <2>1, <2>2 DEF Grounded
  <1> QED
    BY <1>1, Invariant, PTL

\* ON CONFLICT DO NOTHING, with the wait for another process's uncommitted row, keeps
\* one row per link.
THEOREM LinkedOnceHolds == Spec => []LinkedOnce
  <1>1. IInv => LinkedOnce
    BY DEF IInv, RowsInv, Single, SameKey, LinkedOnce
  <1> QED
    BY <1>1, Invariant, PTL

\* The checks made before a relationship or a language is linked hold of what is stored.
THEOREM LinksMeaningfulHolds == Spec => []LinksMeaningful
  <1>1. IInv => LinksMeaningful
    BY DEF IInv, RowsInv, Sound, Grounded, CultureOf, LinksMeaningful
  <1> QED
    BY <1>1, Invariant, PTL
=============================================================================
