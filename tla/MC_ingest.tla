----------------------------- MODULE MC_ingest -----------------------------
(* Interviews chosen to meet: the same person under two spellings, the same *)
(* persons in two orders, the same pair with two relationships, blanks.     *)
EXTENDS IngestInterview, TLC

MCMissing == {"", "NULL"}
MCCanon == [t \in {"Ana", " ana", "Luis", "Eva", "Basque", "Criollo", "Euskera", "brother",
                   "uncle", "Spain", "spain ", "Vigo", "ship", "war",
                   "primary", "blank", "school", "rye"} |->
              CASE t = " ana" -> "Ana" [] t = "spain " -> "Spain"
                [] t = "blank" -> "" [] OTHER -> t]

Nowhere == [country |-> "NULL", city |-> "NULL"]
Bare(file, name) ==
    [file |-> file, name |-> name, home |-> Nowhere, summarised |-> TRUE,
     moves |-> <<>>, jobs |-> <<>>, schools |-> <<>>, others |-> <<>>,
     cultures |-> <<>>, languages |-> <<>>, events |-> <<>>, keywords |-> <<>>]

\* Two processes: Luis's interview mentions Ana and Eva; then both interview Ana,
\* who mentions them in two orders, and Luis with two relationships.
Mention(name, as) == [name |-> name, as |-> as]
OfLuis == [Bare("luis", "Luis") EXCEPT
             !.others = << Mention("Ana", "NULL"), Mention("Eva", "NULL") >>]
OfAna1 == [Bare("ana1", "Ana") EXCEPT
             !.others = << Mention("Luis", "brother"), Mention("Eva", "uncle") >>]
OfAna2 == [Bare("ana2", " ana") EXCEPT
             !.others = << Mention("Eva", "uncle"), Mention("Luis", "uncle") >>,
             !.keywords = <<"rye", "", "rye">>]
TwoProcesses == "p1" :> <<OfLuis, OfAna1>> @@ "p2" :> <<OfAna2>>

\* One process: every section, with blanks, absent values and a repeated name.
Full == [Bare("full", "Ana") EXCEPT
    !.home = [country |-> "Spain", city |-> "Vigo"],
    !.moves = << [from |-> [country |-> "spain ", city |-> "Vigo"],
                  to |-> [country |-> "NULL", city |-> "Vigo"], travel |-> "ship"] >>,
    !.jobs = <<"primary", "NULL">>,
    !.schools = << [school |-> "school", level |-> "primary"],
                   [school |-> "school", level |-> "NULL"] >>,
    !.others = << Mention(" ana", "brother"), Mention("blank", "brother"),
                  Mention("Luis", "brother"), Mention("Luis", "uncle") >>,
    !.cultures = <<"NULL", "blank", "Basque", "blank">>, !.languages = <<"Euskera">>,
    !.events = <<"war", "war">>, !.keywords = <<"rye", "NULL">>]
Untitled == [Bare("untitled", " ana") EXCEPT !.summarised = FALSE]
Cultureless == [Bare("cultureless", "Luis") EXCEPT !.languages = <<"Euskera">>]
OneProcess == "p1" :> <<Full, Untitled, Cultureless, Full>>

NoLevels == <<>>
SomeLevels == <<"primary">>

\* An interviewee whose name is blank.
Unnamed == "p1" :> << Bare("unnamed", "blank") >>

=============================================================================
