-------------------------- MODULE ExtractionBatch --------------------------
(***************************************************************************)
(* The batch script of genai_data_extraction.py: for every .txt file, ask  *)
(* Gemini for the data (retrying on rate limits), append rows to the CSV    *)
(* files, call the database, and count the outcome.  Answers of Gemini and  *)
(* of the database are external choices.  The process may be killed and run *)
(* again: CSV files and database stay, everything else starts afresh.       *)
(***************************************************************************)
EXTENDS Naturals, FiniteSets, SequencesExt

CONSTANTS
    File,         \* the .txt files of the directory
    MaxRetries,   \* max_retries
    InitialWait,  \* initial_wait_time, in seconds
    WaitCap,      \* the cap on the wait
    Jitter,       \* the random part added to a wait, rounded
    MaxRuns       \* bound: how often the script is started

ASSUME BatchAssumption ==
    /\ IsFiniteSet(File) /\ {"none", "absent", "header"} \cap File = {}
    /\ MaxRetries \in Nat /\ MaxRuns \in Nat
    /\ InitialWait \in Nat /\ WaitCap \in Nat /\ InitialWait <= WaitCap
    /\ Jitter \subseteq Nat /\ \A j \in Jitter : j <= 2

VARIABLES
    pc,      \* where the script is; "off" when it does not run
    left,    \* files the directory listing still has
    file,    \* the file being processed
    api,     \* the retry loop: retries, current_wait_time, and history: calls
             \* made and seconds slept for the file
    csv,     \* each CSV file: its lines, or Absent
    rows,    \* rows of the file still to be appended
    fresh,   \* write_csv_row: was the file absent when looked at?
    stored,  \* how often the database committed each file
    count,   \* processed_successfully, failed_extraction, failed_db_insert
    runs     \* how often the script was started

vars == <<pc, left, file, api, csv, rows, fresh, stored, count, runs>>
persistent == <<csv, stored>>

NoFile == "none"
Absent == <<"absent">>
Header == "header"
Table == {"core", "extra"}
Counter == {"processed", "extraction", "db"}
Raise == "raise"

\* What save_data_to_csvs does with an answer: append the core row, perhaps rows
\* to other files, or break off at a value of an unexpected type (the whole
\* answer may be one: a list instead of an object).
Shapes == { <<"core">>, <<"core", "extra">>, <<"core", Raise>>, <<Raise>> }

Api == [retries : 0..(MaxRetries + 1), wait : InitialWait..WaitCap,
        calls : Nat, slept : Nat]
NewApi == [retries |-> 0, wait |-> InitialWait, calls |-> 0, slept |-> 0]
NewCount == [c \in Counter |-> 0]

Init ==
    /\ pc = "off" /\ left = {} /\ file = NoFile /\ api = NewApi
    /\ csv = [t \in Table |-> Absent] /\ rows = <<>> /\ fresh = FALSE
    /\ stored = [f \in File |-> 0] /\ count = NewCount /\ runs = 0

-----------------------------------------------------------------------------
(* The loop over the directory.                                            *)

\* Start the script; without key or directory it stops at once.
Start ==
    /\ pc = "off" /\ runs < MaxRuns
    /\ runs' = runs + 1
    /\ \E ready \in BOOLEAN : pc' = IF ready THEN "next" ELSE "off"
    /\ left' = File /\ file' = NoFile /\ api' = NewApi /\ rows' = <<>>
    /\ fresh' = FALSE /\ count' = NewCount
    /\ UNCHANGED persistent

\* Take any file: the order of os.listdir is arbitrary.
NextFile ==
    /\ pc = "next" /\ left # {}
    /\ \E f \in left : file' = f /\ left' = left \ {f}
    /\ pc' = "read" /\ api' = NewApi
    /\ UNCHANGED <<csv, rows, fresh, stored, count, runs>>

BatchComplete ==
    /\ pc = "next" /\ left = {}
    /\ pc' = "done"
    /\ UNCHANGED <<left, file, api, csv, rows, fresh, stored, count, runs>>

\* The file is over: one counter goes up.
\* (A mutation: an extraction failure is not counted.)
Finish_Uncounted(c) ==
    /\ pc' = "next"
    /\ count' = IF c = "extraction" THEN count ELSE [count EXCEPT ![c] = @ + 1]
Finish(c) ==
    /\ pc' = "next"
    /\ count' = [count EXCEPT ![c] = @ + 1]

-----------------------------------------------------------------------------
(* analyze_interview_with_gemini and call_gemini_api_with_retry.           *)

\* An unreadable or empty file is not sent.
ReadFile ==
    /\ pc = "read"
    /\ \/ pc' = "call" /\ UNCHANGED count
       \/ Finish("extraction")
    /\ UNCHANGED <<left, file, api, csv, rows, fresh, stored, runs>>

Attempt == api' = [api EXCEPT !.calls = @ + 1]

\* An answer whose JSON is not empty: data to save.
Answered ==
    /\ pc = "call" /\ Attempt
    /\ \E shape \in Shapes : rows' = shape
    /\ pc' = "csv"
    /\ UNCHANGED <<left, file, csv, fresh, stored, count, runs>>

\* No parts, text that is no JSON, an empty object, or an error that is not a
\* rate limit: None, without another attempt.
NoAnswer ==
    /\ pc = "call" /\ Attempt
    /\ Finish("extraction")
    /\ UNCHANGED <<left, file, csv, rows, fresh, stored, runs>>

\* A rate limit: give up after max_retries, else sleep.
\* Mutations: one retry too many; the wait is not capped.
GivesUp_Late == api.retries > MaxRetries
NextWait_Uncapped(w) == 2 * w
GivesUp == api.retries + 1 > MaxRetries
RateLimited ==
    /\ pc = "call"
    /\ api' = [api EXCEPT !.calls = @ + 1, !.retries = @ + 1]
    /\ IF GivesUp THEN Finish("extraction") ELSE pc' = "sleep" /\ UNCHANGED count
    /\ UNCHANGED <<left, file, csv, rows, fresh, stored, runs>>

NextWait(w) == IF 2 * w <= WaitCap THEN 2 * w ELSE WaitCap
Sleep ==
    /\ pc = "sleep"
    /\ \E j \in Jitter :
        api' = [api EXCEPT !.slept = @ + api.wait + j, !.wait = NextWait(@)]
    /\ pc' = "call"
    /\ UNCHANGED <<left, file, csv, rows, fresh, stored, count, runs>>

-----------------------------------------------------------------------------
(* save_data_to_csvs: one write_csv_row per row.                           *)

\* Look whether the file exists, then open it for appending: that creates it.
OpenCsv ==
    /\ pc = "csv" /\ rows # <<>> /\ Head(rows) # Raise
    /\ fresh' = (csv[Head(rows)] = Absent)
    /\ csv' = [csv EXCEPT ![Head(rows)] = IF @ = Absent THEN <<>> ELSE @]
    /\ pc' = "append"
    /\ UNCHANGED <<left, file, api, rows, stored, count, runs>>

\* A mutation: the size of the file is not looked at.
HeaderLine_FreshOnly(t) == IF fresh THEN <<Header>> ELSE <<>>
HeaderLine(t) == IF fresh \/ csv[t] = <<>> THEN <<Header>> ELSE <<>>

\* The lines leave the buffer together when the file is closed.
AppendCsv ==
    /\ pc = "append"
    /\ LET t == Head(rows) IN csv' = [csv EXCEPT ![t] = @ \o HeaderLine(t) \o <<file>>]
    /\ rows' = Tail(rows) /\ pc' = "csv"
    /\ UNCHANGED <<left, file, api, fresh, stored, count, runs>>

\* (A mutation: a row that cannot be written is tried again.)
RowsAfterError_All == rows
RowsAfterError == Tail(rows)

\* An exception while opening or writing is printed; the row is lost, the header
\* may have been written.
LoseRow ==
    /\ \/ pc = "append" /\ LET t == Head(rows) IN
              csv' \in {csv, [csv EXCEPT ![t] = @ \o HeaderLine(t)]}
       \/ pc = "csv" /\ rows # <<>> /\ Head(rows) # Raise /\ UNCHANGED csv
    /\ rows' = RowsAfterError /\ pc' = "csv"
    /\ UNCHANGED <<left, file, api, fresh, stored, count, runs>>

\* Data of an unexpected type: the exception reaches the loop, which skips the
\* database.  (A mutation: it goes on to the database.)
Skip_GoesOn == pc' = "csv" /\ count' = [count EXCEPT !["db"] = @ + 1]
Skip == Finish("db")
SaveRaises ==
    /\ pc = "csv" /\ rows # <<>> /\ Head(rows) = Raise
    /\ rows' = <<>> /\ Skip
    /\ UNCHANGED <<left, file, api, csv, fresh, stored, runs>>

-----------------------------------------------------------------------------
(* store_extracted_data_v2.                                                *)

\* (A mutation: after the commit, the call is made again.)
AfterCommit_Again == "csv"
AfterCommit == "kept"
Stored ==
    /\ pc = "csv" /\ rows = <<>>
    /\ stored' = [stored EXCEPT ![file] = @ + 1]
    /\ pc' = AfterCommit
    /\ UNCHANGED <<left, file, api, csv, rows, fresh, count, runs>>

\* The call returned: the loop counts the file.
CountStored ==
    /\ pc = "kept"
    /\ Finish("processed")
    /\ UNCHANGED <<left, file, api, csv, rows, fresh, stored, runs>>

\* A commit whose answer is lost with the connection may have happened.
MaybeStored == stored' \in {stored, [stored EXCEPT ![file] = @ + 1]}

\* A database error is caught, rolled back and printed.
StoreFails ==
    /\ pc = "csv" /\ rows = <<>>
    /\ Finish("processed")
    /\ MaybeStored
    /\ UNCHANGED <<left, file, api, csv, rows, fresh, runs>>

\* The rollback itself fails, on a lost connection: the loop catches that.
StoreRaises ==
    /\ pc = "csv" /\ rows = <<>>
    /\ Finish("db")
    /\ MaybeStored
    /\ UNCHANGED <<left, file, api, csv, rows, fresh, runs>>

-----------------------------------------------------------------------------

\* The process is killed, or ends after its report.
Stop ==
    /\ pc # "off"
    /\ pc' = "off"
    /\ UNCHANGED <<left, file, api, csv, rows, fresh, stored, count, runs>>

Work ==
    \/ NextFile \/ BatchComplete \/ ReadFile \/ Answered \/ NoAnswer \/ RateLimited
    \/ Sleep \/ OpenCsv \/ AppendCsv \/ LoseRow \/ SaveRaises \/ Stored \/ CountStored
    \/ StoreFails \/ StoreRaises

Next == Start \/ Work \/ Stop

Spec == Init /\ [][Next]_vars
\* A running script goes on: every call it waits for returns or raises.
FairSpec == Spec /\ WF_vars(Work)

-----------------------------------------------------------------------------
(* Properties.                                                             *)

TypeOK ==
    /\ pc \in {"off", "next", "read", "call", "sleep", "csv", "append", "kept", "done"}
    /\ left \subseteq File /\ file \in File \cup {NoFile}
    /\ api \in Api
    /\ csv \in [Table -> Seq(File \cup {Header}) \cup {Absent}]
    /\ rows \in Seq(Table \cup {Raise})
    /\ fresh \in BOOLEAN /\ stored \in [File -> Nat] /\ count \in [Counter -> Nat]
    /\ runs \in 0..MaxRuns

\* A file costs at most max_retries + 1 calls, however its attempts fail, and the
\* script sleeps at most max_retries times, never longer than the cap and the
\* random part (genai_data_extraction.py:507-545).
CallsBounded ==
    /\ api.calls <= MaxRetries + 1
    /\ api.slept <= MaxRetries * (WaitCap + 2)

\* Every file taken from the listing is counted in exactly one of the three
\* totals the report prints (lines 652-665).
CountsAddUp ==
    LET total == count["processed"] + count["extraction"] + count["db"]
        taken == Cardinality(File \ left)
    IN /\ pc \in {"next", "done"} => total = taken
       /\ pc \in {"read", "call", "sleep", "csv", "append", "kept"} => total + 1 = taken

\* However often the script is killed, also between creating a CSV file and
\* writing to it, a CSV file has one header, and it is its first line.
HeaderFirst ==
    \A t \in Table : csv[t] \notin {Absent, <<>>} =>
        \A i \in DOMAIN csv[t] : csv[t][i] = Header <=> i = 1

\* A run commits a file at most once, and none it has not taken from the listing:
\* what a killed run committed is committed again only by a later run.
StoredOncePerRun ==
    \A f \in File :
        /\ stored[f] <= runs
        /\ f \in left \/ (f = file /\ pc \in {"read", "call", "sleep", "csv", "append"})
             => stored[f] < runs

\* A started batch reaches its report unless it is killed.
BatchEnds == (pc = "next") ~> (pc \in {"done", "off"})

\* The files of this run that have no outcome yet, and that were committed but not
\* yet counted.
Open == IF pc = "off" THEN {}
        ELSE left \cup (IF pc \in {"next", "kept", "done"} THEN {} ELSE {file})
Committed == IF pc = "kept" THEN {file} ELSE {}
Report == INSTANCE BatchReport WITH todo <- Open, kept <- stored, told <- Committed

\* What the batch amounts to: retries, CSV rows and the point where a run was
\* killed leave no trace in the outcomes of the files (lines 615-651).
OneOutcomeEach == Report!Spec

=============================================================================
