----------------------- MODULE ExtractionBatchProofs -----------------------
(* What ExtractionBatch guarantees for any files, retries, waits and starts. *)
EXTENDS ExtractionBatch, FiniteSetTheorems, TLAPS

USE BatchAssumption

\* The retry loop: until the file is over, every call so far was a rate limit, and
\* a retry is left.
RetryLeft ==
    /\ pc = "read" => api = NewApi
    /\ pc \in {"call", "sleep"} =>
         api.calls = api.retries /\ api.retries <= MaxRetries
    /\ api.calls <= MaxRetries + 1

\* The file in hand, and the CSV file opened for the next row.
InHand ==
    /\ pc \in {"read", "call", "sleep", "csv", "append", "kept"} => file \in File
    /\ pc = "append" =>
         /\ rows # <<>> /\ Head(rows) \in Table
         /\ csv[Head(rows)] # Absent

TypeInv == TypeOK /\ RetryLeft /\ InHand

LEMMA ShapesAreRows == Shapes \subseteq Seq(Table \cup {Raise})
  BY DEF Shapes, Table, Raise

LEMMA NoRows == <<>> \in Seq(Table \cup {Raise})
  OBVIOUS

LEMMA RowsTail ==
    ASSUME NEW s \in Seq(Table \cup {Raise}), s # <<>>
    PROVE  /\ Tail(s) \in Seq(Table \cup {Raise})
           /\ Head(s) \in Table \cup {Raise}
  OBVIOUS

LEMMA NewTypes == NewApi \in Api /\ NewCount \in [Counter -> Nat]
  BY DEF NewApi, Api, NewCount

\* Counting a file keeps the type of the counters.
LEMMA FinishTypes ==
    ASSUME count \in [Counter -> Nat], NEW c \in Counter, Finish(c)
    PROVE  count' \in [Counter -> Nat] /\ pc' = "next"
  BY DEF Finish

\* A commit keeps the type of what the database holds.
LEMMA CommitTypes ==
    ASSUME NEW s \in [File -> Nat], NEW f \in File
    PROVE  [s EXCEPT ![f] = @ + 1] \in [File -> Nat]
  OBVIOUS

LEMMA JoinTypes ==
    ASSUME NEW S, NEW a \in Seq(S), NEW b \in Seq(S)
    PROVE  a \o b \in Seq(S)
  OBVIOUS

\* Lines written to a CSV file that is there leave it a sequence of lines.
LEMMA AppendTypes ==
    ASSUME NEW c \in [Table -> Seq(File \cup {Header}) \cup {Absent}],
           NEW t \in Table, c[t] # Absent, NEW f \in File, NEW h \in {<<>>, <<Header>>}
    PROVE  /\ [c EXCEPT ![t] = @ \o h \o <<f>>] \in [Table -> Seq(File \cup {Header}) \cup {Absent}]
           /\ [c EXCEPT ![t] = @ \o h] \in [Table -> Seq(File \cup {Header}) \cup {Absent}]
  <1> DEFINE Line == File \cup {Header}
  <1>1. c[t] \in Seq(Line)
    OBVIOUS
  <1>2. <<>> \in Seq(Line) /\ <<Header>> \in Seq(Line) /\ <<f>> \in Seq(Line)
    OBVIOUS
  <1> HIDE DEF Line
  <1>3. h \in Seq(Line)
    BY <1>2
  <1>4. c[t] \o h \in Seq(Line)
    BY <1>1, <1>3, JoinTypes
  <1>5. (c[t] \o h) \o <<f>> \in Seq(Line)
    BY <1>2, <1>4, JoinTypes
  <1> QED
    BY <1>4, <1>5 DEF Line

LEMMA TypeInvInit == Init => TypeInv
  <1> SUFFICES ASSUME Init PROVE TypeInv
    OBVIOUS
  <1>1. csv \in [Table -> Seq(File \cup {Header}) \cup {Absent}]
    BY DEF Init
  <1>2. stored \in [File -> Nat] /\ rows \in Seq(Table \cup {Raise})
    BY NoRows DEF Init
  <1>3. RetryLeft /\ InHand
    BY DEF Init, RetryLeft, InHand, NewApi
  <1>4. api \in Api /\ count \in [Counter -> Nat]
    BY NewTypes DEF Init
  <1>5. pc = "off" /\ left = {} /\ file = NoFile /\ fresh = FALSE /\ runs = 0
    BY DEF Init
  <1>6. 0 \in 0..MaxRuns
    OBVIOUS
  <1> QED
    BY <1>1, <1>2, <1>3, <1>4, <1>5, <1>6 DEF TypeInv, TypeOK

\* What each part of the type is after a step.
LEMMA PlainNext ==
    ASSUME TypeInv, [Next]_vars
    PROVE  /\ pc' \in {"off", "next", "read", "call", "sleep", "csv", "append", "kept", "done"}
           /\ left' \subseteq File /\ file' \in File \cup {NoFile}
           /\ fresh' \in BOOLEAN /\ runs' \in 0..MaxRuns
  <1> USE DEF TypeInv, TypeOK
  <1>1. CASE Start
    <2>1. pc' \in {"next", "off"} /\ left' = File /\ file' = NoFile /\ fresh' = FALSE
      BY <1>1 DEF Start
    <2>2. runs' \in 0..MaxRuns
      BY <1>1 DEF Start
    <2> QED
      BY <2>1, <2>2
  <1>2. CASE NextFile \/ BatchComplete \/ Stop \/ UNCHANGED vars
    BY <1>2 DEF NextFile, BatchComplete, Stop, vars
  <1>3. CASE ReadFile \/ Answered \/ NoAnswer \/ RateLimited \/ Sleep
    BY <1>3 DEF ReadFile, Answered, NoAnswer, RateLimited, Sleep, Finish
  <1>4. CASE OpenCsv \/ AppendCsv \/ LoseRow \/ SaveRaises
    BY <1>4 DEF OpenCsv, AppendCsv, LoseRow, SaveRaises, Skip, Finish
  <1>5. CASE Stored \/ CountStored \/ StoreFails \/ StoreRaises
    BY <1>5 DEF Stored, AfterCommit, CountStored, StoreFails, StoreRaises, Finish
  <1> QED
    BY <1>1, <1>2, <1>3, <1>4, <1>5 DEF Next, Work

LEMMA CountNext ==
    ASSUME TypeInv, [Next]_vars
    PROVE  count' \in [Counter -> Nat]
  <1> USE DEF TypeInv, TypeOK
  <1>1. \A c \in Counter : Finish(c) => count' \in [Counter -> Nat]
    BY FinishTypes
  <1>2. "processed" \in Counter /\ "extraction" \in Counter /\ "db" \in Counter
    BY DEF Counter
  <1>3. \/ UNCHANGED count \/ count' = NewCount
        \/ Finish("processed") \/ Finish("extraction") \/ Finish("db")
    BY DEF Next, Work, vars, Start, NextFile, BatchComplete, ReadFile, Answered, NoAnswer,
           RateLimited, Sleep, OpenCsv, AppendCsv, LoseRow, SaveRaises, Skip, Stored,
           CountStored, StoreFails, StoreRaises, Stop
  <1> QED
    BY <1>1, <1>2, <1>3, NewTypes

LEMMA AttemptTypes ==
    ASSUME api \in Api, Attempt
    PROVE  api' \in Api /\ api'.calls = api.calls + 1
  <1>1. api.calls + 1 \in Nat
    BY DEF Api
  <1> QED
    BY <1>1 DEF Attempt, Api

\* The retry loop after a step.
LEMMA ApiNext ==
    ASSUME TypeInv, [Next]_vars
    PROVE  api' \in Api /\ RetryLeft'
  <1> USE DEF TypeInv, TypeOK
  <1>1. CASE Start \/ NextFile
    BY <1>1, NewTypes DEF Start, NextFile, RetryLeft, NewApi
  <1>2. CASE UNCHANGED api /\ (UNCHANGED pc \/ pc' \notin {"read", "call", "sleep"})
    BY <1>2 DEF RetryLeft
  <1>3. CASE ReadFile
    BY <1>3, NewTypes DEF ReadFile, Finish, RetryLeft, NewApi
  <1>4. CASE Answered \/ NoAnswer
    <2>1. pc = "call" /\ pc' \in {"csv", "next"} /\ Attempt
      BY <1>4 DEF Answered, NoAnswer, Finish
    <2>2. api.calls \in Nat /\ api.calls + 1 <= MaxRetries + 1
      BY <2>1 DEF RetryLeft, Api
    <2>3. api' \in Api /\ api'.calls = api.calls + 1
      BY <2>1, AttemptTypes
    <2> QED
      BY <2>1, <2>2, <2>3 DEF RetryLeft
  <1>5. CASE RateLimited
    <2>1. /\ api.retries \in 0..MaxRetries /\ api.calls = api.retries
          /\ api' = [api EXCEPT !.calls = @ + 1, !.retries = @ + 1]
      BY <1>5 DEF RateLimited, Api, RetryLeft
    <2>2. api.retries + 1 \in 0..(MaxRetries + 1) /\ api.calls + 1 \in Nat
      BY <2>1
    <2>3. /\ api' \in Api
          /\ api'.calls = api.calls + 1 /\ api'.retries = api.retries + 1
      BY <2>1, <2>2 DEF Api
    <2>4. pc' = "next" \/ (pc' = "sleep" /\ ~ GivesUp)
      BY <1>5 DEF RateLimited, Finish
    <2> QED
      BY <2>1, <2>3, <2>4 DEF GivesUp, RetryLeft
  <1>6. CASE Sleep
    <2>1. NextWait(api.wait) \in InitialWait..WaitCap
      BY DEF NextWait, Api
    <2>2. PICK j \in Jitter : api' = [api EXCEPT !.slept = @ + api.wait + j, !.wait = NextWait(@)]
      BY <1>6 DEF Sleep
    <2>3. api.slept + api.wait + j \in Nat
      BY DEF Api
    <2>4. api' \in Api /\ api'.calls = api.calls /\ api'.retries = api.retries
      BY <2>1, <2>2, <2>3 DEF Api
    <2> QED
      BY <1>6, <2>4 DEF Sleep, RetryLeft
  <1>7. CASE BatchComplete \/ Stop \/ UNCHANGED vars
    BY <1>2, <1>7 DEF BatchComplete, Stop, vars
  <1>8. CASE OpenCsv \/ AppendCsv \/ LoseRow \/ SaveRaises
    BY <1>2, <1>8 DEF OpenCsv, AppendCsv, LoseRow, SaveRaises, Skip, Finish
  <1>9. CASE Stored \/ CountStored \/ StoreFails \/ StoreRaises
    BY <1>2, <1>9 DEF Stored, AfterCommit, CountStored, StoreFails, StoreRaises, Finish
  <1> QED
    BY <1>1, <1>3, <1>4, <1>5, <1>6, <1>7, <1>8, <1>9 DEF Next, Work

LEMMA RowsNext ==
    ASSUME TypeInv, [Next]_vars
    PROVE  rows' \in Seq(Table \cup {Raise})
  <1> USE DEF TypeInv, TypeOK
  <1>1. CASE UNCHANGED rows \/ rows' = <<>>
    BY <1>1, NoRows
  <1>2. CASE Answered
    BY <1>2, ShapesAreRows DEF Answered
  <1>3. CASE AppendCsv \/ LoseRow
    BY <1>3, RowsTail DEF AppendCsv, LoseRow, RowsAfterError, InHand
  <1>4. UNCHANGED rows \/ rows' = <<>> \/ Answered \/ AppendCsv \/ LoseRow
    BY DEF Next, Work, vars, Start, NextFile, BatchComplete, ReadFile, NoAnswer,
           RateLimited, Sleep, OpenCsv, SaveRaises, Stored, CountStored, StoreFails,
           StoreRaises, Stop
  <1> QED
    BY <1>1, <1>2, <1>3, <1>4

\* What is on disk and in the database after a step.
LEMMA CsvNext ==
    ASSUME TypeInv, [Next]_vars
    PROVE  csv' \in [Table -> Seq(File \cup {Header}) \cup {Absent}]
  <1> USE DEF TypeInv, TypeOK
  <1>1. CASE OpenCsv
    BY <1>1, RowsTail DEF OpenCsv
  <1>2. CASE pc = "append"
    <2> DEFINE t == Head(rows)
    <2>1. t \in Table /\ csv[t] # Absent /\ file \in File
      BY <1>2 DEF InHand
    <2>2. HeaderLine(t) \in {<<>>, <<Header>>}
      BY DEF HeaderLine
    <2>3. \/ UNCHANGED csv
          \/ csv' = [csv EXCEPT ![t] = @ \o HeaderLine(t) \o <<file>>]
          \/ csv' = [csv EXCEPT ![t] = @ \o HeaderLine(t)]
      BY <1>2 DEF Next, Work, vars, persistent, Start, NextFile, BatchComplete, ReadFile,
             Answered, NoAnswer, RateLimited, Sleep, OpenCsv, AppendCsv, LoseRow,
             SaveRaises, Stored, CountStored, StoreFails, StoreRaises, Stop
    <2> HIDE DEF t
    <2>4. csv \in [Table -> Seq(File \cup {Header}) \cup {Absent}]
      OBVIOUS
    <2> DEFINE Files == [Table -> Seq(File \cup {Header}) \cup {Absent}]
    <2>5. /\ [csv EXCEPT ![t] = @ \o HeaderLine(t) \o <<file>>] \in Files
          /\ [csv EXCEPT ![t] = @ \o HeaderLine(t)] \in Files
      BY <2>1, <2>2, <2>4, AppendTypes, Zenon
    <2> HIDE DEF Files, TypeInv, TypeOK
    <2>6. csv' \in Files
      BY <2>3, <2>4, <2>5 DEF Files
    <2> QED
      BY <2>6 DEF Files
  <1>3. CASE pc # "append" /\ ~ OpenCsv
    <2>1. UNCHANGED csv
      BY <1>3 DEF Next, Work, vars, persistent, Start, NextFile, BatchComplete, ReadFile,
             Answered, NoAnswer, RateLimited, Sleep, AppendCsv, LoseRow, SaveRaises,
             Stored, CountStored, StoreFails, StoreRaises, Stop
    <2> QED
      BY <2>1
  <1> QED
    BY <1>1, <1>2, <1>3

LEMMA StoredNext ==
    ASSUME TypeInv, [Next]_vars
    PROVE  stored' \in [File -> Nat]
  <1> USE DEF TypeInv, TypeOK
  <1>1. UNCHANGED stored \/ Stored \/ StoreFails \/ StoreRaises
    BY DEF Next, Work, vars, persistent, Start, NextFile, BatchComplete, ReadFile,
           Answered, NoAnswer, RateLimited, Sleep, OpenCsv, AppendCsv, LoseRow,
           SaveRaises, CountStored, Stop
  <1>2. UNCHANGED stored \/ (file \in File /\ stored' = [stored EXCEPT ![file] = @ + 1])
    BY <1>1 DEF Stored, StoreFails, StoreRaises, MaybeStored, InHand
  <1> QED
    BY <1>2, CommitTypes

LEMMA InHandNext ==
    ASSUME TypeInv, [Next]_vars
    PROVE  InHand'
  <1> USE DEF TypeInv, TypeOK
  <1>1. CASE Start \/ NextFile \/ BatchComplete \/ Stop \/ UNCHANGED vars
    BY <1>1 DEF Start, NextFile, BatchComplete, Stop, vars, InHand
  <1>2. CASE ReadFile \/ Answered \/ NoAnswer \/ RateLimited \/ Sleep
    BY <1>2 DEF ReadFile, Answered, NoAnswer, RateLimited, Sleep, Finish, InHand
  <1>3. CASE OpenCsv
    <2> DEFINE t == Head(rows)
    <2>1. t \in Table /\ rows # <<>> /\ file \in File
      BY <1>3, RowsTail DEF OpenCsv, InHand
    <2>2. csv'[t] = IF csv[t] = Absent THEN <<>> ELSE csv[t]
      BY <1>3, <2>1 DEF OpenCsv
    <2>3. csv'[t] # Absent
      BY <2>2 DEF Absent
    <2> QED
      BY <1>3, <2>1, <2>3 DEF OpenCsv, InHand
  <1>4. CASE AppendCsv \/ LoseRow \/ SaveRaises
    BY <1>4 DEF AppendCsv, LoseRow, SaveRaises, Skip, Finish, InHand
  <1>5. CASE Stored \/ CountStored \/ StoreFails \/ StoreRaises
    BY <1>5 DEF Stored, AfterCommit, CountStored, StoreFails, StoreRaises, Finish, InHand
  <1> QED
    BY <1>1, <1>2, <1>3, <1>4, <1>5 DEF Next, Work

LEMMA TypeInvNext == TypeInv /\ [Next]_vars => TypeInv'
  BY PlainNext, CountNext, ApiNext, RowsNext, CsvNext, StoredNext, InHandNext
     DEF TypeInv, TypeOK

\* Every variable keeps its type.
THEOREM TypeCorrect == Spec => []TypeOK
  BY TypeInvInit, TypeInvNext, PTL DEF Spec, TypeInv

-----------------------------------------------------------------------------
(* A run commits a file at most once.                                      *)

\* The file in hand has left the listing: what the database just got of it is not
\* owed to a file still to come.
OnceInv == StoredOncePerRun /\ file \notin left

LEMMA OnceInit == Init => OnceInv
  BY DEF Init, OnceInv, StoredOncePerRun

LEMMA OnceNext == TypeInv /\ OnceInv /\ [Next]_vars => OnceInv'
  <1> SUFFICES ASSUME TypeInv, OnceInv, [Next]_vars PROVE OnceInv'
    OBVIOUS
  <1> USE DEF TypeInv, TypeOK
  <1>1. CASE Start
    <2>1. /\ runs' = runs + 1 /\ UNCHANGED stored
          /\ left' = File /\ file' \notin File
      BY <1>1 DEF Start, persistent, NoFile
    <2>2. \A f \in File : stored'[f] < runs'
      BY <2>1 DEF OnceInv, StoredOncePerRun
    <2> QED
      BY <2>1, <2>2 DEF OnceInv, StoredOncePerRun
  <1>2. CASE NextFile
    BY <1>2 DEF NextFile, OnceInv, StoredOncePerRun
  <1>3. CASE Stored \/ StoreFails \/ StoreRaises
    <2>1. /\ pc = "csv" /\ pc' \in {"kept", "next"}
          /\ stored' \in {stored, [stored EXCEPT ![file] = @ + 1]}
          /\ UNCHANGED <<left, file, runs>>
      BY <1>3 DEF Stored, AfterCommit, StoreFails, StoreRaises, MaybeStored, Finish
    <2>2. file \in File /\ file \notin left /\ stored[file] < runs
      BY <2>1 DEF InHand, OnceInv, StoredOncePerRun
    <2> QED
      BY <2>1, <2>2 DEF OnceInv, StoredOncePerRun
  <1>4. CASE /\ UNCHANGED <<left, file, runs, stored>>
             /\ \/ pc \in {"read", "call", "sleep", "csv", "append"}
                \/ pc' \notin {"read", "call", "sleep", "csv", "append"}
    BY <1>4 DEF OnceInv, StoredOncePerRun
  <1>5. CASE BatchComplete \/ Stop \/ CountStored
    BY <1>4, <1>5 DEF BatchComplete, Stop, CountStored, Finish
  <1>6. CASE ReadFile \/ Answered \/ NoAnswer \/ RateLimited \/ Sleep
    BY <1>4, <1>6 DEF ReadFile, Answered, NoAnswer, RateLimited, Sleep
  <1>7. CASE OpenCsv \/ AppendCsv \/ LoseRow \/ SaveRaises
    BY <1>4, <1>7 DEF OpenCsv, AppendCsv, LoseRow, SaveRaises
  <1>8. CASE UNCHANGED vars
    BY <1>8 DEF vars, OnceInv, StoredOncePerRun
  <1> QED
    BY <1>1, <1>2, <1>3, <1>5, <1>6, <1>7, <1>8 DEF Next, Work

\* A run commits a file at most once, and none it has not taken from the listing,
\* whatever fails and wherever a run is killed (genai_data_extraction.py:586-650).
THEOREM OncePerRun == Spec => []StoredOncePerRun
  BY TypeInvInit, TypeInvNext, OnceInit, OnceNext, PTL DEF Spec, OnceInv

-----------------------------------------------------------------------------
(* Calls and sleeps are bounded.                                           *)

\* A sleep adds at most LongestWait; the one the script is about to take is paid
\* for by the retry counted before it.
LongestWait == WaitCap + 2
Paid(n) == n * LongestWait
SleptInv ==
    /\ api.slept <= Paid(MaxRetries)
    /\ pc = "read" => api.slept = 0
    /\ pc = "call" => api.slept <= Paid(api.retries)
    /\ pc = "sleep" => api.slept + LongestWait <= Paid(api.retries)

LEMMA PaidFacts ==
    /\ LongestWait \in Nat
    /\ \A n \in Nat : Paid(n) \in Nat /\ Paid(n + 1) = Paid(n) + LongestWait
    /\ \A m, n \in Nat : m <= n => Paid(m) <= Paid(n)
  <1>1. LongestWait \in Nat
    BY DEF LongestWait
  <1>2. ASSUME NEW n \in Nat PROVE Paid(n) \in Nat /\ Paid(n + 1) = Paid(n) + LongestWait
    BY <1>1 DEF Paid
  <1>3. ASSUME NEW m \in Nat, NEW n \in Nat, m <= n PROVE Paid(m) <= Paid(n)
    BY <1>1, <1>3 DEF Paid
  <1> QED
    BY <1>1, <1>2, <1>3

LEMMA SleptInit == Init => SleptInv
  <1> SUFFICES ASSUME Init PROVE SleptInv
    OBVIOUS
  <1>1. LongestWait \in Nat /\ Paid(MaxRetries) \in Nat
    BY PaidFacts
  <1>2. api.slept = 0 /\ pc = "off"
    BY DEF Init, NewApi
  <1> QED
    BY <1>1, <1>2 DEF SleptInv

LEMMA SleptNext == TypeInv /\ SleptInv /\ [Next]_vars => SleptInv'
  <1> SUFFICES ASSUME TypeInv, SleptInv, [Next]_vars PROVE SleptInv'
    OBVIOUS
  <1>1. LongestWait \in Nat /\ Paid(MaxRetries) \in Nat
    BY PaidFacts
  <1>2. api.slept \in Nat /\ api.retries \in Nat /\ api.wait \in 0..WaitCap
    BY DEF TypeInv, TypeOK, Api
  <1>3. CASE Start \/ NextFile
    <2>1. api'.slept = 0 /\ pc' \in {"next", "off", "read"}
      BY <1>3 DEF Start, NextFile, NewApi
    <2> QED
      BY <1>1, <2>1 DEF SleptInv
  <1>4. CASE ReadFile
    <2>1. /\ pc' \in {"call", "next"} /\ UNCHANGED api
          /\ api.slept = 0 /\ api.retries = 0
      BY <1>4 DEF ReadFile, Finish, TypeInv, RetryLeft, NewApi
    <2>2. Paid(0) \in Nat
      BY PaidFacts
    <2> QED
      BY <1>1, <2>1, <2>2 DEF SleptInv
  <1>5. CASE Answered \/ NoAnswer
    <2>1. pc' \in {"csv", "next"} /\ api'.slept = api.slept
      BY <1>5 DEF Answered, NoAnswer, Attempt, Finish, TypeInv, TypeOK, Api
    <2> QED
      BY <2>1 DEF SleptInv
  <1>6. CASE RateLimited
    <2>1. /\ pc = "call" /\ pc' \in {"sleep", "next"}
          /\ api'.slept = api.slept /\ api'.retries = api.retries + 1
      BY <1>6 DEF RateLimited, Finish, TypeInv, TypeOK, Api
    <2>2. Paid(api.retries + 1) = Paid(api.retries) + LongestWait
          /\ Paid(api.retries) \in Nat
      BY <1>1, <1>2, PaidFacts
    <2> QED
      BY <1>1, <1>2, <2>1, <2>2 DEF SleptInv
  <1>7. CASE Sleep
    <2>1. PICK j \in Jitter : api' = [api EXCEPT !.slept = @ + api.wait + j, !.wait = NextWait(@)]
      BY <1>7 DEF Sleep
    <2>2. /\ pc = "sleep" /\ pc' = "call" /\ api.retries <= MaxRetries
      BY <1>7 DEF Sleep, TypeInv, RetryLeft
    <2>3. api'.slept = api.slept + api.wait + j /\ api'.retries = api.retries
      BY <2>1 DEF TypeInv, TypeOK, Api
    <2>4. j \in Nat /\ j <= 2
      OBVIOUS
    <2>5. api'.slept <= api.slept + LongestWait
      BY <1>2, <2>3, <2>4 DEF LongestWait
    <2>6. /\ Paid(api.retries) \in Nat
          /\ Paid(api.retries) <= Paid(MaxRetries)
      BY <1>1, <1>2, <2>2, PaidFacts
    <2>7. api.slept + LongestWait <= Paid(api.retries)
      BY <2>2 DEF SleptInv
    <2>8. api'.slept \in Nat
      BY <1>2, <2>3, <2>4
    <2>9. api'.slept <= Paid(MaxRetries) /\ api'.slept <= Paid(api'.retries)
      BY <1>1, <1>2, <2>3, <2>5, <2>6, <2>7, <2>8
    <2> QED
      BY <2>2, <2>9 DEF SleptInv
  <1>8. CASE UNCHANGED api /\ (UNCHANGED pc \/ pc' \notin {"read", "call", "sleep"})
    BY <1>8 DEF SleptInv
  <1>9. CASE BatchComplete \/ Stop \/ UNCHANGED vars
    BY <1>8, <1>9 DEF BatchComplete, Stop, vars
  <1>10. CASE OpenCsv \/ AppendCsv \/ LoseRow \/ SaveRaises
    BY <1>8, <1>10 DEF OpenCsv, AppendCsv, LoseRow, SaveRaises, Skip, Finish
  <1>11. CASE Stored \/ CountStored \/ StoreFails \/ StoreRaises
    BY <1>8, <1>11 DEF Stored, AfterCommit, CountStored, StoreFails, StoreRaises, Finish
  <1> QED
    BY <1>3, <1>4, <1>5, <1>6, <1>7, <1>9, <1>10, <1>11 DEF Next, Work

\* However its attempts fail, a file costs at most max_retries + 1 calls and a
\* bounded time asleep (genai_data_extraction.py:507-545).
THEOREM BoundedCalls == Spec => []CallsBounded
  <1>1. TypeInv /\ SleptInv => CallsBounded
    BY DEF TypeInv, RetryLeft, SleptInv, Paid, LongestWait, CallsBounded
  <1> QED
    BY TypeInvInit, TypeInvNext, SleptInit, SleptNext, <1>1, PTL DEF Spec

-----------------------------------------------------------------------------
(* The report adds up.                                                     *)

Total == count["processed"] + count["extraction"] + count["db"]

\* The file in hand has left the listing, and is not yet counted.
CountInv ==
    /\ CountsAddUp
    /\ file \notin left

\* Counting a file adds one to the total.
LEMMA FinishTotal ==
    ASSUME count \in [Counter -> Nat], NEW c \in Counter, Finish(c)
    PROVE  Total' = Total + 1
  BY DEF Finish, Total, Counter

\* Taking a file from the listing adds one to the files taken.
LEMMA TakeOne ==
    ASSUME NEW rest \in SUBSET File, NEW f \in rest
    PROVE  Cardinality(File \ (rest \ {f})) = Cardinality(File \ rest) + 1
  <1>1. IsFiniteSet(File \ rest)
    BY FS_Difference
  <1>2. File \ (rest \ {f}) = (File \ rest) \cup {f} /\ f \notin File \ rest
    OBVIOUS
  <1> QED
    BY <1>1, <1>2, FS_AddElement

LEMMA CountInit == Init => CountInv
  BY DEF Init, CountInv, CountsAddUp

LEMMA CountInvNext == TypeInv /\ CountInv /\ [Next]_vars => CountInv'
  <1> SUFFICES ASSUME TypeInv, CountInv, [Next]_vars PROVE CountInv'
    OBVIOUS
  <1> DEFINE taken == Cardinality(File \ left)
             hand == {"read", "call", "sleep", "csv", "append", "kept"}
  <1>1. Total \in Nat /\ taken \in Nat
    <2>1. IsFiniteSet(File \ left)
      BY FS_Difference
    <2> QED
      BY <2>1, FS_CardinalityType DEF TypeInv, TypeOK, Total, Counter
  <1>2. /\ pc \in {"next", "done"} => Total = taken
        /\ pc \in hand => Total + 1 = taken
    BY DEF CountInv, CountsAddUp, Total
  <1>3. SUFFICES /\ pc' \in {"next", "done"} => Total' = taken'
                 /\ pc' \in hand => Total' + 1 = taken'
                 /\ file' \notin left'
    BY DEF CountInv, CountsAddUp, Total
  <1>4. file \notin left
    BY DEF CountInv
  <1> USE DEF TypeInv, TypeOK
  <1>5. CASE Start
    <2>1. /\ pc' \in {"next", "off"} /\ count' = NewCount
          /\ left' = File /\ file' \notin File
      BY <1>5 DEF Start, NoFile
    <2>2. Total' = 0
      BY <2>1 DEF Total, NewCount, Counter
    <2>3. taken' = 0
      BY <2>1, FS_EmptySet
    <2> QED
      BY <2>1, <2>2, <2>3
  <1>6. CASE NextFile
    <2>1. PICK f \in left : file' = f /\ left' = left \ {f}
      BY <1>6 DEF NextFile
    <2>2. taken' = taken + 1
      BY <2>1, TakeOne
    <2>3. pc = "next" /\ pc' = "read" /\ Total' = Total
      BY <1>6 DEF NextFile, Total
    <2> QED
      BY <1>1, <1>2, <2>1, <2>2, <2>3
  <1>7. CASE \E c \in Counter : pc \in hand /\ Finish(c) /\ UNCHANGED <<left, file>>
    <2>1. Total' = Total + 1 /\ pc' = "next"
      BY <1>7, FinishTotal DEF Finish
    <2> QED
      BY <1>1, <1>2, <1>4, <1>7, <2>1
  <1>8. CASE /\ UNCHANGED <<left, file, count>>
             /\ \/ pc' = pc \/ pc' = "off"
                \/ pc = "next" /\ pc' = "done"
                \/ pc \in hand /\ pc' \in hand
    <2>1. Total' = Total /\ taken' = taken
      BY <1>8 DEF Total
    <2> QED
      BY <1>2, <1>4, <1>8, <2>1
  <1>9. "processed" \in Counter /\ "extraction" \in Counter /\ "db" \in Counter
    BY DEF Counter
  <1>10. CASE BatchComplete \/ Stop \/ UNCHANGED vars
    BY <1>8, <1>10 DEF BatchComplete, Stop, vars
  <1>11. CASE ReadFile \/ Answered \/ NoAnswer \/ RateLimited \/ Sleep
    BY <1>7, <1>8, <1>9, <1>11 DEF ReadFile, Answered, NoAnswer, RateLimited, Sleep
  <1>12. CASE OpenCsv \/ AppendCsv \/ LoseRow \/ SaveRaises
    BY <1>7, <1>8, <1>9, <1>12 DEF OpenCsv, AppendCsv, LoseRow, SaveRaises, Skip
  <1>13. CASE Stored \/ CountStored \/ StoreFails \/ StoreRaises
    BY <1>7, <1>8, <1>9, <1>13 DEF Stored, AfterCommit, CountStored, StoreFails, StoreRaises
  <1> QED
    BY <1>5, <1>6, <1>10, <1>11, <1>12, <1>13 DEF Next, Work

\* Every file taken from the listing is counted in exactly one of the totals of the
\* report, whichever of its steps fails (genai_data_extraction.py:621-665).
THEOREM ReportAddsUp == Spec => []CountsAddUp
  BY TypeInvInit, TypeInvNext, CountInit, CountInvNext, PTL DEF Spec, CountInv

-----------------------------------------------------------------------------
(* A CSV file has one header, its first line.                              *)

OneHeader(lines) == lines # <<>> => \A i \in DOMAIN lines : lines[i] = Header <=> i = 1

\* A file seen to be absent is still empty when it is written to: nobody else
\* writes to it.
HeaderInv ==
    /\ \A t \in Table : csv[t] # Absent => OneHeader(csv[t])
    /\ pc = "append" /\ fresh => csv[Head(rows)] = <<>>

LEMMA HeaderInit == Init => HeaderInv
  BY DEF Init, HeaderInv

\* The header goes to an empty file, the row after what is there.
LEMMA AppendHeader ==
    ASSUME NEW s \in Seq(File \cup {Header}), OneHeader(s), NEW f \in File,
           NEW h, h = IF s = <<>> THEN <<Header>> ELSE <<>>
    PROVE  OneHeader(s \o h) /\ OneHeader(s \o h \o <<f>>)
  <1> USE DEF OneHeader
  <1>1. s \o h \in Seq(File \cup {Header}) /\ s \o h # <<>> /\ OneHeader(s \o h)
    <2>1. CASE s = <<>>
      <3>1. s \o h = <<Header>>
        BY <2>1
      <3>2. <<Header>> \in Seq(File \cup {Header}) /\ <<Header>> # <<>>
        OBVIOUS
      <3>3. DOMAIN <<Header>> = {1} /\ <<Header>>[1] = Header
        OBVIOUS
      <3>4. OneHeader(<<Header>>)
        <4>1. ASSUME NEW i \in DOMAIN <<Header>> PROVE i = 1 /\ <<Header>>[i] = Header
          BY <3>3
        <4> QED
          BY <4>1
      <3> HIDE DEF OneHeader
      <3> QED
        BY <3>1, <3>2, <3>4, Zenon
    <2>2. CASE s # <<>>
      <3>1. s \o h = s
        BY <2>2
      <3> QED
        BY <2>2, <3>1
    <2> QED
      BY <2>1, <2>2
  <1>2. ASSUME NEW a \in Seq(File \cup {Header}), a # <<>>, OneHeader(a)
        PROVE  OneHeader(a \o <<f>>)
    <2>1. f # Header
      BY DEF Header
    <2> QED
      BY <1>2, <2>1
  <1> QED
    BY <1>1, <1>2

LEMMA HeaderNext == TypeInv /\ HeaderInv /\ [Next]_vars => HeaderInv'
  <1> SUFFICES ASSUME TypeInv, HeaderInv, [Next]_vars PROVE HeaderInv'
    OBVIOUS
  <1> USE DEF TypeInv, TypeOK
  <1>1. CASE OpenCsv
    <2> DEFINE t == Head(rows)
    <2>1. t \in Table
      BY <1>1, RowsTail DEF OpenCsv
    <2>2. /\ csv' = [csv EXCEPT ![t] = IF @ = Absent THEN <<>> ELSE @]
          /\ fresh' = (csv[t] = Absent) /\ UNCHANGED rows
      BY <1>1 DEF OpenCsv
    <2>3. csv'[t] = IF csv[t] = Absent THEN <<>> ELSE csv[t]
      BY <2>1, <2>2
    <2>4. \A u \in Table : u # t => csv'[u] = csv[u]
      BY <2>2
    <2> QED
      BY <2>1, <2>2, <2>3, <2>4 DEF HeaderInv, OneHeader
  <1>2. CASE AppendCsv \/ (LoseRow /\ pc = "append")
    <2> DEFINE t == Head(rows)
    <2>1. t \in Table /\ csv[t] # Absent /\ file \in File /\ csv[t] \in Seq(File \cup {Header})
      BY <1>2 DEF AppendCsv, InHand
    <2>2. HeaderLine(t) = IF csv[t] = <<>> THEN <<Header>> ELSE <<>>
      BY <1>2 DEF HeaderLine, HeaderInv, AppendCsv
    <2>3. OneHeader(csv[t])
      BY <2>1 DEF HeaderInv
    <2>4. OneHeader(csv[t] \o HeaderLine(t)) /\ OneHeader(csv[t] \o HeaderLine(t) \o <<file>>)
      BY <2>1, <2>2, <2>3, AppendHeader
    <2>5. /\ pc' = "csv"
          /\ \/ csv' = csv
             \/ csv' = [csv EXCEPT ![t] = @ \o HeaderLine(t)]
             \/ csv' = [csv EXCEPT ![t] = @ \o HeaderLine(t) \o <<file>>]
      BY <1>2 DEF AppendCsv, LoseRow
    <2>6. OneHeader(csv'[t]) /\ \A u \in Table : u # t => csv'[u] = csv[u]
      BY <2>1, <2>3, <2>4, <2>5
    <2> QED
      BY <2>1, <2>5, <2>6 DEF HeaderInv
  <1>3. CASE UNCHANGED csv /\ (pc' # "append" \/ UNCHANGED <<pc, rows, fresh>>)
    BY <1>3 DEF HeaderInv
  <1>4. CASE LoseRow /\ pc # "append"
    BY <1>3, <1>4 DEF LoseRow
  <1>5. CASE Start \/ NextFile \/ BatchComplete \/ Stop \/ UNCHANGED vars
    BY <1>3, <1>5 DEF Start, persistent, NextFile, BatchComplete, Stop, vars
  <1>6. CASE ReadFile \/ Answered \/ NoAnswer \/ RateLimited \/ Sleep \/ SaveRaises
    BY <1>3, <1>6 DEF ReadFile, Answered, NoAnswer, RateLimited, Sleep, SaveRaises, Skip, Finish
  <1>7. CASE Stored \/ CountStored \/ StoreFails \/ StoreRaises
    BY <1>3, <1>7 DEF Stored, AfterCommit, CountStored, StoreFails, StoreRaises, Finish
  <1> QED
    BY <1>1, <1>2, <1>4, <1>5, <1>6, <1>7 DEF Next, Work

\* However often the script is killed, also between creating a CSV file and writing
\* to it, its only header is its first line (genai_data_extraction.py:172-196).
THEOREM OneHeaderFirst == Spec => []HeaderFirst
  <1>1. HeaderInv => HeaderFirst
    BY DEF HeaderInv, HeaderFirst, OneHeader
  <1> QED
    BY TypeInvInit, TypeInvNext, HeaderInit, HeaderNext, <1>1, PTL DEF Spec

-----------------------------------------------------------------------------
(* The script implements BatchReport.                                       *)

ReportVars == <<Open, stored, Committed, count>>

LEMMA ReportInit == Init => Report!Init
  BY DEF Init, Report!Init, Report!Zero, Open, Committed, NewCount

\* A file that is counted in one step fails, as far as the report goes.
LEMMA OneFails ==
    ASSUME OnceInv, file \in File, pc \in {"read", "call", "csv"},
           NEW c \in Counter, Finish(c), UNCHANGED <<left, file>>,
           stored' = stored \/ (c # "extraction" /\ MaybeStored)
    PROVE  Report!Next
  <1>1. pc' = "next" /\ file \notin left
    BY DEF Finish, OnceInv
  <1>2. Open = left \cup {file} /\ Open' = left /\ Committed = {} /\ Committed' = {}
    BY <1>1 DEF Open, Committed
  <1>3. file \in Open /\ Open' = Open \ {file}
    BY <1>1, <1>2
  <1>4. Report!Fail(file, c)
    BY <1>2, <1>3 DEF Report!Fail, Report!Counted, Report!Kept, Finish, MaybeStored
  <1> QED
    BY <1>4 DEF Report!Next

\* Work on the file in hand that leaves its outcome open.
LEMMA OutcomeOpen ==
    ASSUME {pc, pc'} \subseteq {"read", "call", "sleep", "csv", "append"},
           UNCHANGED <<left, file, stored, count>>
    PROVE  UNCHANGED ReportVars
  BY DEF ReportVars, Open, Committed

LEMMA ReportStep ==
    ASSUME TypeInv, OnceInv, [Next]_vars
    PROVE  Report!Next \/ UNCHANGED ReportVars
  <1>0. /\ pc \in {"read", "call", "sleep", "csv", "append", "kept"} => file \in File
        /\ {"processed", "extraction", "db"} \subseteq Counter
    BY DEF TypeInv, InHand, Counter
  <1>1. CASE Start
    <2>1. Open' \in {File, {}} /\ Committed' = {}
      BY <1>1 DEF Start, Open, Committed
    <2>2. Report!Begin
      BY <1>1, <2>1 DEF Start, Report!Begin, Report!Zero, NewCount, persistent
    <2> QED
      BY <2>2 DEF Report!Next
  <1>2. CASE NextFile
    BY <1>2 DEF NextFile, ReportVars, Open, Committed
  <1>3. CASE BatchComplete \/ UNCHANGED vars
    BY <1>3 DEF BatchComplete, ReportVars, Open, Committed, vars
  <1>4. CASE ReadFile
    <2>1. CASE pc' = "call"
      BY <1>4, <2>1, OutcomeOpen DEF ReadFile, Finish
    <2>2. CASE Finish("extraction")
      BY <1>0, <1>4, <2>2, OneFails DEF ReadFile
    <2> QED
      BY <1>4, <2>1, <2>2 DEF ReadFile
  <1>5. CASE NoAnswer
    BY <1>0, <1>5, OneFails DEF NoAnswer
  <1>6. CASE RateLimited
    <2>1. CASE GivesUp
      BY <1>0, <1>6, <2>1, OneFails DEF RateLimited
    <2>2. CASE ~GivesUp
      BY <1>6, <2>2, OutcomeOpen DEF RateLimited
    <2> QED
      BY <2>1, <2>2
  <1>7. CASE Answered \/ Sleep \/ OpenCsv \/ AppendCsv \/ LoseRow
    BY <1>7, OutcomeOpen DEF Answered, Sleep, OpenCsv, AppendCsv, LoseRow
  <1>8. CASE SaveRaises
    BY <1>0, <1>8, OneFails DEF SaveRaises, Skip
  <1>9. CASE Stored
    <2>1. /\ file \in File /\ file \notin left
          /\ Open = left \cup {file} /\ Open' = left
          /\ Committed = {} /\ Committed' = {file}
      BY <1>0, <1>9 DEF Stored, AfterCommit, OnceInv, Open, Committed
    <2>2. file \in Open /\ Open' = Open \ {file} /\ Committed' = Committed \cup {file}
      BY <2>1
    <2>3. Report!Commit(file)
      BY <1>9, <2>2 DEF Stored, Report!Commit, Report!Kept
    <2> QED
      BY <2>1, <2>3 DEF Report!Next
  <1>10. CASE CountStored
    <2>1. /\ file \in File /\ Open = left /\ Open' = left
          /\ Committed = {file} /\ Committed' = {}
      BY <1>0, <1>10 DEF CountStored, Finish, Open, Committed
    <2>2. Report!Count(file)
      BY <1>10, <2>1 DEF CountStored, Finish, Report!Count, Report!Counted
    <2> QED
      BY <2>1, <2>2 DEF Report!Next
  <1>11. CASE StoreFails
    BY <1>0, <1>11, OneFails DEF StoreFails
  <1>12. CASE StoreRaises
    BY <1>0, <1>12, OneFails DEF StoreRaises
  <1>13. CASE Stop
    <2>1. Report!End
      BY <1>13 DEF Stop, Report!End, Open, Committed
    <2> QED
      BY <2>1 DEF Report!Next
  <1> QED
    BY <1>1, <1>2, <1>3, <1>4, <1>5, <1>6, <1>7, <1>8, <1>9, <1>10, <1>11, <1>12, <1>13
       DEF Next, Work

\* The outcomes of the files do not depend on the calls, waits and rows in between,
\* nor on where a run was killed.
THEOREM OneOutcomeEachHolds == Spec => OneOutcomeEach
  <1>1. Init => TypeInv /\ OnceInv
    BY TypeInvInit, OnceInit
  <1>2. TypeInv /\ OnceInv /\ [Next]_vars => TypeInv' /\ OnceInv'
    BY TypeInvNext, OnceNext
  <1>3. TypeInv /\ OnceInv /\ [Next]_vars => [Report!Next]_<<Open, stored, Committed, count>>
    BY ReportStep DEF ReportVars
  <1> QED
    BY <1>1, <1>2, <1>3, ReportInit, PTL DEF Spec, OneOutcomeEach, Report!Spec, Report!vars

=============================================================================
