# House of Emigrants: a formal model

TLA+ modules, TLC configurations and TLAPS proofs about the House of Emigrants
application: a Flask site (`src/main.py`) with an administration panel, a batch
script that extracts interview data with Gemini
(`src/multimedia/genai_data_extraction.py`), and a PostgreSQL schema with the
stored procedure that receives the data (`src/psql/`).

## The system

| Component | State | Operations | What makes it hard |
|---|---|---|---|
| Administrator accounts (`main.py` 234-265, 888-1084) | table `admins` | login, logout, list, create, edit, delete | requests of several threads interleave between their SQL statements; look-ups precede writes |
| Login session (Flask cookie) | `admin_id`, `admin_email`, flashed messages in the browser | decoded with each request, sent back when modified | the server cannot revoke it; responses come late or not at all and overwrite each other |
| Ingestion procedure (`ingest_interview_data.sql`, `ingest_data_get_functions.sql`) | 19 tables and their sequences | one CALL per interview: get-or-create names and persons, insert events, link pairs | concurrent callers, READ COMMITTED snapshots, unique keys on links only, waits and deadlocks, rollback half way |
| Batch script (`genai_data_extraction.py`) | CSV files, counters, retry state | extract with retries, append rows, call the procedure, report | rate limits, failures at every stage, kills and restarts |
| Stories (`main.py` 679-884) | table `emigrant_stories` | list, create, edit, delete | rows deleted under an open form; lost responses and repeated requests; messages in a session that several tabs share |
| Media files (`main.py` 43-47, 144-202, 587-670) | `./multimedia/{text,images}` | upload (and process), list, replace, delete, serve | files written in place while other threads read, list or delete them; failures in the middle of a multiple upload |
| Language and device preferences (`main.py` 28-40, 64-74, 1087-1097) | session keys `language`, `force_touch` | switch, read | share the session cookie with the login |
| Data exploration (`main.py` 276-578) | none | count demographics of constant data | nothing |
| Slide deck (`dataExploration.html`) | the current slide, the charts drawn, timers | go to a slide, draw its charts later | a timer fires after its slide was left; a drawing may throw half way |
| Translation (`main.py` 50-61, 78-142) | an `lru_cache` | translate a text | only dead code calls it |

Interactions: the admin handlers share the table and, through the browser, the
session; the batch script calls the ingestion procedure once per file, in its
own transaction; the upload handler means to start an extraction script as a
subprocess. The site does not read the tables the procedure fills:
`data_exploration` shows constant example data.

## Modules

| Module | Models | Role |
|---|---|---|
| `AdminAccounts` | accounts, sessions, preferences | one action per database round trip of each handler |
| `AccountBook` | what the account handlers promise | abstract specification, implemented by `AdminAccounts` |
| `IngestInterview` | the stored procedure, its helpers, and the transaction around the CALL | a machine that runs the statements of one interview |
| `InterviewStore` | what ingesting promises | abstract specification, implemented by `IngestInterview` |
| `ExtractionBatch` | the batch script | one action per step that can fail or be interrupted |
| `BatchReport` | what a batch promises | abstract specification, implemented by `ExtractionBatch` |
| `MediaFiles` | upload, list, replace, delete, serve | one action per system call |
| `SlideDeck` | the slides of the exploration page | one action per event of the page |
| `AdminStories` | the story handlers, the tabs that use them and the session these share | one action per handler and per step of the browser |
| `MC_accounts`, `MC_ingest`, `MC_media`, `MC_slides`, `MC_stories` | | symmetry, the interviews TLC ingests, the lengths of contents, the charts of each slide, the browser of each tab |
| `AdminAccountsProofs`, `IngestInterviewProofs`, `IngestStoredProofs`, `IngestNamesProofs`, `ExtractionBatchProofs`, `MediaFilesProofs`, `SlideDeckProofs`, `AdminStoriesProofs` | | theorems and their proofs |

The components are composed where they meet: accounts, login and preferences share
one cookie and are one module; `ExtractionBatch` sees a CALL of the procedure as an
outcome (stored, refused, unknown) and `IngestInterview` as a transaction, both at
`store_extracted_data_v2`.

### AdminAccounts

- `admins` is the table, a row or `NoRow` per id; `nextId` is the sequence behind
  `id_admin`. The repository's schema does not create this table (it creates
  `administrators`, which no code reads), so whether `email` is UNIQUE is the
  constant `UniqueEmail`.
- `cookie` is the session each browser holds; `req` is what each request the
  server is handling has come to. `Send` decodes the cookie into `req[r].sess`,
  the handler works on that copy, and `Deliver` gives it back if the handler
  modified it: Flask sends the whole session, never a difference. `LoseResponse`
  drops it.
- A handler that makes two SQL round trips has two actions (`CreateCheck` then
  `CreateInsert`, `EditCheck` then `EditUpdate`); between them other requests
  run. A handler with one round trip is one action (`LoginAccepted`,
  `LoginRejected`, `ListAdmins`, `EditForm`, `Delete`). `DatabaseError` is the
  exception of any of them; its transaction is lost, and the handler answers in
  the way its `except` says.
- Flashed messages live in the session, so a page that shows them modifies it.
  The model keeps one bit, `flash`: it decides which responses carry a session.
- `Prefer` is `switch_language`, `touch_mode` and `desktop_mode`. The session keys
  `language` and `force_touch` travel in the same cookie, so every action that
  sends a session carries them, and `logout`, which clears the session, clears them
  too. An absent language counts as the default.
- Addresses and passwords are members of small sets: stripping and lower-casing
  happen before anything reads the address, so an address stands for its
  normalised form. `Blank` is the empty password of the edit form; the create
  and login forms mark the field `required`.
- `OneTab` restricts browsers to one request at a time. It is FALSE where two
  tabs matter.

### IngestInterview

- The procedure only inserts. `db` is the set of committed rows, `tx[w].rows` the
  uncommitted rows of caller `w`, `Visible(w)` what its next statement sees. A
  row has its table, its id, its name where names are looked up, and the ids it
  refers to; columns with dates and free text are left out.
- `Program(iv)` translates an interview to the statements the procedure executes
  for it, in the procedure's order. `Statement` names the variable assigned and
  the variables read; the values are looked up when the statement runs, from the
  plpgsql variables in `tx[w].env`. The operations are the helpers:
  `RunGetOrCreate` (`get_..._id_by_name(p, TRUE)`), `RunGet`, `RunPerson`
  (`find_or_create_person`, which looks the birthplace up only for a new person),
  `RunInsert`, `RunRelate`, and `RunLink` (`INSERT ... ON CONFLICT DO NOTHING`).
- Texts keep what the helpers tell apart: `Missing` is NULL and the empty string,
  which are refused before trimming; `Canon` is `lower(trim(...))`; a text of
  blanks is neither missing nor a name, so the helpers create a row with an empty
  name for it, and `find_or_create_person` refuses it.
- Link tables have composite primary keys, so an insert of a key that another open
  transaction inserted waits (`WaitsFor`); a cycle of waits is broken by failing
  one transaction (`DeadlockAbort`). Name tables have no unique constraint, and
  nothing waits there.
- `Each` lays out the statements of a section, the same number for each of its
  entries, in closed form. An entry the procedure passes over (a keyword without text, a
  job without level) still has its statements, which then do nothing.
- `Begin`, `Commit`, `CommitUnacknowledged`, `Rollback` and `Violation` are
  `store_extracted_data_v2`; `said` is the files it reported stored.

### ExtractionBatch

- `pc` is the place in the script; `left` the files still to come, in any order,
  as `os.listdir` gives them; `api` the retry loop; `csv` two of the CSV files
  (the one every answer writes, `core`, and one of the others), as header and
  rows; `stored` how often the database committed each file; `count` the three
  counters of the report.
- `Shapes` is what an answer makes `save_data_to_csvs` do: only the core row, other
  rows too, or an exception before or after the core row (`data.get` on something
  that is not an object).
- `OpenCsv` looks for the file and opens it, `AppendCsv` writes header and row when
  the file is closed, and a kill can fall between them. `LoseRow` is the
  exception `write_csv_row` prints and forgets.
- `Stop` is a kill or the end; `Start` a new run, which keeps only CSV files and
  database.

### MediaFiles

- A name leads to an inode, as on any POSIX system: `name` gives the inode of each
  name, `data` the bytes of each inode in use, in chunks of the content they come
  from. `Open` is the `open(..., "wb")` of `file.save`: it creates the file or
  empties it. `WriteChunk` writes at the writer's own offset (`Put`), so a writer
  whose file was emptied by another leaves a hole. A deleted file lives on for who
  has it open.
- `data[i].meant` is the content last opened for writing if nothing disturbed it, or
  `Torn`; `calm` and `steady` are history variables: whether another request
  touched the file in hand, and which names were there ever since a listing began.
  They influence nothing.
- `CheckFolder` and `MakeFolder`, `Stat` and `OpenToRead`, `ListFolder` and
  `CheckName` are the check and the use of `os.path.exists`/`os.makedirs`, of the
  file served, and of `os.listdir`/`os.path.isfile`. The folders do not exist in the
  repository; only the upload page makes them, so an upload before that fails
  (`OpenFails`).
- `Process` is the subprocess a text upload starts. The script it names,
  `dataExtraction.py`, is not in the repository: it may succeed, fail, or not start.

### SlideDeck

- Variables and functions have the page's names. `timers` holds the slides whose
  charts are scheduled; timers of one delay fire in order, and the one set on
  load is shorter and can overtake those set by earlier clicks (`Load`).
- A chart is its slide and its place in the order in which `initializeSlideCharts`
  draws the charts of that slide (`ChartsOf`). `Broken` are the charts whose drawing
  throws. `Fire` draws the charts before the first such one (`Drawable`); only if
  there is none (`Whole`) is the slide marked. A slide that breaks off is tried again
  when next entered, and its earlier charts are then drawn again. What a chart that
  throws leaves in its container is left out.
- `drawn` alternates between 1 and 2 with each drawing of a chart, so that drawing
  again is a change.

### AdminStories

- A request goes through stages in `req`: sent, with the messages of the session it
  was sent with; answered, by a page or a redirect; idle again. Each handler changes
  the table in one statement, so it is one action. `Lose` loses a request or its
  response at any stage, and the request can then be sent again. A request that its
  tab has given up and the server still handles is one of another tab of the same
  browser.
- `flash` adds a message to the session of the request, which all tabs of a browser
  share: the answer to a POST is a redirect with that session (`Redirect`), the
  browser keeps it as its `cookie` and asks for the list with it (`Follow`). A page
  that renders messages shows those its request came with and removes them
  (`Render`, `ShowPage`). So a message is shown by whichever tab's page renders it
  first, by two whose requests overlap, or again after an older response brought
  it back.
- `Elsewhere` is every other handler of the site, as far as it touches the messages:
  the account pages show them, logging out empties the session, the rest carry them
  on or answer without a session. Whether the session is logged in is left to
  `AdminAccounts`: `LoginRequired` may happen to any request for stories.
- Messages are a set; their order and repetition are left out. `Followed` says which
  kinds are followed, deletes in one run and updates in the other. The others matter
  only in that a page which showed one sends its session back: `ShowPage` may clear
  the cookie although it showed nothing.
- `form` is the story whose edit form a tab was shown last: it can be sent at any later
  time, also with the back button. Any id the sequence ever gave may still be on a
  screen (`Known`). `told` is a history variable: the deletes that pages of a browser
  have told of. No action reads it.

### The abstract specifications

- `AccountBook`: creating, changing and removing an account happens at one instant,
  with a free address and a fresh number. `AdminAccounts!Book` maps the rows to
  `book` and the numbers the sequence has passed to `used`; the look-up and the write
  of a handler become one step, the rest are stutters. It holds where
  `UniqueEmail \/ Serial`: otherwise two look-ups can precede two writes.
- `InterviewStore`: an interview is stored in one step, its text with all its
  keywords, or not at all. `IngestInterview!Store` counts the committed texts and
  keywords of each file, and takes an interview off `waiting` when its transaction
  closes.
- `BatchReport`: a run gives each file one outcome, and commits none that it could
  not extract. `ExtractionBatch` maps the file in hand to one without an
  outcome until it is counted; calls, waits and CSV rows are stutters.

## What TLC checks

Violations are behaviours of the code that disagree with what it, or a page of
it, says; each is one run with one property.

| Run | Instance | Shows |
|---|---|---|
| `accounts_tabs` | 1 browser, 2 requests at once, 2 addresses, 2 ids, UNIQUE | types; no blank password; only a session whose account is gone can delete the last administrator; the handlers implement `AccountBook` |
| `accounts_serial` | 2 browsers, 1 request at a time, 2 passwords, 3 ids, no UNIQUE, 2 languages | the look-ups keep addresses unique; identity comes only from the response to a login; a revoked session never stands for a later account; preferences survive every other request |
| `accounts_revoked` | 2 browsers | violated: a deleted administrator keeps changing accounts, where the delete dialog says access ends immediately |
| `accounts_logout` | 1 browser, 2 requests at once | violated: a late response undoes a logout |
| `ingest_two` | 2 callers, 3 interviews that mention each other's persons | no dangling id in any snapshot, links unique, interviews stored whole, success printed only when stored; both callers finish; the transactions implement `InterviewStore` |
| `ingest_one` | 1 caller, 4 interviews with every section, blanks, NULLs, a refused row and a repetition | one row per name; links mean what the interview said |
| `ingest_unnamed` | 1 caller, an interviewee with a blank name | violated: nothing is stored, success is printed |
| `batch` | 2 files, 2 starts, 2 retries, first wait 50 | counters add up; one header, first; a run commits a file at most once; calls and sleeps bounded, with the cap reached; a batch that is not killed ends; the script implements `BatchReport` |
| `media` | 2 requests of any kind on 1 name, contents of 2 chunks and of 1, up to 2 files in an upload | a file at rest is one upload, whole; a response and a script get one upload, whole, unless somebody wrote meanwhile; a listing has what was there all the time |
| `slides` | 5 slides with their 8 charts, the word cloud throwing, up to 3 timers | marked is drawn, with all its charts; the slide on show is drawn or about to be; every slide entered is drawn in the end, up to a chart that throws; redrawing ends on the slides that do not throw |
| `stories` | 2 tabs of one browser, 1 of another, 2 ids, 2 requests at once | pages of one browser only tell that a story was deleted, and it is gone; a deleted story does not come back |
| `stories_updated` | the same tabs, 1 id | violated: success is flashed of a story another tab has deleted |

Why these bounds. Interference in `AdminAccounts` is between two requests: a look-up
and a write, or a logout and another response; two slots reach every pair. Two
ids are the smallest table in which one administrator deletes another; the third
lets an account be created after a delete, when an id could be reused. Two callers and two shared relatives, mentioned in
opposite orders, are the smallest cycle of waits; the interview of Luis mentions
Ana first, so that a committed row for her can exist before both interviews of
her, and both then link the same persons; one of them gives a keyword twice and an
empty one. `ingest_one` runs alone because with two callers names do split: there is no unique constraint on
them, and `OneRowPerName` is claimed only of one caller. Two starts are needed for
a kill between creating a CSV file and writing to it. With a first wait of 50 s
the second wait is the cap of 60 s; the code's own 7 s reaches it after four
retries.

In `media` there are two requests because every hazard listed is between two; one name,
because requests for two names share no inode and only the folders, which the one
name's requests contend for too; and two lengths, so that a shorter file can
replace a longer one and a reader's size can be stale. Text is the kind of file that
has the more steps (the subprocess); with one name the state space has 370 thousand
states, with two it did not end within 12 million. Three timers let a slide be
scheduled twice with another in between; the slides and their charts are the code's, and
the word cloud is the second chart of its slide, so that one is drawn before it throws.
Two tabs of one browser share a session; the third, in another, shows that no other
browser is told of the same delete. Two ids let a story be created after a delete, when
an id could be reused. Two requests at once (`MaxRequests`) are what an overlap takes;
with all three tabs busy the run exceeds six million states, and also passes.

`CHECK_DEADLOCK FALSE` appears in the ingestion and batch runs: they end when all
work is done.

Fairness. `IngestInterview!FairSpec` lets every caller go on while it can (a
process runs; PostgreSQL ends waits when the other transaction closes and
detects deadlocks); failures of the connection are never required.
`ExtractionBatch!FairSpec` lets a running script go on: every call returns or
raises. It is not required that a rate limit ends or that a kill happens.
`SlideDeck!FairSpec` lets the page load and timers fire; nobody has to click or
swipe. `AdminAccounts`, `MediaFiles` and `AdminStories` have no liveness property:
nothing makes a browser send a request, and a server thread ends by itself.

Every property of a passing run has a mutation of the code that breaks it: an
unconditional password update, an edit that re-creates a deleted row, a missing
self-delete guard, a session that adopts the edited account, a logout that
removes half of the session; variables that leak into the next call, swapped
columns, a link key that includes the type, a connection never closed, a row
tried again after an error; a file opened without being emptied, a response that
ends a chunk early; a slide marked before it is drawn; a delete that does not look
at the number of rows, and so on. The mutated operators stand beside the
originals and are used by no action.

## What TLAPS proves

In `AdminAccountsProofs`, for every value of the constants that satisfies
`ConstantsAssumption` (the sequence has at least one value, the special values
are none of the ordinary ones):

| Theorem | States | Argument |
|---|---|---|
| `TypeCorrect` | `Spec => []TypeOK` | inductive by itself; `ReplyTypes` and `FlashTypes` cover the three ways a handler ends |
| `NoBlankPasswordHolds` | `Spec => []NoBlankPassword` | needs that a request waiting to insert came from the create form, whose password is not blank |
| `RevokedStaysRevokedHolds` | `Spec => RevokedStaysRevoked` | needs that every session in use names an id the sequence has already passed, so a new row never gets the id of a session |
| `EmptiedOnlyByRevokedHolds` | `Spec => EmptiedOnlyByRevoked` | only `Delete` removes a row, and it leaves the row of its own session |
| `EmailsUniqueHolds` | `UniqueEmail \/ Serial` implies `Spec => []EmailsUnique` | either the table refuses, or a request that passed its look-up is the only one and what it saw still holds |
| `AsIfAloneHolds` | `UniqueEmail \/ Serial` implies `Spec => AsIfAlone` | the initial table is a book; each action is a step of `AccountBook` or leaves `book` and `used` alone; the same look-up invariant says the address is still free at the write |
| `PreferencesKeptHolds` | `OneTab` implies `Spec => PreferencesKept` | while a browser waits, its cookie is the session its request was sent with, and no other handler changes the two keys |
| `IdentityOnlyByLoginHolds` | `OneTab` implies `Spec => IdentityOnlyByLogin` | while a browser waits, its cookie is the session its request was sent with, so a response of anything but a login has the same `admin` or none |

In `ExtractionBatchProofs`, for every value of the constants that satisfies
`BatchAssumption` (finitely many files, numbers of seconds and retries, a first
wait within the cap, a random part of at most two seconds):

| Theorem | States | Argument |
|---|---|---|
| `TypeCorrect` | `Spec => []TypeOK` | `TypeInv` adds the retry loop (calls equal retries while a file is asked for) and that a row being written has a file to go to |
| `OncePerRun` | `Spec => []StoredOncePerRun` | needs that the file in hand has left the listing, so a commit of it is not owed to a file still to come |
| `BoundedCalls` | `Spec => []CallsBounded` | a sleep is paid for by the retry counted before it: while sleeping, the time slept and one more longest wait fit in the retries so far |
| `ReportAddsUp` | `Spec => []CountsAddUp` | taking a file adds one to the files taken (a fact about cardinalities), finishing it adds one to the total |
| `OneHeaderFirst` | `Spec => []HeaderFirst` | needs that a CSV file that was absent when looked at is still empty when it is written to |
| `OneOutcomeEachHolds` | `Spec => OneOutcomeEach` | each step of the script is a step of `BatchReport` or changes none of its variables; needs that the file in hand has no outcome yet |

In `IngestInterviewProofs`, for any finite set of callers and any interviews over any
texts (`WorkAssumption`):

| Theorem | States | Argument |
|---|---|---|
| `TypeCorrect` | `Spec => []TypeOK` | needs that a program consists of statements whose variables hold ids of the tables they are used for (`ProgramTyped`, one lemma per section of the procedure) |
| `NoDanglingIdsHolds` | `Spec => []NoDanglingIds` | the committed rows are sound by themselves, so is what each caller sees, and the union of two sound sets is sound: a commit or rollback of one takes nothing from another |
| `LinkedOnceHolds` | `Spec => []LinkedOnce` | needs that two open transactions never hold rows with the same key, which is what the wait ensures |
| `LinksMeaningfulHolds` | `Spec => []LinksMeaningful` | needs where the procedure is: the link of another person comes right after the test that made it (`OtherInv`), the culture a language is linked to was linked to a person (`MainInv`), and the interviewee is known once his insertion is past (`PersonInv`) |

`IngestStoredProofs` extends it with what the transactions amount to, under the same
assumption:

| Theorem | States | Argument |
|---|---|---|
| `StoredWholeHolds` | `Spec => []StoredWhole` | `PlanInv`, below; at a commit the text has its keywords, and ids keep them apart from those of other texts |
| `IngestedIsStoredHolds` | if every interviewee has a name, `Spec => []IngestedIsStored` | a commit that leaves no text comes from an interview whose interviewee is `Nameless` |
| `ToldHolds` | `Spec => []ToldInv`: success is told of a stored file or of an interview without a name | the same, without the condition |
| `StoresAtOnceHolds` | `Spec => StoresAtOnce` | `Begin`, the statements and their waits change none of the variables of `InterviewStore`; a close is its `Store` if the text is there, with exactly the keywords stated, or its `PassOver` or `Fail` |

The inductive invariant is `SInv`, with the `IInv` of the other module. `IdsInv`: a
serial id is at most its sequence and identifies its row among the rows of all
transactions, and an uncommitted row is in one place only; so the keywords of a
text are those that refer to it, whatever other callers commit. `PlanInv` says how
far a CALL is: the text is still `Ahead` and no text or keyword is inserted; or it is
`Written`, its id is in the variable `text`, and as many keywords refer to it as
statements of present keywords are over; or the interview was `PassedOver`. It needs
that the statements of the keywords come last in the program and that nothing
before them is about a text (`ProgramShape`, one lemma per section).

`IngestNamesProofs` proves one more, `OneRowPerNameHolds`: if there is at most one
caller and the education levels (which no code fills) are all different, `Spec =>
[]OneRowPerName`, for any interviews. `NInv` adds to it that what a transaction sees
has one row per name, and that between the look-up of a person and his
insertion there is only the look-up of his birthplace (`CreatesFresh`), so that he
is still not there. The condition on the callers is the code's: nothing in the schema
makes names unique, and two callers that both miss a name both create it.

In `MediaFilesProofs`, for any number of requests, names, contents, inodes and files
in an upload (`MediaAssumption`: a name is allowed for one kind, a content has at least
one chunk):

| Theorem | States | Argument |
|---|---|---|
| `TypeCorrect` | `Spec => []TypeOK` | needs that a request which writes has a file in hand; includes that the inodes with bytes are exactly those in use |
| `AtRestWholeHolds` | `Spec => []AtRestWhole` | `Kept`: an inode that is not torn has one writer, whose chunks it holds, or none and is whole |
| `ServedWholeHolds` | `Spec => []ServedWhole` | `Undisturbed`: a calm reader's file is at rest, has the size it looked at, and what it got are the file's first chunks; nobody changes an inode but its writers (`Untouched`) and no name moves between inodes without having been absent (`NameStays`) |
| `ProcessedWholeHolds` | `Spec => []ProcessedWhole` | `Undisturbed`: a calm writer is alone and the one its inode is meant for |
| `ListCompleteHolds` | `Spec => []ListComplete` | `Covered`: a name that was there all the time is shown, is still to be checked, or is in a folder still to be listed |

In `SlideDeckProofs`, for any numbers of slides, charts and timers and any charts that
throw (`DeckAssumption`): `TypeCorrect`; `MarkedIsDrawnHolds`, which needs that no chart
is drawn from the one that throws on (`BrokenOff`); and `ShownIsScheduledHolds`, which
needs that the current slide is drawn, scheduled, one that breaks off, or the first one
of a page that has not loaded (`Awaited`). In `AdminStoriesProofs`, for any browsers, tabs
and ids: `TypeCorrect`, `DeletedByOneHolds` and `DeletedStaysDeletedHolds`. The second
needs `Gone`: a story whose delete a browser has heard of, be it shown on a page, waiting
in its session, or in a session under way (`HasHeard`), was given out, is not in the
table, and no other browser has heard the same. `GoneKept` shows it for every step after
which one browser has heard only of rows the step removed; the steps of a browser move
messages without adding any (`Browsed`), those of a handler add at most that one
(`Answered`).

The inductive invariants are stated in the modules before the proofs that use
them. The conditional theorems say what the violated runs show from the other
side: without the condition the property fails.

Only model-checked: all liveness (`AllIngested`, `BatchEnds`, `EnteredIsDrawn`,
`DrawingSettles`), which is outside the prover's reach, as is ENABLED; and the four
violations. That `ingest_unnamed` violates `IngestedIsStored` is the other side of
`ToldHolds`: an interviewee without a name is the only way to it.

## Observed and not kept as a property

- `keywords` has no unique constraint, so `ON CONFLICT DO NOTHING` never applies to
  it (`ingest_interview_data.sql:272-275`).
- The batch counts a file whose insert failed as processed, because
  `store_extracted_data_v2` returns nothing; the script says so itself
  (lines 634-637).
- Starting the batch again appends the rows of every file again.
- `admin_edit_admin` reports success when its UPDATE finds no row, like
  `admin_edit_story` (`stories_updated`) and unlike the delete handlers, which look
  at `rowcount`.
- The address in the session stays the one of the login when the account is edited
  (`main.py:252`); only the page header shows it.
- With several tabs a late response can undo a change of language or display;
  `PreferencesKept` is claimed of browsers that wait. Logging out clears both.
- `desktop_mode` only removes `force_touch`, so a touch device is sent back to the touch
  pages, although the comment says it forces desktop mode (`main.py:1095`).
- In touch mode the exploration page asks for `touch-dataExploration.html`, which does
  not exist.
- The charts of a slide left and entered again within 300 ms are drawn twice, although
  the comment at `dataExploration.html:1108` says "if not already done".
- A chart that cannot be drawn is tried again at every entry of its slide, and the charts
  before it are drawn again each time: without `wordcloud.js`, `geo-chart`
  (`dataExploration.html:1245`) is redrawn whenever its slide is entered. `DrawingSettles`
  is stated of the other slides.
- The message of a delete belongs to the browser, not to the tab that sent it
  (`main.py:874`): another tab may show it instead, two may show it if their requests
  overlap, and it may be shown twice if an older response brings it back.
- `uploadTool.html` loops over `files`, which the handler does not pass, so its
  replace and delete forms are never shown, and it shows no flashed message.
- The schema creates neither `admins` nor `emigrant_stories`.
- The edit forms would show rows with NULLs as "None"; only rows inserted by hand
  have them.

## Not modelled

- The demographic counts of `data_exploration`: one pass over a constant list, with
  no state and no input.
- The translation cache and `process_dashboard_data`, which nothing calls.
- Static pages and styles; the change-password page, whose button sends nothing.
- Tables that no code writes.
- The Google Cloud SDK checked in beside the program (`src/google-cloud-sdk`). It is
  third-party code and most of the repository's lines, so the share of all lines
  that these modules cover is small; of the application's own Python and SQL they
  cover the parts that keep state.
- Of what is modelled: texts that only get stored, dates, the contents of CSV rows and
  charts, logging, the wording of messages.

## Plan

Done: accounts with preferences, ingestion, batch, media, slides and stories; three
refinements, all proved; every invariant and every action property of the passing runs
proved, some under conditions the tables above give. Left: the liveness
properties stay with TLC.
