--------------------------- MODULE InterviewStore ---------------------------
(***************************************************************************)
(* What ingesting interviews promises: each process takes its interviews   *)
(* in order, and each is stored at one instant, its text with all its      *)
(* keywords, or not at all.  Success is told of interviews that were       *)
(* stored, and of those whose interviewee has no name.                     *)
(***************************************************************************)
EXTENDS Naturals, Sequences

CONSTANTS
    Worker,
    Agenda   \* the interviews of each process, in order: the file, the number of
             \* its keywords, and whether person and text can be stored

VARIABLES
    waiting,  \* the interviews of each process that have not ended
    texts,    \* how often the text of each file is stored
    words,    \* how many keywords are stored with the texts of each file
    said      \* the files each process told success of

vars == <<waiting, texts, words, said>>

File == UNION {{Agenda[w][k].file : k \in DOMAIN Agenda[w]} : w \in Worker}

Init ==
    /\ waiting = Agenda
    /\ texts = [f \in File |-> 0] /\ words = [f \in File |-> 0]
    /\ said = [w \in Worker |-> {}]

\* The head of the queue ends; its success may be told.
Ends(w) == waiting[w] # <<>> /\ waiting' = [waiting EXCEPT ![w] = Tail(@)]
Tells(w) == said' = [said EXCEPT ![w] = @ \cup {Head(waiting[w]).file}]

Store(w) ==
    /\ Ends(w)
    /\ LET item == Head(waiting[w]) IN
        /\ item.named /\ item.complete
        /\ texts' = [texts EXCEPT ![item.file] = @ + 1]
        /\ words' = [words EXCEPT ![item.file] = @ + item.words]
    /\ Tells(w) \/ UNCHANGED said

\* An interview without a name is passed over in silence.
PassOver(w) ==
    /\ Ends(w) /\ ~Head(waiting[w]).named
    /\ Tells(w)
    /\ UNCHANGED <<texts, words>>

Fail(w) == Ends(w) /\ UNCHANGED <<texts, words, said>>

Next == \E w \in Worker : Store(w) \/ PassOver(w) \/ Fail(w)

Spec == Init /\ [][Next]_vars
=============================================================================
