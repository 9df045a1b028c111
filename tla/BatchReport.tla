---------------------------- MODULE BatchReport ----------------------------
(***************************************************************************)
(* What the extraction batch promises: a run deals with every file at most *)
(* once, gives each one outcome, and commits no file whose data it could   *)
(* not extract.  How it gets there (calls, waits, CSV rows) is left open.  *)
(***************************************************************************)
EXTENDS Naturals

CONSTANTS File, Counter

VARIABLES
    todo,  \* the files without an outcome in this run
    kept,  \* how often each file was committed, by all runs
    told,  \* committed, but not yet counted
    count  \* how many files had each outcome

vars == <<todo, kept, told, count>>

Zero == [c \in Counter |-> 0]

Init ==
    /\ todo = {} /\ told = {} /\ count = Zero
    /\ kept = [f \in File |-> 0]

\* A run begins, unless something it needs is missing.
Begin == todo' \in {File, {}} /\ told' = {} /\ count' = Zero /\ UNCHANGED kept

\* It ends, killed or not: files without an outcome have none.
End == todo' = {} /\ told' = {} /\ UNCHANGED <<kept, count>>

Counted(c) == count' = [count EXCEPT ![c] = @ + 1]
Kept(f) == kept' = [kept EXCEPT ![f] = @ + 1]

Commit(f) ==
    /\ f \in todo
    /\ todo' = todo \ {f} /\ told' = told \cup {f}
    /\ Kept(f) /\ UNCHANGED count

Count(f) ==
    /\ f \in told
    /\ told' = told \ {f}
    /\ Counted("processed") /\ UNCHANGED <<todo, kept>>

\* A file fails; the database may have it nevertheless, if it was sent there.
Fail(f, c) ==
    /\ f \in todo
    /\ todo' = todo \ {f} /\ UNCHANGED told
    /\ Counted(c)
    /\ UNCHANGED kept \/ (c # "extraction" /\ Kept(f))

Next == Begin \/ End \/ \E f \in File : Commit(f) \/ Count(f) \/ \E c \in Counter : Fail(f, c)

Spec == Init /\ [][Next]_vars
=============================================================================
