---------------------------- MODULE AccountBook ----------------------------
(***************************************************************************)
(* What the administrator handlers promise about the table: every create,  *)
(* edit and delete takes place at one instant, as if nobody else were      *)
(* there.  An address is free when it is given to an account, a password   *)
(* is never blank, and the number of an account is not given twice.        *)
(***************************************************************************)
CONSTANTS Id, Email, Password

VARIABLES
    book,  \* the accounts there are, by number
    used   \* the numbers that were given out, or lost

Account == [email : Email, password : Password]

\* Does an account other than i have the address?
Has(e, i) == \E j \in DOMAIN book : j # i /\ book[j].email = e

Init == \E i \in Id, a \in Account : book = [j \in {i} |-> a] /\ used = {i}

Add(i, a) ==
    /\ i \notin used /\ ~Has(a.email, i)
    /\ book' = [j \in DOMAIN book \cup {i} |-> IF j = i THEN a ELSE book[j]]
    /\ used' = used \cup {i}

\* A create that is refused may cost a number.
Waste(i) ==
    /\ i \notin used
    /\ used' = used \cup {i}
    /\ UNCHANGED book

\* The password is changed or kept.
Change(i, a) ==
    /\ i \in DOMAIN book /\ ~Has(a.email, i)
    /\ book' = [book EXCEPT ![i] = a]
    /\ UNCHANGED used

Remove(i) ==
    /\ i \in DOMAIN book
    /\ book' = [j \in DOMAIN book \ {i} |-> book[j]]
    /\ UNCHANGED used

Next == \E i \in Id :
    \/ \E a \in Account : Add(i, a) \/ Change(i, a)
    \/ Waste(i) \/ Remove(i)

Spec == Init /\ [][Next]_<<book, used>>
=============================================================================
