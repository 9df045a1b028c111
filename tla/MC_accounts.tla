---------------------------- MODULE MC_accounts ----------------------------
(* AdminAccounts on small sets.  The members of each set are                *)
(* interchangeable: the specification names none of them.                   *)
EXTENDS AdminAccounts, TLC

Symmetry ==
    Permutations(Browser) \cup Permutations(Slot)
    \cup Permutations(Email) \cup Permutations(Password)

=============================================================================
