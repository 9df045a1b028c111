----------------------------- MODULE MC_stories -----------------------------
(* AdminStories with two tabs in one browser and one in another.             *)
EXTENDS AdminStories, TLC

CONSTANTS t1, t2, t3, b1, b2

MCBrowserOf == t1 :> b1 @@ t2 :> b1 @@ t3 :> b2
Symmetry == Permutations({t1, t2})

=============================================================================
