------------------------------ MODULE MC_slides ------------------------------
(* SlideDeck with the charts of dataExploration.html; the word cloud, the      *)
(* second chart of its slide, throws when its module could not be loaded.      *)
EXTENDS SlideDeck

MCCharts == [n \in Slide |-> IF n \in {1, 2, 3} THEN 2 ELSE 1]
MCBroken == {<<1, 2>>}

=============================================================================
