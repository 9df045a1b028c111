------------------------------ MODULE MC_media ------------------------------
(* MediaFiles with a content of two chunks and one of one.                  *)
EXTENDS MediaFiles, TLC

CONSTANTS long, short

MCLength == long :> 2 @@ short :> 1

=============================================================================
