--------------------------- MODULE MCSearchIndex ---------------------------
(***************************************************************************)
(* SearchIndex for TLC: three writers are the last one, one that it        *)
(* overlaps, and one whose copy is there before both.                      *)
(***************************************************************************)
EXTENDS SearchIndex
=============================================================================
