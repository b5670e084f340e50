--------------------------- MODULE MCPagedScans ---------------------------
(***************************************************************************)
(* Instances of PagedScans for TLC: up to three transactions in the        *)
(* beginning, in pages of two, so that there are full pages, short ones    *)
(* and an empty one, and room for one that is created meanwhile.           *)
(***************************************************************************)
EXTENDS PagedScans

MCScans == {"reindex", "reindex_old", "rebuild", "replay", "check", "file"}
MCCheck == {"check"}
MCInitialIds == 1..3
MCIds == 1..4
=============================================================================
