-------------------------- MODULE MCAnnounceTable --------------------------
(* Small instances of AnnounceTable: two destinations competing for a      *)
(* table with one place, or one destination alone.                         *)
EXTENDS AnnounceTable
=============================================================================
