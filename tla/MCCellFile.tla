----------------------------- MODULE MCCellFile -----------------------------
(* Two cells, one with a file and one without. *)
EXTENDS CellFile
CONSTANTS a, b
MCCells == {a, b}
MCOldCells == {a}
=============================================================================
