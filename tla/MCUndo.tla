------------------------------- MODULE MCUndo -------------------------------
(* Undo on small logs, against the command stack: a few commands kept, a few *)
(* nodes ever allocated, with room for forgetting two commands at once.      *)
EXTENDS UndoRefinement
=============================================================================
