---------------------------- MODULE MCUndoCells -----------------------------
(* Two cells with three names that are painted, undone, redone, deleted and  *)
(* renamed; cells and names are interchangeable.                             *)
EXTENDS UndoCells, TLC

Interchangeable == Permutations(Def) \cup Permutations(Name)
=============================================================================
