---------------------------- MODULE MCTilePlane ----------------------------
(* Every plane that can be laid out on a small grid.                       *)
EXTENDS TilePlane
MCPoints == {<<0, 0>>, <<1, 2>>, <<2, 3>>}
MCSearched == {[xbot |-> 0, xtop |-> Width, ybot |-> 0, ytop |-> Height],
               [xbot |-> 1, xtop |-> 2, ybot |-> 1, ytop |-> 2]}
=============================================================================
