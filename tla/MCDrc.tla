------------------------------- MODULE MCDrc --------------------------------
(* A cell and the cell it is used in, one or two squares each.              *)
EXTENDS Drc

CONSTANTS cell, parent
MCAncestry == [d \in Def |-> IF d = cell THEN <<cell, parent>> ELSE <<parent>>]
=============================================================================
