------------------------------ MODULE MCStamps ------------------------------
(* A chain of three cells, extracted from the top.                         *)
EXTENDS Stamps, TLC
CONSTANTS top, middle, leaf
MCCell == {top, middle, leaf}
MCEdited == {leaf, top}
MCRoots == {top}
MCUses == (top :> <<middle>>) @@ (middle :> <<leaf>>) @@ (leaf :> <<>>)
=============================================================================
