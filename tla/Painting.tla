------------------------------ MODULE Painting ------------------------------
(***************************************************************************)
(* What painting a rectangle promises, told without tiles: a plane is a    *)
(* colour for every square.  While an area is painted, squares of it may   *)
(* go from the colour they had to the one the table gives, each once; no   *)
(* other square changes, and painting ends with every square of the area   *)
(* painted unless an interrupt stops it.                                   *)
(***************************************************************************)
EXTENDS Naturals

CONSTANTS Square, Colour,       \* a plane begins with colour 0, which is empty space
          Area,         \* areas that may be painted: sets of squares
          Table         \* what painting makes of each colour: functions on Colour

VARIABLES colour,       \* of each square now
          before,       \* and when the last painting began
          area, table,  \* what is or was painted with what
          painting,     \* whether it is still going on
          interrupted   \* or was stopped by an interrupt
vars == <<colour, before, area, table, painting, interrupted>>

Painted == [sq \in Square |-> IF sq \in area THEN table[before[sq]] ELSE before[sq]]

Init == /\ colour = [sq \in Square |-> 0] /\ before = colour
        /\ area \in Area /\ table \in Table
        /\ painting = FALSE /\ interrupted = FALSE

Begin ==
  /\ ~painting /\ ~interrupted
  /\ area' \in Area /\ table' \in Table /\ painting' = TRUE
  /\ before = colour
  /\ UNCHANGED <<colour, before, interrupted>>

(* Some squares that still have their old colour get the new one.          *)
Progress ==
  LET now == colour
      next == colour'
      wanted == Painted
  IN \A sq \in Square :
       \/ next[sq] = now[sq]
       \/ now[sq] = before[sq] /\ next[sq] = wanted[sq]

Paint == /\ painting /\ painting' /\ Progress
         /\ UNCHANGED <<before, area, table, interrupted>>

Finish == /\ painting /\ painting' = FALSE
          /\ colour' = Painted /\ Progress
          /\ UNCHANGED <<before, area, table, interrupted>>

Interrupt == /\ painting /\ painting' = FALSE /\ interrupted' = TRUE
             /\ UNCHANGED <<colour, before, area, table>>

Return == /\ ~painting /\ before' = colour
          /\ area' \in Area /\ table' \in Table
          /\ interrupted' = FALSE
          /\ UNCHANGED <<colour, painting>>

Next == Begin \/ Paint \/ Finish \/ Interrupt \/ Return

Spec == Init /\ [][Next]_vars
=============================================================================
