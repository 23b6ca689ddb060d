---------------------------- MODULE MCPaintPlane ----------------------------
(* Planes of cells, of which rectangles are painted and erased, and planes *)
(* of design rule checks.  On one of these every square counts how often   *)
(* it has been painted: not at all, once, twice, too often.  On another    *)
(* layer 1 must not overlap itself, layer 2 may, and 3 is an error.        *)
EXTENDS PaintPlane

TableOf(s) == [t \in 0 .. 3 |-> s[t + 1]]
Painted(areas, s, mark) ==
  {[area |-> r, table |-> TableOf(s), mark |-> mark] : r \in areas}
Edited(areas) == Painted(areas, <<1, 1, 1, 1>>, FALSE)
                 \union Painted(areas, <<0, 0, 0, 0>>, FALSE)

R(x1, x2, y1, y2) == [xbot |-> x1, xtop |-> x2, ybot |-> y1, ytop |-> y2]
Long(r) == (r.xbot = 0 /\ r.xtop = 3) \/ (r.ybot = 1 /\ r.ytop = 3)
Middle == {r \in PaintableAreas : r.xbot <= 1 /\ r.xtop >= 2
                                  /\ r.ybot <= 1 /\ r.ytop >= 2 /\ ~Long(r)}
Narrow == {r \in PaintableAreas : r.xtop <= 2 /\ r.ytop <= 2}

Few == {R(0, 1, 0, 3), R(0, 2, 0, 3), R(0, 1, 1, 2), R(0, 2, 0, 1)}

Counted == Painted(Narrow, <<1, 2, 3, 3>>, TRUE)
Overlaps == Painted({R(0, 1, 0, 2), R(0, 1, 1, 2), R(0, 2, 0, 1)}, <<1, 3, 1, 3>>, TRUE)
            \union Painted({R(0, 2, 0, 2), R(0, 3, 1, 2), R(1, 2, 0, 3)},
                           <<2, 2, 2, 3>>, TRUE)

MCUses == {Edited(Middle), Edited(Few), Counted, Overlaps}
MCInterrupts == {Edited(Few), Overlaps}

=============================================================================
