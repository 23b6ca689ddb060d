----------------------------- MODULE TilePlane -----------------------------
(***************************************************************************)
(* One plane on which the tile package is used: tiles are split at any     *)
(* coordinate in all four ways (plowing uses the two that put the new tile *)
(* to the left or below), tiles with an entire common edge are joined in   *)
(* either order, and points and areas are searched from any tile.          *)
(***************************************************************************)
EXTENDS Tiles, Sequences

CONSTANTS Points, Searched      \* where the program searches for a tile, and
                                \* the areas it searches

VARIABLES plane, pl_hint
vars == <<plane, pl_hint>>

Init == plane = TiNewPlane /\ pl_hint = 0

(* A caller keeps its pointer to the tile it had, whatever part that is.   *)
Becomes(p, hint) == plane' = Settled(p) /\ pl_hint' = Named(p, hint)

SplitX(t, x) == /\ LEFT(plane, t) < x /\ x < RIGHT(plane, t)
                /\ Becomes(TiSplitX(plane, t, x), pl_hint)
SplitY(t, y) == /\ BOTTOM(plane, t) < y /\ y < TOP(plane, t)
                /\ Becomes(TiSplitY(plane, t, y), pl_hint)
SplitX_Left(t, x) == /\ LEFT(plane, t) < x /\ x < RIGHT(plane, t)
                     /\ Becomes(TiSplitX_Left(plane, t, x), pl_hint)
SplitY_Bottom(t, y) == /\ BOTTOM(plane, t) < y /\ y < TOP(plane, t)
                       /\ Becomes(TiSplitY_Bottom(plane, t, y), pl_hint)
JoinX(t1, t2) == /\ ShareEdge(X, plane, t1, t2)
                 /\ Becomes(TiJoinX(plane, t1, t2), HintAfterJoin(pl_hint, t1, t2))
JoinY(t1, t2) == /\ ShareEdge(Y, plane, t1, t2)
                 /\ Becomes(TiJoinY(plane, t1, t2), HintAfterJoin(pl_hint, t1, t2))

(* TiSrPoint leaves the hint at the tile it found.  It starts at the hint; *)
(* PointsFound says that a start its caller names gives the same tile.     *)
TiSrPoint(x, y) ==
  /\ pl_hint' = GOTOPOINT(plane, pl_hint, x, y)
  /\ UNCHANGED plane

-----------------------------------------------------------------------------
(* TiSrArea: the search goes down the left edge of the area, and from each *)
(* tile to the tiles along its right edge; of these it takes the ones that *)
(* reach no lower, or all of them at the bottom of the area.               *)
Areas == {r \in [xbot : 0 .. Width - 1, xtop : 1 .. Width,
                 ybot : 0 .. Height - 1, ytop : 1 .. Height] :
            r.xbot < r.xtop /\ r.ybot < r.ytop}

Enumerable(r, bottom, t) ==
  /\ BOTTOM(plane, t) < r.ytop
  /\ bottom <= r.ybot \/ BOTTOM(plane, t) >= bottom

tiSrAreaEnum(r) ==      \* by tile, what is enumerated from its right edge
  LET enum[t \in DOMAIN plane] ==
        LET bottom == BOTTOM(plane, t)
            srchBottom == IF bottom < r.ybot THEN r.ybot ELSE bottom
            along[tp \in DOMAIN plane] ==
              IF TOP(plane, tp) <= srchBottom THEN <<>>
              ELSE (IF Enumerable(r, bottom, tp) THEN <<tp>> \o enum[tp] ELSE <<>>)
                   \o along[plane[tp].lb]
        IN IF RIGHT(plane, t) < r.xtop THEN along[plane[t].tr] ELSE <<>>
  IN enum

SrAreaStart(t, r) == GOTOPOINT(plane, t, r.xbot, r.ytop - 1)
SrAreaBelow(t, r) == GOTOPOINT(plane, t, r.xbot, BOTTOM(plane, t) - 1)

Enumerated(hint, r) ==          \* the tiles the caller is given, in order
  LET down[t \in DOMAIN plane] ==
        <<t>> \o tiSrAreaEnum(r)[t] \o
        (IF BOTTOM(plane, t) <= r.ybot THEN <<>> ELSE down[SrAreaBelow(t, r)])
  IN down[SrAreaStart(hint, r)]

(* The hint is left at the tile found below the last one, which is outside *)
(* the area, and the lower border tile where the area reaches the bottom.  *)
TiSrArea(r) ==
  LET down[t \in DOMAIN plane] ==
        IF BOTTOM(plane, t) <= r.ybot THEN SrAreaBelow(t, r)
                                      ELSE down[SrAreaBelow(t, r)]
  IN /\ pl_hint' = down[SrAreaStart(pl_hint, r)]
     /\ UNCHANGED plane

Tile == Inner(plane)

Next ==
  \/ \E t \in Tile, x \in 1 .. Width - 1 : SplitX(t, x) \/ SplitX_Left(t, x)
  \/ \E t \in Tile, y \in 1 .. Height - 1 : SplitY(t, y) \/ SplitY_Bottom(t, y)
  \/ \E t1, t2 \in Tile : JoinX(t1, t2) \/ JoinY(t1, t2)
  \/ \E sq \in Points : TiSrPoint(sq[1], sq[2])
  \/ \E r \in Searched : TiSrArea(r)

Spec == Init /\ [][Next]_vars

-----------------------------------------------------------------------------
(* After any splits and joins the tiles are a partition of the plane, no   *)
(* stitch leads to a freed tile and each is the neighbour at its corner;    *)
(* the hint is a tile of the plane, or the border below it.                *)
PlaneSound == Sound(plane) /\ pl_hint \in Tile \union {Bottom}

(* From every tile a search could start at, TiSrPoint ends at the tile     *)
(* that contains the point.                                                *)
PointsFound ==
  \A t \in Tile \union {pl_hint}, sq \in Squares :
    GOTOPOINT(plane, t, sq[1], sq[2]) = TileAt(plane, sq[1], sq[2])

(* TiSrArea gives its caller every tile that overlaps the area, no other,  *)
(* and none twice.                                                         *)
Overlaps(t, r) ==
  /\ LEFT(plane, t) < r.xtop /\ RIGHT(plane, t) > r.xbot
  /\ BOTTOM(plane, t) < r.ytop /\ TOP(plane, t) > r.ybot

AreasEnumeratedOnce ==
  \A r \in Areas :
    LET found == Enumerated(pl_hint, r)
        wanted == {t \in Tile : Overlaps(t, r)}
    IN /\ {found[i] : i \in DOMAIN found} = wanted
       /\ Len(found) = Cardinality(wanted)

(* Every search ends at what it looks for and gives it once.               *)
SearchesExact == PointsFound /\ AreasEnumeratedOnce

=============================================================================
