----------------------------- MODULE PaintPlane -----------------------------
(***************************************************************************)
(* DBPaintPlane0 (magic/database/DBpaint.c): painting a rectangle of a     *)
(* plane.  The search visits the tiles of the area from the top down along *)
(* its left edge and from each to the right; each visited tile is clipped  *)
(* to the area, gets the type that the table gives for its type, and is    *)
(* merged with its neighbours so that the plane stays in maximal           *)
(* horizontal strips.  One action is the visit of one tile; before each    *)
(* the code looks whether the user has interrupted the command.            *)
(***************************************************************************)
EXTENDS Tiles, Sequences

CONSTANTS Uses,         \* how planes are used: sets of what is painted, each
                        \* an area, a paint table and whether tiles are marked
          Interrupts    \* those of them in which the user may interrupt a command

VARIABLES use,          \* of this plane
          plane, pl_hint,
          pc,           \* "rest", "painting", "ended", "interrupted" or
                        \* "broken", where the model stops
          op,           \* what is painted, and the tile being visited
          undo,         \* paint events recorded by this painting
          before,       \* colours when it began
          untidy        \* a painting of this plane was interrupted or came
                        \* upon a mark that an earlier one had left
vars == <<use, plane, pl_hint, pc, op, undo, before, untidy>>

(* No tile is ever painted at the upper and right rim of a plane: its      *)
(* tiles reach to INFINITY, TiPlaneRect only to INFINITY - 2.              *)
TiPlaneRect == [xbot : 0 .. Width - 2, xtop : 1 .. Width - 1,
                ybot : 0 .. Height - 2, ytop : 1 .. Height - 1]
PaintableAreas == {r \in TiPlaneRect : r.xbot < r.xtop /\ r.ybot < r.ytop}

Paintings == UNION Uses
Types == UNION {DOMAIN o.table : o \in Paintings}

ASSUME PaintingsAssumption ==
  \A o \in Paintings : /\ o.area \in PaintableAreas
                       /\ o.table \in [Types -> Types] /\ o.mark \in BOOLEAN

ColoursOf(p) == [sq \in Squares |-> p[TileAt(p, sq[1], sq[2])].body]

(* What the visit of a tile works on: the plane, the tile, its new type,   *)
(* the directions in which it may be merged, what is recorded for undo,    *)
(* whether it was to be split at a place outside it.                       *)
Work(r, table, mark, t) ==
  [p |-> plane, hint |-> pl_hint, tile |-> t, area |-> r, mark |-> mark,
   old |-> plane[t].body, new |-> table[plane[t].body],
   merge |-> {"top", "left"}
             \union (IF RIGHT(plane, t) >= r.xtop THEN {"right"} ELSE {})
             \union (IF BOTTOM(plane, t) <= r.ybot THEN {"bottom"} ELSE {}),
   undo |-> <<>>, outside |-> FALSE]

CanMergeY(p, t1, t2) ==
  /\ p[t1].left = p[t2].left
  /\ p[t1].body = p[t2].body
  /\ RIGHT(p, t1) = RIGHT(p, t2)

JoinY(w, t1, t2) == [w EXCEPT !.p = TiJoinY(@, t1, t2),
                              !.hint = HintAfterJoin(@, t1, t2)]
JoinX(w, t1, t2) == [w EXCEPT !.p = TiJoinX(@, t1, t2),
                              !.hint = HintAfterJoin(@, t1, t2)]
MergeY(w, t1, t2) == IF CanMergeY(w.p, t1, t2) THEN JoinY(w, t1, t2) ELSE w
MergeUp(w, t) == MergeY(w, t, w.p[t].rt)
MergeDown(w, t) == MergeY(w, t, w.p[t].lb)

(* Both parts of a split tile have its type.                               *)
SplitY(p, t, y) == [TiSplitY(p, t, y) EXCEPT ![TiAlloc(p)].body = p[t].body]
SplitX(p, t, x) == [TiSplitX(p, t, x) EXCEPT ![TiAlloc(p)].body = p[t].body]

-----------------------------------------------------------------------------
(* Clipping: what lies outside the area is split off.  The parts above and *)
(* below keep the width of the tile; those to the right and the left are   *)
(* merged with the strips above and below them.  A tile is split inside,   *)
(* says the assertion of TiSplitX and TiSplitY.                            *)
SplitsIn(inside, w, split) == IF inside THEN split ELSE [w EXCEPT !.outside = TRUE]

ClipUp(w) ==
  IF TOP(w.p, w.tile) <= w.area.ytop THEN w
  ELSE SplitsIn(BOTTOM(w.p, w.tile) < w.area.ytop, w,
     [w EXCEPT !.p = SplitY(@, w.tile, w.area.ytop), !.merge = @ \ {"top"}])

ClipDown(w) ==
  IF BOTTOM(w.p, w.tile) >= w.area.ybot THEN w
  ELSE SplitsIn(TOP(w.p, w.tile) > w.area.ybot, w,
     [w EXCEPT !.p = SplitY(@, w.tile, w.area.ybot), !.tile = TiAlloc(w.p),
               !.merge = @ \ {"bottom"}])

MergeOutside_UpOnly(w, t) == MergeUp(w, t)      \* not with the strip below
MergeOutside(w, t) == MergeDown(MergeUp(w, t), t)

ClipRight(w) ==
  IF RIGHT(w.p, w.tile) <= w.area.xtop THEN w
  ELSE SplitsIn(LEFT(w.p, w.tile) < w.area.xtop, w,
     MergeOutside([w EXCEPT !.p = SplitX(@, w.tile, w.area.xtop),
                            !.merge = @ \ {"right"}], TiAlloc(w.p)))

ClipLeft(w) ==
  IF LEFT(w.p, w.tile) >= w.area.xbot THEN w
  ELSE SplitsIn(RIGHT(w.p, w.tile) > w.area.xbot, w,
     MergeOutside([w EXCEPT !.p = SplitX(@, w.tile, w.area.xbot),
                            !.tile = TiAlloc(w.p), !.merge = @ \ {"left"}], w.tile))

Then(w, Do(_)) == IF w.outside THEN w ELSE Do(w)
Clipped(w) == IF w.old = w.new THEN w
              ELSE Then(Then(Then(ClipUp(w), ClipDown), ClipRight), ClipLeft)

-----------------------------------------------------------------------------
(* The tiles along the left edge of a tile, from the bottom up, and along  *)
(* its right edge, from the top down.                                      *)
LeftNeighbours(p, t) == Passed(p, p[t].bl, "rt", LAMBDA u : BOTTOM(p, u) < TOP(p, t))
RightNeighbours(p, t) == Passed(p, p[t].tr, "lb", LAMBDA u : TOP(p, u) > BOTTOM(p, t))

SameTypeAt(w, side) ==
  /\ side \in w.merge
  /\ \E u \in IF side = "left" THEN LeftNeighbours(w.p, w.tile)
                               ELSE RightNeighbours(w.p, w.tile) :
       w.p[u].body = w.new

PaintEvent_TypeSetFirst(w, t) ==            \* recorded after TiSetBody
  [xbot |-> LEFT(w.p, t), xtop |-> RIGHT(w.p, t), ybot |-> BOTTOM(w.p, t),
   ytop |-> TOP(w.p, t), oldtype |-> w.new, newtype |-> w.new]

PaintEvent(w, t) ==
  [xbot |-> LEFT(w.p, t), xtop |-> RIGHT(w.p, t), ybot |-> BOTTOM(w.p, t),
   ytop |-> TOP(w.p, t), oldtype |-> w.p[t].body, newtype |-> w.new]

Recorded(w, t) == IF w.p[t].body = w.new THEN w
                  ELSE [w EXCEPT !.undo = Append(@, PaintEvent(w, t))]

(* dbMarkClient; TiSplitY has left a new tile unmarked.                    *)
Touches(p, t, r) == /\ LEFT(p, t) < r.xtop /\ RIGHT(p, t) > r.xbot
                    /\ BOTTOM(p, t) < r.ytop /\ TOP(p, t) > r.ybot
MarkClient(w, t) ==
  IF w.mark THEN [w EXCEPT !.p[t].mark = Touches(w.p, t, w.area)] ELSE w

Retyped(w) == [Recorded(w, w.tile) EXCEPT !.p[w.tile].body = w.new]
MergeAbove(w) == IF "top" \in w.merge THEN MergeUp(w, w.tile) ELSE w
MergeBelow(w) == IF "bottom" \in w.merge THEN MergeDown(w, w.tile) ELSE w

(* No neighbour to the left or right has the new type.                     *)
MarkTile(w) == [w EXCEPT !.p[w.tile].mark = @ \/ w.mark]
PaintCheap(w) == MergeBelow(MergeAbove(MarkTile(Retyped(w))))

(* dbPaintMerge.  ysplit is the height down to which the tile has one      *)
(* neighbour, or none, to merge with on both sides: on the left            *)
LeftSplit(w, ysplit) ==
  LET p == w.p
      same == {u \in LeftNeighbours(p, w.tile) : p[u].body = w.new}
      last == CHOOSE u \in same : \A v \in same : BOTTOM(p, u) >= BOTTOM(p, v)
      Highest(y) == IF y > ysplit THEN y ELSE ysplit
  IN IF same = {} THEN [y |-> ysplit, merge |-> FALSE]
     ELSE IF TOP(p, last) < TOP(p, w.tile)
     THEN [y |-> Highest(TOP(p, last)), merge |-> FALSE]
     ELSE [y |-> Highest(BOTTOM(p, last)), merge |-> TRUE]

(* and on the right.                                                       *)
RightSplit(w, ysplit) ==
  LET p == w.p
      first == p[w.tile].tr
      next == Stop(p, p[first].lb, "lb",
                   LAMBDA u : p[u].body # w.new /\ TOP(p, u) > ysplit)
      Highest(y) == IF y > ysplit THEN y ELSE ysplit
  IN IF p[first].body = w.new
     THEN [y |-> Highest(BOTTOM(p, first)), merge |-> TRUE]
     ELSE [y |-> Highest(TOP(p, next)), merge |-> FALSE]

Unsplit(w) == [y |-> BOTTOM(w.p, w.tile), merge |-> FALSE]

SplitAt(w, y, sides) ==
  IF y > BOTTOM(w.p, w.tile)
  THEN [w EXCEPT !.p = SplitY(@, w.tile, y), !.tile = TiAlloc(w.p),
                 !.merge = sides \union (@ \intersect {"top"})]
  ELSE [w EXCEPT !.merge = sides \union (@ \intersect {"top", "bottom"})]

SplitRight(w, l) ==
  LET r == IF "right" \in w.merge THEN RightSplit(w, l.y) ELSE [l EXCEPT !.merge = FALSE]
  IN SplitAt(w, r.y, (IF l.merge THEN {"left"} ELSE {}) \union
                     (IF r.merge THEN {"right"} ELSE {}))

SplitForMerge(w) ==
  SplitRight(w, IF "left" \in w.merge THEN LeftSplit(w, BOTTOM(w.p, w.tile))
                                      ELSE Unsplit(w))

(* A neighbour that reaches higher or lower is cut to the height of the    *)
(* tile.  After the upper cut the code marks the tile again, not the part  *)
(* cut off; a tile that is not merged back stays unmarked.                 *)
CutAbove(w, u) ==
  IF TOP(w.p, u) > TOP(w.p, w.tile)
  THEN MarkClient([w EXCEPT !.p = SplitY(@, u, TOP(w.p, w.tile))], w.tile)
  ELSE w

JoinCut(w, u) ==
  IF BOTTOM(w.p, u) < BOTTOM(w.p, w.tile)
  THEN JoinX([w EXCEPT !.p = TiSplitY(@, u, BOTTOM(w.p, w.tile))],
             w.tile, TiAlloc(w.p))
  ELSE JoinX(w, w.tile, u)

MergeSide(w, side, stitch) ==
  IF side \in w.merge
  THEN JoinCut(CutAbove(w, w.p[w.tile][stitch]), w.p[w.tile][stitch]) ELSE w

MarkMerged(w) == MarkClient(w, w.tile)

dbPaintMerge(w) ==
  MergeBelow(MergeAbove(MergeSide(MergeSide(
    MarkMerged(Retyped(SplitForMerge(w))), "left", "bl"), "right", "tr")))

PaintTile(w) ==
  IF SameTypeAt(w, "left") THEN dbPaintMerge(w)
  ELSE IF SameTypeAt(w, "right") THEN dbPaintMerge([w EXCEPT !.merge = @ \ {"left"}])
  ELSE PaintCheap(w)

VisitTile(w) ==
  IF w.mark /\ w.p[w.tile].mark THEN w ELSE Then(Clipped(w), PaintTile)

-----------------------------------------------------------------------------
(* Where the search goes from the tile that resulted: right if a tile      *)
(* there is to be visited from this one, else back to the left until a     *)
(* tile below is, else down the left edge of the area.                     *)
VisitFrom_Above(p, r, u, t) ==              \* not one that ends where it ends
  BOTTOM(p, u) > BOTTOM(p, t) \/ BOTTOM(p, t) <= r.ybot
VisitFrom(p, r, u, t) == BOTTOM(p, u) >= BOTTOM(p, t) \/ BOTTOM(p, t) <= r.ybot

Down(p, r, t) ==                            \* along the left edge of the area
  LET Outside(u) == RIGHT(p, u) <= r.xbot
      Step(down) == [tile |-> down, more |-> TOP(p, down) > r.ybot,
                     passed |-> Passed(p, p[t].lb, "tr", Outside)]
  IN Step(Stop(p, p[t].lb, "tr", Outside))

Back(p, r, t0) ==
  LET back[t \in DOMAIN p] ==
        IF LEFT(p, t) <= r.xbot THEN Down(p, r, t)
        ELSE IF BOTTOM(p, t) <= r.ybot
        THEN [tile |-> t, more |-> FALSE, passed |-> {}]
        ELSE IF VisitFrom(p, r, p[t].lb, p[t].bl)
        THEN [tile |-> p[t].lb, more |-> TRUE, passed |-> {}]
        ELSE [back[p[t].bl] EXCEPT !.passed = @ \union {p[t].bl}]
  IN back[t0]

MoveOn(p, r, t, clipTop) ==
  LET Go(right) == IF LEFT(p, p[t].tr) < r.xtop /\ VisitFrom(p, r, right, t)
                   THEN [tile |-> right, more |-> TRUE, passed |-> {}]
                   ELSE Back(p, r, t)
  IN Go(Stop(p, p[t].tr, "lb", LAMBDA u : BOTTOM(p, u) >= clipTop))

ClipTop(p, t, r) == IF TOP(p, t) > r.ytop THEN r.ytop ELSE TOP(p, t)

(* The marks are taken away by the same search once more.                  *)
SearchedAgain(p, r, hint) ==
  LET visit[t \in DOMAIN p] ==
        LET Go(next) == IF next.more
                        THEN [visit[next.tile] EXCEPT !.ts = @ \union {t} \union next.passed]
                        ELSE [ts |-> {t, next.tile} \union next.passed, last |-> next.tile]
        IN Go(MoveOn(p, r, t, ClipTop(p, t, r)))
  IN visit[GOTOPOINT(p, hint, r.xbot, r.ytop - 1)]

Unmarked(p, all) ==
  [p |-> [t \in DOMAIN p |-> IF t \in all.ts THEN [p[t] EXCEPT !.mark = FALSE] ELSE p[t]],
   hint |-> all.last]

EndedWith(u) == /\ plane' = Settled(u.p)
                /\ pl_hint' = Named(u.p, u.hint)
                /\ op' = [op EXCEPT !.tile = BADTILE]

Ended(p, hint, tile) ==
  EndedWith(IF op.mark THEN Unmarked(p, SearchedAgain(p, op.area, hint))
                       ELSE [p |-> p, hint |-> tile])

-----------------------------------------------------------------------------
Started(o, tile, leftover) ==
  [area |-> o.area, table |-> o.table, mark |-> o.mark, tile |-> tile,
   leftover |-> leftover]
NoOp == Started(CHOOSE o \in Paintings : TRUE, BADTILE, FALSE)

(* A mark that an earlier painting has left in the area (tile.h says that  *)
(* who uses ti_client returns it to its default when done).                *)
LeftoverMark(o) ==
  o.mark /\ \E t \in Inner(plane) : plane[t].mark /\ Touches(plane, t, o.area)

Init ==
  /\ use \in Uses
  /\ plane = TiNewPlane /\ pl_hint = 0
  /\ pc = "rest" /\ op = NoOp
  /\ undo = <<>> /\ before = ColoursOf(plane) /\ untidy = FALSE

DBPaintPlane0(o) ==
  /\ pc = "rest"
  /\ pc' = "painting"
  /\ op' = Started(o, GOTOPOINT(plane, pl_hint, o.area.xbot, o.area.ytop - 1),
                   LeftoverMark(o))
  /\ untidy' = (untidy \/ LeftoverMark(o))
  /\ UNCHANGED <<use, plane, pl_hint, undo, before>>

GoOn(w, next) ==
  /\ next.more
  /\ plane' = Settled(w.p)
  /\ pl_hint' = Named(w.p, w.hint)
  /\ op' = [op EXCEPT !.tile = Named(w.p, next.tile)]
  /\ UNCHANGED pc

Finished(w, next) == /\ ~next.more
                     /\ Ended(w.p, w.hint, next.tile) /\ pc' = "ended"

MovedOn(w, next) == GoOn(w, next) \/ Finished(w, next)

Visited(w) ==
  /\ undo' = undo \o w.undo
  /\ MovedOn(w, MoveOn(w.p, op.area, w.tile, ClipTop(plane, op.tile, op.area)))

(* The code would go on, with stitches that no longer fit.                 *)
Broken ==
  /\ pc' = "broken"
  /\ UNCHANGED <<plane, pl_hint, op, undo>>

Visit ==
  /\ pc = "painting"
  /\ LET w == VisitTile(Work(op.area, op.table, op.mark, op.tile))
     IN IF w.outside THEN Broken ELSE Visited(w)
  /\ UNCHANGED <<use, before, untidy>>

(* SigInterruptPending is seen before a tile is visited.                   *)
Interrupted ==
  /\ use \in Interrupts /\ pc = "painting"
  /\ Ended(plane, pl_hint, op.tile)
  /\ pc' = "interrupted" /\ untidy' = TRUE
  /\ UNCHANGED <<use, undo, before>>

(* What was painted plays no part in what is painted next.                 *)
Returned ==
  /\ pc \in {"ended", "interrupted"}
  /\ pc' = "rest" /\ op' = NoOp /\ undo' = <<>> /\ before' = ColoursOf(plane)
  /\ UNCHANGED <<use, plane, pl_hint, untidy>>

Next == \/ \E o \in use : DBPaintPlane0(o)
        \/ Visit
        \/ Interrupted
        \/ Returned

Spec == Init /\ [][Next]_vars

-----------------------------------------------------------------------------
(* Whatever has been painted, and between any two tiles of a painting, the *)
(* tiles are a partition of the plane, the stitches fit and the hint is    *)
(* one of them or the border below; and no visit splits a tile at a place  *)
(* outside it (tile.c:321), except in a plane that an earlier painting has *)
(* left untidy: dbPaintMerge depends on maximal strips, and in other       *)
(* planes the search may go back to a tile above the area.                 *)
PlaneSound ==
  /\ Sound(plane) /\ pl_hint \in Inner(plane) \union {Bottom}
  /\ pc = "broken" => untidy

(* Unless an earlier painting was interrupted or met a leftover mark, the  *)
(* plane is in maximal horizontal strips when none is going on: no tile    *)
(* could be longer to the left or right, and no two tiles of equal width   *)
(* lie above each other that could be one.                                 *)
Strips(p) ==
  \A t \in Inner(p) :
    /\ \A u \in RightNeighbours(p, t) : p[u].body # p[t].body
    /\ ~CanMergeY(p, t, p[t].rt)
MaximalStrips == pc # "painting" /\ ~untidy => Strips(plane)

(* The events recorded by a painting, complete or not, played backwards    *)
(* give the colours the plane had when it began.                           *)
SquaresOf(r) == (r.xbot .. r.xtop - 1) \X (r.ybot .. r.ytop - 1)
PlayedBack(colours) ==
  LET back[i \in 0 .. Len(undo)] ==     \* the colours before event i + 1
        IF i = Len(undo) THEN colours
        ELSE LET e == undo[i + 1] IN
             [sq \in Squares |-> IF sq \in SquaresOf(e) THEN e.oldtype ELSE back[i + 1][sq]]
  IN back[0]
UndoRestores == PlayedBack(ColoursOf(plane)) = before

(* Painting tile by tile is painting square by square: a painting that is  *)
(* not interrupted gives every square of its area its new type, each once. *)
(* The exception is one that comes upon a mark which an earlier painting   *)
(* has left outside its own area: it takes that tile for one it has done.  *)
Colouring == INSTANCE Painting WITH
  Square <- Squares, Colour <- Types, Area <- {SquaresOf(o.area) : o \in Paintings},
  Table <- {o.table : o \in Paintings},
  colour <- ColoursOf(plane), area <- SquaresOf(op.area), table <- op.table,
  painting <- pc \in {"painting", "broken"}, interrupted <- pc = "interrupted"

PaintsTheArea ==
  Colouring!Init /\ [][op.leftover \/ Colouring!Next]_(Colouring!vars)
=============================================================================
