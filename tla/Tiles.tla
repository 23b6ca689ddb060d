------------------------------- MODULE Tiles -------------------------------
(***************************************************************************)
(* Magic's corner-stitched planes (magic/tiles).  A plane is covered by    *)
(* rectangular tiles; a tile stores its lower left corner and four         *)
(* stitches, pointers to neighbours at two of its corners, and its upper   *)
(* right corner is read off the neighbours (TOP is BOTTOM of RT, RIGHT is  *)
(* LEFT of TR).  Splitting and joining tiles is walking along stitches and *)
(* turning those that point at the wrong tile.                             *)
(*                                                                         *)
(* A tile's address is a number.  Addresses cannot be observed except      *)
(* through pointers, so that Settled renames them after every step: a tile *)
(* inside the plane is named by its lower left corner, and two planes that *)
(* differ in addresses only are one state.                                 *)
(***************************************************************************)
EXTENDS Integers, FiniteSets, TLC

CONSTANTS Width, Height     \* the plane reaches from (0, 0) to (Width, Height)

ASSUME SizeAssumption == Width \in Nat \ {0} /\ Height \in Nat \ {0}

(* The border tiles, the tile beyond them and the value of no pointer.     *)
Left == -1
Bottom == -2
Right == -3
Top == -4
infinityTile == -5
BADTILE == -6
Freed == -7                 \* what a pointer to a freed tile is renamed to

Stitches == {"lb", "bl", "tr", "rt"}

(* Addresses an operation may allocate from.                               *)
Spare == Width * Height .. 3 * Width * Height + 4
TiAlloc(p) == CHOOSE n \in Spare : n \notin DOMAIN p

LEFT(p, t) == p[t].left
BOTTOM(p, t) == p[t].bottom
RIGHT(p, t) == LEFT(p, p[t].tr)
TOP(p, t) == BOTTOM(p, p[t].rt)

Inner(p) == {t \in DOMAIN p : t >= 0}

(* The tile where a walk from t along a stitch ends, and those it passes.  *)
Stop(p, t, along, While(_)) ==
  LET go[u \in DOMAIN p] == IF While(u) THEN go[p[u][along]] ELSE u IN go[t]

Passed(p, t, along, While(_)) ==
  LET met[u \in DOMAIN p] ==
        IF While(u) THEN {u} \union met[p[u][along]] ELSE {}
  IN met[t]

Turned(p, ts, stitch, to) ==
  [u \in DOMAIN p |-> IF u \in ts THEN [p[u] EXCEPT ![stitch] = to] ELSE p[u]]

-----------------------------------------------------------------------------
(* Every operation exists for x and for y, one the mirror image of the     *)
(* other about the diagonal: an axis says what the fields are called.      *)
X == [at |-> "left", across |-> "bottom",
      lb |-> "lb", bl |-> "bl", tr |-> "tr", rt |-> "rt"]
Y == [at |-> "bottom", across |-> "left",
      lb |-> "bl", bl |-> "lb", tr |-> "rt", rt |-> "tr"]

Near(a, p, t) == p[t][a.at]
Far(a, p, t) == p[p[t][a.tr]][a.at]

TilePoint(a, at, across) == [v \in {a.at, a.across} |-> IF v = a.at THEN at ELSE across]

NewTile(point, stitch) ==
  [left |-> point.left, bottom |-> point.bottom, lb |-> stitch.lb,
   bl |-> stitch.bl, tr |-> stitch.tr, rt |-> stitch.rt,
   body |-> 0, mark |-> FALSE]

(* TiSplitX and TiSplitY: the new tile n is the right (upper) part.  The   *)
(* loops along the right, the top and the bottom edge, in this order.      *)
FarEdge(a, p, t, n) ==
  [Turned(p, Passed(p, p[t][a.tr], a.lb, LAMBDA u : p[u][a.bl] = t), a.bl, n)
     EXCEPT ![t][a.tr] = n]

FarBeyond(a, p, t, at, n) ==
  LET Over(u) == p[u][a.at] >= at
  IN [Turned(p, Passed(p, p[t][a.rt], a.bl, Over), a.lb, n)
        EXCEPT ![t][a.rt] = Stop(p, p[t][a.rt], a.bl, Over)]

Under(a, p, t, at, n) ==
  LET first == Stop(p, p[t][a.lb], a.tr, LAMBDA u : Far(a, p, u) <= at)
  IN [Turned(p, Passed(p, first, a.tr, LAMBDA u : p[u][a.rt] = t), a.rt, n)
        EXCEPT ![n][a.lb] = first]

Split(a, p, t, at, n) ==
  LET born == (n :> [NewTile(TilePoint(a, at, p[t][a.across]), p[t])
                       EXCEPT ![a.bl] = t]) @@ p
  IN Under(a, FarBeyond(a, FarEdge(a, born, t, n), t, at, n), t, at, n)

TiSplitX(p, t, x) == Split(X, p, t, x, TiAlloc(p))
TiSplitY(p, t, y) == Split(Y, p, t, y, TiAlloc(p))

(* TiSplitX_Left and TiSplitY_Bottom: the new tile is the left (lower)     *)
(* part and takes over the lower left corner.  Left, top, bottom edge.     *)
NearEdge(a, p, t, n) ==
  Turned(p, Passed(p, p[n][a.bl], a.rt, LAMBDA u : p[u][a.tr] = t), a.tr, n)

NearBeyond(a, p, t, at, n) ==
  LET first == Stop(p, p[t][a.rt], a.bl, LAMBDA u : p[u][a.at] >= at)
  IN [Turned(p, Passed(p, first, a.bl, LAMBDA u : p[u][a.lb] = t), a.lb, n)
        EXCEPT ![n][a.rt] = first]

NearUnder(a, p, t, at, n) ==
  LET Before(u) == Far(a, p, u) <= at
  IN [Turned(p, Passed(p, p[t][a.lb], a.tr, Before), a.rt, n)
        EXCEPT ![t][a.lb] = Stop(p, p[t][a.lb], a.tr, Before)]

SplitLow(a, p, t, at, n) ==
  LET born == (n :> [NewTile(p[t], p[t]) EXCEPT ![a.tr] = t]) @@
              [p EXCEPT ![t][a.at] = at, ![t][a.bl] = n]
  IN NearUnder(a, NearBeyond(a, NearEdge(a, born, t, n), t, at, n), t, at, n)

TiSplitX_Left(p, t, x) == SplitLow(X, p, t, x, TiAlloc(p))
TiSplitY_Bottom(p, t, y) == SplitLow(Y, p, t, y, TiAlloc(p))

(* TiJoinX and TiJoinY: t1 stays, t2 is freed.  The stitches along top and *)
(* bottom are turned first, then those on the side away from t1.           *)
TiFree(p, t) == [u \in DOMAIN p \ {t} |-> p[u]]

JoinSides(a, p, t1, t2) ==
  LET over == Turned(p, Passed(p, p[t2][a.rt], a.bl, LAMBDA u : p[u][a.lb] = t2),
                     a.lb, t1)
  IN Turned(over, Passed(over, over[t2][a.lb], a.tr, LAMBDA u : over[u][a.rt] = t2),
            a.rt, t1)

JoinFar(a, p, t1, t2) ==
  [Turned(p, Passed(p, p[t2][a.tr], a.lb, LAMBDA u : p[u][a.bl] = t2), a.bl, t1)
     EXCEPT ![t1][a.tr] = p[t2][a.tr], ![t1][a.rt] = p[t2][a.rt]]

JoinNear_CornerKept(a, p, t1, t2) ==        \* tile1 keeps its corner
  [Turned(p, Passed(p, p[t2][a.bl], a.rt, LAMBDA u : p[u][a.tr] = t2), a.tr, t1)
     EXCEPT ![t1][a.bl] = p[t2][a.bl], ![t1][a.lb] = p[t2][a.lb]]

JoinNear(a, p, t1, t2) ==
  [Turned(p, Passed(p, p[t2][a.bl], a.rt, LAMBDA u : p[u][a.tr] = t2), a.tr, t1)
     EXCEPT ![t1][a.bl] = p[t2][a.bl], ![t1][a.lb] = p[t2][a.lb],
            ![t1][a.at] = p[t2][a.at]]

Join(a, p, t1, t2) ==
  LET sides == JoinSides(a, p, t1, t2)
  IN TiFree(IF p[t1][a.at] < p[t2][a.at] THEN JoinFar(a, sides, t1, t2)
                                         ELSE JoinNear(a, sides, t1, t2), t2)

TiJoinX(p, t1, t2) == Join(X, p, t1, t2)
TiJoinY(p, t1, t2) == Join(Y, p, t1, t2)
HintAfterJoin(hint, t1, t2) == IF hint = t2 THEN t1 ELSE hint

(* What TiJoinX (TiJoinY) asserts of its tiles: an entire common edge.     *)
ShareEdge(a, p, t1, t2) ==
  /\ p[t1][a.across] = p[t2][a.across]
  /\ p[p[t1][a.rt]][a.across] = p[p[t2][a.rt]][a.across]
  /\ Near(a, p, t1) = Far(a, p, t2) \/ Far(a, p, t1) = Near(a, p, t2)

-----------------------------------------------------------------------------
(* GOTOPOINT: up or down to the height of the point, then left or right,   *)
(* and up or down again whenever that left the height.                     *)
GoToHeight_UpToTop(p, t, y) ==              \* the top edge counts as inside
  IF y < BOTTOM(p, t) THEN Stop(p, t, "lb", LAMBDA u : y < BOTTOM(p, u))
                      ELSE Stop(p, t, "rt", LAMBDA u : y > TOP(p, u))
GoToHeight(p, t, y) ==
  IF y < BOTTOM(p, t) THEN Stop(p, t, "lb", LAMBDA u : y < BOTTOM(p, u))
                      ELSE Stop(p, t, "rt", LAMBDA u : y >= TOP(p, u))

GOTOPOINT(p, t, x, y) ==
  LET leftwards[u \in DOMAIN p] ==
        LET v == Stop(p, u, "bl", LAMBDA w : x < LEFT(p, w))
            w == Stop(p, v, "rt", LAMBDA z : y >= TOP(p, z))
        IN IF y < TOP(p, v) THEN v
           ELSE IF x < LEFT(p, w) THEN leftwards[w] ELSE w
      rightwards[u \in DOMAIN p] ==
        LET v == Stop(p, u, "tr", LAMBDA w : x >= RIGHT(p, w))
        IN IF x < RIGHT(p, u) THEN u
           ELSE IF y >= BOTTOM(p, v) THEN v
           ELSE rightwards[Stop(p, v, "lb", LAMBDA w : y < BOTTOM(p, w))]
      start == GoToHeight(p, t, y)
  IN IF x < LEFT(p, start) THEN leftwards[start] ELSE rightwards[start]

(* The plane of one tile that TiNewPlane and dbSetPlaneTile make.  The     *)
(* first tile is named by its corner (0, 0).                               *)
BorderTile(x, y, stitches) ==
  [NewTile([left |-> x, bottom |-> y], stitches) EXCEPT !.body = -1]

TiNewPlane ==
  (0 :> NewTile([left |-> 0, bottom |-> 0],
                [rt |-> Top, tr |-> Right, lb |-> Bottom, bl |-> Left])) @@
  (Bottom :> BorderTile(-1, -1,
                [rt |-> 0, tr |-> Right, lb |-> BADTILE, bl |-> Left])) @@
  (Top :> BorderTile(-1, Height,
                [rt |-> infinityTile, tr |-> Right, lb |-> 0, bl |-> Left])) @@
  (Left :> BorderTile(-1, -1,
                [rt |-> Top, tr |-> 0, lb |-> Bottom, bl |-> BADTILE])) @@
  (Right :> BorderTile(Width, -1,
                [rt |-> Top, tr |-> infinityTile, lb |-> Bottom, bl |-> 0])) @@
  (infinityTile :> BorderTile(Width + 1, Height + 1,
                [s \in Stitches |-> BADTILE]))

(* The names tiles have between two steps.                                 *)
Named(p, t) ==
  IF t < 0 THEN t
  ELSE IF t \in DOMAIN p THEN p[t].left + Width * p[t].bottom ELSE Freed

Settled(p) ==
  LET old == [n \in {Named(p, t) : t \in DOMAIN p} |->
                CHOOSE t \in DOMAIN p : Named(p, t) = n]
  IN [n \in DOMAIN old |->
        [f \in DOMAIN p[old[n]] |->
           IF f \in Stitches THEN Named(p, p[old[n]][f]) ELSE p[old[n]][f]]]

-----------------------------------------------------------------------------
(* What the stitches should be, told from where the tiles lie.             *)
Covers(p, t, x, y) ==
  LEFT(p, t) <= x /\ x < RIGHT(p, t) /\ BOTTOM(p, t) <= y /\ y < TOP(p, t)

Squares == (0 .. Width - 1) \X (0 .. Height - 1)

TileAt(p, x, y) ==
  IF x < 0 THEN Left ELSE IF x >= Width THEN Right
  ELSE IF y < 0 THEN Bottom ELSE IF y >= Height THEN Top
  ELSE CHOOSE t \in Inner(p) : Covers(p, t, x, y)

StitchesOf(p, t) ==
  [lb |-> TileAt(p, LEFT(p, t), BOTTOM(p, t) - 1),
   bl |-> TileAt(p, LEFT(p, t) - 1, BOTTOM(p, t)),
   tr |-> TileAt(p, RIGHT(p, t), TOP(p, t) - 1),
   rt |-> TileAt(p, RIGHT(p, t) - 1, TOP(p, t))]

(* No pointer leads to a freed tile, every square lies in one tile, every  *)
(* stitch points at the tile at its corner.                                *)
NothingFreed(p) ==
  \A t \in DOMAIN p, s \in Stitches : p[t][s] \in DOMAIN p \union {BADTILE}
Partition(p) ==
  \A sq \in Squares : Cardinality({t \in Inner(p) : Covers(p, t, sq[1], sq[2])}) = 1
Stitched(p) ==
  /\ \A t \in Inner(p) : StitchesOf(p, t) = [s \in Stitches |-> p[t][s]]
  /\ p[Bottom].rt = TileAt(p, Width - 1, 0)
  /\ p[Top].lb = TileAt(p, 0, Height - 1)
  /\ p[Left].tr = TileAt(p, 0, Height - 1)
  /\ p[Right].bl = TileAt(p, Width - 1, 0)
Sound(p) == NothingFreed(p) /\ Partition(p) /\ Stitched(p)

=============================================================================
