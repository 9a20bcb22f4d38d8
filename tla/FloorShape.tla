----------------------------- MODULE FloorShape -----------------------------
(***************************************************************************)
(* The shape of a floor whose room is carved by cutouts, translated from   *)
(* floorShape.ts and from the cutout snapping of coordinateHelpers.ts: the *)
(* room's edges and the cutouts' edges cut the plane into cells, a cell in *)
(* a cutout is carved away, a narrow floor sliver between two carved cells *)
(* is carved too, and a wall runs along every edge between floor and       *)
(* non-floor, outside the floor.                                           *)
(***************************************************************************)
EXTENDS LayoutGeometry

CONSTANTS
    CUTOUT_SNAP_DISTANCE,     \* coordinateHelpers.ts: 28
    CUTOUT_NEIGHBOR_SNAP,     \* floorShape.ts, the threshold's default: 14
    CUTOUT_BRIDGE_GAP         \* floorShape.ts: 48

ASSUME ShapeAssumption ==
    {CUTOUT_SNAP_DISTANCE, CUTOUT_NEIGHBOR_SNAP, CUTOUT_BRIDGE_GAP} \subseteq Nat

\* The place of an edge that is within reach of the near wall, or of the far one.
FlushWithin(at, len, low, high, last) ==
    CASE at - low <= CUTOUT_SNAP_DISTANCE -> low
      [] at - low > CUTOUT_SNAP_DISTANCE /\ high - (at + len) <= CUTOUT_SNAP_DISTANCE -> last
      [] OTHER -> at

\* The place of the first of the least of some numbers.
FirstLeast(gaps) ==
    CHOOSE i \in DOMAIN gaps :
       \A j \in DOMAIN gaps : gaps[i] < gaps[j] \/ (gaps[i] = gaps[j] /\ i <= j)

\* A cutout's edge near a wall goes flush with it, and one that would touch no
\* wall goes to the nearest: left, right, top, bottom.
snapCutoutToBoundary(o, room) ==
    LET right == room.x + room.w
        bottom == room.y + room.h
        maxX == Max({room.x, right - o.width})
        maxY == Max({room.y, bottom - o.height})
        cx == clamp(o.x, room.x, maxX)
        cy == clamp(o.y, room.y, maxY)
        nx == FlushWithin(cx, o.width, room.x, right, maxX)
        ny == FlushWithin(cy, o.height, room.y, bottom, maxY)
        gaps == <<nx - room.x, right - (nx + o.width),
                  ny - room.y, bottom - (ny + o.height)>>
        side == FirstLeast(gaps)
    IN  CASE gaps[side] <= 0 -> [o EXCEPT !.x = nx, !.y = ny]
          [] gaps[side] > 0 /\ side = 1 -> [o EXCEPT !.x = room.x, !.y = ny]
          [] gaps[side] > 0 /\ side = 2 -> [o EXCEPT !.x = maxX, !.y = ny]
          [] gaps[side] > 0 /\ side = 3 -> [o EXCEPT !.x = nx, !.y = room.y]
          [] OTHER -> [o EXCEPT !.x = nx, !.y = maxY]

getCutoutRects(objects) ==
    LET cutouts == {i \in DOMAIN objects : objects[i].type = "cutout"}
    IN  [i \in cutouts |-> Rect(objects[i].x, objects[i].y,
                                objects[i].width, objects[i].height)]

\* Abut or align with the nearest edge of another cutout, each axis by itself.
snapCutoutToNeighbors(o, others) ==
    LET Edges(lo, len, own) == <<lo + len, lo - own, lo, lo + len - own>>
        xs == {<<4 * i + k, Edges(others[i].x, others[i].w, o.width)[k]>> :
                  i \in DOMAIN others, k \in 1 .. 4}
        ys == {<<4 * i + k, Edges(others[i].y, others[i].h, o.height)[k]>> :
                  i \in DOMAIN others, k \in 1 .. 4}
    IN  [o EXCEPT !.x = Nearest(xs, @, CUTOUT_NEIGHBOR_SNAP),
                  !.y = Nearest(ys, @, CUTOUT_NEIGHBOR_SNAP)]

\* The part of every cutout that lies in the room; a cutout outside is dropped.
clipCutoutsToBoundary(room, cutouts) ==
    LET Clip(c) == LET x1 == Max({c.x, room.x})
                       y1 == Max({c.y, room.y})
                   IN  Rect(x1, y1, Min({c.x + c.w, room.x + room.w}) - x1,
                                    Min({c.y + c.h, room.y + room.h}) - y1)
        left == {i \in DOMAIN cutouts : Clip(cutouts[i]).w > 0 /\ Clip(cutouts[i]).h > 0}
    IN  [i \in left |-> Clip(cutouts[i])]

\* The cells <<column, row>> between the edges xs and ys that a cutout covers.
CutCells(xs, ys, cutouts) ==
    LET Cell(i, j) == Rect(xs[i], ys[j], xs[i + 1] - xs[i], ys[j + 1] - ys[j])
    IN  {cell \in (1 .. Len(xs) - 1) \X (1 .. Len(ys) - 1) :
            \E c \in cutouts : Inside(Cell(cell[1], cell[2]), c)}

\* A narrow inner column is carved in the rows where both its neighbours are.
BridgeCol(xs, carved, i) ==
    IF i \in {1, Len(xs) - 1} \/ xs[i + 1] - xs[i] > CUTOUT_BRIDGE_GAP THEN carved
    ELSE carved \cup {<<i, c[2]>> : c \in {k \in carved : /\ k[1] = i - 1
                                                        /\ <<i + 1, k[2]>> \in carved}}

BridgeRow(ys, carved, j) ==
    IF j \in {1, Len(ys) - 1} \/ ys[j + 1] - ys[j] > CUTOUT_BRIDGE_GAP THEN carved
    ELSE carved \cup {<<c[1], j>> : c \in {k \in carved : /\ k[2] = j - 1
                                                        /\ <<k[1], j + 1>> \in carved}}

\* Columns before rows; each column, and each row, sees what the ones before it
\* were given.
GridOf(xs, ys, cutouts) ==
    LET bridged == FoldLeft(LAMBDA carved, i : BridgeCol(xs, carved, i),
                            CutCells(xs, ys, cutouts), [i \in 1 .. Len(xs) - 1 |-> i])
    IN  [xs |-> xs, ys |-> ys,
         carved |-> FoldLeft(LAMBDA carved, j : BridgeRow(ys, carved, j),
                             bridged, [j \in 1 .. Len(ys) - 1 |-> j])]

\* The elements of a set of numbers in their order.
Sorted(S) ==
    [n \in 1 .. Cardinality(S) |-> CHOOSE v \in S : Cardinality({u \in S : u < v}) = n - 1]

\* The cell grid: the sorted edges on either axis and the cells that are carved.
buildCarveGrid(room, cutouts) ==
    LET clipped == Range(clipCutoutsToBoundary(room, cutouts))
    IN  GridOf(Sorted({room.x, room.x + room.w} \cup (UNION {{c.x, c.x + c.w} : c \in clipped})),
               Sorted({room.y, room.y + room.h} \cup (UNION {{c.y, c.y + c.h} : c \in clipped})),
               clipped)

CellRect(grid, i, j) ==
    Rect(grid.xs[i], grid.ys[j], grid.xs[i + 1] - grid.xs[i], grid.ys[j + 1] - grid.ys[j])

\* The cells that are floor, <<column, row>>.
FloorCells(grid) == ((1 .. Len(grid.xs) - 1) \X (1 .. Len(grid.ys) - 1)) \ grid.carved

\* The runs of an edge line: maximal intervals with the same side, +1 or -1;
\* side[k] = 0 is an edge without a wall.
Runs(side) ==
    LET IsRun(from, to) ==
            /\ from <= to
            /\ \A k \in from .. to : side[k] = side[from] /\ side[k] # 0
            /\ from - 1 \in DOMAIN side => side[from - 1] # side[from]
            /\ to + 1 \in DOMAIN side => side[to + 1] # side[to]
    IN  {run \in (DOMAIN side) \X (DOMAIN side) : IsRun(run[1], run[2])}

\* Mutated: the side the floor is on is forgotten.
EdgeOnly(before, after) == IF before = after THEN 0 ELSE 1

\* The side of an edge its floor is on: after it, before it, or both or neither.
SideOf(before, after) == CASE before = after -> 0
                           [] after /\ ~before -> 1
                           [] OTHER -> -1

\* The sides of the edges of an upright line, row by row, and of a level one.
VSides(grid, floor, i) ==
    [j \in 1 .. Len(grid.ys) - 1 |-> SideOf(<<i - 1, j>> \in floor, <<i, j>> \in floor)]
HSides(grid, floor, j) ==
    [i \in 1 .. Len(grid.xs) - 1 |-> SideOf(<<i, j - 1>> \in floor, <<i, j>> \in floor)]

FloorAt(grid, floor, px, py) ==
    \E cell \in floor : /\ grid.xs[cell[1]] <= px /\ px < grid.xs[cell[1] + 1]
                        /\ grid.ys[cell[2]] <= py /\ py < grid.ys[cell[2] + 1]

\* The wall of a run on an upright line spans the run exactly.
VWall(grid, i, run, side, t) ==
    Rect(IF side = 1 THEN grid.xs[i] - t ELSE grid.xs[i], grid.ys[run[1]],
         t, grid.ys[run[2] + 1] - grid.ys[run[1]])

\* That of a run on a level line reaches a wall's thickness further at an end whose
\* corner square is not floor.
HWall(grid, floor, j, run, side, t) ==
    LET from == grid.xs[run[1]]
        to == grid.xs[run[2] + 1]
        band == IF side = 1 THEN grid.ys[j] - t \div 2 ELSE grid.ys[j] + t \div 2
        xL == IF FloorAt(grid, floor, from - t \div 2, band) THEN from ELSE from - t
        xR == IF FloorAt(grid, floor, to + t \div 2, band) THEN to ELSE to + t
    IN  Rect(xL, IF side = 1 THEN grid.ys[j] - t ELSE grid.ys[j], xR - xL, t)

\* The walls on the edges of a grid, numbered in the order they are made: line after
\* line, the upright ones first, and along the line.
Lines(grid) == Len(grid.xs) + Len(grid.ys)
WallNumber(grid, line, from) == line * Lines(grid) + from

UprightWalls(grid, floor, t, i) ==
    {<<WallNumber(grid, i, run[1]), VWall(grid, i, run, VSides(grid, floor, i)[run[1]], t)>> :
        run \in Runs(VSides(grid, floor, i))}
LevelWalls(grid, floor, t, j) ==
    {<<WallNumber(grid, Len(grid.xs) + j, run[1]),
       HWall(grid, floor, j, run, HSides(grid, floor, j)[run[1]], t)>> :
        run \in Runs(HSides(grid, floor, j))}

WallsOfGrid(grid, floor, t) ==
    (UNION {UprightWalls(grid, floor, t, i) : i \in DOMAIN grid.xs})
    \cup (UNION {LevelWalls(grid, floor, t, j) : j \in DOMAIN grid.ys})

FramedGrid(grid, t) == WallsOfGrid(grid, FloorCells(grid), t)

computeFloorWallSegments(room, cutouts, t) == FramedGrid(buildCarveGrid(room, cutouts), t)

\* The carved walls as hosts of doors and windows.
getCarvedBoundaryWalls(room, cutouts) ==
    {LET r == w[2]
         level == r.w >= r.h
     IN  <<w[1], SnapWall(r.x + r.w \div 2, r.y + r.h \div 2,
                          IF level THEN r.w ELSE r.h, IF level THEN r.h ELSE r.w,
                          IF level THEN 0 ELSE 90)>> :
        w \in computeFloorWallSegments(room, cutouts, BOUNDARY_WALL_THICKNESS)}

\* The numbered hosts of a layout: the room's walls, or the carved ones when cutouts
\* are given, and then the user's.
getSnapWalls(objects, room, cutouts) ==
    LET Numbered(walls, last) == {<<last + i, walls[i]>> : i \in DOMAIN walls}
        grid == buildCarveGrid(room, cutouts)
    IN  IF DOMAIN cutouts = {}
        THEN Numbered(getBoundaryWalls(room), 0) \cup Numbered(getUserWalls(objects), 4)
        ELSE getCarvedBoundaryWalls(room, cutouts)
             \cup Numbered(getUserWalls(objects), WallNumber(grid, Lines(grid) + 1, 0))

\* Outside every edge of a floor cell that has no floor beyond it there is wall, a
\* full thickness of it.
LeavesNoGap(walls, grid, floor, t) ==
    LET Beside(cell, r) ==
            {<<<<cell[1] - 1, cell[2]>>, Rect(r.x - t, r.y, t, r.h)>>,
             <<<<cell[1] + 1, cell[2]>>, Rect(r.x + r.w, r.y, t, r.h)>>,
             <<<<cell[1], cell[2] - 1>>, Rect(r.x, r.y - t, r.w, t)>>,
             <<<<cell[1], cell[2] + 1>>, Rect(r.x, r.y + r.h, r.w, t)>>}
    IN  \A cell \in floor : \A side \in Beside(cell, CellRect(grid, cell[1], cell[2])) :
           side[1] \in floor \/ \E wall \in walls : Inside(side[2], wall[2])

\* No wall lies on the floor.
CoversNoFloor(walls, grid, floor) ==
    \A cell \in floor, wall \in walls : ~Overlap(wall[2], CellRect(grid, cell[1], cell[2]))

\* No line of the grid is nearer than t to the next.
Broad(grid, t) == /\ \A i \in 1 .. Len(grid.xs) - 1 : grid.xs[i + 1] - grid.xs[i] >= t
                  /\ \A j \in 1 .. Len(grid.ys) - 1 : grid.ys[j + 1] - grid.ys[j] >= t

=============================================================================
