--------------------------- MODULE LayoutGeometry ---------------------------
(***************************************************************************)
(* The plane geometry the floor layout editor and its tidy engine share    *)
(* (src/frontend/src/features/layoutObjects/utils): the footprint of a     *)
(* rotated object, the clamps that keep it in the room, snapping to the    *)
(* grid and to neighbours, what becomes of a drop on top of another        *)
(* object, and the sliding of doors and windows along a wall.              *)
(*                                                                         *)
(* An object is a record id, type, x, y, width, height, rotation in whole  *)
(* pixels, stored as the API stores it: the top left corner of the box     *)
(* BEFORE it is turned about its centre.  A layout is the sequence of its  *)
(* objects in the order of the page's array, for several of the functions  *)
(* settle a tie by that order.  A list that is filtered keeps its numbers: *)
(* it is a function on the positions that are left, and what is gathered   *)
(* from it to choose from is a set of pairs <<number, candidate>>.  Turns  *)
(* are quarter turns, so sines and cosines are 0, 1 and -1 (180 and 270    *)
(* degrees have the footprints of 0 and 90); an object whose width and     *)
(* height differ by an even number has a footprint on whole pixels.        *)
(***************************************************************************)
EXTENDS Integers, SequencesExt

CONSTANTS
    MIN_OBJECT_SIZE,          \* coordinateHelpers.ts: 10
    NEIGHBOR_SNAP_THRESHOLD,  \* objectSnapping.ts: 14
    NEIGHBOR_PROXIMITY,       \* objectSnapping.ts: 40
    HOVER_TOLERANCE,          \* wallPlacement.ts: 14
    BOUNDARY_WALL_THICKNESS   \* coordinateHelpers.ts: 18

ASSUME GeometryAssumption ==
    /\ {NEIGHBOR_SNAP_THRESHOLD, NEIGHBOR_PROXIMITY, HOVER_TOLERANCE} \subseteq Nat
    /\ MIN_OBJECT_SIZE \in Nat \ {0}
    /\ BOUNDARY_WALL_THICKNESS \in Nat \ {0, 1}

Rect(x, y, w, h) == [x |-> x, y |-> y, w |-> w, h |-> h]

Dist(a, b) == IF a >= b THEN a - b ELSE b - a

clamp(value, min, max) == Min({Max({value, min}), max})

\* The first of the numbered candidates that is nearest to v, if one is nearer
\* than limit; v itself otherwise.
Nearest(candidates, v, limit) ==
    LET near == {c \in candidates : Dist(c[2], v) < limit}
        Best(c) == \A d \in near :
                      \/ Dist(c[2], v) < Dist(d[2], v)
                      \/ Dist(c[2], v) = Dist(d[2], v) /\ c[1] <= d[1]
    IN  IF near = {} THEN v ELSE (CHOOSE c \in near : Best(c))[2]

(***************************************************************************)
(* Footprints                                                              *)
(***************************************************************************)
IsQuarter(rotation) == rotation % 180 = 90

\* The box an object covers on the screen: its stored box turned about its centre.
rotatedRectExtent(x, y, width, height, rotation) ==
    IF IsQuarter(rotation)
    THEN Rect(x + (width - height) \div 2, y + (height - width) \div 2, height, width)
    ELSE Rect(x, y, width, height)

boxOf(o) == rotatedRectExtent(o.x, o.y, o.width, o.height, o.rotation)

\* The stored corner of an object whose footprint has its corner at x, y.
StoredAt(o, x, y) == LET b == boxOf(o) IN [o EXCEPT !.x = o.x + x - b.x,
                                                    !.y = o.y + y - b.y]

Overlap(a, b) == /\ a.x < b.x + b.w
                 /\ b.x < a.x + a.w
                 /\ a.y < b.y + b.h
                 /\ b.y < a.y + a.h

Inside(a, room) == /\ room.x <= a.x /\ a.x + a.w <= room.x + room.w
                   /\ room.y <= a.y /\ a.y + a.h <= room.y + room.h

\* A box that does not fit is put against the near edge.
clampBox(a, room) ==
    [a EXCEPT !.x = clamp(a.x, room.x, Max({room.x, room.x + room.w - a.w})),
              !.y = clamp(a.y, room.y, Max({room.y, room.y + room.h - a.h}))]

clampObjectToBoundary(o, room) ==
    LET b == clampBox(boxOf(o), room) IN StoredAt(o, b.x, b.y)

\* The stored width and height are cut to the room's, whatever the rotation.
clampObjectTransformToBoundary(o, room) ==
    clampObjectToBoundary([o EXCEPT !.width  = Min({o.width, room.w}),
                                    !.height = Min({o.height, room.h})], room)

\* Math.round: halves go up.
snapToGrid(value, gridSize) == ((2 * value + gridSize) \div (2 * gridSize)) * gridSize

snapSizeToGrid(o, gridSize) ==
    [o EXCEPT !.width  = Max({MIN_OBJECT_SIZE, snapToGrid(o.width, gridSize)}),
              !.height = Max({MIN_OBJECT_SIZE, snapToGrid(o.height, gridSize)})]

(***************************************************************************)
(* Dropping an object among others                                         *)
(***************************************************************************)
IsOpening(type) == type \in {"door", "window"}

\* A wall carries its own doors and windows; everything else blocks everything.
blocksDrag(draggedType, obstacleType) ==
    ~ (draggedType = "wall" /\ IsOpening(obstacleType))

Others(objects, id) == Restrict(objects, {i \in DOMAIN objects : objects[i].id # id})

Obstacles(objects, dragged) ==
    Restrict(objects, {i \in DOMAIN objects : /\ objects[i].id # dragged.id
                                             /\ blocksDrag(dragged.type, objects[i].type)})

\* Align the footprint with the objects close by on both axes: left, right or
\* centre with theirs, or flush after or before them; each axis by itself.
snapToNeighbors(dragged, objects) ==
    LET b == boxOf(dragged)
        p == NEIGHBOR_PROXIMITY
        Near(n) == Overlap(b, Rect(n.x - p - 1, n.y - p - 1, n.w + 2 * p + 2, n.h + 2 * p + 2))
        near == {i \in DOMAIN Others(objects, dragged.id) : Near(boxOf(objects[i]))}
        Edges(lo, len, own) == <<lo, lo + len - own, lo + (len - own) \div 2,
                                 lo + len, lo - own>>
        xs == {<<5 * i + k, Edges(boxOf(objects[i]).x, boxOf(objects[i]).w, b.w)[k]>> :
                  i \in near, k \in 1 .. 5}
        ys == {<<5 * i + k, Edges(boxOf(objects[i]).y, boxOf(objects[i]).h, b.h)[k]>> :
                  i \in near, k \in 1 .. 5}
        limit == NEIGHBOR_SNAP_THRESHOLD + 1
    IN  StoredAt(dragged, Nearest(xs, b.x, limit), Nearest(ys, b.y, limit))

overlapsBlockingObject(dragged, objects) ==
    \E i \in DOMAIN Obstacles(objects, dragged) :
       Overlap(boxOf(dragged), boxOf(Obstacles(objects, dragged)[i]))

\* Move box a out of box c by the smallest of the four ways: left, right, up, down.
PushOut(a, c) ==
    LET left  == a.x + a.w - c.x
        right == c.x + c.w - a.x
        up    == a.y + a.h - c.y
        down  == c.y + c.h - a.y
        least == Min({left, right, up, down})
    IN  CASE least = left -> [a EXCEPT !.x = c.x - a.w]
          [] least # left /\ least = right -> [a EXCEPT !.x = c.x + c.w]
          [] least \notin {left, right} /\ least = up -> [a EXCEPT !.y = c.y - a.h]
          [] OTHER -> [a EXCEPT !.y = c.y + c.h]

\* One pass pushes the box out of the obstacle it covers most; eight at most.
resolveOverlap(dragged, objects) ==
    LET obstacles == Obstacles(objects, dragged)
        boxes == [i \in DOMAIN obstacles |-> boxOf(obstacles[i])]
        Area(a, c) == (Min({a.x + a.w, c.x + c.w}) - Max({a.x, c.x}))
                      * (Min({a.y + a.h, c.y + c.h}) - Max({a.y, c.y}))
        Pass(a) ==
            LET hit == {i \in DOMAIN boxes : Overlap(a, boxes[i])}
                Worst(i) == \A j \in hit :
                               \/ Area(a, boxes[i]) > Area(a, boxes[j])
                               \/ Area(a, boxes[i]) = Area(a, boxes[j]) /\ i <= j
            IN  IF hit = {} THEN a ELSE PushOut(a, boxes[CHOOSE i \in hit : Worst(i)])
        after[n \in 0 .. 8] == IF n = 0 THEN boxOf(dragged) ELSE Pass(after[n - 1])
    IN  StoredAt(dragged, after[8].x, after[8].y)

\* Where a drop ends: kept when free, pushed aside from one obstacle, and
\* "reverted" when it covers two, or when the push ends on another.
resolveDrop(dragged, objects) ==
    LET obstacles == Obstacles(objects, dragged)
        hit == {i \in DOMAIN obstacles : Overlap(boxOf(dragged), boxOf(obstacles[i]))}
        pushed == resolveOverlap(dragged, objects)
    IN  CASE hit = {} -> [object |-> dragged, reverted |-> FALSE]
          [] Cardinality(hit) >= 2 -> [object |-> dragged, reverted |-> TRUE]
          [] OTHER -> IF overlapsBlockingObject(pushed, objects)
                      THEN [object |-> dragged, reverted |-> TRUE]
                      ELSE [object |-> pushed, reverted |-> FALSE]

(***************************************************************************)
(* Walls, and the doors and windows on them                                *)
(***************************************************************************)
SnapWall(cx, cy, length, thickness, angle) ==
    [cx |-> cx, cy |-> cy, length |-> length, thickness |-> thickness, angle |-> angle]

getBoundaryWalls(room) ==
    LET t == BOUNDARY_WALL_THICKNESS
        midX == room.x + room.w \div 2
        midY == room.y + room.h \div 2
    IN  << SnapWall(midX, room.y - t \div 2, room.w, t, 0),
           SnapWall(midX, room.y + room.h + t \div 2, room.w, t, 0),
           SnapWall(room.x - t \div 2, midY, room.h, t, 90),
           SnapWall(room.x + room.w + t \div 2, midY, room.h, t, 90) >>

CenterX(o) == o.x + o.width \div 2
CenterY(o) == o.y + o.height \div 2

userWallToSnapWall(o) ==
    IF o.width >= o.height
    THEN SnapWall(CenterX(o), CenterY(o), o.width, o.height, o.rotation)
    ELSE SnapWall(CenterX(o), CenterY(o), o.height, o.width, o.rotation + 90)

getUserWalls(objects) ==
    LET walls == {i \in DOMAIN objects : objects[i].type = "wall"}
    IN  [i \in walls |-> userWallToSnapWall(objects[i])]

\* Coordinates of a point along and across a wall; a wall that is turned twice
\* (180) runs the other way.
projectAlong(wall, x, y) ==
    CASE wall.angle % 360 = 0   -> x - wall.cx
      [] wall.angle % 360 = 90  -> y - wall.cy
      [] wall.angle % 360 = 180 -> wall.cx - x
      [] OTHER                  -> wall.cy - y
projectPerp(wall, x, y) == IF IsQuarter(wall.angle) THEN Dist(x, wall.cx)
                                                    ELSE Dist(y, wall.cy)
pointOnWall(wall, along) ==
    CASE wall.angle % 360 = 0   -> <<wall.cx + along, wall.cy>>
      [] wall.angle % 360 = 90  -> <<wall.cx, wall.cy + along>>
      [] wall.angle % 360 = 180 -> <<wall.cx - along, wall.cy>>
      [] OTHER                  -> <<wall.cx, wall.cy - along>>

\* The point is in the wall's band, widened by slack on every side.
OnWall(wall, x, y, slack) ==
    /\ projectPerp(wall, x, y) <= wall.thickness \div 2 + slack
    /\ Dist(projectAlong(wall, x, y), 0) <= wall.length \div 2 + slack

\* Of the numbered walls the nearest to the point by the distance across: none, or
\* the first.
nearestWall(walls, x, y) ==
    LET near == {w \in walls : OnWall(w[2], x, y, HOVER_TOLERANCE)}
        Across(w) == projectPerp(w[2], x, y)
        Best(w) == \A v \in near : \/ Across(w) < Across(v)
                                   \/ Across(w) = Across(v) /\ w[1] <= v[1]
    IN  IF near = {} THEN <<>> ELSE <<(CHOOSE w \in near : Best(w))[2]>>

\* The doors and windows on a wall.
attachedOpenings(wall, objects) ==
    {o \in ToSet(objects) : /\ IsOpening(o.type)
                            /\ OnWall(userWallToSnapWall(wall), CenterX(o), CenterY(o), 4)}

\* What the other doors and windows occupy of a wall, as <<from, to>>.
openingsOnWall(wall, objects, id) ==
    {LET along == projectAlong(wall, CenterX(o), CenterY(o))
     IN  <<along - o.width \div 2, along + o.width \div 2>> :
        o \in {p \in Range(Others(objects, id)) :
                  IsOpening(p.type) /\ OnWall(wall, CenterX(p), CenterY(p), 2)}}

isAlongFree(along, halfLen, intervals) ==
    \A iv \in intervals : along <= iv[1] - halfLen \/ along >= iv[2] + halfLen

\* Mutated: the gap is looked for where the opening is pulled to.
GapAtTarget(along, halfLen, wallHalfLen, intervals, anchor) ==
    LET lo == Max({halfLen - wallHalfLen}
                  \cup {iv[2] + halfLen : iv \in {i \in intervals : i[2] + halfLen <= along}})
        hi == Min({wallHalfLen - halfLen}
                  \cup {iv[1] - halfLen : iv \in {i \in intervals : i[1] - halfLen >= along}})
    IN  IF lo > hi THEN anchor ELSE clamp(along, lo, hi)

\* Stay on the wall and in the gap between the neighbours of the anchor.
clampAlongWithinGap(along, halfLen, wallHalfLen, intervals, anchor) ==
    LET lo == Max({halfLen - wallHalfLen}
                  \cup {iv[2] + halfLen : iv \in {i \in intervals : i[2] + halfLen <= anchor}})
        hi == Min({wallHalfLen - halfLen}
                  \cup {iv[1] - halfLen :
                           iv \in {i \in intervals : /\ i[2] + halfLen > anchor
                                                     /\ i[1] - halfLen >= anchor}})
    IN  CASE halfLen > wallHalfLen -> 0
          [] halfLen <= wallHalfLen /\ lo > hi -> anchor
          [] OTHER -> clamp(along, lo, hi)

\* A door or window slides along its host; <<>> when it is on no wall.
constrainWallObjectMove(o, rawX, rawY, objects, walls) ==
    LET host == nearestWall(walls, CenterX(o), CenterY(o))
        wall == host[1]
        along == clampAlongWithinGap(
                    projectAlong(wall, rawX + o.width \div 2, rawY + o.height \div 2),
                    o.width \div 2, wall.length \div 2,
                    openingsOnWall(wall, objects, o.id),
                    projectAlong(wall, CenterX(o), CenterY(o)))
        p == pointOnWall(wall, along)
    IN  IF host = <<>> THEN <<>>
        ELSE <<[o EXCEPT !.x = p[1] - o.width \div 2, !.y = p[2] - o.height \div 2]>>

\* A door or window on the pointer's wall, its whole length on the wall where it
\* fits; <<>> when the pointer is over no wall.
snapToWall(o, pointerX, pointerY, walls) ==
    LET host == nearestWall(walls, pointerX, pointerY)
        wall == host[1]
        free == Max({0, (wall.length - o.width) \div 2})
        p == pointOnWall(wall, clamp(projectAlong(wall, pointerX, pointerY), -free, free))
    IN  IF host = <<>> THEN <<>>
        ELSE <<[o EXCEPT !.x = p[1] - o.width \div 2, !.y = p[2] - wall.thickness \div 2,
                         !.height = wall.thickness, !.rotation = wall.angle]>>

\* A door or window as it is drawn: flush on its wall and as thick as the wall.
alignOpeningToWall(o, walls) ==
    LET host == nearestWall(walls, CenterX(o), CenterY(o))
        wall == host[1]
        length == Max({o.width, o.height})
        p == pointOnWall(wall, projectAlong(wall, CenterX(o), CenterY(o)))
    IN  IF ~IsOpening(o.type) \/ host = <<>> THEN o
        ELSE [o EXCEPT !.x = p[1] - length \div 2, !.y = p[2] - wall.thickness \div 2,
                       !.width = length, !.height = wall.thickness, !.rotation = wall.angle]

\* A resize of a door or window changes only its length, within the gap it is in.
resizeOpeningOnWall(o, wall, centerX, centerY, proposedLen, objects) ==
    LET anchor == projectAlong(wall, CenterX(o), CenterY(o))
        taken == openingsOnWall(wall, objects, o.id)
        segLo == Max({-(wall.length \div 2)}
                     \cup {iv[2] : iv \in {i \in taken : i[2] <= anchor}})
        segHi == Min({wall.length \div 2}
                     \cup {iv[1] : iv \in {i \in taken : i[2] > anchor /\ i[1] >= anchor}})
        along == projectAlong(wall, centerX, centerY)
        lo == Max({segLo, along - proposedLen \div 2})
        hi == Min({segHi, along + proposedLen \div 2})
        len == IF hi - lo < MIN_OBJECT_SIZE
               THEN Min({MIN_OBJECT_SIZE, segHi - segLo}) ELSE hi - lo
        mid == IF hi - lo < MIN_OBJECT_SIZE
               THEN Max({segLo + len \div 2, Min({segHi - len \div 2, (lo + hi) \div 2})})
               ELSE (lo + hi) \div 2
        p == pointOnWall(wall, mid)
    IN  [o EXCEPT !.x = p[1] - len \div 2, !.y = p[2] - wall.thickness \div 2,
                  !.width = len, !.height = wall.thickness, !.rotation = wall.angle]

\* A vector turned by quarters.
Rotated(x, y, rotation) ==
    CASE rotation % 360 = 90  -> <<-y, x>>
      [] rotation % 360 = 180 -> <<-x, -y>>
      [] rotation % 360 = 270 -> <<y, -x>>
      [] OTHER                -> <<x, y>>

\* A wall's transform takes a mounted opening along: its centre and size, seen from
\* the wall before it is turned, are scaled with the wall and turned with it.
transformOpeningWithWall(old, o, new) ==
    LET local == Rotated(CenterX(o) - CenterX(old), CenterY(o) - CenterY(old), -old.rotation)
        lx == (local[1] * new.width) \div old.width
        ly == (local[2] * new.height) \div old.height
        offset == Rotated(lx, ly, new.rotation)
        w == (o.width * new.width) \div old.width
        h == (o.height * new.height) \div old.height
    IN  [o EXCEPT !.x = CenterX(new) + offset[1] - w \div 2,
                  !.y = CenterY(new) + offset[2] - h \div 2,
                  !.width = w, !.height = h,
                  !.rotation = @ + new.rotation - old.rotation]

\* Mutated: an opening may reach past the end of its wall.
PastTheEnd(along, free) == along

WithinWall(along, free) == clamp(along, -free, free)

\* A resize of the room takes the doors and windows on its four walls along:
\* each keeps its share of the wall's length and stays on the new wall.
carryBoundaryOpeningsOnResize(old, new, objects) ==
    LET oldWalls == getBoundaryWalls(old)
        Hosts(o) == {i \in 1 .. 4 : OnWall(oldWalls[i], CenterX(o), CenterY(o), 4)}
        Across(o, i) == projectPerp(oldWalls[i], CenterX(o), CenterY(o))
        Host(o) == CHOOSE i \in Hosts(o) : \A j \in Hosts(o) :
                      Across(o, i) < Across(o, j) \/ (Across(o, i) = Across(o, j) /\ i <= j)
        Carried(o) ==
            LET from == oldWalls[Host(o)]
                to == getBoundaryWalls(new)[Host(o)]
                scaled == (projectAlong(from, CenterX(o), CenterY(o)) * to.length)
                          \div from.length
                free == Max({0, (to.length - o.width) \div 2})
                p == pointOnWall(to, WithinWall(scaled, free))
            IN  [o EXCEPT !.x = p[1] - o.width \div 2, !.y = p[2] - o.height \div 2]
    IN  {Carried(o) : o \in {p \in ToSet(objects) : IsOpening(p.type) /\ Hosts(p) # {}}}

=============================================================================
