---------------------------- MODULE EnhanceTidy ----------------------------
(***************************************************************************)
(* The tidy engine of the layout editor (enhanceNormalize.ts), the plan    *)
(* made of its result (computeEnhancePlan.ts, buildTidySuggestions.ts) and *)
(* the choice the user makes among the plan's suggestions                  *)
(* (useEnhanceTidy.ts).  The engine is sequential: it is a state machine   *)
(* here, one action per object or group that a pass goes over, so that the *)
(* properties speak of what a pass may do and of what the last one leaves. *)
(*                                                                         *)
(* A rect is the screen footprint of an object: id, type, x, y, w, h, rot; *)
(* rects are numbered like the objects, and a group of desks is the set of *)
(* its numbers.                                                            *)
(*                                                                         *)
(* The averages and shares the engine computes are taken to the whole      *)
(* pixel; layouts whose sizes are multiples of 12 keep them exact for runs *)
(* of up to four desks, which is what the model checker is given.          *)
(***************************************************************************)
EXTENDS FloorShape

CONSTANTS
    SNAP_WALL_DIST,           \* 20
    CONNECT_GAP,              \* 10
    ALIGN_TOL,                \* 14
    GRID_CELL,                \* 10
    MAX_ITERATIONS,           \* 6
    OVERLAP_TOL               \* overlapsAnotherObject: 2

ASSUME TidyAssumption ==
    /\ {SNAP_WALL_DIST, CONNECT_GAP, ALIGN_TOL, GRID_CELL, OVERLAP_TOL} \subseteq Nat
    /\ MAX_ITERATIONS \in Nat \ {0}

VARIABLES
    layout,      \* the objects the engine was given
    room,        \* the boundary it was given, a Rect
    rects,       \* the footprints it works on
    was,         \* the footprints when the pass began
    turn,        \* the rect its walk over the walls, or over the desks, has come to
    pending,     \* the groups of desks the pass has still to arrange
    iterations,  \* the passes begun
    phase,       \* the dialog: "idle"; "walls", "arrange" within a pass; then
                 \* "planned" (the code's "preview") and "result"
    converged    \* the last pass changed nothing

tidyVars == <<layout, room, rects, was, turn, pending, iterations, phase, converged>>

toScreenRect(o) ==
    LET b == boxOf(o)
    IN  [id |-> o.id, type |-> o.type, x |-> b.x, y |-> b.y, w |-> b.w, h |-> b.h,
         rot |-> o.rotation]

\* Mutated: the footprint is stored as it is, the turn forgotten.
StoredAsSeen(r) == [id |-> r.id, type |-> r.type, x |-> r.x, y |-> r.y,
                    width |-> r.w, height |-> r.h, rotation |-> r.rot]

\* The geometry of an object, as the editor saves it (GeomSnapshot).
ShapeFields == {"x", "y", "width", "height", "rotation"}
Shape(o) == [f \in ShapeFields |-> o[f]]

\* An object with some of its fields set anew: {...o, ...fields}.
With(o, fields) == [f \in (DOMAIN fields) \cup (DOMAIN o) |->
                       IF f \in DOMAIN fields THEN fields[f] ELSE o[f]]

toStored(r) == LET b == rotatedRectExtent(r.x, r.y, r.w, r.h, r.rot)
               IN  [id |-> r.id, type |-> r.type, x |-> b.x, y |-> b.y,
                    width |-> b.w, height |-> b.h, rotation |-> r.rot]

ScreenRects(objects) == [i \in DOMAIN objects |-> toScreenRect(objects[i])]
Originals == ScreenRects(layout)
Cutouts == clipCutoutsToBoundary(room, getCutoutRects(layout))

DESK_CAPABLE_TYPES == {"desk", "standing_desk", "hot_desk", "private_desk"}

isPackableDesk(r) == r.type \in DESK_CAPABLE_TYPES /\ r.rot % 90 = 0
isAxisAlignedWall(r) == r.type = "wall" /\ r.rot % 90 = 0

\* A rect with the place and size of a box.
Placed(r, to) == [r EXCEPT !.x = to.x, !.y = to.y, !.w = to.w, !.h = to.h]

(***************************************************************************)
(* Walls around a rect                                                     *)
(***************************************************************************)
verticalFaces(top, bottom) ==
    {room.x, room.x + room.w}
    \cup UNION {{c.x, c.x + c.w} : c \in {k \in Range(Cutouts) : k.y < bottom /\ k.y + k.h > top}}

horizontalFaces(left, right) ==
    {room.y, room.y + room.h}
    \cup UNION {{c.y, c.y + c.h} : c \in {k \in Range(Cutouts) : k.x < right /\ k.x + k.w > left}}

nearestBelowOrEqual(faces, v, fallback) ==
    LET below == {f \in faces : f <= v} IN IF below = {} THEN fallback ELSE Max(below)

nearestAboveOrEqual(faces, v, fallback) ==
    LET above == {f \in faces : f >= v} IN IF above = {} THEN fallback ELSE Min(above)

\* What a step makes of a box, taken for each cutout in turn.
OverCutouts(box, Step(_, _)) ==
    LET past[n \in 0 .. Len(layout)] ==
            IF n = 0 THEN box
            ELSE LET s == past[n - 1]
                 IN  IF n \in DOMAIN Cutouts THEN Step(s, Cutouts[n]) ELSE s
    IN  past[Len(layout)]

\* Mutated: what is pushed out of a cutout is not clamped again.
PushedOutOnly(box) ==
    OverCutouts(clampBox(box, room), LAMBDA s, c : IF Overlap(s, c) THEN PushOut(s, c) ELSE s)

\* Into the room, then out of each cutout in turn and back into the room.
clampInside(box) ==
    OverCutouts(clampBox(box, room),
                LAMBDA s, c : IF Overlap(s, c) THEN clampBox(PushOut(s, c), room) ELSE s)

\* A lone desk goes flush with a wall of the room, then of a cutout beside it.
snapToWalls(r) ==
    LET D == SNAP_WALL_DIST
        Flush(v, len, low, high) ==
            CASE Dist(v, low) <= D -> low
              [] Dist(v, low) > D /\ Dist(v + len, high) <= D -> high - len
              [] OTHER -> v
        inRoom == Rect(Flush(r.x, r.w, room.x, room.x + room.w),
                       Flush(r.y, r.h, room.y, room.y + room.h), r.w, r.h)
        BesideX(s, c) == IF s.y < c.y + c.h /\ s.y + s.h > c.y
                         THEN [s EXCEPT !.x = Flush(s.x, s.w, c.x + c.w, c.x)] ELSE s
        BesideY(s, c) == IF s.x < c.x + c.w /\ s.x + s.w > c.x
                         THEN [s EXCEPT !.y = Flush(s.y, s.h, c.y + c.h, c.y)] ELSE s
    IN  clampInside(OverCutouts(inRoom, LAMBDA s, c : BesideY(BesideX(s, c), c)))

(***************************************************************************)
(* Groups of desks                                                         *)
(***************************************************************************)
spanOverlap(aLo, aHi, bLo, bHi) == Min({aHi, bHi}) - Max({aLo, bLo})

\* Half of the smaller span is shared, or the centres are close.
SameRow(a, b) ==
    \/ 2 * spanOverlap(a.y, a.y + a.h, b.y, b.y + b.h) >= Min({a.h, b.h})
    \/ Dist(2 * a.y + a.h, 2 * b.y + b.h) <= 2 * ALIGN_TOL
SameColumn(a, b) ==
    \/ 2 * spanOverlap(a.x, a.x + a.w, b.x, b.x + b.w) >= Min({a.w, b.w})
    \/ Dist(2 * a.x + a.w, 2 * b.x + b.w) <= 2 * ALIGN_TOL

adjacent(a, b) ==
    \/ SameRow(a, b) /\ Max({a.x - (b.x + b.w), b.x - (a.x + a.w)}) <= CONNECT_GAP
    \/ SameColumn(a, b) /\ Max({a.y - (b.y + b.h), b.y - (a.y + a.h)}) <= CONNECT_GAP

\* The connected groups of desks.
clusterDesks(all) ==
    LET desks == {i \in DOMAIN all : isPackableDesk(all[i])}
        Closed(S) == \A i \in S, j \in desks \ S : ~adjacent(all[i], all[j])
        Group(i) == {j \in desks : \A S \in SUBSET desks : i \in S /\ Closed(S) => j \in S}
    IN  {Group(i) : i \in desks}

\* Rect i comes before rect j: by centre, from left to right, from top to bottom.
\* The sorts are stable: a row's was in the order of the centres, and the rest in
\* that of the layout.
byCentre(all, i, j) ==
    LET twice(k) == 2 * all[k].y + all[k].h
    IN  twice(i) < twice(j) \/ (twice(i) = twice(j) /\ i < j)

leftToRight(all, i, j) == \/ all[i].x < all[j].x
                          \/ all[i].x = all[j].x /\ byCentre(all, i, j)

topToBottom(all, i, j) == all[i].y < all[j].y \/ (all[i].y = all[j].y /\ i < j)

\* The rows of a group, by centre: a desk joins the first row it shares a member's
\* row with, or begins one.  leader[i] is the desk that began the row of i.
groupRows(all, c) ==
    LET leader[i \in c] ==
            LET above == {j \in c : byCentre(all, j, i)}
                rows == {leader[j] : j \in {k \in above : SameRow(all[k], all[i])}}
            IN  IF rows = {} THEN i
                ELSE CHOOSE l \in rows : \A k \in rows \ {l} : byCentre(all, l, k)
    IN  {{j \in c : leader[j] = leader[i]} : i \in c}

\* The sum of f over the numbers in S, from 1 to m.
SumTo(m, S, f) ==
    LET up[n \in 0 .. m] == IF n = 0 THEN 0
                            ELSE IF n \in S THEN up[n - 1] + f[n] ELSE up[n - 1]
    IN  up[m]

SumOver(all, S, f) == SumTo(Len(all), S, f)

standardSize(all, c) ==
    [w |-> SumOver(all, c, [i \in c |-> all[i].w]) \div Cardinality(c),
     h |-> SumOver(all, c, [i \in c |-> all[i].h]) \div Cardinality(c)]

\* Where a run of n desks between two walls starts, and the length of each.
fitRun(n, stdLen, lowWall, highWall, lowEdge, highEdge) ==
    LET span == highWall - lowWall
        Reach(gap) == 0 <= gap /\ gap < GRID_CELL
    IN  CASE span <= n * stdLen ->
               [start |-> lowWall, each |-> Max({MIN_OBJECT_SIZE, span \div n})]
          [] span > n * stdLen /\ Reach(lowEdge - lowWall) /\ Reach(highWall - highEdge) ->
               [start |-> lowWall, each |-> span \div n]
          [] OTHER ->
               [start |-> CASE lowEdge - lowWall <= SNAP_WALL_DIST -> lowWall
                            [] /\ lowEdge - lowWall > SNAP_WALL_DIST
                               /\ highWall - highEdge <= SNAP_WALL_DIST ->
                                  highWall - n * stdLen
                            [] OTHER -> lowEdge,
                each |-> stdLen]

\* The cross position of a run: flush with the near wall, or the far one, or kept.
CrossFlush(at, len, faces, low, high) ==
    LET lowWall == nearestBelowOrEqual(faces, at, low)
        highWall == nearestAboveOrEqual(faces, at + len, high)
    IN  CASE at - lowWall <= SNAP_WALL_DIST -> lowWall
          [] at - lowWall > SNAP_WALL_DIST /\ highWall - (at + len) <= SNAP_WALL_DIST ->
               highWall - len
          [] OTHER -> at

\* The boxes of a row's desks, side by side.
normalizeRow(all, row, std) ==
    LET n == Cardinality(row)
        place == [i \in row |-> Cardinality({j \in row : leftToRight(all, j, i)})]
        last == CHOOSE i \in row : \A j \in row \ {i} : leftToRight(all, j, i)
        cross == (SumOver(all, row, [i \in row |-> 2 * all[i].y + all[i].h]) - n * std.h)
                 \div (2 * n)
        minX == Min({all[i].x : i \in row})
        maxX == all[last].x + all[last].w
        faces == verticalFaces(cross, cross + std.h)
        fit == fitRun(n, std.w, nearestBelowOrEqual(faces, minX, room.x),
                      nearestAboveOrEqual(faces, maxX, room.x + room.w), minX, maxX)
        top == CrossFlush(cross, std.h,
                          horizontalFaces(fit.start, fit.start + fit.each * n),
                          room.y, room.y + room.h)
    IN  [i \in row |-> clampInside(Rect(fit.start + place[i] * fit.each, top, fit.each, std.h))]

normalizeColumn(all, col, std) ==
    LET n == Cardinality(col)
        place == [i \in col |-> Cardinality({j \in col : topToBottom(all, j, i)})]
        last == CHOOSE i \in col : \A j \in col \ {i} : topToBottom(all, j, i)
        cross == (SumOver(all, col, [i \in col |-> 2 * all[i].x + all[i].w]) - n * std.w)
                 \div (2 * n)
        minY == Min({all[i].y : i \in col})
        maxY == all[last].y + all[last].h
        faces == horizontalFaces(cross, cross + std.w)
        fit == fitRun(n, std.h, nearestBelowOrEqual(faces, minY, room.y),
                      nearestAboveOrEqual(faces, maxY, room.y + room.h), minY, maxY)
        left == CrossFlush(cross, std.w,
                           verticalFaces(fit.start, fit.start + fit.each * n),
                           room.x, room.x + room.w)
    IN  [i \in col |-> clampInside(Rect(left, fit.start + place[i] * fit.each, std.w, fit.each))]

\* The box that has n others before it in a row from here: each is flush after the
\* one before it, at the place that one was clamped to.
inGridRow(n, x, y, std) ==
    LET spot[k \in 0 .. n] ==
            clampInside(Rect(IF k = 0 THEN x ELSE spot[k - 1].x + std.w, y, std.w, std.h))
    IN  spot[n]

\* Rows under each other from the group's corner.
normalizeGrid(all, rows, std) ==
    LET c == UNION rows
        left == Min({all[i].x : i \in c})
        top == Min({all[i].y : i \in c})
        wallX == nearestBelowOrEqual(
                    verticalFaces(top, Max({all[i].y + all[i].h : i \in c})), left, room.x)
        wallY == nearestBelowOrEqual(
                    horizontalFaces(left, Max({all[i].x + all[i].w : i \in c})), top, room.y)
        leftX == IF left - wallX > SNAP_WALL_DIST THEN left ELSE wallX
        topY == IF top - wallY > SNAP_WALL_DIST THEN top ELSE wallY
        RowOf(i) == CHOOSE row \in rows : i \in row
        Above(row) == {r \in rows \ {row} : \E j \in r : \A k \in row : byCentre(all, j, k)}
        PlaceOf(i) ==
            LET row == RowOf(i)
            IN  inGridRow(Cardinality({j \in row : leftToRight(all, j, i)}), leftX,
                          topY + Cardinality(Above(row)) * std.h, std)
    IN  [i \in c |-> PlaceOf(i)]

Arranged(all, c, rows, std) ==
    CASE Cardinality(rows) = 1 -> normalizeRow(all, c, std)
      [] Cardinality(rows) > 1 /\ \A row \in rows : Cardinality(row) = 1 ->
           normalizeColumn(all, c, std)
      [] OTHER -> normalizeGrid(all, rows, std)

\* The boxes of a group's desks.
normalizeCluster(all, c) == Arranged(all, c, groupRows(all, c), standardSize(all, c))

(***************************************************************************)
(* One pass                                                                *)
(***************************************************************************)
\* The two ends of a wall meet the nearest face less than a cell away.
ExtendSpan(lo, len, faces) ==
    LET Reachable(gap) == 0 < gap /\ gap < GRID_CELL
        low  == {f \in faces : Reachable(lo - f)}
        lo2  == IF low = {} THEN lo ELSE Max(low)
        high == {f \in faces : Reachable(f - (lo + len))}
        hi2  == IF high = {} THEN lo + len ELSE Min(high)
    IN  <<lo2, hi2 - lo2>>

\* Inner walls close small gaps to the room, to cutouts and to walls across them.
extendWallEnds(all, i) ==
    LET r == all[i]
        walls == {all[j] : j \in {k \in DOMAIN all \ {i} : isAxisAlignedWall(all[k])}}
        upright == UNION {{o.x, o.x + o.w} :
                             o \in {k \in walls : /\ k.w < k.h
                                                 /\ k.y < r.y + r.h /\ k.y + k.h > r.y}}
        level == UNION {{o.y, o.y + o.h} :
                             o \in {k \in walls : /\ k.h < k.w
                                                 /\ k.x < r.x + r.w /\ k.x + k.w > r.x}}
        across == ExtendSpan(r.x, r.w, verticalFaces(r.y, r.y + r.h) \cup upright)
        down == ExtendSpan(r.y, r.h, horizontalFaces(r.x, r.x + r.w) \cup level)
    IN  IF r.w >= r.h THEN [r EXCEPT !.x = across[1], !.w = across[2]]
                      ELSE [r EXCEPT !.y = down[1], !.h = down[2]]

\* The interior of a rect overlaps another object by more than the tolerance; doors
\* and windows do not count.
Core(r) == Rect(r.x + OVERLAP_TOL, r.y + OVERLAP_TOL,
                r.w - 2 * OVERLAP_TOL, r.h - 2 * OVERLAP_TOL)

Collides(r, o) == o.id # r.id /\ ~IsOpening(o.type) /\ Overlap(Core(r), o)

overlapsAnotherObject(r, all) == \E o \in Range(all) : Collides(r, o)

\* Mutated: only overlaps with other desks put a desk back.
RevertOffDesks(all, i) ==
    LET desks == {j \in DOMAIN all : isPackableDesk(all[j])}
    IN  IF overlapsAnotherObject(all[i], Restrict(all, desks)) THEN Originals[i] ELSE all[i]

\* A desk that overlaps something now goes back to where it was given.
revertOverlap(all, i) ==
    IF overlapsAnotherObject(all[i], all) THEN Placed(all[i], Originals[i]) ELSE all[i]

(***************************************************************************)
(* The plan and the user's choice                                          *)
(***************************************************************************)
At(s, id) == CHOOSE r \in ToSet(s) : r.id = id

\* The objects a plan changes, and the suggestion each of them comes under.
PlanIds == {r.id : r \in {k \in ToSet(rects) : k # At(Originals, k.id)}}

Resized(id) == LET before == toStored(At(Originals, id))
                   after == toStored(At(rects, id))
               IN  before.width # after.width \/ before.height # after.height

CategoryOf(id) == CASE At(rects, id).type = "wall" -> "wallExtend"
                    [] At(rects, id).type # "wall" /\ Resized(id) -> "resize"
                    [] OTHER -> "arrange"

Suggestions == {CategoryOf(id) : id \in PlanIds}

\* The plan's operations: what each object was and what it becomes.
Operations ==
    {[id |-> o.id, before |-> Shape(o), after |-> Shape(toStored(At(rects, o.id)))] :
        o \in {p \in ToSet(layout) : p.id \in PlanIds}}

\* The layout after the operations under the chosen suggestions.
AppliedLayout(chosen) ==
    [i \in DOMAIN layout |->
        IF layout[i].id \in PlanIds /\ CategoryOf(layout[i].id) \in chosen
        THEN With(layout[i], Shape(toStored(At(rects, layout[i].id)))) ELSE layout[i]]

(***************************************************************************)
(* The engine as a machine                                                 *)
(***************************************************************************)
\* The preview is opened on these objects in a room of this size.
Begin(objects, size) ==
    /\ layout' = objects
    /\ room' = size
    /\ rects' = ScreenRects(objects)
    /\ was' = rects'
    /\ turn' = 0
    /\ pending' = {}
    /\ iterations' = 0
    /\ converged' = FALSE
    /\ phase' = "walls"

\* The dialog is closed: nothing of the plan is kept.
reset ==
    /\ layout' = <<>>
    /\ rects' = <<>>
    /\ was' = <<>>
    /\ turn' = 0
    /\ pending' = {}
    /\ iterations' = 0
    /\ converged' = FALSE
    /\ phase' = "idle"
    /\ UNCHANGED room

\* The walk is over the rects in S: where it goes next, and whether it is over.
ComesTo(S, i) == i \in S /\ turn < i /\ \A j \in S : turn < j => i <= j
IsOver(S) == \A j \in S : j <= turn

Walls == {i \in DOMAIN rects : isAxisAlignedWall(rects[i])}
Desks == {i \in DOMAIN rects : isPackableDesk(rects[i])}

\* A pass begins: inner walls are joined, one after the other.
connectWall(i) ==
    /\ phase = "walls"
    /\ ComesTo(Walls, i)
    /\ rects' = [rects EXCEPT ![i] = extendWallEnds(rects, i)]
    /\ turn' = i
    /\ UNCHANGED <<layout, room, was, pending, iterations, phase, converged>>

\* The desks are grouped.
groupDesks ==
    /\ phase = "walls"
    /\ IsOver(Walls)
    /\ pending' = clusterDesks(rects)
    /\ turn' = 0
    /\ iterations' = iterations + 1
    /\ phase' = "arrange"
    /\ UNCHANGED <<layout, room, rects, was, converged>>

\* The rects with those in c placed in these boxes.
WithBoxes(c, box) ==
    [i \in DOMAIN rects |-> IF i \in c THEN Placed(rects[i], box[i]) ELSE rects[i]]

\* One group of two or more desks.
arrangeCluster(c) ==
    /\ phase = "arrange"
    /\ Cardinality(c) >= 2
    /\ rects' = WithBoxes(c, normalizeCluster(rects, c))
    /\ pending' = pending \ {c}
    /\ UNCHANGED <<layout, room, was, turn, iterations, phase, converged>>

\* One lone desk, when no group is left.
snapLoneDesk(c) ==
    /\ phase = "arrange"
    /\ \A k \in pending : Cardinality(k) = 1
    /\ rects' = WithBoxes(c, [i \in c |-> snapToWalls(rects[i])])
    /\ pending' = pending \ {c}
    /\ UNCHANGED <<layout, room, was, turn, iterations, phase, converged>>

\* The safety pass, desk after desk.
revertDesk(i) ==
    /\ phase = "arrange"
    /\ pending = {}
    /\ ComesTo(Desks, i)
    /\ rects' = [rects EXCEPT ![i] = revertOverlap(rects, i)]
    /\ turn' = i
    /\ UNCHANGED <<layout, room, was, pending, iterations, phase, converged>>

\* The end of the loop: at a pass without change or at the cap.
endPass ==
    /\ phase = "arrange"
    /\ pending = {}
    /\ IsOver(Desks)
    /\ converged' = (rects = was)
    /\ was' = rects
    /\ turn' = 0
    /\ phase' = IF converged' \/ iterations = MAX_ITERATIONS THEN "planned" ELSE "walls"
    /\ UNCHANGED <<layout, room, rects, pending, iterations>>

TidyNext == \/ \E i \in DOMAIN rects : connectWall(i) \/ revertDesk(i)
            \/ groupDesks
            \/ \E c \in pending : arrangeCluster(c) \/ snapLoneDesk(c)
            \/ endPass

(***************************************************************************)
(* Properties                                                              *)
(***************************************************************************)
OverlapsAny(all) == \E r \in Range(all) : isPackableDesk(r) /\ overlapsAnotherObject(r, all)

\* What the safety pass keeps, desk after desk on a layout that changes under it: a
\* desk the plan moves or resizes is clear of every object, but for desks that stand
\* as they were given (enhanceNormalize.ts:571-584).  In particular no desk is moved
\* onto furniture, a wall, a room or a cutout, nor onto another desk that was moved,
\* although groups are packed without regard to what is beside them.  That a tidy
\* "never introduces an overlap" (line 573) is more, and not so: a desk that is put
\* back may be put back onto one that was found clear earlier in the pass.
MovedDesksClear ==
    phase = "planned" =>
       \A i, k \in DOMAIN rects :
          /\ isPackableDesk(rects[i]) /\ rects[i] # Originals[i]
          /\ Collides(rects[i], rects[k])
          => isPackableDesk(rects[k]) /\ rects[k] = Originals[k]

\* A desk that the plan moves or resizes is in the room, however long the run it
\* is in and however wide its row became, when none was given that is larger than
\* the room; and it is off the cutouts that are not turned, although the push out of
\* one may end on another (enhanceNormalize.ts:169-188).
DesksStayOnFloor ==
    phase = "planned" =>
       \A i \in Desks :
          rects[i] # Originals[i] =>
             /\ (\A d \in Desks : Originals[d].w <= room.w /\ Originals[d].h <= room.h)
                => Inside(rects[i], room)
             /\ \A k \in DOMAIN Cutouts :
                   ~IsQuarter(layout[k].rotation) => ~Overlap(Core(rects[i]), Cutouts[k])

\* The walls drawn around a carved floor leave no gap, however cutouts touch, overlap
\* and leave slivers that are bridged, and they cover no floor, not at the corners
\* either, where the edges of the room and the cutouts are a wall's thickness apart
\* (floorShape.ts:194-289).
FloorIsFramed ==
    LET grid == buildCarveGrid(room, Cutouts)
        walls == computeFloorWallSegments(room, Cutouts, BOUNDARY_WALL_THICKNESS)
    IN  /\ LeavesNoGap(walls, grid, FloorCells(grid), BOUNDARY_WALL_THICKNESS)
        /\ Broad(grid, BOUNDARY_WALL_THICKNESS) => CoversNoFloor(walls, grid, FloorCells(grid))

=============================================================================
