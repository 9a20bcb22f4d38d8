---------------------------- MODULE FloorEditor ----------------------------
(***************************************************************************)
(* The floor layout page (FloorLayoutPage.tsx) with its canvas handlers    *)
(* (useCanvasInteractions.ts), its objects (useLayoutObjects.ts), its room *)
(* (useFloorBoundary.ts), wall placement (useWallPlacement.ts), the tidy   *)
(* dialog (useEnhanceTidy.ts) around the engine of EnhanceTidy, the setup  *)
(* wizard and publishing (useFloorSetupSteps.ts, useFloorPublish.ts), and  *)
(* the server's layout-object views (offices/views.py).                    *)
(*                                                                         *)
(* An edit is shown at once and saved by a request; the answer confirms it *)
(* or takes it back.  Requests of one page are in flight together: the     *)
(* server handles them in any order, answers arrive in any order, and a    *)
(* connection may be lost before the server hears of the request or after. *)
(* A handler runs to its end within one browser task, and so does a tidy:  *)
(* the engine's passes let no other action of the page in between.         *)
(***************************************************************************)
EXTENDS EnhanceTidy

CONSTANTS
    Visits,              \* what users do, see Visit
    SETTLE_SIZE_MIN,     \* clampBoundarySize: 240
    SETTLE_SIZE_MAX      \* clampBoundarySize: 4000

ASSUME EditorAssumption ==
    /\ SETTLE_SIZE_MIN \in Nat /\ SETTLE_SIZE_MAX \in Nat
    /\ MIN_OBJECT_SIZE <= SETTLE_SIZE_MIN /\ SETTLE_SIZE_MIN <= SETTLE_SIZE_MAX

ObjectFields == {"id", "type"} \cup ShapeFields

HasFields(o, fields) == o = [f \in fields |-> o[f]]

\* The objects that are there are numbered; the inspector edits size and turn.
ASSUME VisitsAssumption ==
    \A v \in Visits :
       /\ v.objects \in Seq(ToSet(v.objects))
       /\ \A i \in DOMAIN v.objects : HasFields(v.objects[i], ObjectFields) /\ v.objects[i].id = i
       /\ \A d \in v.details : HasFields(d, {"width", "height", "rotation"})
       /\ v.tidies \in Nat

OnPixels(numbers) == numbers \subseteq Int
HasSize(w, h) == w > 0 /\ h > 0

\* Pointers, keys and fields give whole pixels.  What is there, what is added and what a
\* transformer's handles leave has a size (calculateTransformResult); the inspector's
\* fields may hold any number.
ASSUME InputsAssumption ==
    \A v \in Visits :
       /\ OnPixels({v.room.w, v.room.h} \cup v.keys \cup v.sizes) /\ v.grids \subseteq Nat
       /\ \A at \in v.drops \cup v.pointers : OnPixels({at[1], at[2]})
       /\ \A i \in DOMAIN v.objects :
             LET o == v.objects[i]
             IN  /\ OnPixels({o.x, o.y, o.width, o.height})
                 /\ IsOpening(o.type) \/ HasSize(o.width, o.height)
       /\ \A b \in v.boxes : /\ HasFields(b, ShapeFields) /\ HasSize(b.width, b.height)
                             /\ OnPixels({b.x, b.y, b.width, b.height})
       /\ \A b \in v.rooms : OnPixels({b.x, b.y, b.width, b.height})
       /\ \A s \in v.details \cup v.adds : OnPixels({s.width, s.height})
       /\ \A s \in v.adds : HasSize(s.width, s.height)

VARIABLES
    objects,     \* the page's array of layout objects
    saving,      \* savingObjectIds
    boundary,    \* the room on the screen, a Rect
    timer,       \* the resize that waits for its 600 ms: a set of at most one Rect
    requests,    \* requests in flight, see Request
    stored,      \* the server's rows: id -> [object, active]
    runs,        \* the server's tidy runs, see RunOf
    placing,     \* the type of door or window that waits for a place: at most one size
    ghost,       \* where it would go: <<>> or one object
    runId,       \* the run that Undo is offered for: a set of at most one of runs
    stepId,      \* the wizard's step
    wizardMode,  \* the guided flow is on
    confirmEditOpen, \* the dialog that asks before a floor is unpublished is open
    published,   \* the floor's status on the server
    floorStatus, \* the floor's status on the page: it is published
    visit,       \* the inputs of this visit
    left,        \* bounds: edits, steps, tidies and lost connections the visit has left
    blurred,     \* history: objects whose answers may not tell what is stored
    tidied       \* history: the input that applying all of a settled plan left

canvasVars == <<placing, ghost>>
wizardVars == <<stepId, wizardMode, confirmEditOpen, floorStatus>>
pageVars == <<objects, saving, boundary, timer, runId, canvasVars, wizardVars>>
serverVars == <<stored, runs, published>>
vars == <<tidyVars, pageVars, requests, serverVars, visit, left, blurred, tidied>>

FLOOR_SETUP_STEPS == <<"build", "openings", "tidy", "review">>
FLOOR_BOUNDARY_INSET == 48

makeFloorBoundary(w, h) ==
    Rect(FLOOR_BOUNDARY_INSET, FLOOR_BOUNDARY_INSET,
         clamp(w, SETTLE_SIZE_MIN, SETTLE_SIZE_MAX), clamp(h, SETTLE_SIZE_MIN, SETTLE_SIZE_MAX))

IdsOf(seq) == {seq[i].id : i \in DOMAIN seq}

\* The page's objects with the given fields of one of them replaced: patch_object.
patchObject(seq, id, patch) ==
    [i \in DOMAIN seq |-> IF seq[i].id = id THEN With(seq[i], patch) ELSE seq[i]]

\* The page's objects without the one that has this id: remove_object.
removeObject(seq, id) ==
    IF id \notin IdsOf(seq) THEN seq
    ELSE RemoveAt(seq, CHOOSE i \in DOMAIN seq : seq[i].id = id)

(***************************************************************************)
(* Requests                                                                *)
(*                                                                         *)
(* kind: "patch", "delete" and "create" of a layout object, "floor" (the   *)
(* room's size), "tidy", "undo", "publish", "unpublish".  at: "sent";      *)
(* "read" when the view holds a copy of the row it will save; "done" or    *)
(* "refused" when the answer is on its way.  body is what is sent, prev    *)
(* what a refusal takes back, copy what the server read or answers.  op    *)
(* tells the properties which handler sent it, turn which of its changes   *)
(* of one object it is.                                                    *)
(***************************************************************************)
Nothing == [none |-> TRUE]

Request(kind, op, id, body, prev) ==
    [kind |-> kind, op |-> op, id |-> id, body |-> body, prev |-> prev,
     at |-> "sent", copy |-> Nothing, turn |-> 0,
     no |-> 1 + Max({0} \cup {r.no : r \in {q \in requests : q.kind = kind /\ q.id = id}})]

PlanObject == 0     \* the id of a request that is about no single object

Ids(shapes) == {s.id : s \in shapes}

\* The objects a request may change on the server.
Touched(r) == CASE r.kind \in {"patch", "delete"} -> {r.id}
                [] r.kind = "tidy" -> Ids(r.body.plan)
                [] r.kind = "undo" -> Ids(r.body.after)
                [] r.kind = "create" /\ r.at = "done" -> {r.copy.id}
                [] OTHER -> {}

InFlight(id) == {r \in requests : id \in Touched(r)}

\* Saves that ask no flag run beside others of the same object, and a handler that
\* saves an object twice asks the flag both times before it is set: from then on the
\* order in which the server handles them decides, and the page cannot tell.
Beside(news) ==
    {id \in UNION {Touched(r) : r \in news} :
        \/ \E r, q \in news : r # q /\ id \in Touched(r) /\ id \in Touched(q)
        \/ \E r \in news : id \in Touched(r) /\ r.op \in {"details", "delete", "tidy"}
                           /\ InFlight(id) # {}
        \/ \E q \in InFlight(id) : q.op \in {"details", "delete", "tidy"}}

Send(news) == /\ requests' = requests \cup news
              /\ blurred' = blurred \cup Beside(news)

(***************************************************************************)
(* When the user may act                                                   *)
(***************************************************************************)
EngineRuns == phase \in {"walls", "arrange"}
showWizard == wizardMode
reviewLocked == showWizard /\ stepId = "review"
tidyBusy == \E r \in requests : r.kind \in {"tidy", "undo"}
publishBusy == \E r \in requests : r.kind \in {"publish", "unpublish"}

\* A modal dialog is over the page: the tidy dialog of free editing, or the
\* confirmation that unpublishes the floor.
ModalOpen == (~showWizard /\ phase # "idle") \/ confirmEditOpen

UserActs == ~EngineRuns /\ ~ModalOpen

\* The canvas, its toolbar and the inspector.
CanEdit == UserActs /\ ~reviewLocked /\ left.edits > 0

SpendEdit == left' = [left EXCEPT !.edits = @ - 1]

\* The toolbar's switches, set in any way before an edit: the grid that edits snap to
\* (0: none), and whether the view shows the cutouts carved out of the floor.
Views == [grid : visit.grids, carved : visit.carved]

\* The layer that takes the mouse while a door or window waits for its place covers
\* the objects and the walls of the room.
ObjectsReachable == placing = {}

(***************************************************************************)
(* Optimistic saves                                                        *)
(***************************************************************************)
\* turn orders the changes of one object that one handler makes.
Change(id, patch) == [id |-> id, patch |-> patch, turn |-> 0]
Move(id, x, y) == Change(id, [x |-> x, y |-> y])

ObjectOf(id) == CHOOSE o \in ToSet(objects) : o.id = id

\* The fields of an object a patch would change, as they are.
Before(id, patch) == [f \in DOMAIN patch |-> ObjectOf(id)[f]]

\* Mutated: the flag is not looked at.
PersistAlways(moves, guard) == {m \in moves : m.id \in IdsOf(objects)}

\* The changes of objects that are on the page and are not being saved; the others are
\* dropped.  The flags are those of the last rendering: what the handler itself has set
\* does not count.
Unguarded(moves, guard) ==
    {m \in moves : m.id \in IdsOf(objects) /\ ~(guard /\ m.id \in saving)}

Patched(seq, moves) ==
    [i \in DOMAIN seq |->
        LET mine == {m \in moves : m.id = seq[i].id}
            last == CHOOSE m \in mine : \A n \in mine : n.turn <= m.turn
        IN  IF mine = {} THEN seq[i] ELSE With(seq[i], last.patch)]

SaveOf(m, op) == [Request("patch", op, m.id, m.patch, Before(m.id, m.patch))
                     EXCEPT !.turn = m.turn]

\* persistObjectPatch for the moves of one handler, op the handler's name.
persistObjectPatch(moves, guard, op) ==
    LET go == Unguarded(moves, guard)
    IN  /\ objects' = Patched(objects, go)
        /\ saving' = saving \cup {m.id : m \in go}
        /\ Send({SaveOf(m, op) : m \in go})

\* Mutated: the wall goes alone.
WallOnly(wall, x, y) == {Move(wall.id, x, y)}

\* A wall moves with the doors and windows on it.
moveWallAndOpenings(wall, x, y) ==
    LET mounted == IF x = wall.x /\ y = wall.y THEN {}
                   ELSE attachedOpenings(wall, objects)
    IN  {Move(wall.id, x, y)}
        \cup {Move(o.id, o.x + x - wall.x, o.y + y - wall.y) : o \in mounted}

\* Every wall-mounted object on its wall, everything else by itself.
MoveTo(o, x, y) == IF o.type = "wall" THEN moveWallAndOpenings(o, x, y) ELSE {Move(o.id, x, y)}

snapCutouts(carved) == IF carved THEN getCutoutRects(objects) ELSE <<>>
HostWalls(carved) == getSnapWalls(objects, boundary, snapCutouts(carved))

OnGrid(v, grid) == IF grid = 0 THEN v ELSE snapToGrid(v, grid)

(***************************************************************************)
(* The canvas handlers                                                     *)
(***************************************************************************)
\* Doors and windows are drawn flush on their wall.
Drawn(o, carved) == alignOpeningToWall(o, HostWalls(carved))

\* In the carved view a cutout is a hole, and nothing to take hold of.
Grabbed(o, carved) == ObjectsReachable /\ ~(carved /\ o.type = "cutout")

\* Where the pulled object is on the canvas: a door or window never leaves its wall
\* and gap, the rest is held by what is beside it.
wallDragBoundFor(drawn, x, y, carved) ==
    LET slid == constrainWallObjectMove(drawn, x, y, objects, HostWalls(carved))
    IN  IF slid = <<>> THEN [drawn EXCEPT !.x = x, !.y = y] ELSE slid[1]

handleObjectDragMove(o, x, y) == snapToNeighbors([o EXCEPT !.x = x, !.y = y], objects)

Pulled(o, x, y, carved) ==
    IF IsOpening(o.type) THEN wallDragBoundFor(Drawn(o, carved), x, y, carved)
    ELSE handleObjectDragMove(o, x, y)

\* A door or window slides on its wall; off every wall it goes where it is dropped.
dragOpening(o, x, y, carved) ==
    /\ IsOpening(o.type)
    /\ LET to == constrainWallObjectMove(o, x, y, objects, HostWalls(carved))
       IN  IF to = <<>> THEN persistObjectPatch({Move(o.id, x, y)}, TRUE, "loose")
           ELSE persistObjectPatch({Move(o.id, to[1].x, to[1].y)}, TRUE, "slide")

dragCutout(o, x, y) ==
    /\ o.type = "cutout"
    /\ LET others == getCutoutRects(Others(objects, o.id))
           flush == snapCutoutToBoundary([o EXCEPT !.x = x, !.y = y], boundary)
           final == snapCutoutToBoundary(snapCutoutToNeighbors(flush, others), boundary)
       IN  persistObjectPatch({Move(o.id, final.x, final.y)}, TRUE, "drag")

\* Snapped, aligned and clamped; then kept, pushed aside or put back.
Dropped(o, x, y, grid) ==
    resolveDrop(clampObjectToBoundary(
                    snapToNeighbors([o EXCEPT !.x = OnGrid(x, grid), !.y = OnGrid(y, grid)],
                                    objects), boundary),
                objects)

dragFurniture(o, x, y, grid) ==
    /\ ~IsOpening(o.type) /\ o.type # "cutout"
    /\ \E drop \in {Dropped(o, x, y, grid)} :
         /\ ~drop.reverted
         /\ LET to == clampObjectToBoundary(drop.object, boundary)
            IN  persistObjectPatch(MoveTo(o, to.x, to.y), TRUE, "drag")

UNCHANGED_besides == UNCHANGED <<tidyVars, boundary, timer, runId, wizardVars, serverVars,
                                 visit, tidied>>
UNCHANGED_rest == UNCHANGED_besides /\ UNCHANGED canvasVars

\* A drop that is put back changes nothing and is no step.
handleObjectDragEnd ==
    /\ CanEdit
    /\ SpendEdit
    /\ \E o \in ToSet(objects), at \in visit.drops, view \in Views :
          /\ Grabbed(o, view.carved)
          /\ \E to \in {Pulled(o, at[1], at[2], view.carved)} :
                \/ dragOpening(o, to.x, to.y, view.carved)
                \/ dragCutout(o, to.x, to.y)
                \/ dragFurniture(o, to.x, to.y, view.grid)
    /\ UNCHANGED_rest

\* An arrow key: dx, dy is the direction.
keyTarget(o, dx, dy, step, grid) ==
    LET n == IF grid = 0 THEN step ELSE grid
    IN  [o EXCEPT !.x = IF dx = 0 THEN @ ELSE OnGrid(@ + n * dx, grid),
                  !.y = IF dy = 0 THEN @ ELSE OnGrid(@ + n * dy, grid)]

keyMoves(o, raw, carved) ==
    LET slid == constrainWallObjectMove(o, raw.x, raw.y, objects, HostWalls(carved))
        flush == snapCutoutToBoundary(raw, boundary)
        at == clampObjectToBoundary(raw, boundary)
    IN  CASE IsOpening(o.type) -> {Move(o.id, s.x, s.y) : s \in ToSet(slid)}
          [] o.type = "cutout" -> {Move(o.id, flush.x, flush.y)}
          [] OTHER -> IF overlapsBlockingObject(at, objects) THEN {}
                      ELSE MoveTo(o, at.x, at.y)

\* The page leaves the key handler on while the review step locks the rest.
handleCanvasKeyDown ==
    /\ UserActs
    /\ left.edits > 0
    /\ SpendEdit
    /\ \E o \in ToSet(objects), d \in {<<-1, 0>>, <<1, 0>>, <<0, -1>>, <<0, 1>>},
         step \in visit.keys, view \in Views :
         \E moves \in {keyMoves(o, keyTarget(o, d[1], d[2], step, view.grid), view.carved)} :
            /\ moves # {}
            /\ persistObjectPatch(moves, TRUE, IF IsOpening(o.type) THEN "slide" ELSE "key")
    /\ UNCHANGED_rest

\* The handles of a door or window change its length only.
Handled(o, box) ==
    IF IsOpening(o.type) THEN [box EXCEPT !.height = o.height, !.rotation = o.rotation]
    ELSE box

\* What a transformer's box makes of an object: a box is x, y, width, height, rotation.
transformed(o, box, grid, carved) ==
    LET raw == With(o, Handled(o, box))
        host == nearestWall(HostWalls(carved), CenterX(o), CenterY(o))
        sized == IF grid = 0 THEN raw
                 ELSE [snapSizeToGrid(raw, grid) EXCEPT !.x = snapToGrid(raw.x, grid),
                                                        !.y = snapToGrid(raw.y, grid)]
        wall == clampObjectTransformToBoundary(sized, boundary)
    IN  CASE IsOpening(o.type) ->
               {IF host = <<>> THEN raw
                ELSE resizeOpeningOnWall(o, host[1], CenterX(raw), CenterY(raw),
                                         raw.width, objects)}
          [] o.type = "cutout" ->
               {snapCutoutToBoundary(
                   clampObjectTransformToBoundary([raw EXCEPT !.rotation = 0], boundary),
                   boundary)}
          [] o.type = "wall" ->
               {wall} \cup {transformOpeningWithWall(o, p, wall) :
                               p \in attachedOpenings(o, objects)}
          [] OTHER -> {wall}

Hosted(o, carved) ==
    IsOpening(o.type) /\ nearestWall(HostWalls(carved), CenterX(o), CenterY(o)) # <<>>

handleObjectTransform ==
    /\ CanEdit
    /\ SpendEdit
    /\ \E o \in ToSet(objects), box \in visit.boxes, view \in Views :
         /\ Grabbed(o, view.carved)
         /\ persistObjectPatch({Change(t.id, Shape(t)) :
                                   t \in transformed(o, box, view.grid, view.carved)},
                               TRUE, IF Hosted(o, view.carved) THEN "slide" ELSE "transform")
    /\ UNCHANGED_rest

\* Mutated: Save is offered for every difference.
SaveAnything(o, detail) == Before(o.id, detail) # detail

\* Save is offered when something differs and the size is one.
canSave(o, detail) == /\ Before(o.id, detail) # detail
                      /\ detail.width > 0 /\ detail.height > 0

\* Size and turn go as typed, and no flag is asked.
handleObjectDetailsSave(o, detail) ==
    persistObjectPatch({Change(o.id, detail)}, FALSE, "details")

\* The inspector: its fields are those of the object it shows, until Save.
InspectorEditor ==
    /\ CanEdit
    /\ SpendEdit
    /\ \E o \in ToSet(objects), detail \in visit.details :
         /\ canSave(o, detail)
         /\ handleObjectDetailsSave(o, detail)
    /\ UNCHANGED_rest

handleDeleteSelected ==
    /\ CanEdit
    /\ visit.deletes
    /\ SpendEdit
    /\ \E o \in ToSet(objects) : Send({Request("delete", "delete", o.id, Nothing, Nothing)})
    /\ UNCHANGED <<objects, saving>>
    /\ UNCHANGED_rest

(***************************************************************************)
(* Adding objects: in the build and openings steps, or in free editing     *)
(***************************************************************************)
LibraryShown == ~showWizard \/ stepId \in {"build", "openings"}

\* size is the type's default: [type, width, height].
handleQuickAdd(size) ==
    LET cascade == (Len(objects) % 6) * 16
        o == clampObjectToBoundary(
                [id |-> PlanObject, type |-> size.type, rotation |-> 0,
                 width |-> size.width, height |-> size.height,
                 x |-> boundary.x + boundary.w \div 2 - size.width \div 2 + cascade,
                 y |-> boundary.y + boundary.h \div 2 - size.height \div 2 + cascade],
                boundary)
    IN  Send({Request("create", "add", PlanObject, o, Nothing)})

\* A door or window is placed by hand, everything else near the middle.
handleLibrarySelect ==
    /\ CanEdit
    /\ LibraryShown
    /\ \E size \in visit.adds :
         IF IsOpening(size.type)
         THEN /\ placing # {size}
              /\ placing' = {size}
              /\ UNCHANGED <<requests, left, blurred>>
         ELSE /\ placing' = {}
              /\ SpendEdit
              /\ handleQuickAdd(size)
    /\ UNCHANGED <<objects, saving, ghost>>
    /\ UNCHANGED_besides

\* The longer side goes along the wall.
getMountDimensions(size) == [length |-> Max({size.width, size.height}),
                             thickness |-> Min({size.width, size.height})]

\* Where the pointer would put the door or window; <<>> where there is no place.
computeGhost(size, at, carved) ==
    LET mount == [id |-> PlanObject, type |-> size.type, x |-> 0, y |-> 0, rotation |-> 0,
                  width |-> getMountDimensions(size).length,
                  height |-> getMountDimensions(size).thickness]
        snapped == snapToWall(mount, at[1], at[2], HostWalls(carved))
        host == nearestWall(HostWalls(carved), CenterX(snapped[1]), CenterY(snapped[1]))
    IN  IF \/ snapped = <<>>
           \/ /\ host # <<>>
              /\ ~ isAlongFree(projectAlong(host[1], CenterX(snapped[1]), CenterY(snapped[1])),
                               mount.width \div 2, openingsOnWall(host[1], objects, -1))
        THEN <<>> ELSE snapped

\* The pointer moves, or leaves the canvas.  What it showed is kept when the wizard
\* goes on to another step and when placing is over.
handlePlacementMove ==
    /\ CanEdit
    /\ \E size \in placing, at \in visit.pointers, carved \in visit.carved :
          \/ ghost' = computeGhost(size, at, carved)
          \/ ghost' = <<>>
    /\ ghost' # ghost
    /\ UNCHANGED <<objects, saving, requests, left, blurred, placing>>
    /\ UNCHANGED_besides

placementToObjectFields(place, size) ==
    LET length == getMountDimensions(size).length
    IN  [place EXCEPT !.type = size.type, !.x = CenterX(place) - length \div 2,
                      !.width = length]

\* A click places at the pointer or, where there is no place, what was shown last: a
\* tap comes without a move.  Placing is on until the answer, and in every step but
\* the review: a second click places a second one.
handlePlacementClick ==
    /\ CanEdit
    /\ SpendEdit
    /\ \E size \in placing, at \in visit.pointers, carved \in visit.carved :
         \E new \in {computeGhost(size, at, carved)} :
           \E place \in ToSet(IF new = <<>> THEN ghost ELSE new) :
              Send({Request("create", "place", PlanObject,
                            placementToObjectFields(place, size), Nothing)})
    /\ UNCHANGED <<objects, saving, placing, ghost>>
    /\ UNCHANGED_besides

(***************************************************************************)
(* The room                                                                *)
(***************************************************************************)
\* Doors and windows on the room's walls follow them, the rest is shifted by the
\* way the origin went; then the new size waits to be saved.
resizeMoves(new, shift) ==
    LET carried == carryBoundaryOpeningsOnResize(boundary, new, objects)
        rest == {o \in ToSet(objects) : \A c \in carried : c.id # o.id}
    IN  {Move(c.id, c.x, c.y) : c \in carried}
        \cup IF shift = <<0, 0>> THEN {}
             ELSE {Move(o.id, o.x + shift[1], o.y + shift[2]) : o \in rest}

handleBoundaryResize(new, shift) ==
    /\ CanEdit
    /\ SpendEdit
    /\ new # boundary
    /\ persistObjectPatch(resizeMoves(new, shift), TRUE, "resize")
    /\ boundary' = new
    /\ timer' = {new}
    /\ UNCHANGED <<tidyVars, runId, canvasVars, wizardVars, serverVars, visit, tidied>>

\* The toolbar's two fields: every number typed on the way to another one counts.
onRoomSizeChange ==
    \E n \in visit.sizes :
       \/ handleBoundaryResize(makeFloorBoundary(n, boundary.h), <<0, 0>>)
       \/ handleBoundaryResize(makeFloorBoundary(boundary.w, n), <<0, 0>>)

\* The room is pulled at a side or corner: what stayed in place stays, the origin goes.
handleBoundaryTransformEnd ==
    /\ ObjectsReachable
    /\ \E box \in visit.rooms :
         LET new == makeFloorBoundary(box.width, box.height)
             rightStayed == box.x + box.width = boundary.x + boundary.w
             bottomStayed == box.y + box.height = boundary.y + boundary.h
         IN  handleBoundaryResize(new, <<IF rightStayed THEN new.w - boundary.w ELSE 0,
                                         IF bottomStayed THEN new.h - boundary.h ELSE 0>>)

\* The 600 ms are over.
persistBoundary ==
    /\ ~EngineRuns
    /\ timer # {}
    /\ Send({Request("floor", "floor", PlanObject, new, Nothing) : new \in timer})
    /\ timer' = {}
    /\ UNCHANGED <<tidyVars, objects, saving, boundary, runId, canvasVars, wizardVars,
                   serverVars, visit, left, tidied>>

\* Every object but doors and windows is pulled into the room in its turn; a wall
\* pulls its own, and two walls that meet in a door pull it twice.
reflowMoves(new) ==
    LET Inward(o) == clampObjectToBoundary(o, new)
        Pull(i) == {[m EXCEPT !.turn = i] :
                       m \in MoveTo(objects[i], Inward(objects[i]).x, Inward(objects[i]).y)}
    IN  UNION {Pull(i) : i \in {j \in DOMAIN objects :
                  LET o == objects[j] IN /\ ~IsOpening(o.type)
                                         /\ <<Inward(o).x, Inward(o).y>> # <<o.x, o.y>>}}

(***************************************************************************)
(* The wizard, publishing and the tidy dialog                              *)
(***************************************************************************)
\* The page with this mode and step: the tidy step opens a preview by itself.
Shown(mode, step) ==
    /\ wizardMode' = mode
    /\ stepId' = step
    /\ IF mode /\ step = "tidy" /\ phase = "idle"
       THEN /\ left.tidies > 0
            /\ left' = [left EXCEPT !.steps = @ - 1, !.tidies = @ - 1]
            /\ Begin(objects, boundary)
       ELSE /\ left' = [left EXCEPT !.steps = @ - 1]
            /\ UNCHANGED tidyVars

CanStep == UserActs /\ left.steps > 0
UNCHANGED_step == UNCHANGED <<objects, saving, boundary, timer, runId, canvasVars, confirmEditOpen,
                              floorStatus, requests,
                              serverVars, visit, blurred, tidied>>

goTo == /\ CanStep
        /\ showWizard
        /\ \E step \in ToSet(FLOOR_SETUP_STEPS) \ {stepId} : Shown(wizardMode, step)
        /\ UNCHANGED_step

toggleWizard == /\ CanStep
                /\ Shown(~wizardMode, stepId)
                /\ UNCHANGED_step

handlePublish ==
    /\ UserActs
    /\ reviewLocked /\ ~floorStatus /\ ~publishBusy /\ left.steps > 0
    /\ left' = [left EXCEPT !.steps = @ - 1]
    /\ Send({Request("publish", "status", PlanObject, Nothing, Nothing)})
    /\ UNCHANGED <<tidyVars, pageVars, serverVars, visit, tidied>>

\* A published floor is edited again after a dialog, which a failure leaves open.
requestEdit ==
    /\ UserActs
    /\ reviewLocked /\ floorStatus
    /\ confirmEditOpen' = TRUE
    /\ UNCHANGED <<tidyVars, objects, saving, boundary, timer, runId, canvasVars, stepId,
                   wizardMode,
                   floorStatus, requests, serverVars, visit, left, blurred, tidied>>

cancelEdit ==
    /\ ~EngineRuns
    /\ confirmEditOpen /\ ~publishBusy
    /\ confirmEditOpen' = FALSE
    /\ UNCHANGED <<tidyVars, objects, saving, boundary, timer, runId, canvasVars, stepId,
                   wizardMode,
                   floorStatus, requests, serverVars, visit, left, blurred, tidied>>

confirmEdit ==
    /\ ~EngineRuns
    /\ confirmEditOpen /\ ~publishBusy /\ left.steps > 0
    /\ left' = [left EXCEPT !.steps = @ - 1]
    /\ Send({Request("unpublish", "status", PlanObject, Nothing, Nothing)})
    /\ UNCHANGED <<tidyVars, pageVars, serverVars, visit, tidied>>

\* The preview again: from the toolbar of free editing, or from the panel.
openPreview ==
    /\ ~EngineRuns
    /\ left.tidies > 0
    /\ ~tidyBusy
    /\ IF showWizard THEN stepId = "tidy" ELSE phase = "idle"
    /\ left' = [left EXCEPT !.tidies = @ - 1]
    /\ Begin(objects, boundary)
    /\ UNCHANGED <<pageVars, requests, serverVars, visit, blurred, tidied>>

\* What the dialog of free editing and the panel of the tidy step offer: a choice of
\* the plan's suggestions while they show a plan, Undo while they show a result.
DialogShows(what) == ~EngineRuns /\ ~showWizard /\ phase = what /\ ~tidyBusy
PanelShows(what) ==
    ~EngineRuns /\ showWizard /\ stepId = "tidy" /\ phase = what /\ ~tidyBusy

\* The dialog is closed; Undo is not offered after that.
cancel ==
    /\ DialogShows("planned") \/ DialogShows("result")
    /\ reset
    /\ runId' = {}
    /\ UNCHANGED <<objects, saving, boundary, timer, canvasVars, wizardVars, requests,
                   serverVars, visit, left, blurred, tidied>>

\* The plan's operations under the ticked suggestions, with what each object was.
\* The plan is known by its preview, which the tidies left tell apart, and the choice.
ChosenPlan(chosen) ==
    [key |-> <<left.tidies, chosen>>,
     plan |-> {c \in Operations : CategoryOf(c.id) \in chosen},
     whole |-> converged /\ chosen = Suggestions,
     result |-> <<AppliedLayout(chosen), room>>]

apply ==
    /\ DialogShows("planned") \/ PanelShows("planned")
    /\ \E chosen \in SUBSET Suggestions :
          /\ chosen # {}
          /\ Send({Request("tidy", "tidy", PlanObject, ChosenPlan(chosen), Nothing)})
    /\ UNCHANGED <<tidyVars, pageVars, serverVars, visit, left, tidied>>

undo ==
    /\ DialogShows("result") \/ PanelShows("result")
    /\ \E run \in runId : Send({Request("undo", "tidy", PlanObject, run, Nothing)})
    /\ UNCHANGED <<tidyVars, pageVars, serverVars, visit, left, tidied>>

(***************************************************************************)
(* The server                                                              *)
(***************************************************************************)
At_(r, at, copy) == requests' = (requests \ {r}) \cup {[r EXCEPT !.at = at, !.copy = copy]}

UNCHANGED_page == UNCHANGED <<tidyVars, pageVars, visit, left, blurred, tidied>>

Saved(r, copy) == [object |-> IF r.kind = "patch" THEN With(copy.object, r.body) ELSE copy.object,
                   active |-> copy.active /\ r.kind # "delete"]

\* The view reads the row and saves all of it.  With no other request about the
\* object in flight the two steps are one.
handleAlone(r) ==
    /\ r.kind \in {"patch", "delete"} /\ r.at = "sent"
    /\ InFlight(r.id) = {r}
    /\ IF stored[r.id].active
       THEN /\ stored' = [stored EXCEPT ![r.id] = Saved(r, @)]
            /\ At_(r, "done", Nothing)
       ELSE /\ At_(r, "refused", Nothing)
            /\ UNCHANGED stored
    /\ UNCHANGED <<runs, published>>

readRow(r) ==
    /\ r.kind \in {"patch", "delete"} /\ r.at = "sent"
    /\ InFlight(r.id) # {r}
    /\ IF stored[r.id].active THEN At_(r, "read", stored[r.id]) ELSE At_(r, "refused", Nothing)
    /\ UNCHANGED serverVars

saveRow(r) ==
    /\ r.at = "read"
    /\ stored' = [stored EXCEPT ![r.id] = Saved(r, r.copy)]
    /\ At_(r, "done", Nothing)
    /\ UNCHANGED <<runs, published>>

createRow(r) ==
    /\ r.kind = "create" /\ r.at = "sent"
    /\ LET new == [r.body EXCEPT !.id = 1 + Cardinality(DOMAIN stored)]
       IN  /\ stored' = [id \in {new.id} \cup DOMAIN stored |->
                        IF id = new.id THEN [object |-> new, active |-> TRUE] ELSE stored[id]]
           /\ At_(r, "done", new)
    /\ UNCHANGED <<runs, published>>

Rows(rows, ids) == {rows[id].object : id \in ids}

WithShapes(shapes) ==
    [id \in DOMAIN stored |->
        LET mine == {s \in shapes : s.id = id}
        IN  IF mine = {} THEN stored[id]
            ELSE [stored[id] EXCEPT !.object = With(@, CHOOSE s \in mine : TRUE)]]

Named(id, shape) == With([id |-> id], shape)

StillAs(s) == stored[s.id].active /\ Named(s.id, Shape(stored[s.id].object)) = s

\* An object that was deleted, or is not what the plan took it for, is skipped.
RunOf(r) ==
    LET fresh == {c \in r.body.plan : StillAs(Named(c.id, c.before))}
    IN  [key |-> r.body.key, before |-> {Named(c.id, c.before) : c \in fresh},
         after |-> {Named(c.id, c.after) : c \in fresh}]

\* A run under a key that was used is answered again and not made again.
applyRun(r) ==
    /\ r.kind = "tidy" /\ r.at = "sent"
    /\ \E run \in {RunOf(r)}, prior \in {{run \in runs : run.key = r.body.key}} :
         IF prior = {}
         THEN /\ runs' = runs \cup {run}
              /\ stored' = WithShapes(run.after)
              /\ At_(r, "done", [run |-> run, rows |-> Rows(stored', Ids(run.after))])
         ELSE /\ At_(r, "done", [run |-> CHOOSE p \in prior : TRUE,
                                 rows |-> UNION {Rows(stored, Ids(p.after)) : p \in prior}])
              /\ UNCHANGED <<stored, runs>>
    /\ UNCHANGED published

\* Undo puts back what is still as the run left it.
undoRun(r) ==
    /\ r.kind = "undo" /\ r.at = "sent"
    /\ LET back == {b \in r.body.before : \E a \in r.body.after : a.id = b.id /\ StillAs(a)}
       IN  /\ stored' = WithShapes(back)
           /\ At_(r, "done", [rows |-> Rows(stored', Ids(back))])
    /\ UNCHANGED <<runs, published>>

handleFloor(r) ==
    /\ r.kind \in {"floor", "publish", "unpublish"} /\ r.at = "sent"
    /\ published' = CASE r.kind = "publish" -> TRUE
                      [] r.kind = "unpublish" -> FALSE
                      [] OTHER -> published
    /\ At_(r, "done", Nothing)
    /\ UNCHANGED <<stored, runs>>

serverStep(r) == \/ handleAlone(r)
                 \/ readRow(r)
                 \/ saveRow(r)
                 \/ createRow(r)
                 \/ applyRun(r)
                 \/ undoRun(r)
                 \/ handleFloor(r)

\* The connection is lost: the server never hears of the request, or its answer
\* never arrives.  The page takes both for a failure.
lose(r) ==
    /\ left.faults > 0
    /\ r.at \in {"sent", "done"}
    /\ At_(r, "refused", Nothing)
    /\ blurred' = IF r.at = "done" THEN blurred \cup Touched(r) ELSE blurred
    /\ left' = [left EXCEPT !.faults = @ - 1]
    /\ UNCHANGED <<tidyVars, pageVars, serverVars, visit, tidied>>

(***************************************************************************)
(* Answers                                                                 *)
(***************************************************************************)
\* Mutated: the flag is cleared only when the save succeeded.
SavingAfterSuccess(r) == IF r.at = "done" THEN saving \ {r.id} ELSE saving

SavingAfter(r) == saving \ {r.id}

\* The outcome of a save: kept, or the fields it changed put back as they were.
RolledBack(r) == IF r.at = "refused" THEN patchObject(objects, r.id, r.prev) ELSE objects

UNCHANGED_answer == UNCHANGED <<boundary, timer, serverVars, visit, left>>

answerPatch(r) ==
    /\ r.kind = "patch"
    /\ objects' = RolledBack(r)
    /\ saving' = SavingAfter(r)
    /\ requests' = requests \ {r}
    /\ UNCHANGED <<tidyVars, runId, canvasVars, wizardVars, blurred, tidied>>

answerDelete(r) ==
    /\ r.kind = "delete"
    /\ objects' = IF r.at = "done" THEN removeObject(objects, r.id) ELSE objects
    /\ requests' = requests \ {r}
    /\ UNCHANGED <<tidyVars, saving, runId, canvasVars, wizardVars, blurred, tidied>>

answerCreate(r) ==
    /\ r.kind = "create"
    /\ objects' = IF r.at = "done" /\ r.copy.id \notin IdsOf(objects)
                  THEN Append(objects, r.copy) ELSE objects
    /\ placing' = IF r.at = "done" /\ r.op = "place" THEN {} ELSE placing
    /\ requests' = requests \ {r}
    /\ UNCHANGED <<tidyVars, saving, runId, ghost, wizardVars, blurred, tidied>>

\* Saved or not, the objects outside the room that was sent are pulled in.
settleBoundary(r) ==
    /\ r.kind = "floor"
    /\ LET go == Unguarded(reflowMoves(r.body), TRUE)
           news == {SaveOf(m, "reflow") : m \in go}
       IN  /\ objects' = Patched(objects, go)
           /\ saving' = saving \cup {m.id : m \in go}
           /\ requests' = (requests \ {r}) \cup news
           /\ blurred' = blurred \cup Beside(news)
    /\ UNCHANGED <<tidyVars, runId, canvasVars, wizardVars, tidied>>

\* The page takes over the objects the run answers with.
answerRun(r) ==
    /\ r.kind \in {"tidy", "undo"}
    /\ requests' = requests \ {r}
    /\ IF r.at = "done"
       THEN /\ objects' = [i \in DOMAIN objects |->
                             LET mine == {o \in r.copy.rows : o.id = objects[i].id}
                             IN  IF mine = {} THEN objects[i] ELSE CHOOSE o \in mine : TRUE]
            /\ runId' = IF r.kind = "tidy" /\ r.copy.run.after # {} THEN {r.copy.run} ELSE {}
            /\ phase' = "result"
            /\ tidied' = IF r.kind = "tidy" /\ r.body.whole THEN r.body.result ELSE tidied
            /\ UNCHANGED <<layout, room, rects, was, turn, pending, iterations, converged>>
       ELSE UNCHANGED <<objects, runId, tidyVars, tidied>>
    /\ UNCHANGED <<saving, canvasVars, wizardVars, blurred>>

\* The list of floors is fetched again after a success; Edit leads to the build
\* step whether the floor was unpublished or not.
answerStatus(r) ==
    /\ r.kind \in {"publish", "unpublish"}
    /\ requests' = requests \ {r}
    /\ floorStatus' = IF r.at = "done" THEN published ELSE floorStatus
    /\ stepId' = IF r.kind = "unpublish" THEN "build" ELSE stepId
    /\ confirmEditOpen' = IF r.kind = "unpublish" /\ r.at = "done" THEN FALSE
                          ELSE confirmEditOpen
    /\ UNCHANGED <<tidyVars, objects, saving, runId, canvasVars, wizardMode, blurred, tidied>>

answer(r) ==
    /\ r.at \in {"done", "refused"}
    /\ \/ answerPatch(r)
       \/ answerDelete(r)
       \/ answerCreate(r)
       \/ settleBoundary(r)
       \/ answerRun(r)
       \/ answerStatus(r)
    /\ UNCHANGED_answer

(***************************************************************************)
(* The specification                                                       *)
(***************************************************************************)
Init ==
    /\ visit \in Visits
    /\ objects = visit.objects
    /\ saving = {}
    /\ boundary = makeFloorBoundary(visit.room.w, visit.room.h)
    /\ timer = {}
    /\ requests = {}
    /\ stored = [id \in IdsOf(objects) |-> [object |-> ObjectOf(id), active |-> TRUE]]
    /\ runs = {}
    /\ placing = {}
    /\ ghost = <<>>
    /\ runId = {}
    /\ published = visit.published
    /\ floorStatus = published
    /\ stepId = IF published THEN "review" ELSE "build"
    /\ wizardMode = TRUE
    /\ confirmEditOpen = FALSE
    /\ left = [edits |-> visit.edits, steps |-> visit.steps, tidies |-> visit.tidies,
               faults |-> visit.faults]
    /\ blurred = {}
    /\ tidied = <<>>
    /\ layout = <<>>
    /\ room = boundary
    /\ rects = <<>>
    /\ was = <<>>
    /\ turn = 0
    /\ pending = {}
    /\ iterations = 0
    /\ phase = "idle"
    /\ converged = FALSE

Edit == \/ handleObjectDragEnd
        \/ handleCanvasKeyDown
        \/ handleObjectTransform
        \/ InspectorEditor
        \/ handleDeleteSelected
        \/ handleLibrarySelect
        \/ handlePlacementMove
        \/ handlePlacementClick
        \/ onRoomSizeChange
        \/ handleBoundaryTransformEnd

Page == \/ persistBoundary
        \/ goTo
        \/ toggleWizard
        \/ handlePublish
        \/ requestEdit
        \/ cancelEdit
        \/ confirmEdit
        \/ openPreview
        \/ cancel
        \/ apply
        \/ undo

Tidy == TidyNext /\ UNCHANGED <<pageVars, requests, serverVars, visit, left, blurred,
                                tidied>>

Network == /\ ~EngineRuns
           /\ \E r \in requests : \/ serverStep(r) /\ UNCHANGED_page
                                  \/ lose(r)
                                  \/ answer(r)

Next == Edit \/ Page \/ Tidy \/ Network

Spec == Init /\ [][Next]_vars

(***************************************************************************)
(* Properties                                                              *)
(***************************************************************************)
\* The room and everything in it are boxes on whole pixels.  The room and what is in it
\* have a size, doors and windows excepted: no drag, resize, inspector entry or tidy
\* leaves an object that can no longer be seen or taken hold of
\* (LayoutObjectInspector.tsx:76-84, coordinateHelpers.ts:205-240).
TypeOK ==
    /\ \A b \in {boundary, room} : OnPixels({b.x, b.y, b.w, b.h}) /\ HasSize(b.w, b.h)
    /\ \A o \in ToSet(objects) \cup ToSet(layout) :
          OnPixels({o.x, o.y, o.width, o.height}) /\ (IsOpening(o.type) \/ HasSize(o.width, o.height))
    /\ \A r \in ToSet(rects) : OnPixels({r.x, r.y, r.w, r.h}) /\ (IsOpening(r.type) \/ HasSize(r.w, r.h))

OnScreen(id) == {o \in ToSet(objects) : o.id = id}
OnServer(id) == IF stored[id].active THEN {stored[id].object} ELSE {}

\* When no request about an object is on its way, the page shows what is stored:
\* the edits that were refused are taken back field by field, those that were
\* dropped because the object was being saved left nothing behind, whatever the
\* order of the answers.  Objects are excepted of which an answer was lost after
\* the server had acted, or which an unguarded save, a deletion or a tidy changed
\* beside another request (useCanvasInteractions.ts:169-191, 370-400).
ScreenIsStored ==
    \A id \in DOMAIN stored :
       InFlight(id) = {} /\ id \notin blurred => OnScreen(id) = OnServer(id)

PatchesOf(id) == {r \in requests : r.kind = "patch" /\ r.id = id}

\* An object is marked as being saved exactly while a save of it is on its way: a
\* flag left behind would make every later move of the object vanish without a
\* word, a flag missing would let two saves race (useCanvasInteractions.ts:176-188).
SavingIsTold ==
    /\ \A id \in saving : PatchesOf(id) # {}
    /\ \A r \in requests : r.kind = "patch" /\ r.id \notin blurred => r.id \in saving

NewRequests == {r \in requests' \ requests : r.at = "sent"}

\* The openings before and after the step, by id.
After(id) == CHOOSE o \in ToSet(objects') : o.id = id

Along(wall, o) == projectAlong(wall, CenterX(o), CenterY(o))
Covers(wall, o) == {2 * Along(wall, o) - o.width, 2 * Along(wall, o) + o.width}

\* Places and lengths on a wall are doubled here, for the middle of an odd length is
\* between two pixels: slack is in half pixels.
LeftOf(wall, o, p, slack) == Max(Covers(wall, o)) <= Min(Covers(wall, p)) + slack

Quarters(angle) == angle \in Int /\ angle % 90 = 0

\* The middle is on the line of an upright or level wall.
OnLine(wall, o) == Quarters(wall.angle) => projectPerp(wall, CenterX(o), CenterY(o)) = 0

\* What became of the opening o, among these objects, is on the same side as o of what
\* is next to it on the wall.
KeepsSides(wall, o, new, objs) ==
    \A p \in Range(Others(objs, o.id)) :
       /\ IsOpening(p.type) /\ p.width >= 0
       /\ OnWall(wall, CenterX(p), CenterY(p), 2)
       /\ o.width \in 1 .. wall.length
       /\ Dist(Along(wall, o), 0) <= wall.length \div 2
       => /\ LeftOf(wall, o, p, 0) => LeftOf(wall, new, p, 2)
          /\ LeftOf(wall, p, o, 0) => LeftOf(wall, p, new, 2)

\* The opening of the request is on its wall as it was among its neighbours.
StaysApart(r) ==
    \E carved \in visit.carved :
       \E wall \in ToSet(nearestWall(HostWalls(carved), CenterX(ObjectOf(r.id)),
                                     CenterY(ObjectOf(r.id)))) :
          /\ OnLine(wall, After(r.id))
          /\ KeepsSides(wall, ObjectOf(r.id), After(r.id), objects)

\* A door or window keeps the side of its neighbours it is on, however far it is
\* pulled or stretched: what is next to it on the wall is neither run over nor
\* passed, and it ends on the line of the wall.  A pixel is allowed for lengths that
\* are odd, and one longer than its wall goes to the middle (wallPlacement.ts:362-459).
SlideKeepsApart == [][\A r \in NewRequests : r.op = "slide" => StaysApart(r)]_vars

\* The opening, as the step leaves it, is on the wall as the step leaves it.
OnWallAfter(wall, o, slack) ==
    OnWall(userWallToSnapWall(After(wall.id)), CenterX(After(o.id)), CenterY(After(o.id)), slack)

\* The wall of the request has, after the step, what was on it before.
TakesAlong(r) ==
    \A p \in attachedOpenings(ObjectOf(r.id), objects) :
       /\ r.op # "transform" => OnWallAfter(ObjectOf(r.id), p, 4)
       /\ /\ r.op = "transform"
          /\ Quarters(ObjectOf(r.id).rotation) /\ Quarters(After(r.id).rotation)
          /\ OnWall(userWallToSnapWall(ObjectOf(r.id)), CenterX(p), CenterY(p), 0)
          => OnWallAfter(ObjectOf(r.id), p, 1)

\* A wall that is moved, resized or turned takes its doors and windows along when none
\* of them was being saved: what sat on a wall that is moved sits on it as it did; what
\* had its middle on a wall that is scaled and turned has it there, up to the pixel its
\* share of the length is rounded by (useCanvasInteractions.ts:212-226, 481-508).
WallKeepsOpenings ==
    [][\A r \in NewRequests :
         /\ r.op \in {"drag", "key", "transform"}
         /\ ObjectOf(r.id).type = "wall"
         /\ saving = {}
         => TakesAlong(r)]_vars

\* The whole of an opening is on the wall.
Fits(wall, o) == /\ OnWall(wall, CenterX(o), CenterY(o), 0)
                 /\ \A v \in Covers(wall, o) : Dist(v, 0) <= wall.length

\* What is on the i-th wall of the room before the step is on it after the step.
StaysOnSide(i) ==
    LET old == getBoundaryWalls(boundary)[i]
        new == getBoundaryWalls(boundary')[i]
        mine == {o \in ToSet(objects) : IsOpening(o.type) /\ o.width > 1 /\ Fits(old, o)}
    IN  /\ \A o \in mine : o.width <= new.length => Fits(new, After(o.id))
        /\ new.length >= old.length =>
              \A o, p \in mine :
                 LeftOf(old, o, p, 0) => LeftOf(new, After(o.id), After(p.id), 2)

\* A resize of the room takes the doors and windows of its walls along: what is
\* not longer than the new wall ends whole on it, and when no wall got shorter two
\* of them keep their sides, though each is scaled and clamped by itself; a pixel is
\* allowed, for each place is rounded by itself (wallPlacement.ts:533-575,
\* useCanvasInteractions.ts:335-341).  A wall is found by the middle of what is on it: in
\* a corner something one pixel long is as near to the other wall.
RoomKeepsOpenings ==
    [][boundary' # boundary /\ saving = {} => \A i \in 1 .. 4 : StaysOnSide(i)]_vars

Clear(o, seq) == ~overlapsBlockingObject(o, seq)

\* Furniture that stood clear of everything still does when it was dropped: it is
\* kept, pushed aside or put back (docs/061-floor-boundary-pan-zoom.md:223-239).
\* The code does not keep this: what was pushed aside is clamped into the room
\* afterwards (useCanvasInteractions.ts:290).
DropsClear ==
    [][\A r \in NewRequests :
         /\ r.op = "drag"
         /\ ~IsOpening(ObjectOf(r.id).type) /\ ObjectOf(r.id).type # "cutout"
         /\ Clear(ObjectOf(r.id), objects)
         => Clear(After(r.id), objects')]_vars

\* A plan of which everything was applied leaves nothing to plan: the layout is
\* stored and read back, turned desks included, and a second preview of it is
\* empty when the first one's passes had settled (enhanceNormalize.ts:81-97, 519-614).
TidyTwiceIsOnce == phase = "planned" /\ tidied = <<layout, room>> => PlanIds = {}

=============================================================================
