--------------------------- MODULE EnhanceTidyProofs ---------------------------
(***************************************************************************)
(* What the tidy engine leaves of the desks, and the walls around a carved *)
(* floor.  The passes keep every footprint but for its place and size, and *)
(* move only desks and walls; the safety pass leaves behind it desks that  *)
(* stand as they were given or clear of everything but those.  The lines   *)
(* between cells are in order, every edge with floor on one side is in a   *)
(* run, and the wall of a run lies on the other side of it.                *)
(***************************************************************************)
EXTENDS FloorEditorProofs, FunctionTheorems

(***************************************************************************)
(* The invariant                                                           *)
(***************************************************************************)
\* The engine's work, or its plan, is on the screen.
HasPlan == phase \in {"walls", "arrange", "planned"}

\* A footprint of the object that o is a footprint of, perhaps at another place and of
\* another size.
SameObject(r, o) ==
    r = [id |-> o.id, type |-> o.type, x |-> r.x, y |-> r.y, w |-> r.w, h |-> r.h,
         rot |-> o.rot]

\* The engine works on the footprints of the layout it was given.
RectsKept ==
    /\ DOMAIN layout \subseteq Nat \ {0}
    /\ rects = [i \in DOMAIN layout |-> rects[i]]
    /\ \A i \in DOMAIN layout : SameObject(rects[i], Originals[i])

\* Only desks and walls move.
OthersStay == \A i \in DOMAIN layout : i \notin Desks \cup Walls => rects[i] = Originals[i]

\* A desk stands as it was given, or clear of everything but desks that do.
Settled(i) ==
    rects[i] # Originals[i] =>
       \A k \in DOMAIN rects :
          Collides(rects[i], rects[k]) => isPackableDesk(rects[k]) /\ rects[k] = Originals[k]

\* The desks the safety pass has gone over are settled; it begins when no group is
\* left, and a plan is made when it is over.
TidyInv ==
    /\ turn \in Nat
    /\ Listed(layout, IdsOf(layout))
    /\ HasPlan => RectsKept /\ OthersStay
    /\ phase = "arrange" => /\ \A c \in pending : c \subseteq Desks
                            /\ pending # {} => turn = 0
                            /\ \A i \in Desks : i <= turn => Settled(i)
    /\ phase = "planned" => \A i \in Desks : Settled(i)

(***************************************************************************)
(* Footprints                                                              *)
(***************************************************************************)
\* The footprint an object begins with.
LEMMA OriginalFields ==
    ASSUME NEW i \in DOMAIN layout
    PROVE  SameObject(Originals[i], Originals[i])
BY DEF Originals, ScreenRects, toScreenRect, SameObject

\* A footprint that is placed anew, in full.
LEMMA PlacedRecord ==
    ASSUME NEW r, NEW o, SameObject(r, o), NEW to
    PROVE  Placed(r, to) = [id |-> o.id, type |-> o.type, x |-> to.x, y |-> to.y, w |-> to.w,
                            h |-> to.h, rot |-> o.rot]
<1>1. r = [id |-> o.id, type |-> o.type, x |-> r.x, y |-> r.y, w |-> r.w, h |-> r.h,
           rot |-> o.rot]
  BY DEF SameObject
<1> DEFINE a == [r EXCEPT !.x = to.x]
           b == [a EXCEPT !.y = to.y]
           c == [b EXCEPT !.w = to.w]
           d == [c EXCEPT !.h = to.h]
<1>2. a = [id |-> o.id, type |-> o.type, x |-> to.x, y |-> r.y, w |-> r.w, h |-> r.h,
           rot |-> o.rot]
  BY <1>1
<1> HIDE DEF a
<1>3. b = [id |-> o.id, type |-> o.type, x |-> to.x, y |-> to.y, w |-> r.w, h |-> r.h,
           rot |-> o.rot]
  BY <1>2
<1> HIDE DEF b
<1>4. c = [id |-> o.id, type |-> o.type, x |-> to.x, y |-> to.y, w |-> to.w, h |-> r.h,
           rot |-> o.rot]
  BY <1>3
<1> HIDE DEF c
<1>5. d = [id |-> o.id, type |-> o.type, x |-> to.x, y |-> to.y, w |-> to.w, h |-> to.h,
           rot |-> o.rot]
  BY <1>4
<1>6. Placed(r, to) = d
  BY DEF Placed, a, b, c
<1> QED BY <1>5, <1>6

\* What places a footprint leaves it one of the same object.
LEMMA PlacedSame ==
    ASSUME NEW r, NEW o, SameObject(r, o), NEW to
    PROVE  /\ SameObject(Placed(r, to), o)
           /\ SameObject(o, o) /\ to = o => Placed(r, to) = o
<1>1. Placed(r, to) = [id |-> o.id, type |-> o.type, x |-> to.x, y |-> to.y, w |-> to.w, h |-> to.h,
                       rot |-> o.rot]
  BY PlacedRecord
<1> QED BY <1>1 DEF SameObject

\* A wall that is stretched between two others stays a footprint of its object.
LEMMA StretchedSame ==
    ASSUME NEW r, NEW o, SameObject(r, o), NEW lo, NEW len
    PROVE  /\ SameObject([r EXCEPT !.x = lo, !.w = len], o)
           /\ SameObject([r EXCEPT !.y = lo, !.h = len], o)
<1>1. r = [id |-> o.id, type |-> o.type, x |-> r.x, y |-> r.y, w |-> r.w, h |-> r.h,
           rot |-> o.rot]
  BY DEF SameObject
<1> DEFINE a == [r EXCEPT !.x = lo]
           b == [r EXCEPT !.y = lo]
<1>2. /\ a = [id |-> o.id, type |-> o.type, x |-> lo, y |-> r.y, w |-> r.w, h |-> r.h,
              rot |-> o.rot]
      /\ b = [id |-> o.id, type |-> o.type, x |-> r.x, y |-> lo, w |-> r.w, h |-> r.h,
              rot |-> o.rot]
  BY <1>1
<1> HIDE DEF a, b
<1>3. /\ [a EXCEPT !.w = len] = [id |-> o.id, type |-> o.type, x |-> lo, y |-> r.y, w |-> len,
                                h |-> r.h, rot |-> o.rot]
      /\ [b EXCEPT !.h = len] = [id |-> o.id, type |-> o.type, x |-> r.x, y |-> lo, w |-> r.w,
                                h |-> len, rot |-> o.rot]
  BY <1>2
<1>4. SameObject([a EXCEPT !.w = len], o) /\ SameObject([b EXCEPT !.h = len], o)
  BY <1>3 DEF SameObject
<1> QED BY <1>4 DEF a, b

\* Whether a footprint is a desk's is told by what the engine keeps.
LEMMA StillDesk ==
    ASSUME NEW r, NEW s, NEW o, SameObject(r, o), SameObject(s, o)
    PROVE  isPackableDesk(r) = isPackableDesk(s)
BY DEF SameObject, isPackableDesk

\* Whether a footprint is an upright or level wall's is told by what the engine keeps.
LEMMA StillWall ==
    ASSUME NEW r, NEW s, NEW o, SameObject(r, o), SameObject(s, o)
    PROVE  isAxisAlignedWall(r) = isAxisAlignedWall(s)
BY DEF SameObject, isAxisAlignedWall

(***************************************************************************)
(* The steps                                                               *)
(***************************************************************************)
\* The engine is given the page's objects.
LEMMA BeginsKept ==
    ASSUME Wholes, NEW size, Begin(objects, size)
    PROVE  TidyInv'
<1>1. layout' = objects /\ rects' = ScreenRects(objects) /\ turn' = 0 /\ phase' = "walls"
  BY DEF Begin
<1>2. DOMAIN layout' \subseteq Nat \ {0}
  BY <1>1, PageObjects
<1>3. RectsKept' /\ OthersStay'
  BY <1>1, <1>2 DEF RectsKept, OthersStay, Originals, ScreenRects, SameObject, toScreenRect
<1>4. Listed(objects, IdsOf(objects))
  BY DEF Wholes, Listed, IdsOf
<1>5. Listed(layout, IdsOf(layout))'
  BY <1>1, <1>4
<1> QED BY <1>1, <1>3, <1>5 DEF TidyInv, HasPlan

\* Footprints of the same objects take the place of the old ones.
LEMMA RectsStay ==
    ASSUME RectsKept, OthersStay, layout' = layout,
           NEW S \in SUBSET (Desks \cup Walls), NEW new,
           rects' = [i \in DOMAIN layout |-> IF i \in S THEN new[i] ELSE rects[i]],
           \A i \in S : SameObject(new[i], Originals[i])
    PROVE  RectsKept' /\ OthersStay' /\ Desks' = Desks
<1>1. Originals' = Originals
  BY DEF Originals
<1>2. RectsKept'
  BY <1>1 DEF RectsKept
<1>3. \A i \in DOMAIN layout : isPackableDesk(rects'[i]) = isPackableDesk(rects[i])
  BY <1>1, <1>2, StillDesk DEF RectsKept
<1>4. \A i \in DOMAIN layout : isAxisAlignedWall(rects'[i]) = isAxisAlignedWall(rects[i])
  BY <1>1, <1>2, StillWall DEF RectsKept
<1>5. DOMAIN rects = DOMAIN layout /\ DOMAIN rects' = DOMAIN layout
  BY DEF RectsKept
<1>6. Desks' = Desks /\ Walls' = Walls
  BY <1>3, <1>4, <1>5 DEF Desks, Walls
<1>7. OthersStay'
  BY <1>1, <1>5, <1>6 DEF OthersStay
<1> QED BY <1>2, <1>6, <1>7

\* The safety pass comes to desk i: it goes back, or it is clear.
LEMMA RevertSettles ==
    ASSUME TidyInv, NEW i \in DOMAIN rects, revertDesk(i)
    PROVE  TidyInv'
<1>1. /\ phase = "arrange" /\ phase' = "arrange" /\ pending = {} /\ pending' = {}
      /\ layout' = layout /\ turn' = i /\ ComesTo(Desks, i)
      /\ rects' = [rects EXCEPT ![i] = revertOverlap(rects, i)]
  BY DEF revertDesk
<1>2. RectsKept /\ OthersStay /\ i \in DOMAIN layout /\ i \in Nat /\ turn \in Nat /\ Originals' = Originals
  BY <1>1 DEF TidyInv, HasPlan, RectsKept, Originals
<1>3. i \in Desks /\ \A j \in Desks : j <= i => j <= turn \/ j = i
  <2>1. i \in Desks /\ \A j \in Desks : turn < j => i <= j
    BY <1>1 DEF ComesTo
  <2>2. Desks \subseteq Nat
    BY <1>2 DEF Desks, RectsKept
  <2> QED BY <1>2, <2>1, <2>2
<1>4. \/ rects' = rects /\ \A k \in DOMAIN rects : ~Collides(rects[i], rects[k])
      \/ rects' = [rects EXCEPT ![i] = Originals[i]]
  <2>1. CASE overlapsAnotherObject(rects[i], rects)
    <3>1. SameObject(Originals[i], Originals[i]) /\ SameObject(rects[i], Originals[i])
      BY <1>2, OriginalFields DEF RectsKept
    <3>2. revertOverlap(rects, i) = Originals[i]
      BY <2>1, <3>1, PlacedSame DEF revertOverlap
    <3> QED BY <1>1, <3>2
  <2>2. CASE ~overlapsAnotherObject(rects[i], rects)
    <3>1. rects' = rects
      BY <1>1, <1>2, <2>2 DEF revertOverlap, RectsKept
    <3>2. \A k \in DOMAIN rects : rects[k] \in Range(rects)
      BY DEF Range
    <3> QED BY <2>2, <3>1, <3>2 DEF overlapsAnotherObject
  <2> QED BY <2>1, <2>2
<1>5. RectsKept' /\ OthersStay' /\ Desks' = Desks
  <2>1. rects' = [j \in DOMAIN layout |-> IF j \in {i} THEN revertOverlap(rects, i) ELSE rects[j]]
    BY <1>1, <1>2 DEF RectsKept
  <2>2. SameObject(revertOverlap(rects, i), Originals[i])
    BY <1>2, PlacedSame DEF RectsKept, revertOverlap
  <2> DEFINE new == [j \in {i} |-> revertOverlap(rects, i)]
  <2>3. /\ rects' = [j \in DOMAIN layout |-> IF j \in {i} THEN new[j] ELSE rects[j]]
        /\ \A j \in {i} : SameObject(new[j], Originals[j])
    BY <2>1, <2>2
  <2> QED BY <1>1, <1>2, <1>3, <2>3, RectsStay
<1>6. \A j \in Desks : j <= i => Settled(j)'
  <2> SUFFICES ASSUME NEW j \in Desks, j <= i, rects'[j] # Originals[j],
                      NEW k \in DOMAIN rects, Collides(rects'[j], rects'[k])
               PROVE  isPackableDesk(rects'[k]) /\ rects'[k] = Originals[k]
    <3>1. DOMAIN rects' = DOMAIN rects
      BY <1>1
    <3> QED BY <1>2, <3>1 DEF Settled
  <2>1. j \in DOMAIN rects
    BY DEF Desks
  <2>2. j = i \/ Settled(j)
    BY <1>1, <1>3 DEF TidyInv
  <2>3. CASE j = i
    BY <1>4, <2>1, <2>3
  <2>4. CASE j # i /\ k # i
    <3>1. rects'[j] = rects[j] /\ rects'[k] = rects[k]
      BY <1>1, <2>4
    <3> QED BY <2>2, <2>4, <3>1 DEF Settled
  <2>5. CASE j # i /\ k = i
    <3>1. rects'[j] = rects[j]
      BY <1>1, <2>5
    <3>2. isPackableDesk(rects'[i])
      BY <1>3, <1>5 DEF Desks
    <3>3. CASE rects'[i] = Originals[i]
      BY <2>5, <3>2, <3>3
    <3>4. CASE rects' = rects
      BY <2>2, <2>5, <3>1, <3>4 DEF Settled
    <3> QED BY <1>4, <2>1, <3>3, <3>4
  <2> QED BY <2>3, <2>4, <2>5
<1>7. Listed(layout, IdsOf(layout))'
  BY <1>1 DEF TidyInv
<1> QED BY <1>1, <1>2, <1>5, <1>6, <1>7 DEF TidyInv

\* A pass of the engine, step by step.
LEMMA EngineKeeps ==
    ASSUME TidyInv, TidyNext
    PROVE  TidyInv'
<1>1. ASSUME NEW i \in DOMAIN rects, connectWall(i) PROVE TidyInv'
  <2>1. /\ phase = "walls" /\ phase' = "walls" /\ layout' = layout /\ turn' = i
        /\ rects' = [rects EXCEPT ![i] = extendWallEnds(rects, i)]
    BY <1>1 DEF connectWall
  <2>2. RectsKept /\ OthersStay /\ i \in DOMAIN layout /\ i \in Nat /\ i \in Walls
    BY <1>1, <2>1 DEF TidyInv, HasPlan, RectsKept, connectWall, ComesTo
  <2>3. SameObject(extendWallEnds(rects, i), Originals[i])
    BY <2>2, StretchedSame DEF RectsKept, extendWallEnds
  <2> DEFINE new == [j \in {i} |-> extendWallEnds(rects, i)]
  <2>4. /\ rects' = [j \in DOMAIN layout |-> IF j \in {i} THEN new[j] ELSE rects[j]]
        /\ \A j \in {i} : SameObject(new[j], Originals[j])
    BY <2>1, <2>2, <2>3 DEF RectsKept
  <2>5. RectsKept' /\ OthersStay'
    BY <2>1, <2>2, <2>4, RectsStay
  <2>6. Listed(layout, IdsOf(layout))'
    BY <2>1 DEF TidyInv
  <2> QED BY <2>1, <2>2, <2>5, <2>6 DEF TidyInv
<1>2. ASSUME NEW i \in DOMAIN rects, revertDesk(i) PROVE TidyInv'
  BY <1>2, RevertSettles
<1>3. CASE groupDesks
  <2>1. /\ phase = "walls" /\ phase' = "arrange" /\ UNCHANGED <<layout, rects>> /\ turn' = 0
    BY <1>3 DEF groupDesks
  <2>2. /\ RectsKept /\ RectsKept' /\ OthersStay' /\ Listed(layout, IdsOf(layout))'
        /\ Desks' = Desks
    BY <2>1 DEF TidyInv, HasPlan, RectsKept, Originals, OthersStay, Desks, Walls
  <2>4. \A c \in pending' : c \subseteq Desks'
    <3>1. pending' = clusterDesks(rects)
      BY <1>3 DEF groupDesks
    <3> QED BY <2>2, <3>1 DEF clusterDesks, Desks
  <2>3. \A i \in Desks' : ~(i <= 0)
    BY <2>1, <2>2 DEF Desks, RectsKept
  <2> QED BY <2>1, <2>2, <2>3, <2>4 DEF TidyInv
<1>4. ASSUME NEW c \in pending, NEW box, rects' = WithBoxes(c, box), phase = "arrange",
             UNCHANGED <<layout, turn, phase>>, pending' = pending \ {c}
      PROVE  TidyInv'
  <2>1. turn = 0 /\ turn' = 0 /\ RectsKept /\ OthersStay /\ c \subseteq Desks
    BY <1>4 DEF TidyInv, HasPlan
  <2> DEFINE S == {i \in DOMAIN layout : i \in c}
             new == [i \in S |-> Placed(rects[i], box[i])]
  <2>2. /\ rects' = [i \in DOMAIN layout |-> IF i \in S THEN new[i] ELSE rects[i]]
        /\ \A i \in S : SameObject(new[i], Originals[i])
    <3>1. DOMAIN rects = DOMAIN layout
      BY <2>1 DEF RectsKept
    <3> QED BY <1>4, <2>1, <3>1, PlacedSame DEF WithBoxes, RectsKept
  <2>3. S \in SUBSET (Desks \cup Walls)
    BY <2>1
  <2> HIDE DEF S, new
  <2>4. RectsKept' /\ OthersStay' /\ Desks' = Desks
    BY <1>4, <2>1, <2>2, <2>3, RectsStay
  <2>5. \A i \in Desks' : ~(i <= 0)
    BY <2>4 DEF Desks, RectsKept
  <2>6. Listed(layout, IdsOf(layout))' /\ \A k \in pending' : k \subseteq Desks'
    BY <1>4, <2>4 DEF TidyInv
  <2> QED BY <1>4, <2>1, <2>4, <2>5, <2>6 DEF TidyInv
<1>5. ASSUME NEW c \in pending, arrangeCluster(c) \/ snapLoneDesk(c) PROVE TidyInv'
  <2>1. \E box : rects' = WithBoxes(c, box)
    BY <1>5 DEF arrangeCluster, snapLoneDesk
  <2>2. phase = "arrange" /\ UNCHANGED <<layout, turn, phase>> /\ pending' = pending \ {c}
    BY <1>5 DEF arrangeCluster, snapLoneDesk
  <2> QED BY <1>4, <2>1, <2>2
<1>6. CASE endPass
  <2>1. /\ phase = "arrange" /\ pending = {} /\ IsOver(Desks) /\ turn' = 0
        /\ UNCHANGED <<layout, rects>> /\ phase' \in {"planned", "walls"}
    BY <1>6 DEF endPass
  <2>2. /\ RectsKept' /\ OthersStay' /\ Desks' = Desks /\ \A i : Settled(i)' = Settled(i)
        /\ Listed(layout, IdsOf(layout))'
    BY <2>1 DEF TidyInv, HasPlan, RectsKept, OthersStay, Originals, Desks, Walls, Settled
  <2>3. \A i \in Desks : Settled(i)
    BY <2>1 DEF TidyInv, IsOver
  <2> QED BY <2>1, <2>2, <2>3 DEF TidyInv
<1> QED BY <1>1, <1>2, <1>3, <1>5, <1>6 DEF TidyNext

\* Outside the engine a plan is made anew, closed, applied, or left as it is.
LEMMA TidyStill ==
    ASSUME TidyInv, UNCHANGED <<layout, rects, turn, pending>>, phase' \in {phase, "result"}
    PROVE  TidyInv'
BY DEF TidyInv, HasPlan, RectsKept, OthersStay, Originals, Desks, Walls, Settled

\* The page hands its objects to the engine, closes the plan, or leaves it alone.
LEMMA PageTidy ==
    ASSUME Wholes, TidyInv, Page
    PROVE  TidyInv'
<1>1. CASE UNCHANGED tidyVars
  BY <1>1, TidyStill DEF tidyVars
<1>2. CASE \E size : Begin(objects, size)
  BY <1>2, BeginsKept
<1>3. CASE reset
  BY <1>3 DEF reset, TidyInv, HasPlan, Listed
<1>4. CASE goTo \/ toggleWizard
  BY <1>1, <1>2, <1>4 DEF goTo, toggleWizard, Shown
<1>5. CASE persistBoundary \/ handlePublish \/ requestEdit \/ cancelEdit \/ confirmEdit
           \/ apply \/ undo
  BY <1>1, <1>5 DEF persistBoundary, handlePublish, requestEdit, cancelEdit, confirmEdit, apply, undo
<1>6. CASE openPreview \/ cancel
  BY <1>2, <1>3, <1>6 DEF openPreview, cancel
<1> QED BY <1>4, <1>5, <1>6 DEF Page

\* No edit of the canvas reaches into the engine: it works on a copy.
LEMMA EditTidy ==
    ASSUME Edit
    PROVE  UNCHANGED tidyVars
BY DEF Edit, handleObjectDragEnd, handleCanvasKeyDown, handleObjectTransform, InspectorEditor,
       handleDeleteSelected, handleLibrarySelect, handlePlacementMove, handlePlacementClick,
       onRoomSizeChange, handleBoundaryTransformEnd, handleBoundaryResize, UNCHANGED_rest,
       UNCHANGED_besides

\* No answer does either; the answer to an applied plan closes the dialog.
LEMMA NetworkTidy ==
    ASSUME Network
    PROVE  UNCHANGED tidyVars \/ (UNCHANGED <<layout, rects, turn, pending>> /\ phase' = "result")
<1>1. PICK r \in requests : \/ serverStep(r) /\ UNCHANGED_page
                            \/ lose(r)
                            \/ answer(r)
  BY DEF Network
<1>2. CASE UNCHANGED_page \/ lose(r)
  BY <1>2 DEF UNCHANGED_page, lose
<1>3. CASE answer(r)
  BY <1>3 DEF answer, answerPatch, answerDelete, answerCreate, settleBoundary, answerRun, answerStatus
<1> QED BY <1>1, <1>2, <1>3

\* Every step keeps the invariant of the engine.
LEMMA StepTidy ==
    ASSUME Wholes, TidyInv, [Next]_vars
    PROVE  TidyInv'
<1>1. CASE UNCHANGED tidyVars
  BY <1>1, TidyStill DEF tidyVars
<1>2. CASE Page
  BY <1>2, PageTidy
<1>3. CASE Tidy
  BY <1>3, EngineKeeps DEF Tidy
<1>4. CASE Edit \/ UNCHANGED vars
  BY <1>1, <1>4, EditTidy DEF vars
<1>5. CASE Network
  BY <1>1, <1>5, NetworkTidy, TidyStill
<1> QED BY <1>2, <1>3, <1>4, <1>5 DEF Next

(***************************************************************************)
(* Numbers                                                                 *)
(***************************************************************************)
\* Among some natural numbers there is a least.
LEMMA LeastNumber ==
    ASSUME NEW S \in SUBSET Nat, S # {}
    PROVE  \E o \in S : \A p \in S : o <= p
<1> DEFINE R == OpToRel(<, Nat)
<1>1. \E o \in S : \A p \in S : <<p, o>> \notin R
  <2>1. IsWellFoundedOn(R, Nat)
    BY NatLessThanWellFounded, Zenon DEF R
  <2> HIDE DEF R
  <2> QED BY <2>1, WFMin
<1>2. PICK o \in S : \A p \in S : <<p, o>> \notin R
  BY <1>1
<1>3. \A p \in S : ~(p < o)
  BY <1>2, Zenon DEF OpToRel
<1> QED BY <1>3

(***************************************************************************)
(* The lines of a grid                                                     *)
(***************************************************************************)
\* The lines of a grid on one axis: whole numbers that increase.
IsLines(xs) ==
    /\ Len(xs) \in Nat /\ DOMAIN xs = 1 .. Len(xs)
    /\ \A k \in 1 .. Len(xs) : xs[k] \in Int
    /\ \A k, l \in 1 .. Len(xs) : k < l => xs[k] < xs[l]

\* The numbers of a finite set in their order are lines.
LEMMA SortedLines ==
    ASSUME NEW S \in SUBSET Int, IsFiniteSet(S)
    PROVE  IsLines(Sorted(S))
<1> DEFINE n == Cardinality(S)
           Below(v) == {u \in S : u < v}
           rank == [v \in S |-> 1 + Cardinality(Below(v))]
<1>1. n \in Nat /\ \A u \in S : u \in Int
  BY FS_CardinalityType
<1>2. ASSUME NEW v \in S
      PROVE  /\ Cardinality(Below(v)) \in 0 .. n - 1
             /\ \A w \in S : w < v => Cardinality(Below(w)) < Cardinality(Below(v))
  <2>1. \A w \in S : IsFiniteSet(Below(w)) /\ Cardinality(Below(w)) \in Nat
    BY FS_Subset, FS_CardinalityType
  <2>2. IsFiniteSet(S \ {v}) /\ Cardinality(S \ {v}) = n - 1
    BY FS_RemoveElement
  <2>3. Below(v) \in SUBSET (S \ {v})
    OBVIOUS
  <2>4. Cardinality(Below(v)) <= n - 1
    BY <2>2, <2>3, FS_Subset
  <2>5. ASSUME NEW w \in S, w < v PROVE Cardinality(Below(w)) < Cardinality(Below(v))
    <3>1. IsFiniteSet(Below(v) \ {w}) /\ Cardinality(Below(v) \ {w}) = Cardinality(Below(v)) - 1
      BY <2>1, <2>5, FS_RemoveElement
    <3>2. \A u \in Below(w) : u \in S /\ u < v /\ u # w
      BY <1>1, <2>5
    <3>3. Below(w) \in SUBSET (Below(v) \ {w})
      BY <3>2
    <3>4. Cardinality(Below(w)) <= Cardinality(Below(v)) - 1
      BY <3>1, <3>3, FS_Subset
    <3>5. Cardinality(Below(w)) \in Nat /\ Cardinality(Below(v)) \in Nat
      BY <2>1
    <3> QED BY <3>4, <3>5
  <2> QED BY <1>1, <2>1, <2>4, <2>5
<1> HIDE DEF Below
<1>3. rank \in [S -> 1 .. n]
  BY <1>1, <1>2
<1>4. \A v, w \in S : rank[v] = rank[w] => v = w
  BY <1>1, <1>2
<1>5. rank \in Injection(S, 1 .. n)
  BY <1>3, <1>4, Fun_IsInj
<1>6. IsFiniteSet(1 .. n) /\ Cardinality(1 .. n) = n
  BY <1>1, FS_Interval
<1>7. rank \in Surjection(S, 1 .. n)
  BY <1>5, <1>6, FS_Injection
<1>8. \A k \in 1 .. n : \E v \in S : Cardinality(Below(v)) = k - 1
  <2> SUFFICES ASSUME NEW k \in 1 .. n PROVE \E v \in S : Cardinality(Below(v)) = k - 1
    OBVIOUS
  <2>1. \A j \in 1 .. n : \E v \in S : rank[v] = j
    <3> HIDE DEF rank, n
    <3> QED BY <1>7, Fun_SurjectionProperties
  <2>2. PICK v \in S : rank[v] = k
    BY <2>1
  <2>3. Cardinality(Below(v)) \in 0 .. n - 1 /\ 1 + Cardinality(Below(v)) = k
    BY <1>2, <2>2
  <2> QED BY <1>1, <2>3
<1> DEFINE xs == Sorted(S)
<1>9. xs = [k \in 1 .. n |-> CHOOSE v \in S : Cardinality(Below(v)) = k - 1]
  BY DEF Sorted, Below
<1>10. \A k \in 1 .. n : xs[k] \in S /\ Cardinality(Below(xs[k])) = k - 1
  BY <1>8, <1>9
<1>11. Len(xs) = n /\ DOMAIN xs = 1 .. n
  <2>1. DOMAIN xs = 1 .. n
    BY <1>9
  <2>2. xs \in Seq(S)
    BY <1>1, <1>9, <1>10
  <2> QED BY <1>1, <2>1, <2>2, LenProperties
<1> HIDE DEF xs
<1>12. \A k, l \in 1 .. n : k < l => xs[k] < xs[l]
  <2> SUFFICES ASSUME NEW k \in 1 .. n, NEW l \in 1 .. n, k < l, ~(xs[k] < xs[l])
               PROVE  FALSE
    OBVIOUS
  <2>1. xs[k] \in S /\ xs[l] \in S /\ Cardinality(Below(xs[k])) = k - 1
        /\ Cardinality(Below(xs[l])) = l - 1
    BY <1>10
  <2>2. xs[k] \in Int /\ xs[l] \in Int
    BY <1>1, <2>1
  <2>3. CASE xs[k] = xs[l]
    BY <2>1, <2>3
  <2>4. CASE xs[l] < xs[k]
    <3>1. Cardinality(Below(xs[l])) < Cardinality(Below(xs[k]))
      BY <1>2, <2>1, <2>4
    <3> QED BY <2>1, <3>1
  <2> QED BY <2>2, <2>3, <2>4
<1> QED BY <1>1, <1>10, <1>11, <1>12 DEF IsLines, xs

\* The run an edge with a wall is in.
LEMMA RunThrough ==
    ASSUME NEW m \in Nat, NEW side, DOMAIN side = 1 .. m, NEW k \in 1 .. m, side[k] # 0
    PROVE  \E run \in Runs(side) :
              /\ run[1] \in 1 .. m /\ run[2] \in 1 .. m
              /\ run[1] <= k /\ k <= run[2] /\ side[run[1]] = side[k]
<1> DEFINE A == {f \in 1 .. k : \A l \in f .. k : side[l] = side[k]}
           B == {t \in Nat : k + t \in 1 .. m + 1 /\ (k + t = m + 1 \/ side[k + t] # side[k])}
<1>1. k \in A /\ A \in SUBSET Nat
  OBVIOUS
<1>2. PICK from \in A : \A f \in A : from <= f
  BY <1>1, LeastNumber
<1>3. m + 1 - k \in B /\ B \in SUBSET Nat
  OBVIOUS
<1>4. PICK t \in B : \A b \in B : t <= b
  BY <1>3, LeastNumber
<1> DEFINE to == k + t - 1
<1>5. t # 0 /\ to \in k .. m
  BY <1>4
<1>6. \A l \in k .. to : side[l] = side[k]
  <2> SUFFICES ASSUME NEW l \in k .. to, side[l] # side[k] PROVE FALSE
    OBVIOUS
  <2>1. l - k \in B
    BY <1>5
  <2> QED BY <1>4, <1>5, <2>1
<1>7. from \in 1 .. k /\ \A l \in from .. k : side[l] = side[k]
  BY <1>2
<1>8. \A l \in from .. to : side[l] = side[k]
  BY <1>5, <1>6, <1>7
<1>9. from - 1 \in 1 .. m => side[from - 1] # side[from]
  <2> SUFFICES ASSUME from - 1 \in 1 .. m, side[from - 1] = side[k] PROVE FALSE
    BY <1>7
  <2>1. from - 1 \in A
    BY <1>7
  <2>2. from <= from - 1
    BY <1>2, <2>1
  <2> QED BY <1>7, <2>2
<1>10. to + 1 \in 1 .. m => side[to + 1] # side[to]
  <2>1. side[to] = side[k]
    BY <1>5, <1>6
  <2> QED BY <1>4, <1>5, <2>1
<1> HIDE DEF A, B, to
<1>11. <<from, to>> \in Runs(side)
  <2>1. from \in 1 .. m /\ to \in 1 .. m /\ from <= to
    BY <1>5, <1>7
  <2>2. side[from] = side[k]
    BY <1>7
  <2>3. \A l \in from .. to : side[l] = side[from] /\ side[l] # 0
    BY <1>8, <2>2
  <2> QED BY <1>9, <1>10, <2>1, <2>3 DEF Runs
<1> QED BY <1>5, <1>7, <1>11


\* The faces of cells on an axis are in order.
LEMMA LinesOrder ==
    ASSUME NEW xs, IsLines(xs)
    PROVE  \A k, l \in 1 .. Len(xs) : /\ k <= l => xs[k] <= xs[l]
                                     /\ xs[k] < xs[l] => k < l
                                     /\ xs[k] \in Int
BY DEF IsLines

\* A grid of cells.
IsGrid(grid) == IsLines(grid.xs) /\ IsLines(grid.ys)

\* A floor is a set of cells of the grid.
IsFloor(grid, floor) ==
    floor \subseteq (1 .. Len(grid.xs) - 1) \X (1 .. Len(grid.ys) - 1)

\* The walls are those of the runs on the lines.
LEMMA WallKinds ==
    ASSUME NEW grid, NEW floor, NEW t
    PROVE  LET walls == WallsOfGrid(grid, floor, t)
           IN  /\ \A i \in DOMAIN grid.xs : \A run \in Runs(VSides(grid, floor, i)) :
                     \E w \in walls : w[2] = VWall(grid, i, run, VSides(grid, floor, i)[run[1]], t)
               /\ \A j \in DOMAIN grid.ys : \A run \in Runs(HSides(grid, floor, j)) :
                     \E w \in walls : w[2] = HWall(grid, floor, j, run, HSides(grid, floor, j)[run[1]], t)
               /\ \A w \in walls :
                     \/ \E i \in DOMAIN grid.xs : \E run \in Runs(VSides(grid, floor, i)) :
                           w[2] = VWall(grid, i, run, VSides(grid, floor, i)[run[1]], t)
                     \/ \E j \in DOMAIN grid.ys : \E run \in Runs(HSides(grid, floor, j)) :
                           w[2] = HWall(grid, floor, j, run, HSides(grid, floor, j)[run[1]], t)
<1> DEFINE walls == WallsOfGrid(grid, floor, t)
           VAll == UNION {UprightWalls(grid, floor, t, i) : i \in DOMAIN grid.xs}
           HAll == UNION {LevelWalls(grid, floor, t, j) : j \in DOMAIN grid.ys}
<1>1. \A p : p \in walls <=> \/ \E i \in DOMAIN grid.xs : p \in UprightWalls(grid, floor, t, i)
                             \/ \E j \in DOMAIN grid.ys : p \in LevelWalls(grid, floor, t, j)
  <2>1. \A p : p \in VAll <=> \E i \in DOMAIN grid.xs : p \in UprightWalls(grid, floor, t, i)
    OBVIOUS
  <2>2. \A p : p \in HAll <=> \E j \in DOMAIN grid.ys : p \in LevelWalls(grid, floor, t, j)
    OBVIOUS
  <2>3. walls = VAll \cup HAll
    BY DEF WallsOfGrid
  <2> HIDE DEF VAll, HAll, walls
  <2> QED BY <2>1, <2>2, <2>3
<1> HIDE DEF walls
<1>2. \A i \in DOMAIN grid.xs : \A p :
         p \in UprightWalls(grid, floor, t, i) <=>
            \E run \in Runs(VSides(grid, floor, i)) :
               p = <<WallNumber(grid, i, run[1]),
                     VWall(grid, i, run, VSides(grid, floor, i)[run[1]], t)>>
  BY DEF UprightWalls
<1>3. \A j \in DOMAIN grid.ys : \A p :
         p \in LevelWalls(grid, floor, t, j) <=>
            \E run \in Runs(HSides(grid, floor, j)) :
               p = <<WallNumber(grid, Len(grid.xs) + j, run[1]),
                     HWall(grid, floor, j, run, HSides(grid, floor, j)[run[1]], t)>>
  BY DEF LevelWalls
<1>5. \A w \in walls :
         \/ \E i \in DOMAIN grid.xs : \E run \in Runs(VSides(grid, floor, i)) :
               w[2] = VWall(grid, i, run, VSides(grid, floor, i)[run[1]], t)
         \/ \E j \in DOMAIN grid.ys : \E run \in Runs(HSides(grid, floor, j)) :
               w[2] = HWall(grid, floor, j, run, HSides(grid, floor, j)[run[1]], t)
  BY <1>1, <1>2, <1>3
<1>6. /\ \A i \in DOMAIN grid.xs : \A run \in Runs(VSides(grid, floor, i)) :
            \E w \in walls : w[2] = VWall(grid, i, run, VSides(grid, floor, i)[run[1]], t)
      /\ \A j \in DOMAIN grid.ys : \A run \in Runs(HSides(grid, floor, j)) :
            \E w \in walls : w[2] = HWall(grid, floor, j, run, HSides(grid, floor, j)[run[1]], t)
  <2>1. \A i \in DOMAIN grid.xs : \A run \in Runs(VSides(grid, floor, i)) :
           \E w \in walls : w[2] = VWall(grid, i, run, VSides(grid, floor, i)[run[1]], t)
    <3> SUFFICES ASSUME NEW i \in DOMAIN grid.xs, NEW run \in Runs(VSides(grid, floor, i))
                 PROVE  \E w \in walls : w[2] = VWall(grid, i, run, VSides(grid, floor, i)[run[1]], t)
      OBVIOUS
    <3> DEFINE w == <<WallNumber(grid, i, run[1]), VWall(grid, i, run, VSides(grid, floor, i)[run[1]], t)>>
    <3>1. w \in walls
      BY <1>1, <1>2
    <3> QED BY <3>1
  <2>2. \A j \in DOMAIN grid.ys : \A run \in Runs(HSides(grid, floor, j)) :
           \E w \in walls : w[2] = HWall(grid, floor, j, run, HSides(grid, floor, j)[run[1]], t)
    <3> SUFFICES ASSUME NEW j \in DOMAIN grid.ys, NEW run \in Runs(HSides(grid, floor, j))
                 PROVE  \E w \in walls : w[2] = HWall(grid, floor, j, run, HSides(grid, floor, j)[run[1]], t)
      OBVIOUS
    <3> DEFINE w == <<WallNumber(grid, Len(grid.xs) + j, run[1]),
                      HWall(grid, floor, j, run, HSides(grid, floor, j)[run[1]], t)>>
    <3>1. w \in walls
      BY <1>1, <1>3
    <3> QED BY <3>1
  <2> QED BY <2>1, <2>2
<1> QED BY <1>5, <1>6 DEF walls

\* The sides of an edge tell where floor is, and a run has floor on one side.
LEMMA UprightSides ==
    ASSUME NEW grid, IsGrid(grid), NEW floor, NEW i
    PROVE  LET side == VSides(grid, floor, i)
               m == Len(grid.ys) - 1
           IN  /\ \A j \in 1 .. m : /\ side[j] \in {-1, 0, 1}
                                    /\ side[j] = 1 <=> <<i, j>> \in floor /\ <<i - 1, j>> \notin floor
                                    /\ side[j] = -1 <=> <<i, j>> \notin floor /\ <<i - 1, j>> \in floor
               /\ \A run \in Runs(side) :
                     /\ run[1] \in 1 .. m /\ run[2] \in 1 .. m /\ run[1] <= run[2]
                     /\ side[run[1]] \in {-1, 1}
                     /\ \A j \in run[1] .. run[2] : side[j] = side[run[1]]
               /\ \A j \in 1 .. m : side[j] # 0 =>
                     \E run \in Runs(side) : run[1] <= j /\ j <= run[2] /\ side[run[1]] = side[j]
<1> DEFINE side == VSides(grid, floor, i)
           m == Len(grid.ys) - 1
<1>1. DOMAIN side = 1 .. m /\ (m \in Nat \/ m = -1)
  BY DEF VSides, IsGrid, IsLines
<1>2. \A j \in 1 .. m : /\ side[j] \in {-1, 0, 1}
                        /\ side[j] = 1 <=> <<i, j>> \in floor /\ <<i - 1, j>> \notin floor
                        /\ side[j] = -1 <=> <<i, j>> \notin floor /\ <<i - 1, j>> \in floor
  BY DEF VSides, SideOf
<1> HIDE DEF side, m
<1>3. \A run \in Runs(side) :
         /\ run[1] \in 1 .. m /\ run[2] \in 1 .. m /\ run[1] <= run[2]
         /\ side[run[1]] # 0
         /\ \A j \in run[1] .. run[2] : side[j] = side[run[1]]
  <2> SUFFICES ASSUME NEW run \in Runs(side)
               PROVE  /\ run[1] \in 1 .. m /\ run[2] \in 1 .. m /\ run[1] <= run[2]
                      /\ side[run[1]] # 0
                      /\ \A j \in run[1] .. run[2] : side[j] = side[run[1]]
    OBVIOUS
  <2>1. /\ run[1] \in 1 .. m /\ run[2] \in 1 .. m /\ run[1] <= run[2]
        /\ \A k \in run[1] .. run[2] : side[k] = side[run[1]] /\ side[k] # 0
    BY <1>1 DEF Runs
  <2> QED BY <1>1, <2>1
<1>4. \A j \in 1 .. m : side[j] # 0 =>
         \E run \in Runs(side) : run[1] <= j /\ j <= run[2] /\ side[run[1]] = side[j]
  <2> SUFFICES ASSUME NEW j \in 1 .. m, side[j] # 0
               PROVE  \E run \in Runs(side) : run[1] <= j /\ j <= run[2] /\ side[run[1]] = side[j]
    OBVIOUS
  <2>1. m \in Nat
    BY <1>1
  <2> QED BY <1>1, <2>1, RunThrough
<1>5. \A run \in Runs(side) : side[run[1]] \in {-1, 1}
  BY <1>2, <1>3
<1> QED BY <1>2, <1>3, <1>4, <1>5 DEF side, m

\* The same of a level line.
LEMMA LevelSides ==
    ASSUME NEW grid, IsGrid(grid), NEW floor, NEW j
    PROVE  LET side == HSides(grid, floor, j)
               m == Len(grid.xs) - 1
           IN  /\ \A i \in 1 .. m : /\ side[i] \in {-1, 0, 1}
                                    /\ side[i] = 1 <=> <<i, j>> \in floor /\ <<i, j - 1>> \notin floor
                                    /\ side[i] = -1 <=> <<i, j>> \notin floor /\ <<i, j - 1>> \in floor
               /\ \A run \in Runs(side) :
                     /\ run[1] \in 1 .. m /\ run[2] \in 1 .. m /\ run[1] <= run[2]
                     /\ side[run[1]] \in {-1, 1}
                     /\ \A i \in run[1] .. run[2] : side[i] = side[run[1]]
               /\ \A i \in 1 .. m : side[i] # 0 =>
                     \E run \in Runs(side) : run[1] <= i /\ i <= run[2] /\ side[run[1]] = side[i]
<1> DEFINE side == HSides(grid, floor, j)
           m == Len(grid.xs) - 1
<1>1. DOMAIN side = 1 .. m /\ (m \in Nat \/ m = -1)
  BY DEF HSides, IsGrid, IsLines
<1>2. \A i \in 1 .. m : /\ side[i] \in {-1, 0, 1}
                        /\ side[i] = 1 <=> <<i, j>> \in floor /\ <<i, j - 1>> \notin floor
                        /\ side[i] = -1 <=> <<i, j>> \notin floor /\ <<i, j - 1>> \in floor
  BY DEF HSides, SideOf
<1> HIDE DEF side, m
<1>3. \A run \in Runs(side) :
         /\ run[1] \in 1 .. m /\ run[2] \in 1 .. m /\ run[1] <= run[2]
         /\ side[run[1]] # 0
         /\ \A i \in run[1] .. run[2] : side[i] = side[run[1]]
  <2> SUFFICES ASSUME NEW run \in Runs(side)
               PROVE  /\ run[1] \in 1 .. m /\ run[2] \in 1 .. m /\ run[1] <= run[2]
                      /\ side[run[1]] # 0
                      /\ \A i \in run[1] .. run[2] : side[i] = side[run[1]]
    OBVIOUS
  <2>1. /\ run[1] \in 1 .. m /\ run[2] \in 1 .. m /\ run[1] <= run[2]
        /\ \A k \in run[1] .. run[2] : side[k] = side[run[1]] /\ side[k] # 0
    BY <1>1 DEF Runs
  <2> QED BY <1>1, <2>1
<1>4. \A i \in 1 .. m : side[i] # 0 =>
         \E run \in Runs(side) : run[1] <= i /\ i <= run[2] /\ side[run[1]] = side[i]
  <2> SUFFICES ASSUME NEW i \in 1 .. m, side[i] # 0
               PROVE  \E run \in Runs(side) : run[1] <= i /\ i <= run[2] /\ side[run[1]] = side[i]
    OBVIOUS
  <2>1. m \in Nat
    BY <1>1
  <2> QED BY <1>1, <2>1, RunThrough
<1>5. \A run \in Runs(side) : side[run[1]] \in {-1, 1}
  BY <1>2, <1>3
<1> QED BY <1>2, <1>3, <1>4, <1>5 DEF side, m

\* The corners of a cell of a floor are lines of the grid.
LEMMA CellCorners ==
    ASSUME NEW grid, IsGrid(grid), NEW floor, IsFloor(grid, floor), NEW cell \in floor
    PROVE  /\ cell = <<cell[1], cell[2]>>
           /\ cell[1] \in 1 .. Len(grid.xs) - 1 /\ cell[2] \in 1 .. Len(grid.ys) - 1
           /\ {cell[1], cell[1] + 1} \subseteq DOMAIN grid.xs
           /\ {cell[2], cell[2] + 1} \subseteq DOMAIN grid.ys
           /\ grid.xs[cell[1]] \in Int /\ grid.xs[cell[1] + 1] \in Int
           /\ grid.ys[cell[2]] \in Int /\ grid.ys[cell[2] + 1] \in Int
           /\ grid.xs[cell[1]] < grid.xs[cell[1] + 1] /\ grid.ys[cell[2]] < grid.ys[cell[2] + 1]
<1>1. /\ cell = <<cell[1], cell[2]>>
      /\ cell[1] \in 1 .. Len(grid.xs) - 1 /\ cell[2] \in 1 .. Len(grid.ys) - 1
  BY DEF IsFloor
<1>2. ASSUME NEW xs, IsLines(xs), NEW k \in 1 .. Len(xs) - 1
      PROVE  /\ {k, k + 1} \subseteq DOMAIN xs
             /\ xs[k] \in Int /\ xs[k + 1] \in Int /\ xs[k] < xs[k + 1]
  BY <1>2 DEF IsLines
<1>3. IsLines(grid.xs) /\ IsLines(grid.ys)
  BY DEF IsGrid
<1> QED BY <1>1, <1>2, <1>3

\* The wall of a run on an upright line spans every edge of the run.
LEMMA UprightWallSpans ==
    ASSUME NEW grid, IsGrid(grid), NEW floor, NEW t \in Nat,
           NEW i \in DOMAIN grid.xs, NEW b \in 1 .. Len(grid.ys) - 1,
           VSides(grid, floor, i)[b] # 0
    PROVE  \E wall \in WallsOfGrid(grid, floor, t) :
              Inside(Rect(IF VSides(grid, floor, i)[b] = 1 THEN grid.xs[i] - t ELSE grid.xs[i],
                          grid.ys[b], t, grid.ys[b + 1] - grid.ys[b]), wall[2])
<1> DEFINE side == VSides(grid, floor, i)
           m == Len(grid.ys) - 1
<1>1. PICK run \in Runs(side) : run[1] <= b /\ b <= run[2] /\ side[run[1]] = side[b]
  BY UprightSides
<1>2. run[1] \in 1 .. m /\ run[2] \in 1 .. m
  BY UprightSides
<1>3. PICK wall \in WallsOfGrid(grid, floor, t) : wall[2] = VWall(grid, i, run, side[run[1]], t)
  BY WallKinds
<1>4. /\ grid.xs[i] \in Int /\ \A k \in 1 .. Len(grid.ys) : grid.ys[k] \in Int
      /\ Len(grid.ys) \in Nat
  BY DEF IsGrid, IsLines
<1>5. grid.ys[run[1]] <= grid.ys[b] /\ grid.ys[b + 1] <= grid.ys[run[2] + 1]
  <2>1. {run[1], b, b + 1, run[2] + 1} \subseteq 1 .. Len(grid.ys)
    BY <1>2, <1>4
  <2>2. run[1] <= b /\ b + 1 <= run[2] + 1
    BY <1>1, <1>2
  <2>3. \A k, l \in 1 .. Len(grid.ys) : k <= l => grid.ys[k] <= grid.ys[l]
    <3>1. IsLines(grid.ys)
      BY DEF IsGrid
    <3> QED BY <3>1 DEF IsLines
  <2> QED BY <2>1, <2>2, <2>3
<1>6. {grid.ys[run[1]], grid.ys[b], grid.ys[b + 1], grid.ys[run[2] + 1]} \subseteq Int
  BY <1>2, <1>4
<1> HIDE DEF side
<1>7. Inside(Rect(IF side[b] = 1 THEN grid.xs[i] - t ELSE grid.xs[i],
                  grid.ys[b], t, grid.ys[b + 1] - grid.ys[b]), VWall(grid, i, run, side[b], t))
  <2> DEFINE x == IF side[b] = 1 THEN grid.xs[i] - t ELSE grid.xs[i]
  <2>1. x \in Int
    BY <1>4
  <2>2. VWall(grid, i, run, side[b], t)
        = [x |-> x, y |-> grid.ys[run[1]], w |-> t, h |-> grid.ys[run[2] + 1] - grid.ys[run[1]]]
    BY DEF VWall, Rect
  <2> HIDE DEF x
  <2>3. Inside(Rect(x, grid.ys[b], t, grid.ys[b + 1] - grid.ys[b]), VWall(grid, i, run, side[b], t))
    BY <1>5, <1>6, <2>1, <2>2 DEF Inside, Rect
  <2> QED BY <2>3 DEF x
<1> QED BY <1>1, <1>3, <1>7 DEF side

\* That of a run on a level line does, and may reach further.
LEMMA LevelWallSpans ==
    ASSUME NEW grid, IsGrid(grid), NEW floor, NEW t \in Nat,
           NEW j \in DOMAIN grid.ys, NEW a \in 1 .. Len(grid.xs) - 1,
           HSides(grid, floor, j)[a] # 0
    PROVE  \E wall \in WallsOfGrid(grid, floor, t) :
              Inside(Rect(grid.xs[a], IF HSides(grid, floor, j)[a] = 1 THEN grid.ys[j] - t ELSE grid.ys[j],
                          grid.xs[a + 1] - grid.xs[a], t), wall[2])
<1> DEFINE side == HSides(grid, floor, j)
           m == Len(grid.xs) - 1
<1>1. PICK run \in Runs(side) : run[1] <= a /\ a <= run[2] /\ side[run[1]] = side[a]
  BY LevelSides
<1>2. run[1] \in 1 .. m /\ run[2] \in 1 .. m
  BY LevelSides
<1>3. PICK wall \in WallsOfGrid(grid, floor, t) : wall[2] = HWall(grid, floor, j, run, side[run[1]], t)
  BY WallKinds
<1>4. /\ grid.ys[j] \in Int /\ \A k \in 1 .. Len(grid.xs) : grid.xs[k] \in Int
      /\ Len(grid.xs) \in Nat
  BY DEF IsGrid, IsLines
<1>5. grid.xs[run[1]] <= grid.xs[a] /\ grid.xs[a + 1] <= grid.xs[run[2] + 1]
  <2>1. {run[1], a, a + 1, run[2] + 1} \subseteq 1 .. Len(grid.xs)
    BY <1>2, <1>4
  <2>2. run[1] <= a /\ a + 1 <= run[2] + 1
    BY <1>1, <1>2
  <2>3. \A k, l \in 1 .. Len(grid.xs) : k <= l => grid.xs[k] <= grid.xs[l]
    <3>1. IsLines(grid.xs)
      BY DEF IsGrid
    <3> QED BY <3>1 DEF IsLines
  <2> QED BY <2>1, <2>2, <2>3
<1>6. {grid.xs[run[1]], grid.xs[a], grid.xs[a + 1], grid.xs[run[2] + 1]} \subseteq Int
  BY <1>2, <1>4
<1> HIDE DEF side
<1> DEFINE wl == HWall(grid, floor, j, run, side[a], t)
<1>7. /\ wl.x \in {grid.xs[run[1]], grid.xs[run[1]] - t}
      /\ wl.x + wl.w \in {grid.xs[run[2] + 1], grid.xs[run[2] + 1] + t}
      /\ wl.y = IF side[a] = 1 THEN grid.ys[j] - t ELSE grid.ys[j]
      /\ wl.h = t
  <2> DEFINE xL == wl.x
             xR == IF FloorAt(grid, floor, grid.xs[run[2] + 1] + t \div 2,
                              IF side[a] = 1 THEN grid.ys[j] - t \div 2 ELSE grid.ys[j] + t \div 2)
                   THEN grid.xs[run[2] + 1] ELSE grid.xs[run[2] + 1] + t
  <2>1. xL \in {grid.xs[run[1]], grid.xs[run[1]] - t}
    BY DEF HWall, Rect
  <2>2. xR \in {grid.xs[run[2] + 1], grid.xs[run[2] + 1] + t}
    OBVIOUS
  <2>3. wl.w = xR - xL
    BY DEF HWall, Rect
  <2>4. xL \in Int /\ xR \in Int
    BY <1>6, <2>1, <2>2
  <2>5. wl.y = IF side[a] = 1 THEN grid.ys[j] - t ELSE grid.ys[j]
    BY DEF HWall, Rect
  <2>6. wl.h = t
    BY DEF HWall, Rect
  <2>7. wl.x + wl.w = xR
    <3> HIDE DEF xL, xR
    <3>1. xL + (xR - xL) = xR
      BY <2>4
    <3> QED BY <2>3, <3>1 DEF xL
  <2> QED BY <2>1, <2>2, <2>5, <2>6, <2>7
<1> HIDE DEF wl
<1>8. Inside(Rect(grid.xs[a], IF side[a] = 1 THEN grid.ys[j] - t ELSE grid.ys[j],
                  grid.xs[a + 1] - grid.xs[a], t), wl)
  <2> DEFINE y == IF side[a] = 1 THEN grid.ys[j] - t ELSE grid.ys[j]
  <2>1. y \in Int
    BY <1>4
  <2>2. wl.y = y /\ wl.h = t
    BY <1>7
  <2> HIDE DEF y
  <2>3. wl.x <= grid.xs[a] /\ grid.xs[a] + (grid.xs[a + 1] - grid.xs[a]) <= wl.x + wl.w
    <3>1. wl.x <= grid.xs[a]
      <4>1. wl.x = grid.xs[run[1]] \/ wl.x = grid.xs[run[1]] - t
        BY <1>7
      <4> QED BY <1>5, <1>6, <4>1
    <3>2. grid.xs[a + 1] <= wl.x + wl.w
      <4>1. wl.x + wl.w = grid.xs[run[2] + 1] \/ wl.x + wl.w = grid.xs[run[2] + 1] + t
        BY <1>7
      <4> QED BY <1>5, <1>6, <4>1
    <3>3. grid.xs[a] + (grid.xs[a + 1] - grid.xs[a]) = grid.xs[a + 1]
      BY <1>6
    <3> QED BY <3>1, <3>2, <3>3
  <2>4. Inside(Rect(grid.xs[a], y, grid.xs[a + 1] - grid.xs[a], t), wl)
    BY <2>1, <2>2, <2>3 DEF Inside, Rect
  <2> QED BY <2>4 DEF y
<1> QED BY <1>1, <1>3, <1>8 DEF side, wl

\* Walls on every side of a floor leave no gap, whatever cells the floor is made of.
LEMMA NoGap ==
    ASSUME NEW grid, IsGrid(grid), NEW floor, IsFloor(grid, floor), NEW t \in Nat
    PROVE  LeavesNoGap(WallsOfGrid(grid, floor, t), grid, floor, t)
<1> DEFINE walls == WallsOfGrid(grid, floor, t)
           EdgesOf(cell, r) ==
               {<<<<cell[1] - 1, cell[2]>>, Rect(r.x - t, r.y, t, r.h)>>,
                <<<<cell[1] + 1, cell[2]>>, Rect(r.x + r.w, r.y, t, r.h)>>,
                <<<<cell[1], cell[2] - 1>>, Rect(r.x, r.y - t, r.w, t)>>,
                <<<<cell[1], cell[2] + 1>>, Rect(r.x, r.y + r.h, r.w, t)>>}
<1> SUFFICES
       ASSUME NEW cell \in floor
       PROVE  \A side \in EdgesOf(cell, CellRect(grid, cell[1], cell[2])) :
                 side[1] \in floor \/ \E wall \in walls : Inside(side[2], wall[2])
  BY Zenon DEF LeavesNoGap
<1> DEFINE a == cell[1]
           b == cell[2]
           r == CellRect(grid, a, b)
<1>1. /\ <<a, b>> \in floor
      /\ a \in 1 .. Len(grid.xs) - 1 /\ b \in 1 .. Len(grid.ys) - 1
      /\ a \in DOMAIN grid.xs /\ a + 1 \in DOMAIN grid.xs
      /\ b \in DOMAIN grid.ys /\ b + 1 \in DOMAIN grid.ys
      /\ grid.xs[a] \in Int /\ grid.xs[a + 1] \in Int
      /\ grid.ys[b] \in Int /\ grid.ys[b + 1] \in Int
  BY CellCorners
<1>2. /\ r.x = grid.xs[a] /\ r.w = grid.xs[a + 1] - grid.xs[a]
      /\ r.y = grid.ys[b] /\ r.h = grid.ys[b + 1] - grid.ys[b]
      /\ r.x + r.w = grid.xs[a + 1] /\ r.y + r.h = grid.ys[b + 1]
  BY <1>1 DEF CellRect, Rect
<1> HIDE DEF walls, a, b, r
<1>3. ASSUME <<a - 1, b>> \notin floor
      PROVE  \E wall \in walls : Inside(Rect(r.x - t, r.y, t, r.h), wall[2])
  <2>1. VSides(grid, floor, a)[b] = 1
    BY <1>1, <1>3, UprightSides
  <2>2. VSides(grid, floor, a)[b] # 0
    BY <2>1
  <2>3. \E wall \in walls :
           Inside(Rect(IF VSides(grid, floor, a)[b] = 1 THEN grid.xs[a] - t ELSE grid.xs[a],
                       grid.ys[b], t, grid.ys[b + 1] - grid.ys[b]), wall[2])
    BY <1>1, <2>2, UprightWallSpans, Zenon DEF walls
  <2> QED BY <1>2, <2>1, <2>3
<1>4. ASSUME <<a + 1, b>> \notin floor
      PROVE  \E wall \in walls : Inside(Rect(r.x + r.w, r.y, t, r.h), wall[2])
  <2>1. (a + 1) - 1 = a
    BY <1>1
  <2>2. VSides(grid, floor, a + 1)[b] = -1
    BY <1>1, <1>4, <2>1, UprightSides
  <2>3. VSides(grid, floor, a + 1)[b] # 0 /\ VSides(grid, floor, a + 1)[b] # 1
    BY <2>2
  <2>4. \E wall \in walls :
           Inside(Rect(IF VSides(grid, floor, a + 1)[b] = 1 THEN grid.xs[a + 1] - t ELSE grid.xs[a + 1],
                       grid.ys[b], t, grid.ys[b + 1] - grid.ys[b]), wall[2])
    BY <1>1, <2>3, UprightWallSpans, Zenon DEF walls
  <2> QED BY <1>2, <2>3, <2>4
<1>5. ASSUME <<a, b - 1>> \notin floor
      PROVE  \E wall \in walls : Inside(Rect(r.x, r.y - t, r.w, t), wall[2])
  <2>1. HSides(grid, floor, b)[a] = 1
    BY <1>1, <1>5, LevelSides
  <2>2. HSides(grid, floor, b)[a] # 0
    BY <2>1
  <2>3. \E wall \in walls :
           Inside(Rect(grid.xs[a], IF HSides(grid, floor, b)[a] = 1 THEN grid.ys[b] - t ELSE grid.ys[b],
                       grid.xs[a + 1] - grid.xs[a], t), wall[2])
    BY <1>1, <2>2, LevelWallSpans, Zenon DEF walls
  <2> QED BY <1>2, <2>1, <2>3
<1>6. ASSUME <<a, b + 1>> \notin floor
      PROVE  \E wall \in walls : Inside(Rect(r.x, r.y + r.h, r.w, t), wall[2])
  <2>1. (b + 1) - 1 = b
    BY <1>1
  <2>2. HSides(grid, floor, b + 1)[a] = -1
    BY <1>1, <1>6, <2>1, LevelSides
  <2>3. HSides(grid, floor, b + 1)[a] # 0 /\ HSides(grid, floor, b + 1)[a] # 1
    BY <2>2
  <2>4. \E wall \in walls :
           Inside(Rect(grid.xs[a], IF HSides(grid, floor, b + 1)[a] = 1 THEN grid.ys[b + 1] - t ELSE grid.ys[b + 1],
                       grid.xs[a + 1] - grid.xs[a], t), wall[2])
    BY <1>1, <2>3, LevelWallSpans, Zenon DEF walls
  <2> QED BY <1>2, <2>3, <2>4
<1>7. \A side \in EdgesOf(cell, r) :
         side[1] \in floor \/ \E wall \in walls : Inside(side[2], wall[2])
  BY <1>3, <1>4, <1>5, <1>6 DEF a, b
<1> QED BY <1>7 DEF a, b, r

\* Lines t apart.
IsBroad(xs, t) == \A i \in 1 .. Len(xs) - 1 : xs[i + 1] - xs[i] >= t

\* What reaches less than t beyond a line reaches into the next column only.
LEMMA OneColumn ==
    ASSUME NEW xs, IsLines(xs), NEW t \in Nat, IsBroad(xs, t),
           NEW i \in 1 .. Len(xs), NEW a \in 1 .. Len(xs) - 1
    PROVE  /\ xs[i] \in Int /\ xs[a] \in Int /\ xs[a + 1] \in Int /\ xs[a] + t <= xs[a + 1]
           /\ xs[i] - t < xs[a + 1] /\ xs[a] < xs[i] => a = i - 1
           /\ xs[i] < xs[a + 1] /\ xs[a] < xs[i] + t => a = i
<1>1. Len(xs) \in Nat /\ \A k \in 1 .. Len(xs) : xs[k] \in Int
  BY DEF IsLines
<1>2. \A k \in 1 .. Len(xs) - 1 : k + 1 \in 1 .. Len(xs) /\ xs[k] + t <= xs[k + 1]
  <2> SUFFICES ASSUME NEW k \in 1 .. Len(xs) - 1
               PROVE  k + 1 \in 1 .. Len(xs) /\ xs[k] + t <= xs[k + 1]
    OBVIOUS
  <2>1. k + 1 \in 1 .. Len(xs) /\ k \in 1 .. Len(xs) /\ xs[k + 1] - xs[k] >= t
    BY <1>1 DEF IsBroad
  <2>2. xs[k] \in Int /\ xs[k + 1] \in Int
    BY <1>1, <2>1
  <2> QED BY <2>1, <2>2
<1>3. \A k, l \in 1 .. Len(xs) : k <= l => xs[k] <= xs[l]
  BY <1>1 DEF IsLines
<1>4. xs[i] \in Int /\ xs[a] \in Int /\ xs[a + 1] \in Int /\ xs[a] + t <= xs[a + 1]
  BY <1>1, <1>2
<1>5. ASSUME xs[i] - t < xs[a + 1], xs[a] < xs[i] PROVE a = i - 1
  <2>1. a < i
    BY <1>1, <1>3, <1>4, <1>5
  <2>2. CASE a + 1 < i
    <3>1. i - 1 \in 1 .. Len(xs) - 1 /\ a + 1 <= i - 1 /\ (i - 1) + 1 = i
      BY <1>1, <2>2
    <3>2. xs[i - 1] + t <= xs[i] /\ xs[i - 1] \in Int
      BY <1>1, <1>2, <3>1
    <3>3. xs[a + 1] <= xs[i - 1]
      BY <1>1, <1>3, <3>1
    <3> QED BY <1>4, <1>5, <3>2, <3>3
  <2> QED BY <1>1, <2>1, <2>2
<1>6. ASSUME xs[i] < xs[a + 1], xs[a] < xs[i] + t PROVE a = i
  <2>1. i < a + 1
    BY <1>1, <1>3, <1>4, <1>6
  <2>2. CASE i < a
    <3>1. i \in 1 .. Len(xs) - 1 /\ i + 1 <= a /\ i + 1 \in 1 .. Len(xs)
      BY <1>1, <2>2
    <3>2. xs[i] + t <= xs[i + 1] /\ xs[i + 1] \in Int
      BY <1>1, <1>2, <3>1
    <3>3. xs[i + 1] <= xs[a]
      BY <1>1, <1>3, <3>1
    <3> QED BY <1>4, <1>6, <3>2, <3>3
  <2> QED BY <1>1, <2>1, <2>2
<1> QED BY <1>4, <1>5, <1>6

\* A stretch between two lines that meets a column has the column in its run.
LEMMA RunColumn ==
    ASSUME NEW xs, IsLines(xs), NEW from \in 1 .. Len(xs) - 1, NEW to \in 1 .. Len(xs) - 1,
           NEW a \in 1 .. Len(xs) - 1
    PROVE  /\ xs[from] \in Int /\ xs[to + 1] \in Int
           /\ xs[from] < xs[a + 1] => from <= a
           /\ xs[a] < xs[to + 1] => a <= to
<1>1. Len(xs) \in Nat /\ \A k \in 1 .. Len(xs) : xs[k] \in Int
  BY DEF IsLines
<1>2. \A k, l \in 1 .. Len(xs) : k <= l => xs[k] <= xs[l]
  BY <1>1 DEF IsLines
<1>3. {from, a, a + 1, to, to + 1} \subseteq 1 .. Len(xs)
  BY <1>1
<1>4. {xs[from], xs[a], xs[a + 1], xs[to + 1]} \subseteq Int
  BY <1>1, <1>3
<1>5. xs[from] < xs[a + 1] => from <= a
  <2> SUFFICES ASSUME ~(from <= a) PROVE xs[a + 1] <= xs[from]
    BY <1>4
  <2>1. a + 1 <= from
    BY <1>1
  <2> QED BY <1>2, <1>3, <2>1
<1>6. xs[a] < xs[to + 1] => a <= to
  <2> SUFFICES ASSUME ~(a <= to) PROVE xs[to + 1] <= xs[a]
    BY <1>4
  <2>1. to + 1 <= a
    BY <1>1
  <2> QED BY <1>2, <1>3, <2>1
<1> QED BY <1>4, <1>5, <1>6

\* No wall of an upright line lies on a cell of the floor.
LEMMA UprightClear ==
    ASSUME NEW grid, IsGrid(grid), NEW floor, IsFloor(grid, floor), NEW t \in Nat,
           IsBroad(grid.xs, t), NEW cell \in floor, NEW i \in DOMAIN grid.xs,
           NEW run \in Runs(VSides(grid, floor, i))
    PROVE  ~Overlap(VWall(grid, i, run, VSides(grid, floor, i)[run[1]], t),
                    CellRect(grid, cell[1], cell[2]))
<1> DEFINE a == cell[1]
           b == cell[2]
           side == VSides(grid, floor, i)
           m == Len(grid.ys) - 1
           s == side[run[1]]
<1>1. /\ <<a, b>> \in floor
      /\ a \in 1 .. Len(grid.xs) - 1 /\ b \in 1 .. m
  BY CellCorners
<1>2. /\ run[1] \in 1 .. m /\ run[2] \in 1 .. m /\ s \in {-1, 1}
      /\ \A j \in run[1] .. run[2] : side[j] = s
  BY UprightSides
<1>3. IsLines(grid.xs) /\ IsLines(grid.ys) /\ i \in 1 .. Len(grid.xs)
  BY DEF IsGrid, IsLines
<1>4. /\ side[b] = 1 => <<i - 1, b>> \notin floor
      /\ side[b] = -1 => <<i, b>> \notin floor
  BY <1>1, UprightSides
<1> HIDE DEF a, b, side, m, s
<1> SUFFICES ASSUME Overlap(VWall(grid, i, run, s, t), CellRect(grid, a, b)) PROVE FALSE
  BY DEF a, b, side, s
<1>5. /\ grid.xs[i] \in Int /\ grid.xs[a] \in Int /\ grid.xs[a + 1] \in Int
      /\ grid.xs[a] + t <= grid.xs[a + 1]
      /\ grid.xs[i] - t < grid.xs[a + 1] /\ grid.xs[a] < grid.xs[i] => a = i - 1
      /\ grid.xs[i] < grid.xs[a + 1] /\ grid.xs[a] < grid.xs[i] + t => a = i
  BY <1>1, <1>3, OneColumn
<1>6. /\ grid.ys[run[1]] \in Int /\ grid.ys[run[2] + 1] \in Int
      /\ grid.ys[run[1]] < grid.ys[b + 1] => run[1] <= b
      /\ grid.ys[b] < grid.ys[run[2] + 1] => b <= run[2]
  BY <1>1, <1>2, <1>3, RunColumn DEF m
<1>7. grid.ys[b] \in Int /\ grid.ys[b + 1] \in Int
  BY CellCorners DEF b
<1> DEFINE W == VWall(grid, i, run, s, t)
           C == CellRect(grid, a, b)
<1>8. /\ C.x = grid.xs[a] /\ C.x + C.w = grid.xs[a + 1]
      /\ C.y = grid.ys[b] /\ C.y + C.h = grid.ys[b + 1]
  BY <1>5, <1>7 DEF CellRect, Rect
<1>9. /\ s = 1 => W.x = grid.xs[i] - t
      /\ s = -1 => W.x = grid.xs[i]
      /\ W.w = t
      /\ W.y = grid.ys[run[1]] /\ W.y + W.h = grid.ys[run[2] + 1]
  BY <1>6 DEF VWall, Rect
<1>10. /\ W.x < C.x + C.w /\ C.x < W.x + W.w
       /\ W.y < C.y + C.h /\ C.y < W.y + W.h
  BY DEF Overlap
<1> HIDE DEF W, C
<1>11. side[b] = s
  <2>1. run[1] <= b /\ b <= run[2]
    BY <1>6, <1>8, <1>9, <1>10
  <2>2. b \in run[1] .. run[2]
    BY <1>1, <1>2, <2>1
  <2> QED BY <1>2, <2>2
<1>12. CASE s = 1
  <2>1. W.x = grid.xs[i] - t /\ W.x + W.w = grid.xs[i]
    BY <1>5, <1>9, <1>12
  <2>2. a = i - 1
    BY <1>5, <1>8, <1>10, <2>1
  <2> QED BY <1>1, <1>4, <1>11, <1>12, <2>2
<1>13. CASE s = -1
  <2>1. W.x = grid.xs[i] /\ W.x + W.w = grid.xs[i] + t
    BY <1>9, <1>13
  <2>2. a = i
    BY <1>5, <1>8, <1>10, <2>1
  <2> QED BY <1>1, <1>4, <1>11, <1>13, <2>2
<1> QED BY <1>2, <1>12, <1>13

\* Nor does one of a level line: it goes on past the end of its run only where there is
\* no floor.
LEMMA LevelClear ==
    ASSUME NEW grid, IsGrid(grid), NEW floor, IsFloor(grid, floor), NEW t \in Nat, t > 1,
           IsBroad(grid.xs, t), IsBroad(grid.ys, t), NEW cell \in floor,
           NEW j \in DOMAIN grid.ys, NEW run \in Runs(HSides(grid, floor, j))
    PROVE  ~Overlap(HWall(grid, floor, j, run, HSides(grid, floor, j)[run[1]], t),
                    CellRect(grid, cell[1], cell[2]))
<1> DEFINE a == cell[1]
           b == cell[2]
           side == HSides(grid, floor, j)
           m == Len(grid.xs) - 1
           s == side[run[1]]
           half == t \div 2
           from == grid.xs[run[1]]
           to == grid.xs[run[2] + 1]
           band == IF s = 1 THEN grid.ys[j] - half ELSE grid.ys[j] + half
           xL == IF FloorAt(grid, floor, from - half, band) THEN from ELSE from - t
           xR == IF FloorAt(grid, floor, to + half, band) THEN to ELSE to + t
<1>1. /\ <<a, b>> \in floor
      /\ a \in 1 .. m /\ b \in 1 .. Len(grid.ys) - 1
  BY CellCorners
<1>2. /\ run[1] \in 1 .. m /\ run[2] \in 1 .. m /\ s \in {-1, 1}
      /\ \A i \in run[1] .. run[2] : side[i] = s
  BY LevelSides
<1>3. IsLines(grid.xs) /\ IsLines(grid.ys) /\ j \in 1 .. Len(grid.ys)
  BY DEF IsGrid, IsLines
<1>4. /\ side[a] = 1 => <<a, j - 1>> \notin floor
      /\ side[a] = -1 => <<a, j>> \notin floor
  BY <1>1, LevelSides
<1>5. half \in Nat /\ 0 < half /\ half < t
  OBVIOUS
<1>6. HWall(grid, floor, j, run, s, t)
      = Rect(xL, IF s = 1 THEN grid.ys[j] - t ELSE grid.ys[j], xR - xL, t)
  BY DEF HWall
<1> HIDE DEF a, b, side, m, s, half
<1> SUFFICES ASSUME Overlap(HWall(grid, floor, j, run, s, t), CellRect(grid, a, b)) PROVE FALSE
  BY DEF a, b, side, s
<1>7. /\ grid.ys[j] \in Int /\ grid.ys[b] \in Int /\ grid.ys[b + 1] \in Int
      /\ grid.ys[b] + t <= grid.ys[b + 1]
      /\ grid.ys[j] - t < grid.ys[b + 1] /\ grid.ys[b] < grid.ys[j] => b = j - 1
      /\ grid.ys[j] < grid.ys[b + 1] /\ grid.ys[b] < grid.ys[j] + t => b = j
  BY <1>1, <1>3, OneColumn
<1>8. /\ from \in Int /\ to \in Int
      /\ from < grid.xs[a + 1] => run[1] <= a
      /\ grid.xs[a] < to => a <= run[2]
  BY <1>1, <1>2, <1>3, RunColumn DEF m
<1>9. /\ grid.xs[a] \in Int /\ grid.xs[a + 1] \in Int
      /\ grid.xs[a] + t <= grid.xs[a + 1]
      /\ from - t < grid.xs[a + 1] /\ grid.xs[a] < from => a = run[1] - 1
      /\ to < grid.xs[a + 1] /\ grid.xs[a] < to + t => a = run[2] + 1
  <2>1. run[1] \in 1 .. Len(grid.xs) /\ run[2] + 1 \in 1 .. Len(grid.xs)
    BY <1>2, <1>3 DEF m, IsLines
  <2> QED BY <1>1, <1>3, <2>1, OneColumn DEF m
<1> DEFINE W == HWall(grid, floor, j, run, s, t)
           C == CellRect(grid, a, b)
<1>10. /\ C.x = grid.xs[a] /\ C.x + C.w = grid.xs[a + 1]
       /\ C.y = grid.ys[b] /\ C.y + C.h = grid.ys[b + 1]
  BY <1>7, <1>9 DEF CellRect, Rect
<1>11. W.x = xL /\ W.w = xR - xL /\ W.h = t
       /\ W.y = IF s = 1 THEN grid.ys[j] - t ELSE grid.ys[j]
  BY <1>6 DEF Rect
<1>12. /\ W.x < C.x + C.w /\ C.x < W.x + W.w
       /\ W.y < C.y + C.h /\ C.y < W.y + W.h
  BY DEF Overlap
<1> HIDE DEF W, C, band
<1>13. xL \in Int /\ xR \in Int /\ xL + (xR - xL) = xR
  BY <1>8
<1> HIDE DEF from, to, xL, xR
<1>14. xL < grid.xs[a + 1] /\ grid.xs[a] < xR
  BY <1>10, <1>11, <1>12, <1>13
<1>15. /\ s = 1 => b = j - 1
       /\ s = -1 => b = j
       /\ grid.ys[b] <= band /\ band < grid.ys[b + 1] /\ band \in Int
  <2>1. CASE s = 1
    <3>1. W.y = grid.ys[j] - t /\ W.y + W.h = grid.ys[j] /\ band = grid.ys[j] - half
      BY <1>7, <1>11, <2>1 DEF band
    <3>2. b = j - 1 /\ b + 1 = j
      BY <1>3, <1>7, <1>10, <1>12, <3>1
    <3> QED BY <1>5, <1>7, <2>1, <3>1, <3>2
  <2>2. CASE s = -1
    <3>1. W.y = grid.ys[j] /\ W.y + W.h = grid.ys[j] + t /\ band = grid.ys[j] + half
      BY <1>7, <1>11, <2>2 DEF band
    <3>2. b = j
      BY <1>3, <1>7, <1>10, <1>12, <3>1
    <3> QED BY <1>5, <1>7, <2>2, <3>1, <3>2
  <2> QED BY <1>2, <2>1, <2>2
<1>16. ~(run[1] <= a /\ a <= run[2])
  <2> SUFFICES ASSUME run[1] <= a, a <= run[2] PROVE FALSE
    OBVIOUS
  <2>1. side[a] = s
    BY <1>1, <1>2
  <2>2. CASE s = 1
    BY <1>1, <1>4, <1>15, <2>1, <2>2
  <2>3. CASE s = -1
    BY <1>1, <1>4, <1>15, <2>1, <2>3
  <2> QED BY <1>2, <2>2, <2>3
<1>17. ASSUME NEW p \in Int, grid.xs[a] <= p, p < grid.xs[a + 1]
       PROVE  FloorAt(grid, floor, p, band)
  <2> DEFINE c == <<a, b>>
  <2>1. c \in floor /\ c[1] = a /\ c[2] = b
    BY <1>1
  <2> HIDE DEF c
  <2> QED BY <1>15, <1>17, <2>1 DEF FloorAt
<1>18. CASE ~(run[1] <= a)
  <2>1. grid.xs[a + 1] <= from /\ grid.xs[a] < from
    BY <1>5, <1>8, <1>9, <1>18
  <2>2. xL = from - t /\ ~FloorAt(grid, floor, from - half, band)
    BY <1>14, <2>1, <1>8, <1>9 DEF xL
  <2>3. a = run[1] - 1
    BY <1>8, <1>9, <1>14, <2>1, <2>2
  <2>4. grid.xs[a + 1] = from
    BY <1>2, <2>3 DEF from
  <2>5. grid.xs[a] <= from - half /\ from - half < grid.xs[a + 1] /\ from - half \in Int
    BY <1>5, <1>8, <1>9, <2>4
  <2> QED BY <1>17, <2>2, <2>5
<1>19. CASE ~(a <= run[2])
  <2>1. to <= grid.xs[a] /\ to < grid.xs[a + 1]
    BY <1>5, <1>8, <1>9, <1>19
  <2>2. xR = to + t /\ ~FloorAt(grid, floor, to + half, band)
    BY <1>14, <2>1, <1>8, <1>9 DEF xR
  <2>3. a = run[2] + 1
    BY <1>8, <1>9, <1>14, <2>1, <2>2
  <2>4. grid.xs[a] = to
    BY <1>2, <2>3 DEF to
  <2>5. grid.xs[a] <= to + half /\ to + half < grid.xs[a + 1] /\ to + half \in Int
    BY <1>5, <1>8, <1>9, <2>4
  <2> QED BY <1>17, <2>2, <2>5
<1> QED BY <1>16, <1>18, <1>19

\* Walls around a floor whose lines are a wall's thickness apart cover none of it.
LEMMA NoCover ==
    ASSUME NEW grid, IsGrid(grid), NEW floor, IsFloor(grid, floor), NEW t \in Nat, t > 1,
           Broad(grid, t)
    PROVE  CoversNoFloor(WallsOfGrid(grid, floor, t), grid, floor)
<1>1. IsBroad(grid.xs, t) /\ IsBroad(grid.ys, t)
  BY DEF Broad, IsBroad
<1> SUFFICES ASSUME NEW cell \in floor, NEW wall \in WallsOfGrid(grid, floor, t)
             PROVE  ~Overlap(wall[2], CellRect(grid, cell[1], cell[2]))
  BY DEF CoversNoFloor
<1>2. CASE \E i \in DOMAIN grid.xs : \E run \in Runs(VSides(grid, floor, i)) :
              wall[2] = VWall(grid, i, run, VSides(grid, floor, i)[run[1]], t)
  BY <1>1, <1>2, UprightClear
<1>3. CASE \E j \in DOMAIN grid.ys : \E run \in Runs(HSides(grid, floor, j)) :
              wall[2] = HWall(grid, floor, j, run, HSides(grid, floor, j)[run[1]], t)
  BY <1>1, <1>3, LevelClear
<1> QED BY <1>2, <1>3, WallKinds

(***************************************************************************)
(* Carved floors                                                           *)
(***************************************************************************)
\* A box on whole pixels.
IsBox(b) == OnPixels({b.x, b.y, b.w, b.h})

\* What finitely many finite sets hold is finite.
LEMMA FiniteTogether ==
    ASSUME NEW D, IsFiniteSet(D), NEW f, DOMAIN f = D, f = [i \in D |-> f[i]],
           \A i \in D : IsFiniteSet(f[i])
    PROVE  IsFiniteSet(UNION {f[i] : i \in D})
<1>1. f \in Surjection(D, Range(f))
  <2>1. f \in [D -> Range(f)]
    BY DEF Range
  <2> QED BY <2>1, Fun_RangeProperties
<1>2. IsFiniteSet(Range(f))
  BY <1>1, FS_Surjection
<1>3. Range(f) = {f[i] : i \in D}
  BY DEF Range
<1>4. \A T \in Range(f) : IsFiniteSet(T)
  BY <1>3
<1> QED BY <1>2, <1>3, <1>4, FS_UNION

\* The larger and the smaller of two numbers.
LEMMA TwoNumbers ==
    ASSUME NEW a \in Int, NEW b \in Int
    PROVE  /\ Max({a, b}) = (IF a >= b THEN a ELSE b)
           /\ Min({a, b}) = (IF a <= b THEN a ELSE b)
           /\ Max({a, b}) \in Int /\ Min({a, b}) \in Int
<1>1. ASSUME NEW S, S = {a, b}
      PROVE  /\ Max(S) \in S /\ \A y \in S : Max(S) >= y
             /\ Min(S) \in S /\ \A y \in S : Min(S) <= y
  <2>1. (\E x \in S : \A y \in S : x >= y) /\ (\E x \in S : \A y \in S : x <= y)
    BY <1>1
  <2> QED BY <2>1 DEF Max, Min
<1>2. Max({a, b}) \in {a, b} /\ Max({a, b}) >= a /\ Max({a, b}) >= b
  BY <1>1
<1>3. Min({a, b}) \in {a, b} /\ Min({a, b}) <= a /\ Min({a, b}) <= b
  BY <1>1
<1> QED BY <1>2, <1>3

\* Clipping leaves boxes, and no cutout more.
LEMMA ClippedBoxes ==
    ASSUME NEW r, IsBox(r), NEW cutouts, IsFiniteSet(DOMAIN cutouts),
           \A i \in DOMAIN cutouts : IsBox(cutouts[i])
    PROVE  LET clipped == clipCutoutsToBoundary(r, cutouts)
           IN  /\ IsFiniteSet(DOMAIN clipped) /\ DOMAIN clipped \subseteq DOMAIN cutouts
               /\ clipped = [i \in DOMAIN clipped |-> clipped[i]]
               /\ \A i \in DOMAIN clipped :
                     /\ IsBox(clipped[i]) /\ clipped[i].w > 0 /\ clipped[i].h > 0
                     /\ Inside(clipped[i], r) /\ Inside(clipped[i], cutouts[i])
<1> DEFINE Clip(c) == LET x1 == Max({c.x, r.x})
                          y1 == Max({c.y, r.y})
                      IN  Rect(x1, y1, Min({c.x + c.w, r.x + r.w}) - x1,
                                       Min({c.y + c.h, r.y + r.h}) - y1)
           L == {i \in DOMAIN cutouts : Clip(cutouts[i]).w > 0 /\ Clip(cutouts[i]).h > 0}
           clipped == clipCutoutsToBoundary(r, cutouts)
<1>1. clipped = [i \in L |-> Clip(cutouts[i])]
  BY DEF clipCutoutsToBoundary
<1>2. IsFiniteSet(L)
  <2>1. L \in SUBSET DOMAIN cutouts
    OBVIOUS
  <2> HIDE DEF L
  <2> QED BY <2>1, FS_Subset
<1>3. ASSUME NEW c, IsBox(c)
      PROVE  IsBox(Clip(c)) /\ Inside(Clip(c), r) /\ Inside(Clip(c), c)
  <2> DEFINE x1 == Max({c.x, r.x})
             y1 == Max({c.y, r.y})
             x2 == Min({c.x + c.w, r.x + r.w})
             y2 == Min({c.y + c.h, r.y + r.h})
  <2>1. /\ c.x \in Int /\ c.y \in Int /\ c.w \in Int /\ c.h \in Int
        /\ r.x \in Int /\ r.y \in Int /\ r.w \in Int /\ r.h \in Int
    BY <1>3 DEF IsBox, OnPixels
  <2>2. /\ x1 \in Int /\ x1 >= c.x /\ x1 >= r.x
        /\ y1 \in Int /\ y1 >= c.y /\ y1 >= r.y
    BY <2>1, TwoNumbers
  <2>3. c.x + c.w \in Int /\ r.x + r.w \in Int /\ c.y + c.h \in Int /\ r.y + r.h \in Int
    BY <2>1
  <2>4. /\ x2 \in Int /\ x2 <= c.x + c.w /\ x2 <= r.x + r.w
        /\ y2 \in Int /\ y2 <= c.y + c.h /\ y2 <= r.y + r.h
    <3>1. \A a, b \in Int : Min({a, b}) \in Int /\ Min({a, b}) <= a /\ Min({a, b}) <= b
      BY TwoNumbers
    <3> QED BY <2>3, <3>1
  <2>5. Clip(c) = [x |-> x1, y |-> y1, w |-> x2 - x1, h |-> y2 - y1]
    BY DEF Rect
  <2> DEFINE k == Clip(c)
  <2>6. /\ k.x = x1 /\ k.y = y1 /\ k.w = x2 - x1 /\ k.h = y2 - y1
    BY <2>5
  <2> HIDE DEF x1, y1, x2, y2, k
  <2>7. /\ k.x + k.w = x2 /\ k.y + k.h = y2 /\ k.w \in Int /\ k.h \in Int
    BY <2>2, <2>4, <2>6
  <2>8. IsBox(k) /\ Inside(k, r) /\ Inside(k, c)
    BY <2>2, <2>4, <2>6, <2>7 DEF IsBox, OnPixels, Inside
  <2> QED BY <2>8 DEF k
<1> HIDE DEF Clip
<1>4. DOMAIN clipped = L /\ \A i \in L : clipped[i] = Clip(cutouts[i])
  BY <1>1
<1>5. clipped = [i \in L |-> clipped[i]]
  BY <1>1
<1> HIDE DEF clipped
<1>6. L \subseteq DOMAIN cutouts /\ \A i \in L : Clip(cutouts[i]).w > 0 /\ Clip(cutouts[i]).h > 0
  OBVIOUS
<1> HIDE DEF L
<1> QED BY <1>2, <1>3, <1>4, <1>5, <1>6 DEF clipped

\* The edges of a room and of some boxes on either axis are lines.
LEMMA EdgeLines ==
    ASSUME NEW D, IsFiniteSet(D), NEW lo, NEW len, NEW a \in Int, NEW b \in Int,
           \A i \in D : lo[i] \in Int /\ len[i] \in Int
    PROVE  IsLines(Sorted({a, b} \cup (UNION {{lo[i], lo[i] + len[i]} : i \in D})))
<1> DEFINE f == [i \in D |-> {lo[i], lo[i] + len[i]}]
           E == UNION {{lo[i], lo[i] + len[i]} : i \in D}
<1>1. \A i \in D : IsFiniteSet(f[i])
  <2> SUFFICES ASSUME NEW i \in D PROVE IsFiniteSet({lo[i], lo[i] + len[i]})
    OBVIOUS
  <2>1. IsFiniteSet({lo[i]}) /\ IsFiniteSet({lo[i] + len[i]})
    BY FS_Singleton
  <2>2. {lo[i], lo[i] + len[i]} = {lo[i]} \cup {lo[i] + len[i]}
    OBVIOUS
  <2> QED BY <2>1, <2>2, FS_Union
<1>2. E = UNION {f[i] : i \in D}
  OBVIOUS
<1>3. DOMAIN f = D /\ f = [i \in D |-> f[i]]
  OBVIOUS
<1>4. E \subseteq Int
  BY DEF E
<1> HIDE DEF f, E
<1>5. IsFiniteSet(E)
  BY <1>1, <1>2, <1>3, FiniteTogether
<1>6. IsFiniteSet({a, b})
  <2>1. IsFiniteSet({a}) /\ IsFiniteSet({b}) /\ {a, b} = {a} \cup {b}
    BY FS_Singleton
  <2> QED BY <2>1, FS_Union
<1>7. IsFiniteSet({a, b} \cup E)
  BY <1>5, <1>6, FS_Union
<1>8. {a, b} \cup E \in SUBSET Int
  BY <1>4
<1>9. IsLines(Sorted({a, b} \cup E))
  BY <1>7, <1>8, SortedLines
<1> QED BY <1>9 DEF E

\* The cells the cutouts cut a room into are a grid.
LEMMA CarvedGrid ==
    ASSUME NEW r, IsBox(r), NEW cutouts, IsFiniteSet(DOMAIN cutouts),
           \A i \in DOMAIN cutouts : IsBox(cutouts[i])
    PROVE  IsGrid(buildCarveGrid(r, cutouts))
<1> DEFINE k == clipCutoutsToBoundary(r, cutouts)
           D == DOMAIN k
           X == {r.x, r.x + r.w} \cup (UNION {{c.x, c.x + c.w} : c \in Range(k)})
           Y == {r.y, r.y + r.h} \cup (UNION {{c.y, c.y + c.h} : c \in Range(k)})
           lx == [i \in D |-> k[i].x]
           lw == [i \in D |-> k[i].w]
           ly == [i \in D |-> k[i].y]
           lh == [i \in D |-> k[i].h]
<1>1. buildCarveGrid(r, cutouts).xs = Sorted(X) /\ buildCarveGrid(r, cutouts).ys = Sorted(Y)
  BY DEF buildCarveGrid, GridOf
<1>2. IsFiniteSet(D) /\ \A i \in D : IsBox(k[i])
  BY ClippedBoxes
<1> HIDE DEF k
<1>3. \A i \in D : lx[i] \in Int /\ lw[i] \in Int /\ ly[i] \in Int /\ lh[i] \in Int
  BY <1>2 DEF IsBox, OnPixels
<1>4. r.x \in Int /\ r.x + r.w \in Int /\ r.y \in Int /\ r.y + r.h \in Int
  BY DEF IsBox, OnPixels
<1>5. X = {r.x, r.x + r.w} \cup (UNION {{lx[i], lx[i] + lw[i]} : i \in D})
  <2>1. \A p : p \in UNION {{c.x, c.x + c.w} : c \in Range(k)}
               <=> p \in UNION {{lx[i], lx[i] + lw[i]} : i \in D}
    BY DEF Range
  <2> QED BY <2>1
<1>6. Y = {r.y, r.y + r.h} \cup (UNION {{ly[i], ly[i] + lh[i]} : i \in D})
  <2>1. \A p : p \in UNION {{c.y, c.y + c.h} : c \in Range(k)}
               <=> p \in UNION {{ly[i], ly[i] + lh[i]} : i \in D}
    BY DEF Range
  <2> QED BY <2>1
<1> HIDE DEF X, Y, lx, lw, ly, lh, D
<1>7. IsLines(Sorted(X))
  <2> DEFINE p == r.x
             q == r.x + r.w
  <2>2. p \in Int /\ q \in Int /\ \A i \in D : lx[i] \in Int /\ lw[i] \in Int
    BY <1>3, <1>4
  <2> HIDE DEF p, q
  <2>3. IsLines(Sorted({p, q} \cup (UNION {{lx[i], lx[i] + lw[i]} : i \in D})))
    BY <1>2, <2>2, EdgeLines
  <2>1. IsLines(Sorted({r.x, r.x + r.w} \cup (UNION {{lx[i], lx[i] + lw[i]} : i \in D})))
    BY <2>3 DEF p, q
  <2> QED BY <1>5, <2>1, Zenon
<1>8. IsLines(Sorted(Y))
  <2> DEFINE p == r.y
             q == r.y + r.h
  <2>2. p \in Int /\ q \in Int /\ \A i \in D : ly[i] \in Int /\ lh[i] \in Int
    BY <1>3, <1>4
  <2> HIDE DEF p, q
  <2>3. IsLines(Sorted({p, q} \cup (UNION {{ly[i], ly[i] + lh[i]} : i \in D})))
    BY <1>2, <2>2, EdgeLines
  <2>1. IsLines(Sorted({r.y, r.y + r.h} \cup (UNION {{ly[i], ly[i] + lh[i]} : i \in D})))
    BY <2>3 DEF p, q
  <2> QED BY <1>6, <2>1, Zenon
<1> QED BY <1>1, <1>7, <1>8 DEF IsGrid

\* The walls around a floor, whatever the room and the cutouts.
LEMMA FloorFramed ==
    ASSUME NEW r, IsBox(r), NEW cutouts, IsFiniteSet(DOMAIN cutouts),
           \A i \in DOMAIN cutouts : IsBox(cutouts[i]), NEW t \in Nat, t > 1
    PROVE  LET grid == buildCarveGrid(r, cutouts)
               walls == computeFloorWallSegments(r, cutouts, t)
           IN  /\ LeavesNoGap(walls, grid, FloorCells(grid), t)
               /\ Broad(grid, t) => CoversNoFloor(walls, grid, FloorCells(grid))
<1> DEFINE grid == buildCarveGrid(r, cutouts)
           floor == FloorCells(grid)
<1>1. IsGrid(grid)
  BY CarvedGrid
<1>2. computeFloorWallSegments(r, cutouts, t) = WallsOfGrid(grid, floor, t)
  BY DEF computeFloorWallSegments, FramedGrid
<1> HIDE DEF grid
<1>3. IsFloor(grid, floor)
  BY DEF IsFloor, FloorCells
<1> HIDE DEF floor
<1>4. LeavesNoGap(WallsOfGrid(grid, floor, t), grid, floor, t)
  BY <1>1, <1>3, NoGap
<1>5. Broad(grid, t) => CoversNoFloor(WallsOfGrid(grid, floor, t), grid, floor)
  BY <1>1, <1>3, NoCover
<1> QED BY <1>2, <1>4, <1>5 DEF grid, floor

\* The cutouts of a layout on whole pixels are boxes.
LEMMA LayoutCutouts ==
    ASSUME TidyInv, TypeOK
    PROVE  /\ IsBox(room) /\ IsFiniteSet(DOMAIN Cutouts) /\ DOMAIN Cutouts \subseteq DOMAIN layout
           /\ \A i \in DOMAIN Cutouts :
                 /\ IsBox(Cutouts[i]) /\ layout[i].type = "cutout"
                 /\ HasSize(Cutouts[i].w, Cutouts[i].h)
                 /\ Inside(Cutouts[i], room)
                 /\ Inside(Cutouts[i], Rect(layout[i].x, layout[i].y, layout[i].width, layout[i].height))
<1> DEFINE rs == getCutoutRects(layout)
           L == {i \in DOMAIN layout : layout[i].type = "cutout"}
<1>1. rs = [i \in L |-> Rect(layout[i].x, layout[i].y, layout[i].width, layout[i].height)]
  BY DEF getCutoutRects
<1>2. IsFiniteSet(DOMAIN layout)
  <2>1. layout \in Seq(ToSet(layout))
    BY DEF TidyInv, Listed
  <2>2. DOMAIN layout = 1 .. Len(layout) /\ Len(layout) \in Nat
    BY <2>1
  <2> QED BY <2>2, FS_Interval
<1>3. IsFiniteSet(L)
  <2>1. L \in SUBSET DOMAIN layout
    OBVIOUS
  <2> HIDE DEF L
  <2> QED BY <1>2, <2>1, FS_Subset
<1>4. \A i \in L : IsBox(rs[i])
  <2> SUFFICES ASSUME NEW i \in L PROVE IsBox(rs[i])
    OBVIOUS
  <2>1. layout[i] \in ToSet(layout)
    BY DEF ToSet
  <2>2. OnPixels({layout[i].x, layout[i].y, layout[i].width, layout[i].height})
    BY <2>1 DEF TypeOK
  <2>3. rs[i] = Rect(layout[i].x, layout[i].y, layout[i].width, layout[i].height)
    BY <1>1
  <2> QED BY <2>2, <2>3 DEF IsBox, OnPixels, Rect
<1>5. IsBox(room)
  BY DEF TypeOK, IsBox
<1>6. DOMAIN rs = L
  BY <1>1
<1>7. /\ IsFiniteSet(DOMAIN Cutouts) /\ DOMAIN Cutouts \subseteq L
      /\ \A i \in DOMAIN Cutouts : /\ IsBox(Cutouts[i]) /\ HasSize(Cutouts[i].w, Cutouts[i].h)
                                   /\ Inside(Cutouts[i], room) /\ Inside(Cutouts[i], rs[i])
  <2> HIDE DEF rs, L
  <2>1. Cutouts = clipCutoutsToBoundary(room, rs)
    BY DEF Cutouts, rs
  <2> QED BY <1>3, <1>4, <1>5, <1>6, <2>1, ClippedBoxes DEF HasSize
<1> QED BY <1>1, <1>5, <1>7

\* In every state of the page and the engine the walls frame the floor.
LEMMA Framed ==
    ASSUME TidyInv, TypeOK
    PROVE  FloorIsFramed
<1>1. BOUNDARY_WALL_THICKNESS \in Nat /\ BOUNDARY_WALL_THICKNESS > 1
  BY GeometryAssumption
<1>2. /\ IsBox(room) /\ IsFiniteSet(DOMAIN Cutouts)
      /\ \A i \in DOMAIN Cutouts : IsBox(Cutouts[i])
  BY LayoutCutouts
<1> QED BY <1>1, <1>2, FloorFramed DEF FloorIsFramed

(***************************************************************************)
(* The theorems                                                            *)
(***************************************************************************)
\* The facts about objects, rows and requests hold of every behaviour.
LEMMA WholesHold == Spec => []Wholes
<1>1. Init => Wholes /\ Keys /\ Agree
  BY InitAgrees
<1>2. Inv /\ (Wholes /\ Keys /\ Agree) /\ [Next]_vars => (Wholes /\ Keys /\ Agree)'
  BY StepAgrees
<1> QED BY <1>1, <1>2, InvHolds, PTL DEF Spec

\* The invariant of the engine holds of every behaviour.
LEMMA EngineInvariant == Spec => []TidyInv
<1>1. Init => TidyInv
  BY DEF Init, TidyInv, HasPlan, Listed
<1>2. Wholes /\ TidyInv /\ [Next]_vars => TidyInv'
  BY StepTidy
<1> QED BY <1>1, <1>2, WholesHold, PTL DEF Spec

\* A desk that a plan moves or resizes is clear of every object but of desks that stand
\* as they were given, for any layout, any thresholds and any number of passes: the
\* safety pass takes the desks one after the other, and a desk it puts back stands as
\* it was given (enhanceNormalize.ts:571-584).
THEOREM PlansMoveClear == Spec => []MovedDesksClear
<1>1. TidyInv => MovedDesksClear
  BY DEF TidyInv, MovedDesksClear, Settled, Desks
<1> QED BY <1>1, EngineInvariant, PTL

=============================================================================
