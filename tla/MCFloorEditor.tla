--------------------------- MODULE MCFloorEditor ---------------------------
(***************************************************************************)
(* Visits to the floor editor in a room of 240 by 240 at (48, 48).  A visit *)
(* is a layout to begin with and what the user has to do with it: a wall    *)
(* with a door and a window, furniture, a room that is resized, the wizard; *)
(* and families of layouts that are only tidied, twice.                     *)
(***************************************************************************)
EXTENDS FloorEditor

Obj(id, type, x, y, w, h, rot) ==
    [id |-> id, type |-> type, x |-> x, y |-> y, width |-> w, height |-> h,
     rotation |-> rot]

\* A visit without inputs.
Idle == [room |-> [w |-> 240, h |-> 240], published |-> FALSE,
         edits |-> 0, steps |-> 0, tidies |-> 0, faults |-> 0,
         drops |-> {}, keys |-> {}, grids |-> {0}, carved |-> {FALSE}, boxes |-> {},
         details |-> {}, deletes |-> FALSE, adds |-> {}, pointers |-> {}, rooms |-> {},
         sizes |-> {}]

Box(x, y, w, h, rot) == [x |-> x, y |-> y, width |-> w, height |-> h, rotation |-> rot]

(***************************************************************************)
(* Editing                                                                 *)
(***************************************************************************)
WallDoorWindow ==
    << Obj(1, "wall", 60, 150, 200, 12, 0), Obj(2, "door", 80, 150, 40, 12, 0),
       Obj(3, "window", 170, 150, 40, 12, 0) >>

Slides == [objects |-> WallDoorWindow, edits |-> 2, faults |-> 1, keys |-> {10},
           drops |-> {<<150, 150>>, <<236, 170>>, <<52, 60>>}] @@ Idle

Transforms == [objects |-> WallDoorWindow, edits |-> 2,
               boxes |-> {Box(60, 140, 220, 16, 0), Box(100, 150, 120, 12, 90),
                          Box(120, 150, 120, 12, 180)}] @@ Idle

Placing == [objects |-> WallDoorWindow, edits |-> 2, steps |-> 1, deletes |-> TRUE,
            drops |-> {<<126, 150>>},
            adds |-> {[type |-> "door", width |-> 40, height |-> 12],
                      [type |-> "desk", width |-> 60, height |-> 48]},
            pointers |-> {<<140, 156>>, <<250, 160>>, <<150, 40>>}] @@ Idle

Furniture ==
    << Obj(1, "desk", 60, 60, 60, 48, 0), Obj(2, "meeting_room", 132, 60, 72, 60, 0),
       Obj(3, "chair", 60, 132, 24, 36, 90) >>

Arranging == [objects |-> Furniture, edits |-> 2, faults |-> 1, keys |-> {10}, grids |-> {0, 20},
              drops |-> {<<110, 66>>, <<70, 130>>, <<262, 30>>}] @@ Idle

Inspecting == [objects |-> Furniture, edits |-> 3, deletes |-> TRUE,
               drops |-> {<<70, 180>>},
               details |-> {[width |-> 0, height |-> 48, rotation |-> 0],
                            [width |-> 72, height |-> 48, rotation |-> 0],
                            [width |-> 60, height |-> 48, rotation |-> 90]}] @@ Idle

Carved ==
    << Obj(1, "cutout", 48, 48, 72, 60, 0), Obj(2, "cutout", 216, 228, 72, 60, 0),
       Obj(3, "window", 120, 69, 36, 18, 90) >>

Carving == [objects |-> Carved, edits |-> 2, keys |-> {10}, carved |-> {TRUE, FALSE},
            drops |-> {<<126, 54>>, <<160, 160>>},
            boxes |-> {Box(48, 48, 90, 66, 0)}] @@ Idle

RoomWithDoor ==
    << Obj(1, "door", 90, 33, 40, 12, 0), Obj(2, "window", 288, 33, 60, 12, 0),
       Obj(3, "desk", 228, 228, 60, 48, 0) >>

Resizing == [objects |-> RoomWithDoor, room |-> [w |-> 300, h |-> 300], edits |-> 2, faults |-> 1,
             rooms |-> {Box(28, 48, 320, 300, 0), Box(48, 48, 240, 240, 0)}, sizes |-> {3},
             drops |-> {<<240, 240>>}] @@ Idle

\* Two walls that meet in a door, and a room that shrinks from their corner.
Corner ==
    << Obj(1, "wall", 150, 320, 180, 12, 0), Obj(2, "wall", 324, 150, 12, 180, 0),
       Obj(3, "door", 310, 320, 40, 12, 0) >>

Cornered == [objects |-> Corner, room |-> [w |-> 300, h |-> 300], edits |-> 2, faults |-> 1,
             rooms |-> {Box(48, 48, 240, 240, 0)}, drops |-> {<<200, 200>>}] @@ Idle

TwoDesks == << Obj(1, "desk", 72, 72, 60, 48, 0), Obj(2, "desk", 138, 78, 60, 48, 0) >>

\* A draft is tidied, reviewed and published; a published floor is edited again.
Setup == [objects |-> TwoDesks, edits |-> 1, steps |-> 3, tidies |-> 1, faults |-> 1,
          drops |-> {<<72, 180>>}] @@ Idle

Reopened == [objects |-> TwoDesks, published |-> TRUE, edits |-> 1, steps |-> 2, tidies |-> 1,
             faults |-> 1, drops |-> {<<72, 180>>}] @@ Idle

\* Free editing and back.
Switching == [objects |-> TwoDesks, steps |-> 3, tidies |-> 2] @@ Idle

(***************************************************************************)
(* Tidying; all sizes are multiples of 12                                  *)
(***************************************************************************)
TwoDesksAndRoom ==
    {<<Obj(1, "desk", x1, y1, w1, 48, 0), Obj(2, "standing_desk", x2, y2, 60, h2, 0),
       Obj(3, "meeting_room", x3, 108, 60, 60, 0)>> :
        x1 \in {54, 72, 96}, y1 \in {54, 84}, w1 \in {48, 72},
        x2 \in {108, 132, 180}, y2 \in {54, 96, 132}, h2 \in {48, 60},
        x3 \in {60, 132, 192}}

ThreeDesks ==
    {<<Obj(1, "desk", x1, 54, w1, 48, 0), Obj(2, "desk", x2, y2, 60, 48, 0),
       Obj(3, "desk", x3, y3, 48, 48, 0)>> :
        x1 \in {60, 96}, w1 \in {48, 96}, x2 \in {60, 108, 156, 204},
        y2 \in {60, 108}, x3 \in {60, 120, 222}, y3 \in {108, 156, 228}}

RowOfThree ==
    {<<Obj(1, "desk", x1, y1, 48, 48, 0), Obj(2, "desk", x2, 120, 72, 48, 0),
       Obj(3, "desk", x3, y3, 96, h3, 0)>> :
        x1 \in {54, 60}, x2 \in {108, 114}, x3 \in {186, 192}, y1 \in {108, 120},
        y3 \in {120, 132}, h3 \in {48, 84}}

WallsAndTurnedDesk ==
    {<<Obj(1, "wall", x1, 156, 120, 12, 0), Obj(2, "wall", x2, y2, 12, 96, 0),
       Obj(3, "hot_desk", x3, y3, 60, 48, 90)>> :
        x1 \in {54, 72}, x2 \in {180, 198, 276}, y2 \in {54, 72, 174},
        x3 \in {54, 132, 216}, y3 \in {72, 120, 228}}

CarvedRoom ==
    {<<Obj(1, "desk", x1, 120, 60, 48, 0), Obj(2, "desk", x2, 120, 60, 48, 0),
       Obj(3, "cutout", 48, 48, 96, h3, 0), Obj(4, "cutout", p4[1], p4[2], 72, 60, 0)>> :
        x1 \in {54, 84, 156}, x2 \in {126, 192, 222}, h3 \in {36, 72, 96},
        p4 \in {<<132, 48>>, <<168, 48>>, <<216, 60>>, <<144, 228>>, <<96, 228>>}}

\* A strip of floor between a cutout and the wall, a desk in it and one below.
NarrowStrip ==
    {<<Obj(1, "desk", x1, 60, 48, 48, 0), Obj(2, "desk", x2, y2, 72, 48, 0),
       Obj(3, "cutout", 96, 48, w3, 60, 0)>> :
        x1 \in {48, 54}, x2 \in {48, 60}, y2 \in {108, 114, 132}, w3 \in {60, 72}}

\* Desks that are pushed from one cutout onto another, and a thin cutout.
BetweenCutouts ==
    {<<Obj(1, "desk", 48, 120, 48, 48, 0), Obj(2, "desk", x2, 108, 48, 48, 0),
       Obj(3, "cutout", 48, 50, 60, h3, 0), Obj(4, "cutout", 110, 169, 72, 60, r4)>> :
        x2 \in {60, 108, 144}, h3 \in {12, 72}, r4 \in {0, 90}}

\* A desk makes room for another, which is put back onto it.
Crowded ==
    {<<Obj(1, "desk", 216, 108, 72, 48, 0), Obj(2, "desk", 60, 108, 156, 48, 0),
       Obj(3, "plant", 48, y3, 12, 24, 0)>> : y3 \in {120, 180}}

TidyLayouts == Crowded \cup TwoDesksAndRoom \cup BetweenCutouts \cup ThreeDesks \cup RowOfThree \cup WallsAndTurnedDesk
               \cup CarvedRoom \cup NarrowStrip

Tidying(l) == [objects |-> l, steps |-> 1, tidies |-> 2] @@ Idle

MCVisits == {Slides, Transforms, Placing, Arranging, Inspecting, Carving, Resizing,
             Cornered, Setup, Reopened, Switching}
            \cup {Tidying(l) : l \in TidyLayouts}

\* The visit in which furniture is dropped on furniture.
DropVisits == {Arranging}

=============================================================================
