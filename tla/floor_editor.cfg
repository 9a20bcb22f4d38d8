SPECIFICATION Spec
CONSTANTS
    MIN_OBJECT_SIZE = 10
    NEIGHBOR_SNAP_THRESHOLD = 14
    NEIGHBOR_PROXIMITY = 40
    HOVER_TOLERANCE = 14
    BOUNDARY_WALL_THICKNESS = 18
    CUTOUT_SNAP_DISTANCE = 28
    CUTOUT_NEIGHBOR_SNAP = 14
    CUTOUT_BRIDGE_GAP = 48
    SNAP_WALL_DIST = 20
    CONNECT_GAP = 10
    ALIGN_TOL = 14
    GRID_CELL = 10
    MAX_ITERATIONS = 6
    OVERLAP_TOL = 2
    SETTLE_SIZE_MIN = 240
    SETTLE_SIZE_MAX = 4000
    Visits <- MCVisits
INVARIANTS TypeOK ScreenIsStored SavingIsTold TidyTwiceIsOnce MovedDesksClear DesksStayOnFloor FloorIsFramed
PROPERTIES SlideKeepsApart WallKeepsOpenings RoomKeepsOpenings
CHECK_DEADLOCK FALSE
