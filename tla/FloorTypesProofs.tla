--------------------------- MODULE FloorTypesProofs ---------------------------
(***************************************************************************)
(* That everything the editor, its requests, the server and the tidy       *)
(* engine hold is on whole pixels and has a size, in every state: TypeOK,  *)
(* for any layouts and inputs that InputsAssumption describes.  First what *)
(* each operator of the geometry returns, then the steps of the editor,    *)
(* then what the engine makes of a group of desks.  With it the walls      *)
(* frame the floor and a plan's desks stand on it.  Last, what a single    *)
(* step does to the doors and windows of a wall: those that slide keep     *)
(* their sides, and a wall or a room that changes takes them along.        *)
(***************************************************************************)
EXTENDS EnhanceTidyProofs

(***************************************************************************)
(* Numbers: the least, the nearest, and folds over a list                  *)
(***************************************************************************)
\* A finite set of whole numbers has a largest and a smallest.
LEMMA FiniteEnds ==
    ASSUME NEW S \in SUBSET Int, IsFiniteSet(S), S # {}
    PROVE  /\ Max(S) \in S /\ \A x \in S : x <= Max(S)
           /\ Min(S) \in S /\ \A x \in S : Min(S) <= x
<1> DEFINE Above(v) == {u \in S : u > v}
           Below(v) == {u \in S : u < v}
           R == {Cardinality(Above(v)) : v \in S}
           Q == {Cardinality(Below(v)) : v \in S}
<1>1. \A v \in S : /\ IsFiniteSet(Above(v)) /\ Cardinality(Above(v)) \in Nat
                   /\ IsFiniteSet(Below(v)) /\ Cardinality(Below(v)) \in Nat
  BY FS_Subset, FS_CardinalityType
<1>2. ASSUME NEW v \in S, NEW w \in S, w > v
      PROVE  /\ Cardinality(Above(w)) < Cardinality(Above(v))
             /\ Cardinality(Below(v)) < Cardinality(Below(w))
  <2>1. /\ IsFiniteSet(Above(v) \ {w}) /\ Cardinality(Above(v) \ {w}) = Cardinality(Above(v)) - 1
        /\ IsFiniteSet(Below(w) \ {v}) /\ Cardinality(Below(w) \ {v}) = Cardinality(Below(w)) - 1
    BY <1>1, <1>2, FS_RemoveElement
  <2>2. Above(w) \in SUBSET (Above(v) \ {w}) /\ Below(v) \in SUBSET (Below(w) \ {v})
    <3>1. \A u \in S : u \in Int
      OBVIOUS
    <3>2. \A u \in Above(w) : u \in S /\ u > v /\ u # w
      BY <1>2, <3>1
    <3>3. \A u \in Below(v) : u \in S /\ u < w /\ u # v
      BY <1>2, <3>1
    <3> QED BY <3>2, <3>3
  <2>3. /\ Cardinality(Above(w)) <= Cardinality(Above(v)) - 1
        /\ Cardinality(Below(v)) <= Cardinality(Below(w)) - 1
    BY <2>1, <2>2, FS_Subset
  <2>4. /\ Cardinality(Above(v)) \in Nat /\ Cardinality(Above(w)) \in Nat
        /\ Cardinality(Below(v)) \in Nat /\ Cardinality(Below(w)) \in Nat
    BY <1>1
  <2> HIDE DEF Above, Below
  <2> QED BY <2>3, <2>4
<1> HIDE DEF Above, Below
<1>3. R \in SUBSET Nat /\ R # {} /\ Q \in SUBSET Nat /\ Q # {}
  BY <1>1
<1>4. \E m \in S : \A x \in S : m >= x
  <2>1. \E r \in R : \A q \in R : r <= q
    <3> HIDE DEF R
    <3> QED BY <1>3, LeastNumber
  <2>2. PICK m \in S : \A x \in S : Cardinality(Above(m)) <= Cardinality(Above(x))
    BY <2>1
  <2>3. \A x \in S : ~(x > m)
    BY <1>1, <1>2, <2>2
  <2> QED BY <2>3
<1>5. \E m \in S : \A x \in S : m <= x
  <2>1. \E r \in Q : \A q \in Q : r <= q
    <3> HIDE DEF Q
    <3> QED BY <1>3, LeastNumber
  <2>2. PICK m \in S : \A x \in S : Cardinality(Below(m)) <= Cardinality(Below(x))
    BY <2>1
  <2>3. \A x \in S : ~(m > x)
    BY <1>1, <1>2, <2>2
  <2> QED BY <2>3
<1>6. Max(S) \in S /\ \A x \in S : Max(S) >= x
  BY <1>4 DEF Max
<1>7. Min(S) \in S /\ \A x \in S : Min(S) <= x
  BY <1>5 DEF Min
<1> QED BY <1>6, <1>7

\* Of things with a distance and a number there is a first of the nearest.
LEMMA FirstNearest ==
    ASSUME NEW S, S # {}, NEW f \in [S -> Nat], NEW g \in [S -> Nat]
    PROVE  \E c \in S : \A d \in S : f[c] < f[d] \/ (f[c] = f[d] /\ g[c] <= g[d])
<1> DEFINE F == {f[c] : c \in S}
<1>1. F \in SUBSET Nat /\ F # {}
  OBVIOUS
<1>2. \E o \in F : \A p \in F : o <= p
  <2> HIDE DEF F
  <2> QED BY <1>1, LeastNumber
<1>3. PICK a \in S : \A d \in S : f[a] <= f[d]
  BY <1>2
<1> DEFINE N == {c \in S : f[c] = f[a]}
           G == {g[c] : c \in N}
<1>4. G \in SUBSET Nat /\ G # {}
  OBVIOUS
<1>5. \E o \in G : \A p \in G : o <= p
  <2> HIDE DEF G
  <2> QED BY <1>4, LeastNumber
<1>6. PICK c \in N : \A d \in N : g[c] <= g[d]
  BY <1>5
<1>7. \A d \in S : f[d] \in Nat
  OBVIOUS
<1> QED BY <1>3, <1>6, <1>7

\* Of finitely many numbered things there is a first of the largest.
LEMMA FirstLargest ==
    ASSUME NEW S \in SUBSET Nat, IsFiniteSet(S), S # {}, NEW f \in [S -> Int]
    PROVE  \E i \in S : \A j \in S : f[i] > f[j] \/ (f[i] = f[j] /\ i <= j)
<1>1. f \in Surjection(S, Range(f)) /\ Range(f) = {f[i] : i \in S}
  <2>1. Range(f) = {f[i] : i \in S}
    BY DEF Range
  <2>2. f \in [S -> Range(f)]
    BY <2>1
  <2> QED BY <2>1, <2>2, Fun_RangeProperties
<1>2. IsFiniteSet(Range(f)) /\ Range(f) \in SUBSET Int /\ Range(f) # {}
  BY <1>1, FS_Surjection
<1>3. Max(Range(f)) \in Range(f) /\ \A x \in Range(f) : x <= Max(Range(f))
  BY <1>2, FiniteEnds
<1>4. PICK a \in S : \A j \in S : f[j] <= f[a]
  BY <1>1, <1>3
<1> DEFINE N == {i \in S : f[i] = f[a]}
<1>5. N \in SUBSET Nat /\ N # {}
  OBVIOUS
<1>6. \E o \in N : \A p \in N : o <= p
  <2> HIDE DEF N
  <2> QED BY <1>5, LeastNumber
<1>7. PICK i \in N : \A p \in N : i <= p
  BY <1>6
<1>8. \A j \in S : f[j] \in Int
  OBVIOUS
<1> QED BY <1>4, <1>7, <1>8

\* From a, the step F is taken for 1, 2 and so on up to m; g tells where it led.
IsStep(F, m, S) == F \in [(1 .. m) \X S -> S]
Leads(g, F, m, S, a) ==
    /\ g \in [0 .. m -> S]
    /\ g[0] = a
    /\ \A n \in 1 .. m : g[n] = F[<<n, g[n - 1]>>]

\* A step taken for 1, 2 and so on up to m, from a beginning.
LEMMA StepsTaken ==
    ASSUME NEW m \in Nat, NEW S, NEW a \in S, NEW F, IsStep(F, m, S)
    PROVE  \E g : Leads(g, F, m, S, a)
<1>0. F \in [(1 .. m) \X S -> S]
  BY DEF IsStep
<1> DEFINE P(k) == \E f \in [0 .. k -> S] : /\ f[0] = a
                                            /\ \A n \in 1 .. k : f[n] = F[<<n, f[n - 1]>>]
           Bad == {k \in 0 .. m : ~P(k)}
<1>1. P(0)
  <2> DEFINE f == [n \in 0 .. 0 |-> a]
  <2>1. f \in [0 .. 0 -> S] /\ f[0] = a /\ \A n \in 1 .. 0 : f[n] = F[<<n, f[n - 1]>>]
    OBVIOUS
  <2> QED BY <2>1
<1>2. ASSUME NEW k \in 1 .. m, P(k - 1) PROVE P(k)
  <2>1. PICK f \in [0 .. k - 1 -> S] : /\ f[0] = a
                                       /\ \A n \in 1 .. k - 1 : f[n] = F[<<n, f[n - 1]>>]
    BY <1>2
  <2> DEFINE h == [n \in 0 .. k |-> IF n = k THEN F[<<k, f[k - 1]>>] ELSE f[n]]
  <2>2. k - 1 \in 0 .. k - 1 /\ k \in Nat
    OBVIOUS
  <2>3. f[k - 1] \in S
    BY <2>2
  <2>4. F[<<k, f[k - 1]>>] \in S
    BY <1>0, <2>3
  <2>5. h \in [0 .. k -> S]
    BY <2>4
  <2>6. h[0] = a
    BY <2>1, <2>2
  <2>7. \A n \in 1 .. k : h[n] = F[<<n, h[n - 1]>>]
    <3> SUFFICES ASSUME NEW n \in 1 .. k PROVE h[n] = F[<<n, h[n - 1]>>]
      OBVIOUS
    <3>1. n - 1 \in 0 .. k /\ n - 1 # k /\ n - 1 \in 0 .. k - 1
      BY <2>2
    <3>2. h[n - 1] = f[n - 1]
      BY <3>1
    <3>3. CASE n = k
      <4>1. h[k] = F[<<k, f[k - 1]>>]
        BY <2>2
      <4> HIDE DEF h
      <4> QED BY <3>2, <3>3, <4>1
    <3>4. CASE n # k
      <4>1. n \in 1 .. k - 1 /\ n \in 0 .. k
        BY <2>2, <3>4
      <4>2. h[n] = f[n]
        BY <3>4, <4>1
      <4> QED BY <2>1, <3>2, <4>1, <4>2
    <3> QED BY <3>3, <3>4
  <2> HIDE DEF h
  <2> QED BY <2>5, <2>6, <2>7
<1> HIDE DEF P
<1>3. Bad = {}
  <2> SUFFICES ASSUME Bad # {} PROVE FALSE
    OBVIOUS
  <2>1. Bad \in SUBSET Nat
    OBVIOUS
  <2>2. \E o \in Bad : \A p \in Bad : o <= p
    <3> HIDE DEF Bad
    <3> QED BY <2>1, LeastNumber
  <2>3. PICK o \in Bad : \A p \in Bad : o <= p
    BY <2>2
  <2>4. o \in 1 .. m
    BY <1>1, <2>3
  <2>5. P(o - 1)
    BY <2>3, <2>4
  <2> QED BY <1>2, <2>3, <2>4, <2>5
<1>4. P(m)
  BY <1>3
<1> QED BY <1>4 DEF P, Leads

\* What holds at 0 and is kept by every step holds all the way.
LEMMA StepsKeep ==
    ASSUME NEW m \in Nat, NEW S, NEW g, g[0] \in S,
           \A n \in 1 .. m : g[n - 1] \in S => g[n] \in S
    PROVE  \A n \in 0 .. m : g[n] \in S
<1> DEFINE Bad == {n \in 0 .. m : g[n] \notin S}
<1>1. Bad \in SUBSET Nat
  OBVIOUS
<1>2. ASSUME NEW o \in Bad, \A p \in Bad : o <= p PROVE FALSE
  <2>1. o \in 1 .. m
    OBVIOUS
  <2>2. o - 1 \in 0 .. m /\ o - 1 \notin Bad
    BY <1>2, <2>1
  <2>3. g[o - 1] \in S
    BY <2>2
  <2> QED BY <2>1, <2>3
<1>3. Bad = {}
  <2> HIDE DEF Bad
  <2> QED BY <1>1, <1>2, LeastNumber
<1> QED BY <1>3

(***************************************************************************)
(* Objects, their footprints, and what snaps, clamps and pushes them       *)
(***************************************************************************)
\* An object's place and size are whole pixels.
OnPlane(o) == OnPixels({o.x, o.y, o.width, o.height})

\* p is the object o at another place.
MovedTo(o, p) == \E x, y \in Int : p = [o EXCEPT !.x = x, !.y = y]

\* A list of whole objects in places.
Plane(objs) == /\ DOMAIN objs \subseteq Nat /\ IsFiniteSet(DOMAIN objs)
               /\ \A i \in DOMAIN objs : Whole(objs[i]) /\ OnPlane(objs[i])

\* An object that is moved is the same object.
LEMMA MovedSame ==
    ASSUME NEW o, Whole(o), OnPlane(o), NEW p, MovedTo(o, p)
    PROVE  /\ Whole(p) /\ OnPlane(p) /\ p.id = o.id /\ p.type = o.type
           /\ p.width = o.width /\ p.height = o.height /\ p.rotation = o.rotation
<1>1. PICK x \in Int, y \in Int : p = [o EXCEPT !.x = x, !.y = y]
  BY DEF MovedTo
<1>2. Whole(p)
  BY <1>1, Relocated
<1>3. DOMAIN o = {"id", "type", "x", "y", "width", "height", "rotation"}
  BY WholeDomain DEF ObjectFields, ShapeFields
<1>4. /\ p.x = x /\ p.y = y /\ p.id = o.id /\ p.type = o.type
      /\ p.width = o.width /\ p.height = o.height /\ p.rotation = o.rotation
  BY <1>1, <1>3
<1> QED BY <1>2, <1>4 DEF OnPlane, OnPixels

\* Moved twice is moved.
LEMMA MovedAgain ==
    ASSUME NEW o, Whole(o), OnPlane(o), NEW p, MovedTo(o, p), NEW q, MovedTo(p, q)
    PROVE  MovedTo(o, q)
<1>1. PICK x \in Int, y \in Int : p = [o EXCEPT !.x = x, !.y = y]
  BY DEF MovedTo
<1>2. PICK a \in Int, b \in Int : q = [p EXCEPT !.x = a, !.y = b]
  BY DEF MovedTo
<1>3. q = [o EXCEPT !.x = a, !.y = b]
  BY <1>1, <1>2 DEF Whole, HasFields, ObjectFields, ShapeFields
<1> QED BY <1>3 DEF MovedTo

\* It may stay where it is.
LEMMA NotMoved ==
    ASSUME NEW o, Whole(o), OnPlane(o)
    PROVE  MovedTo(o, o)
<1>1. o = [o EXCEPT !.x = o.x, !.y = o.y]
  BY DEF Whole, HasFields, ObjectFields, ShapeFields
<1> QED BY <1>1 DEF MovedTo, OnPlane, OnPixels

\* Footprints are boxes.
LEMMA FootprintIsBox ==
    ASSUME NEW o, OnPlane(o)
    PROVE  /\ IsBox(boxOf(o))
           /\ HasSize(o.width, o.height) => HasSize(boxOf(o).w, boxOf(o).h)
<1> DEFINE dx == (o.width - o.height) \div 2
           dy == (o.height - o.width) \div 2
<1>1. o.x \in Int /\ o.y \in Int /\ o.width \in Int /\ o.height \in Int
  BY DEF OnPlane, OnPixels
<1>2. dx \in Int /\ dy \in Int
  BY <1>1
<1>3. boxOf(o) = IF IsQuarter(o.rotation) THEN Rect(o.x + dx, o.y + dy, o.height, o.width)
                 ELSE Rect(o.x, o.y, o.width, o.height)
  BY DEF boxOf, rotatedRectExtent
<1> HIDE DEF dx, dy
<1>4. CASE IsQuarter(o.rotation)
  BY <1>1, <1>2, <1>3, <1>4 DEF Rect, IsBox, OnPixels, HasSize
<1>5. CASE ~IsQuarter(o.rotation)
  BY <1>1, <1>3, <1>5 DEF Rect, IsBox, OnPixels, HasSize
<1> QED BY <1>4, <1>5

\* What is stored by the corner of its footprint is moved.
LEMMA StoredMoved ==
    ASSUME NEW o, OnPlane(o), NEW x \in Int, NEW y \in Int
    PROVE  MovedTo(o, StoredAt(o, x, y))
<1> DEFINE a == o.x + x - boxOf(o).x
           b == o.y + y - boxOf(o).y
<1>1. StoredAt(o, x, y) = [o EXCEPT !.x = a, !.y = b]
  BY DEF StoredAt
<1>2. a \in Int /\ b \in Int
  BY FootprintIsBox DEF OnPlane, IsBox, OnPixels
<1> HIDE DEF a, b
<1> QED BY <1>1, <1>2 DEF MovedTo

\* A number that is clamped is one, between the ends when they are in order.
LEMMA Clamped ==
    ASSUME NEW v \in Int, NEW a \in Int, NEW b \in Int
    PROVE  /\ clamp(v, a, b) \in Int
           /\ a <= b => a <= clamp(v, a, b) /\ clamp(v, a, b) <= b
           /\ a <= v /\ v <= b => clamp(v, a, b) = v
<1> DEFINE m == Max({v, a})
<1>1. m \in Int /\ m = (IF v >= a THEN v ELSE a)
  BY TwoNumbers
<1>2. clamp(v, a, b) = Min({m, b})
  BY DEF clamp
<1> HIDE DEF m
<1>3. Min({m, b}) \in Int /\ Min({m, b}) = (IF m <= b THEN m ELSE b)
  BY <1>1, TwoNumbers
<1> QED BY <1>1, <1>2, <1>3

\* A box that is clamped keeps its size, and is inside when it fits.
LEMMA BoxClamped ==
    ASSUME NEW b, NEW x, NEW y, NEW w, NEW h, b = Rect(x, y, w, h), IsBox(b), NEW r, IsBox(r)
    PROVE  \E c, d \in Int : /\ clampBox(b, r) = Rect(c, d, w, h)
                             /\ w <= r.w /\ h <= r.h => Inside(Rect(c, d, w, h), r)
<1>1. /\ x \in Int /\ y \in Int /\ w \in Int /\ h \in Int /\ b.x = x /\ b.y = y /\ b.w = w /\ b.h = h
      /\ r.x \in Int /\ r.y \in Int /\ r.w \in Int /\ r.h \in Int
  BY DEF IsBox, OnPixels, Rect
<1> DEFINE p == r.x + r.w - w
           q == r.y + r.h - h
           right == Max({r.x, p})
           low == Max({r.y, q})
           c == clamp(x, r.x, right)
           d == clamp(y, r.y, low)
<1>2. p \in Int /\ q \in Int
  BY <1>1
<1>3. clampBox(b, r) = Rect(c, d, w, h)
  <2>1. clampBox(b, r) = [b EXCEPT !.x = c, !.y = d]
    BY <1>1 DEF clampBox
  <2> HIDE DEF c, d
  <2> QED BY <2>1 DEF Rect
<1>4. w <= r.w => r.x <= p
  BY <1>1
<1>5. h <= r.h => r.y <= q
  BY <1>1
<1> HIDE DEF p, q
<1>6. right \in Int /\ right = (IF r.x >= p THEN r.x ELSE p)
  BY <1>1, <1>2, TwoNumbers
<1>7. low \in Int /\ low = (IF r.y >= q THEN r.y ELSE q)
  BY <1>1, <1>2, TwoNumbers
<1> HIDE DEF right, low
<1>8. c \in Int /\ r.x <= c /\ c <= right
  <2>1. r.x <= right
    BY <1>1, <1>2, <1>6
  <2> DEFINE e == r.x
  <2>2. e \in Int /\ e <= right
    BY <1>1, <2>1
  <2> HIDE DEF e
  <2>3. /\ clamp(x, e, right) \in Int
        /\ e <= clamp(x, e, right) /\ clamp(x, e, right) <= right
    BY <1>1, <1>6, <2>2, Clamped
  <2> QED BY <2>3 DEF e
<1>9. d \in Int /\ r.y <= d /\ d <= low
  <2>1. r.y <= low
    BY <1>1, <1>2, <1>7
  <2> DEFINE e == r.y
  <2>2. e \in Int /\ e <= low
    BY <1>1, <2>1
  <2> HIDE DEF e
  <2>3. /\ clamp(y, e, low) \in Int
        /\ e <= clamp(y, e, low) /\ clamp(y, e, low) <= low
    BY <1>1, <1>7, <2>2, Clamped
  <2> QED BY <2>3 DEF e
<1> HIDE DEF c, d
<1>10. w <= r.w /\ h <= r.h => Inside(Rect(c, d, w, h), r)
  BY <1>1, <1>2, <1>4, <1>5, <1>6, <1>7, <1>8, <1>9 DEF Inside, Rect, p, q
<1> QED BY <1>3, <1>8, <1>9, <1>10

\* A footprint is a Rect.
LEMMA FootprintIsRect ==
    ASSUME NEW o
    PROVE  boxOf(o) = Rect(boxOf(o).x, boxOf(o).y, boxOf(o).w, boxOf(o).h)
BY DEF boxOf, rotatedRectExtent, Rect

\* An object that is clamped into a room is moved.
LEMMA ClampMoves ==
    ASSUME NEW o, OnPlane(o), NEW r, IsBox(r)
    PROVE  MovedTo(o, clampObjectToBoundary(o, r))
<1> DEFINE b == boxOf(o)
<1>1. IsBox(b) /\ b = Rect(b.x, b.y, b.w, b.h)
  BY FootprintIsBox, FootprintIsRect
<1> HIDE DEF b
<1>2. PICK c \in Int, d \in Int : clampBox(b, r) = Rect(c, d, b.w, b.h)
  BY <1>1, BoxClamped
<1>3. clampBox(b, r).x = c /\ clampBox(b, r).y = d
  BY <1>2 DEF Rect
<1>4. clampObjectToBoundary(o, r) = StoredAt(o, c, d)
  BY <1>3 DEF clampObjectToBoundary, b
<1> QED BY <1>4, StoredMoved

\* Numbers on a grid are numbers.
LEMMA GridNumber ==
    ASSUME NEW v \in Int, NEW g \in Nat, g # 0
    PROVE  snapToGrid(v, g) \in Int
<1> DEFINE n == 2 * v + g
           d == 2 * g
           k == n \div d
<1>1. n \in Int /\ d \in Nat /\ d > 0
  OBVIOUS
<1> HIDE DEF n, d
<1>2. k \in Int
  BY <1>1
<1>3. snapToGrid(v, g) = k * g
  BY DEF snapToGrid, k, n, d
<1> HIDE DEF k
<1> QED BY <1>2, <1>3

\* A distance is a natural number.
LEMMA Distance == ASSUME NEW a \in Int, NEW b \in Int PROVE Dist(a, b) \in Nat
BY DEF Dist

\* The nearest of some numbered numbers is a number.
LEMMA NearestNumber ==
    ASSUME NEW C, \A c \in C : c[1] \in Nat /\ c[2] \in Int, NEW v \in Int, NEW limit
    PROVE  Nearest(C, v, limit) \in Int
<1> DEFINE near == {c \in C : Dist(c[2], v) < limit}
           Best(c) == \A d \in near : \/ Dist(c[2], v) < Dist(d[2], v)
                                      \/ Dist(c[2], v) = Dist(d[2], v) /\ c[1] <= d[1]
           f == [c \in near |-> Dist(c[2], v)]
           g == [c \in near |-> c[1]]
<1>1. Nearest(C, v, limit) = IF near = {} THEN v ELSE (CHOOSE c \in near : Best(c))[2]
  BY DEF Nearest
<1>2. near \subseteq C
  OBVIOUS
<1>3. f \in [near -> Nat] /\ g \in [near -> Nat]
  BY <1>2, Distance
<1>4. \A c \in near : f[c] = Dist(c[2], v) /\ g[c] = c[1]
  OBVIOUS
<1>5. CASE near # {}
  <2>1. \E c \in near : \A d \in near : f[c] < f[d] \/ (f[c] = f[d] /\ g[c] <= g[d])
    <3> HIDE DEF near, f, g
    <3> QED BY <1>3, <1>5, FirstNearest
  <2>2. \E c \in near : Best(c)
    BY <1>4, <2>1
  <2>3. (CHOOSE c \in near : Best(c)) \in near
    BY <2>2
  <2> HIDE DEF near, Best
  <2> QED BY <1>1, <1>2, <1>5, <2>3
<1>6. CASE near = {}
  BY <1>1, <1>6
<1> QED BY <1>5, <1>6

\* A list of objects without some is one.
LEMMA FewerInPlace ==
    ASSUME NEW objs, Plane(objs), NEW id, NEW o
    PROVE  /\ Plane(Others(objs, id)) /\ DOMAIN Others(objs, id) \subseteq DOMAIN objs
           /\ \A i \in DOMAIN Others(objs, id) : Others(objs, id)[i] = objs[i]
           /\ Plane(Obstacles(objs, o)) /\ DOMAIN Obstacles(objs, o) \subseteq DOMAIN objs
<1>1. ASSUME NEW S \in SUBSET DOMAIN objs
      PROVE  /\ Plane(Restrict(objs, S)) /\ DOMAIN Restrict(objs, S) = S
             /\ \A i \in S : Restrict(objs, S)[i] = objs[i]
  <2>1. DOMAIN Restrict(objs, S) = S /\ \A i \in S : Restrict(objs, S)[i] = objs[i]
    BY DEF Restrict
  <2>2. IsFiniteSet(S)
    BY FS_Subset DEF Plane
  <2> QED BY <2>1, <2>2 DEF Plane
<1>2. /\ {i \in DOMAIN objs : objs[i].id # id} \in SUBSET DOMAIN objs
      /\ {i \in DOMAIN objs : objs[i].id # o.id /\ blocksDrag(o.type, objs[i].type)}
           \in SUBSET DOMAIN objs
  OBVIOUS
<1> QED BY <1>1, <1>2 DEF Others, Obstacles

\* An edge to align with, and its number.
LEMMA EdgeNumber ==
    ASSUME NEW a \in Int, NEW b \in Int, NEW c \in Int, NEW d \in Int, NEW e \in Int,
           NEW i \in Nat, NEW k \in 1 .. 5
    PROVE  5 * i + k \in Nat /\ <<a, b, c, d, e>>[k] \in Int
<1>1. k \in {1, 2, 3, 4, 5}
  OBVIOUS
<1> QED BY <1>1

\* What is aligned with its neighbours is moved.
LEMMA NeighborsMove ==
    ASSUME NEW o, OnPlane(o), NEW objs, Plane(objs)
    PROVE  MovedTo(o, snapToNeighbors(o, objs))
<1> DEFINE b == boxOf(o)
           p == NEIGHBOR_PROXIMITY
           Near(n) == Overlap(b, Rect(n.x - p - 1, n.y - p - 1, n.w + 2 * p + 2, n.h + 2 * p + 2))
           near == {i \in DOMAIN Others(objs, o.id) : Near(boxOf(objs[i]))}
           Edges(lo, len, own) == <<lo, lo + len - own, lo + (len - own) \div 2,
                                    lo + len, lo - own>>
           xs == {<<5 * i + k, Edges(boxOf(objs[i]).x, boxOf(objs[i]).w, b.w)[k]>> :
                     i \in near, k \in 1 .. 5}
           ys == {<<5 * i + k, Edges(boxOf(objs[i]).y, boxOf(objs[i]).h, b.h)[k]>> :
                     i \in near, k \in 1 .. 5}
           limit == NEIGHBOR_SNAP_THRESHOLD + 1
<1>1. snapToNeighbors(o, objs)
        = StoredAt(o, Nearest(xs, b.x, limit), Nearest(ys, b.y, limit))
  BY DEF snapToNeighbors
<1>2. IsBox(b)
  BY FootprintIsBox
<1>3. near \subseteq DOMAIN objs
  BY FewerInPlace
<1>4. \A i \in near : i \in Nat /\ IsBox(boxOf(objs[i]))
  BY <1>3, FootprintIsBox DEF Plane
<1> HIDE DEF b, near, limit
<1>5. ASSUME NEW lo \in Int, NEW len \in Int, NEW own \in Int, NEW i \in Nat, NEW k \in 1 .. 5
      PROVE  5 * i + k \in Nat /\ Edges(lo, len, own)[k] \in Int
  <2> DEFINE half == (len - own) \div 2
  <2>1. half \in Int
    OBVIOUS
  <2> HIDE DEF half
  <2>2. lo + len - own \in Int /\ lo + half \in Int /\ lo + len \in Int /\ lo - own \in Int
    BY <2>1
  <2>3. 5 * i + k \in Nat /\ <<lo, lo + len - own, lo + half, lo + len, lo - own>>[k] \in Int
    <3> DEFINE c1 == lo + len - own
               c2 == lo + half
               c3 == lo + len
               c4 == lo - own
    <3>1. c1 \in Int /\ c2 \in Int /\ c3 \in Int /\ c4 \in Int
      BY <2>2
    <3> HIDE DEF c1, c2, c3, c4
    <3>2. 5 * i + k \in Nat /\ <<lo, c1, c2, c3, c4>>[k] \in Int
      BY <3>1, EdgeNumber
    <3> QED BY <3>2 DEF c1, c2, c3, c4
  <2> QED BY <2>3 DEF half
<1> HIDE DEF Edges
<1>05. \A lo, len, own \in Int, k \in 1 .. 5 : Edges(lo, len, own)[k] \in Int
  BY <1>5
<1>6. ASSUME NEW i \in near, NEW k \in 1 .. 5
      PROVE  /\ 5 * i + k \in Nat
             /\ Edges(boxOf(objs[i]).x, boxOf(objs[i]).w, b.w)[k] \in Int
  <2> DEFINE x == boxOf(objs[i]).x
             w == boxOf(objs[i]).w
             own == b.w
  <2>1. x \in Int /\ w \in Int /\ own \in Int /\ i \in Nat
    BY <1>2, <1>4 DEF IsBox, OnPixels
  <2> HIDE DEF x, w, own
  <2>2. 5 * i + k \in Nat
    BY <2>1
  <2>3. Edges(x, w, own)[k] \in Int
    BY <1>05, <2>1
  <2> QED BY <2>2, <2>3 DEF x, w, own
<1>7. ASSUME NEW i \in near, NEW k \in 1 .. 5
      PROVE  /\ 5 * i + k \in Nat
             /\ Edges(boxOf(objs[i]).y, boxOf(objs[i]).h, b.h)[k] \in Int
  <2> DEFINE y == boxOf(objs[i]).y
             h == boxOf(objs[i]).h
             own == b.h
  <2>1. y \in Int /\ h \in Int /\ own \in Int /\ i \in Nat
    BY <1>2, <1>4 DEF IsBox, OnPixels
  <2> HIDE DEF y, h, own
  <2>2. 5 * i + k \in Nat
    BY <2>1
  <2>3. Edges(y, h, own)[k] \in Int
    BY <1>05, <2>1
  <2> QED BY <2>2, <2>3 DEF y, h, own
<1>06. \A c \in xs : c[1] \in Nat /\ c[2] \in Int
  <2> DEFINE N(i, k) == 5 * i + k
             V(i, k) == Edges(boxOf(objs[i]).x, boxOf(objs[i]).w, b.w)[k]
  <2>1. \A i \in near, k \in 1 .. 5 : N(i, k) \in Nat /\ V(i, k) \in Int
    BY <1>6
  <2>2. xs = {<<N(i, k), V(i, k)>> : i \in near, k \in 1 .. 5}
    OBVIOUS
  <2> HIDE DEF N, V, xs
  <2>3. \A c \in xs : \E i \in near, k \in 1 .. 5 : c = <<N(i, k), V(i, k)>>
    BY <2>2
  <2> QED BY <2>1, <2>3
<1>07. \A c \in ys : c[1] \in Nat /\ c[2] \in Int
  <2> DEFINE N(i, k) == 5 * i + k
             V(i, k) == Edges(boxOf(objs[i]).y, boxOf(objs[i]).h, b.h)[k]
  <2>1. \A i \in near, k \in 1 .. 5 : N(i, k) \in Nat /\ V(i, k) \in Int
    BY <1>7
  <2>2. ys = {<<N(i, k), V(i, k)>> : i \in near, k \in 1 .. 5}
    OBVIOUS
  <2> HIDE DEF N, V, ys
  <2>3. \A c \in ys : \E i \in near, k \in 1 .. 5 : c = <<N(i, k), V(i, k)>>
    BY <2>2
  <2> QED BY <2>1, <2>3
<1> HIDE DEF xs, ys
<1> DEFINE nx == Nearest(xs, b.x, limit)
           ny == Nearest(ys, b.y, limit)
<1>8. b.x \in Int /\ b.y \in Int
  BY <1>2 DEF IsBox, OnPixels
<1>9. nx \in Int
  <2> DEFINE v == b.x
  <2>1. v \in Int
    BY <1>8
  <2> HIDE DEF v
  <2>2. Nearest(xs, v, limit) \in Int
    BY <1>06, <2>1, NearestNumber
  <2> QED BY <2>2 DEF v
<1>10. ny \in Int
  <2> DEFINE v == b.y
  <2>1. v \in Int
    BY <1>8
  <2> HIDE DEF v
  <2>2. Nearest(ys, v, limit) \in Int
    BY <1>07, <2>1, NearestNumber
  <2> QED BY <2>2 DEF v
<1>11. snapToNeighbors(o, objs) = StoredAt(o, nx, ny)
  BY <1>1
<1> HIDE DEF nx, ny
<1> QED BY <1>9, <1>10, <1>11, StoredMoved

\* A box on whole pixels is a Rect of these numbers.
Boxes == [x : Int, y : Int, w : Int, h : Int]

\* The footprint of an object on whole pixels is one.
LEMMA FootprintInBoxes ==
    ASSUME NEW o, OnPlane(o)
    PROVE  boxOf(o) \in Boxes
<1>1. IsBox(boxOf(o)) /\ boxOf(o) = Rect(boxOf(o).x, boxOf(o).y, boxOf(o).w, boxOf(o).h)
  BY FootprintIsBox, FootprintIsRect
<1> QED BY <1>1 DEF Boxes, IsBox, OnPixels, Rect

\* A box that is pushed out of another keeps its size.
LEMMA PushedOut ==
    ASSUME NEW a \in Boxes, NEW c, IsBox(c)
    PROVE  \E x, y \in Int : PushOut(a, c) = Rect(x, y, a.w, a.h)
<1> DEFINE p == c.x - a.w
           q == c.x + c.w
           s == c.y - a.h
           t == c.y + c.h
<1>1. PushOut(a, c) \in {[a EXCEPT !.x = p], [a EXCEPT !.x = q], [a EXCEPT !.y = s], [a EXCEPT !.y = t]}
  <2> DEFINE west  == a.x + a.w - c.x
             right == c.x + c.w - a.x
             up    == a.y + a.h - c.y
             down  == c.y + c.h - a.y
             least == Min({west, right, up, down})
  <2>1. PushOut(a, c) = CASE least = west -> [a EXCEPT !.x = p]
          [] least # west /\ least = right -> [a EXCEPT !.x = q]
          [] least \notin {west, right} /\ least = up -> [a EXCEPT !.y = s]
          [] OTHER -> [a EXCEPT !.y = t]
    BY DEF PushOut
  <2> HIDE DEF least, west, right, up, down, p, q, s, t
  <2> DEFINE A == [a EXCEPT !.x = p]
             B == [a EXCEPT !.x = q]
             C == [a EXCEPT !.y = s]
             D == [a EXCEPT !.y = t]
  <2>2. PushOut(a, c) = CASE least = west -> A
          [] least # west /\ least = right -> B
          [] least \notin {west, right} /\ least = up -> C
          [] OTHER -> D
    BY <2>1
  <2> HIDE DEF A, B, C, D
  <2>3. PushOut(a, c) \in {A, B, C, D}
    BY <2>2
  <2> QED BY <2>3 DEF A, B, C, D
<1>2. a.x \in Int /\ a.y \in Int /\ a.w \in Int /\ a.h \in Int /\ a = Rect(a.x, a.y, a.w, a.h)
  BY DEF Boxes, Rect
<1>3. p \in Int /\ q \in Int /\ s \in Int /\ t \in Int
  BY <1>2 DEF IsBox, OnPixels
<1> HIDE DEF p, q, s, t
<1>4. \A v \in Int : /\ [a EXCEPT !.x = v] = Rect(v, a.y, a.w, a.h)
                     /\ [a EXCEPT !.y = v] = Rect(a.x, v, a.w, a.h)
  BY DEF Boxes, Rect
<1>5. \/ PushOut(a, c) = Rect(p, a.y, a.w, a.h) \/ PushOut(a, c) = Rect(q, a.y, a.w, a.h)
      \/ PushOut(a, c) = Rect(a.x, s, a.w, a.h) \/ PushOut(a, c) = Rect(a.x, t, a.w, a.h)
  BY <1>1, <1>3, <1>4
<1> DEFINE X == a.x
           Y == a.y
           W == a.w
           H == a.h
<1>6. X \in Int /\ Y \in Int
  BY <1>2
<1> HIDE DEF X, Y, W, H
<1>7. \E x, y \in Int : PushOut(a, c) = Rect(x, y, W, H)
  BY <1>3, <1>5, <1>6 DEF X, Y, W, H
<1> QED BY <1>7 DEF W, H

\* The area two boxes share is a number.
LEMMA SharedArea ==
    ASSUME NEW a, IsBox(a), NEW c, IsBox(c)
    PROVE  (Min({a.x + a.w, c.x + c.w}) - Max({a.x, c.x}))
              * (Min({a.y + a.h, c.y + c.h}) - Max({a.y, c.y})) \in Int
<1>1. /\ a.x \in Int /\ a.y \in Int /\ a.w \in Int /\ a.h \in Int
      /\ c.x \in Int /\ c.y \in Int /\ c.w \in Int /\ c.h \in Int
  BY DEF IsBox, OnPixels
<1>2. \A p, q, s, t \in Int : Min({p + q, s + t}) - Max({p, s}) \in Int
  <2> SUFFICES ASSUME NEW p \in Int, NEW q \in Int, NEW s \in Int, NEW t \in Int
               PROVE  Min({p + q, s + t}) - Max({p, s}) \in Int
    OBVIOUS
  <2> DEFINE u == p + q
             v == s + t
  <2>1. u \in Int /\ v \in Int
    OBVIOUS
  <2> HIDE DEF u, v
  <2>2. Min({u, v}) \in Int /\ Max({p, s}) \in Int
    BY <2>1, TwoNumbers
  <2> QED BY <2>2 DEF u, v
<1> DEFINE e == Min({a.x + a.w, c.x + c.w}) - Max({a.x, c.x})
           f == Min({a.y + a.h, c.y + c.h}) - Max({a.y, c.y})
<1>3. e \in Int
  <2> DEFINE p == a.x
             q == a.w
             s == c.x
             t == c.w
  <2>1. p \in Int /\ q \in Int /\ s \in Int /\ t \in Int
    BY <1>1
  <2> HIDE DEF p, q, s, t
  <2>2. Min({p + q, s + t}) - Max({p, s}) \in Int
    BY <1>2, <2>1
  <2> QED BY <2>2 DEF p, q, s, t
<1>4. f \in Int
  <2> DEFINE p == a.y
             q == a.h
             s == c.y
             t == c.h
  <2>1. p \in Int /\ q \in Int /\ s \in Int /\ t \in Int
    BY <1>1
  <2> HIDE DEF p, q, s, t
  <2>2. Min({p + q, s + t}) - Max({p, s}) \in Int
    BY <1>2, <2>1
  <2> QED BY <2>2 DEF p, q, s, t
<1> HIDE DEF e, f
<1>5. e * f \in Int
  BY <1>3, <1>4
<1> QED BY <1>5 DEF e, f

\* What is pushed aside from others is moved.
LEMMA ResolvedMoves ==
    ASSUME NEW o, OnPlane(o), NEW objs, Plane(objs)
    PROVE  MovedTo(o, resolveOverlap(o, objs))
<1> DEFINE obstacles == Obstacles(objs, o)
           boxes == [i \in DOMAIN obstacles |-> boxOf(obstacles[i])]
           Area(a, c) == (Min({a.x + a.w, c.x + c.w}) - Max({a.x, c.x}))
                         * (Min({a.y + a.h, c.y + c.h}) - Max({a.y, c.y}))
           Hit(a) == {i \in DOMAIN boxes : Overlap(a, boxes[i])}
           Worst(a, i) == \A j \in Hit(a) :
                             \/ Area(a, boxes[i]) > Area(a, boxes[j])
                             \/ Area(a, boxes[i]) = Area(a, boxes[j]) /\ i <= j
           Pass(a) == IF Hit(a) = {} THEN a
                      ELSE PushOut(a, boxes[CHOOSE i \in Hit(a) : Worst(a, i)])
           after[n \in 0 .. 8] == IF n = 0 THEN boxOf(o) ELSE Pass(after[n - 1])
<1>1. resolveOverlap(o, objs) = StoredAt(o, after[8].x, after[8].y)
  BY DEF resolveOverlap
<1>2. /\ DOMAIN boxes \in SUBSET Nat /\ IsFiniteSet(DOMAIN boxes)
      /\ \A i \in DOMAIN boxes : IsBox(boxes[i])
  BY FewerInPlace, FootprintIsBox DEF Plane
<1>3. ASSUME NEW a \in Boxes PROVE Pass(a) \in Boxes
  <2>1. CASE Hit(a) = {}
    BY <2>1
  <2>2. CASE Hit(a) # {}
    <3>1. Hit(a) \in SUBSET Nat /\ IsFiniteSet(Hit(a))
      BY <1>2, FS_Subset
    <3> DEFINE f == [i \in Hit(a) |-> Area(a, boxes[i])]
    <3>2. f \in [Hit(a) -> Int]
      <4>1. \A i \in Hit(a) : Area(a, boxes[i]) \in Int
        BY <1>2, SharedArea DEF Boxes, IsBox, OnPixels
      <4> HIDE DEF Area
      <4> QED BY <4>1
    <3>3. \A i \in Hit(a) : f[i] = Area(a, boxes[i])
      OBVIOUS
    <3>4. \E i \in Hit(a) : \A j \in Hit(a) : f[i] > f[j] \/ (f[i] = f[j] /\ i <= j)
      <4> HIDE DEF Hit, f
      <4> QED BY <2>2, <3>1, <3>2, FirstLargest
    <3>5. \E i \in Hit(a) : Worst(a, i)
      <4> HIDE DEF Area, f
      <4> QED BY <3>3, <3>4
    <3> DEFINE w == CHOOSE i \in Hit(a) : Worst(a, i)
    <3>6. w \in Hit(a)
      <4> HIDE DEF Worst, Hit
      <4> QED BY <3>5
    <3> HIDE DEF w
    <3>7. IsBox(boxes[w])
      BY <1>2, <3>6
    <3>8. Pass(a) = PushOut(a, boxes[w])
      BY <2>2 DEF w
    <3>9. PICK x \in Int, y \in Int : Pass(a) = Rect(x, y, a.w, a.h)
      <4> HIDE DEF Pass
      <4> QED BY <3>7, <3>8, PushedOut
    <3> HIDE DEF Pass
    <3> QED BY <3>9 DEF Boxes, Rect
  <2> QED BY <2>1, <2>2
<1> HIDE DEF Pass
<1>4. boxOf(o) \in Boxes
  BY FootprintInBoxes
<1> DEFINE F == [p \in (1 .. 8) \X Boxes |-> Pass(p[2])]
<1>5. F \in [(1 .. 8) \X Boxes -> Boxes]
  BY <1>3
<1>6. PICK g : Leads(g, F, 8, Boxes, boxOf(o))
  <2>1. IsStep(F, 8, Boxes)
    BY <1>5 DEF IsStep
  <2> HIDE DEF F
  <2> QED BY <1>4, <2>1, StepsTaken
<1>7. g = [n \in 0 .. 8 |-> IF n = 0 THEN boxOf(o) ELSE Pass(g[n - 1])]
  <2>0. /\ g \in [0 .. 8 -> Boxes] /\ g[0] = boxOf(o)
        /\ \A n \in 1 .. 8 : g[n] = F[<<n, g[n - 1]>>]
    BY <1>6 DEF Leads
  <2>1. \A n \in 1 .. 8 : g[n - 1] \in Boxes
    BY <2>0
  <2>2. \A n \in 1 .. 8 : g[n] = Pass(g[n - 1])
    BY <2>0, <2>1
  <2> QED BY <2>0, <2>2
<1>8. after = [n \in 0 .. 8 |-> IF n = 0 THEN boxOf(o) ELSE Pass(after[n - 1])]
  BY <1>7
<1> HIDE DEF after
<1>9. after[0] \in Boxes /\ \A n \in 1 .. 8 : after[n] = Pass(after[n - 1])
  BY <1>4, <1>8
<1>10. \A n \in 0 .. 8 : after[n] \in Boxes
  <2>1. \A n \in 1 .. 8 : after[n - 1] \in Boxes => after[n] \in Boxes
    BY <1>3, <1>9
  <2> QED BY <1>9, <2>1, StepsKeep
<1>11. after[8].x \in Int /\ after[8].y \in Int
  BY <1>10 DEF Boxes
<1> QED BY <1>1, <1>11, StoredMoved

\* What is dropped is moved, wherever the drop ends.
LEMMA DropMoves ==
    ASSUME NEW o, Whole(o), OnPlane(o), NEW objs, Plane(objs)
    PROVE  MovedTo(o, resolveDrop(o, objs).object)
BY NotMoved, ResolvedMoves DEF resolveDrop

(***************************************************************************)
(* Walls as hosts of doors and windows                                     *)
(***************************************************************************)
\* A wall as a host stands on whole pixels; hosts are numbered.
HostOnPixels(w) == OnPixels({w.cx, w.cy, w.length, w.thickness})
HostsInPlace(W) == \A w \in W : w[1] \in Nat /\ HostOnPixels(w[2])

\* Half of a number is a number.
LEMMA Half == ASSUME NEW a \in Int PROVE a \div 2 \in Int
OBVIOUS

\* A place on a wall and its coordinates are numbers.
LEMMA WallCoordinates ==
    ASSUME NEW w, HostOnPixels(w), NEW x \in Int, NEW y \in Int, NEW a \in Int
    PROVE  /\ projectAlong(w, x, y) \in Int /\ projectPerp(w, x, y) \in Nat
           /\ pointOnWall(w, a)[1] \in Int /\ pointOnWall(w, a)[2] \in Int
<1>1. w.cx \in Int /\ w.cy \in Int
  BY DEF HostOnPixels, OnPixels
<1>2. projectAlong(w, x, y) \in Int
  BY <1>1 DEF projectAlong
<1>3. projectPerp(w, x, y) \in Nat
  BY <1>1, Distance DEF projectPerp
<1>4. \E p, q \in Int : pointOnWall(w, a) = <<p, q>>
  <2> DEFINE A == w.cx + a
             B == w.cy + a
             C == w.cx - a
             D == w.cy - a
  <2>1. A \in Int /\ B \in Int /\ C \in Int /\ D \in Int
    BY <1>1
  <2>2. pointOnWall(w, a) \in {<<A, w.cy>>, <<w.cx, B>>, <<C, w.cy>>, <<w.cx, D>>}
    <3>1. pointOnWall(w, a) = CASE w.angle % 360 = 0   -> <<A, w.cy>>
                                [] w.angle % 360 = 90  -> <<w.cx, B>>
                                [] w.angle % 360 = 180 -> <<C, w.cy>>
                                [] OTHER               -> <<w.cx, D>>
      BY DEF pointOnWall
    <3> DEFINE u == w.angle % 360
    <3> HIDE DEF A, B, C, D, u
    <3>2. pointOnWall(w, a) = CASE u = 0   -> <<A, w.cy>>
                                [] u = 90  -> <<w.cx, B>>
                                [] u = 180 -> <<C, w.cy>>
                                [] OTHER   -> <<w.cx, D>>
      BY <3>1 DEF u
    <3> QED BY <3>2
  <2> HIDE DEF A, B, C, D
  <2> QED BY <1>1, <2>1, <2>2
<1> QED BY <1>2, <1>3, <1>4

\* The nearest wall is none or one of them.
LEMMA HostFound ==
    ASSUME NEW W, HostsInPlace(W), NEW x \in Int, NEW y \in Int
    PROVE  /\ nearestWall(W, x, y) # <<>> =>
                 /\ nearestWall(W, x, y) = <<nearestWall(W, x, y)[1]>>
                 /\ HostOnPixels(nearestWall(W, x, y)[1])
<1> DEFINE near == {w \in W : OnWall(w[2], x, y, HOVER_TOLERANCE)}
           Across(w) == projectPerp(w[2], x, y)
           Best(w) == \A v \in near : \/ Across(w) < Across(v)
                                      \/ Across(w) = Across(v) /\ w[1] <= v[1]
           f == [w \in near |-> Across(w)]
           g == [w \in near |-> w[1]]
           c == CHOOSE w \in near : Best(w)
<1>1. nearestWall(W, x, y) = IF near = {} THEN <<>> ELSE <<c[2]>>
  BY DEF nearestWall
<1>2. CASE near = {}
  BY <1>1, <1>2
<1>3. CASE near # {}
  <2>1. \A w \in near : w[1] \in Nat /\ HostOnPixels(w[2]) /\ Across(w) \in Nat
    BY WallCoordinates DEF HostsInPlace
  <2> HIDE DEF near, Across
  <2>2. f \in [near -> Nat] /\ g \in [near -> Nat]
    BY <2>1
  <2>3. \A w \in near : f[w] = Across(w) /\ g[w] = w[1]
    OBVIOUS
  <2>4. \E w \in near : \A v \in near : f[w] < f[v] \/ (f[w] = f[v] /\ g[w] <= g[v])
    <3> HIDE DEF f, g
    <3> QED BY <1>3, <2>2, FirstNearest
  <2>5. \E w \in near : Best(w)
    <3> HIDE DEF f, g
    <3> QED BY <2>3, <2>4
  <2>6. c \in near
    <3> HIDE DEF Best
    <3> QED BY <2>5
  <2> HIDE DEF c
  <2> QED BY <1>1, <1>3, <2>1, <2>6
<1> QED BY <1>2, <1>3

\* A SnapWall of numbers is a host.
LEMMA SnapWallHost ==
    ASSUME NEW x \in Int, NEW y \in Int, NEW l \in Int, NEW t \in Int, NEW a
    PROVE  HostOnPixels(SnapWall(x, y, l, t, a))
BY DEF HostOnPixels, SnapWall, OnPixels

\* The room's own walls are four hosts.
LEMMA RoomHosts ==
    ASSUME NEW r, IsBox(r)
    PROVE  /\ DOMAIN getBoundaryWalls(r) = 1 .. 4
           /\ \A i \in 1 .. 4 : HostOnPixels(getBoundaryWalls(r)[i])
           /\ \A i \in 1 .. 4 : getBoundaryWalls(r)[i].length \in {r.w, r.h}
<1> DEFINE t == BOUNDARY_WALL_THICKNESS
           h == t \div 2
           midX == r.x + r.w \div 2
           midY == r.y + r.h \div 2
           y1 == r.y - h
           y2 == r.y + r.h + h
           x3 == r.x - h
           x4 == r.x + r.w + h
<1>1. r.x \in Int /\ r.y \in Int /\ r.w \in Int /\ r.h \in Int /\ t \in Int
  BY GeometryAssumption DEF IsBox, OnPixels
<1>2. h \in Int /\ r.w \div 2 \in Int /\ r.h \div 2 \in Int
  BY <1>1, Half
<1> HIDE DEF h
<1>3. midX \in Int /\ midY \in Int /\ y1 \in Int /\ y2 \in Int /\ x3 \in Int /\ x4 \in Int
  BY <1>1, <1>2
<1> DEFINE w1 == SnapWall(midX, y1, r.w, t, 0)
           w2 == SnapWall(midX, y2, r.w, t, 0)
           w3 == SnapWall(x3, midY, r.h, t, 90)
           w4 == SnapWall(x4, midY, r.h, t, 90)
<1>4. getBoundaryWalls(r) = <<w1, w2, w3, w4>>
  BY DEF getBoundaryWalls, h
<1> HIDE DEF midX, midY, y1, y2, x3, x4, t
<1>5. /\ HostOnPixels(w1) /\ HostOnPixels(w2) /\ HostOnPixels(w3) /\ HostOnPixels(w4)
      /\ {w1.length, w2.length, w3.length, w4.length} \subseteq {r.w, r.h}
  <2>1. HostOnPixels(w1) /\ HostOnPixels(w2) /\ HostOnPixels(w3) /\ HostOnPixels(w4)
    BY <1>1, <1>3, SnapWallHost
  <2>2. w1.length = r.w /\ w2.length = r.w /\ w3.length = r.h /\ w4.length = r.h
    BY DEF SnapWall
  <2> QED BY <2>1, <2>2
<1> HIDE DEF w1, w2, w3, w4
<1>6. \A i \in 1 .. 4 : i \in {1, 2, 3, 4}
  OBVIOUS
<1>7. DOMAIN <<w1, w2, w3, w4>> = 1 .. 4
  OBVIOUS
<1> QED BY <1>4, <1>5, <1>6, <1>7

\* The centre of an object is a place.
LEMMA Centre ==
    ASSUME NEW o, OnPlane(o)
    PROVE  /\ CenterX(o) \in Int /\ CenterY(o) \in Int
           /\ o.x \in Int /\ o.y \in Int /\ o.width \in Int /\ o.height \in Int
           /\ o.width \div 2 \in Int /\ o.height \div 2 \in Int
<1>1. o.x \in Int /\ o.y \in Int /\ o.width \in Int /\ o.height \in Int
  BY DEF OnPlane, OnPixels
<1>2. o.width \div 2 \in Int /\ o.height \div 2 \in Int
  BY <1>1, Half
<1> QED BY <1>1, <1>2 DEF CenterX, CenterY

\* A user's wall is a host.
LEMMA UserHost ==
    ASSUME NEW o, OnPlane(o)
    PROVE  HostOnPixels(userWallToSnapWall(o))
<1>1. CenterX(o) \in Int /\ CenterY(o) \in Int /\ o.width \in Int /\ o.height \in Int
  BY Centre
<1> QED BY <1>1, SnapWallHost DEF userWallToSnapWall

\* The walls of a grid are numbered boxes.
LEMMA GridWalls ==
    ASSUME NEW grid, IsGrid(grid), NEW floor, NEW t \in Nat
    PROVE  \A w \in WallsOfGrid(grid, floor, t) : w[1] \in Nat /\ IsBox(w[2])
<1>0. Len(grid.xs) \in Nat /\ Len(grid.ys) \in Nat
  BY DEF IsGrid, IsLines
<1>1. ASSUME NEW line \in Nat, NEW from \in Nat PROVE WallNumber(grid, line, from) \in Nat
  <2> DEFINE p == Len(grid.xs)
             q == Len(grid.ys)
             L == p + q
  <2>0. p \in Nat /\ q \in Nat
    BY <1>0
  <2> HIDE DEF p, q
  <2>1. L \in Nat
    BY <2>0
  <2> HIDE DEF L
  <2>2. line * L + from \in Nat
    BY <2>1
  <2> QED BY <2>2 DEF WallNumber, Lines, L, p, q
<1>2. /\ DOMAIN grid.xs = 1 .. Len(grid.xs) /\ DOMAIN grid.ys = 1 .. Len(grid.ys)
      /\ \A k \in 1 .. Len(grid.xs) : grid.xs[k] \in Int
      /\ \A k \in 1 .. Len(grid.ys) : grid.ys[k] \in Int
  BY DEF IsGrid, IsLines
<1>3. ASSUME NEW i \in DOMAIN grid.xs, NEW w \in UprightWalls(grid, floor, t, i)
      PROVE  w[1] \in Nat /\ IsBox(w[2])
  <2> DEFINE side == VSides(grid, floor, i)
  <2>1. PICK run \in Runs(side) : w = <<WallNumber(grid, i, run[1]), VWall(grid, i, run, side[run[1]], t)>>
    BY DEF UprightWalls
  <2>2. run[1] \in 1 .. Len(grid.ys) - 1 /\ run[2] \in 1 .. Len(grid.ys) - 1
    BY UprightSides
  <2> DEFINE s == side[run[1]]
             p == grid.xs[i]
             q == grid.ys[run[1]]
             u == grid.ys[run[2] + 1]
  <2>3. p \in Int /\ q \in Int /\ u \in Int
    <3>1. run[1] \in 1 .. Len(grid.ys) /\ run[2] + 1 \in 1 .. Len(grid.ys)
      BY <1>0, <2>2
    <3> QED BY <1>2, <3>1
  <2>4. i \in Nat /\ run[1] \in Nat
    BY <1>0, <1>2, <2>2
  <2>5. VWall(grid, i, run, s, t) = Rect(IF s = 1 THEN p - t ELSE p, q, t, u - q)
    BY DEF VWall
  <2> HIDE DEF p, q, u, s
  <2>6. IsBox(Rect(IF s = 1 THEN p - t ELSE p, q, t, u - q))
    BY <2>3 DEF IsBox, OnPixels, Rect
  <2>7. WallNumber(grid, i, run[1]) \in Nat
    BY <1>1, <2>4
  <2> QED BY <2>1, <2>5, <2>6, <2>7 DEF s
<1>4. ASSUME NEW j \in DOMAIN grid.ys, NEW w \in LevelWalls(grid, floor, t, j)
      PROVE  w[1] \in Nat /\ IsBox(w[2])
  <2> DEFINE side == HSides(grid, floor, j)
             line == Len(grid.xs) + j
  <2>1. PICK run \in Runs(side) :
            w = <<WallNumber(grid, line, run[1]), HWall(grid, floor, j, run, side[run[1]], t)>>
    BY DEF LevelWalls
  <2>2. run[1] \in 1 .. Len(grid.xs) - 1 /\ run[2] \in 1 .. Len(grid.xs) - 1
    BY LevelSides
  <2> DEFINE s == side[run[1]]
             q == grid.ys[j]
             from == grid.xs[run[1]]
             to == grid.xs[run[2] + 1]
             band == IF s = 1 THEN q - t \div 2 ELSE q + t \div 2
             xL == IF FloorAt(grid, floor, from - t \div 2, band) THEN from ELSE from - t
             xR == IF FloorAt(grid, floor, to + t \div 2, band) THEN to ELSE to + t
  <2>3. from \in Int /\ to \in Int /\ q \in Int
    <3>1. run[1] \in 1 .. Len(grid.xs) /\ run[2] + 1 \in 1 .. Len(grid.xs)
      BY <1>0, <2>2
    <3> QED BY <1>2, <3>1
  <2>4. line \in Nat /\ run[1] \in Nat
    BY <1>0, <1>2, <2>2
  <2>5. HWall(grid, floor, j, run, s, t) = Rect(xL, IF s = 1 THEN q - t ELSE q, xR - xL, t)
    BY DEF HWall
  <2> HIDE DEF from, to, q, band, s, line
  <2>6. xL \in Int /\ xR \in Int
    BY <2>3
  <2> HIDE DEF xL, xR
  <2>7. IsBox(Rect(xL, IF s = 1 THEN q - t ELSE q, xR - xL, t))
    BY <2>3, <2>6 DEF IsBox, OnPixels, Rect
  <2>8. WallNumber(grid, line, run[1]) \in Nat
    BY <1>1, <2>4
  <2> QED BY <2>1, <2>5, <2>7, <2>8 DEF s
<1> QED BY <1>3, <1>4 DEF WallsOfGrid

\* A list of boxes: what the clipping of cutouts is given and leaves.
BoxList(c) == IsFiniteSet(DOMAIN c) /\ \A i \in DOMAIN c : IsBox(c[i])

\* A box is a host along its longer side.
LEMMA BoxHost ==
    ASSUME NEW b, IsBox(b)
    PROVE  HostOnPixels(SnapWall(b.x + b.w \div 2, b.y + b.h \div 2,
                                 IF b.w >= b.h THEN b.w ELSE b.h, IF b.w >= b.h THEN b.h ELSE b.w,
                                 IF b.w >= b.h THEN 0 ELSE 90))
<1> DEFINE cx == b.x + b.w \div 2
             cy == b.y + b.h \div 2
             l == IF b.w >= b.h THEN b.w ELSE b.h
             t == IF b.w >= b.h THEN b.h ELSE b.w
<1>1. b.x \in Int /\ b.y \in Int /\ b.w \in Int /\ b.h \in Int
  BY DEF IsBox, OnPixels
<1>2. b.w \div 2 \in Int /\ b.h \div 2 \in Int
  BY <1>1, Half
<1>3. cx \in Int /\ cy \in Int /\ l \in Int /\ t \in Int
  BY <1>1, <1>2
<1> HIDE DEF cx, cy, l, t
<1>4. HostOnPixels(SnapWall(cx, cy, l, t, IF b.w >= b.h THEN 0 ELSE 90))
  BY <1>3, SnapWallHost
<1> QED BY <1>4 DEF cx, cy, l, t

\* The carved walls are hosts.
LEMMA CarvedHosts ==
    ASSUME NEW r, IsBox(r), NEW cutouts, BoxList(cutouts)
    PROVE  HostsInPlace(getCarvedBoundaryWalls(r, cutouts))
<1> DEFINE grid == buildCarveGrid(r, cutouts)
           W == computeFloorWallSegments(r, cutouts, BOUNDARY_WALL_THICKNESS)
           Level(b) == b.w >= b.h
           Host(b) == SnapWall(b.x + b.w \div 2, b.y + b.h \div 2,
                          IF Level(b) THEN b.w ELSE b.h, IF Level(b) THEN b.h ELSE b.w,
                          IF Level(b) THEN 0 ELSE 90)
<1>1. BOUNDARY_WALL_THICKNESS \in Nat
  BY GeometryAssumption
<1>2. IsGrid(grid)
  BY CarvedGrid DEF BoxList
<1>3. \A w \in W : w[1] \in Nat /\ IsBox(w[2])
  <2> HIDE DEF grid
  <2>1. W = WallsOfGrid(grid, FloorCells(grid), BOUNDARY_WALL_THICKNESS)
    BY DEF computeFloorWallSegments, FramedGrid, grid
  <2> QED BY <1>1, <1>2, <2>1, GridWalls
<1>4. \A b : IsBox(b) => HostOnPixels(Host(b))
  BY BoxHost
<1>5. getCarvedBoundaryWalls(r, cutouts) = {<<w[1], Host(w[2])>> : w \in W}
  BY DEF getCarvedBoundaryWalls
<1> HIDE DEF W, Host
<1> QED BY <1>3, <1>4, <1>5 DEF HostsInPlace

\* The hosts of a layout.
LEMMA SnapWallsHosts ==
    ASSUME NEW objs, Plane(objs), NEW r, IsBox(r), NEW cutouts, BoxList(cutouts)
    PROVE  HostsInPlace(getSnapWalls(objs, r, cutouts))
<1> DEFINE Numbered(walls, last) == {<<last + i, walls[i]>> : i \in DOMAIN walls}
           grid == buildCarveGrid(r, cutouts)
           last == WallNumber(grid, Lines(grid) + 1, 0)
           users == getUserWalls(objs)
           own == getBoundaryWalls(r)
<1>1. getSnapWalls(objs, r, cutouts) =
        IF DOMAIN cutouts = {}
        THEN Numbered(own, 0) \cup Numbered(users, 4)
        ELSE getCarvedBoundaryWalls(r, cutouts) \cup Numbered(users, last)
  BY DEF getSnapWalls
<1>2. \A i \in DOMAIN users : i \in Nat /\ HostOnPixels(users[i])
  BY UserHost DEF getUserWalls, Plane
<1>3. \A i \in DOMAIN own : i \in Nat /\ HostOnPixels(own[i])
  BY RoomHosts
<1>4. last \in Nat
  <2>1. IsGrid(grid)
    BY CarvedGrid DEF BoxList
  <2> DEFINE p == Len(grid.xs)
             q == Len(grid.ys)
             L == p + q
  <2>0. p \in Nat /\ q \in Nat
    BY <2>1 DEF IsGrid, IsLines
  <2> HIDE DEF p, q, grid
  <2>2. L \in Nat
    BY <2>0
  <2> HIDE DEF L
  <2>3. (L + 1) * L + 0 \in Nat
    BY <2>2
  <2> QED BY <2>3 DEF L, p, q, WallNumber, Lines
<1> HIDE DEF last, users, own
<1>5. ASSUME NEW walls, \A i \in DOMAIN walls : i \in Nat /\ HostOnPixels(walls[i]), NEW n \in Nat
      PROVE  HostsInPlace(Numbered(walls, n))
  BY <1>5 DEF HostsInPlace
<1> HIDE DEF Numbered
<1>6. HostsInPlace(Numbered(own, 0)) /\ HostsInPlace(Numbered(users, 4)) /\ HostsInPlace(Numbered(users, last))
  BY <1>2, <1>3, <1>4, <1>5
<1>7. HostsInPlace(getCarvedBoundaryWalls(r, cutouts))
  BY CarvedHosts
<1> QED BY <1>1, <1>6, <1>7 DEF HostsInPlace

(***************************************************************************)
(* Openings along a wall, and sizes set by hand                            *)
(***************************************************************************)
\* Of a number and finitely many others there is a largest and a smallest.
LEMMA EndOfNumbers ==
    ASSUME NEW T, IsFiniteSet(T), NEW f, f \in [T -> Int], NEW a \in Int
    PROVE  /\ Max({a} \cup {f[t] : t \in T}) \in Int /\ a <= Max({a} \cup {f[t] : t \in T})
           /\ Min({a} \cup {f[t] : t \in T}) \in Int /\ Min({a} \cup {f[t] : t \in T}) <= a
           /\ \A t \in T : /\ f[t] <= Max({a} \cup {f[u] : u \in T})
                           /\ Min({a} \cup {f[u] : u \in T}) <= f[t]
<1> DEFINE R == {f[t] : t \in T}
           S == {a} \cup R
<1>1. IsFiniteSet(R)
  <2>1. f \in Surjection(T, Range(f))
    <3>1. f \in [T -> Range(f)]
      BY DEF Range
    <3> QED BY <3>1, Fun_RangeProperties
  <2>2. R = Range(f)
    BY DEF Range
  <2> QED BY <2>1, <2>2, FS_Surjection
<1>2. S \in SUBSET Int /\ S # {} /\ a \in S /\ \A t \in T : f[t] \in S
  OBVIOUS
<1>3. IsFiniteSet(S)
  <2>1. S = R \cup {a}
    OBVIOUS
  <2> HIDE DEF S, R
  <2> QED BY <1>1, <2>1, FS_AddElement
<1> HIDE DEF S
<1>4. Max(S) \in S /\ Min(S) \in S /\ \A x \in S : x <= Max(S) /\ Min(S) <= x
  BY <1>2, <1>3, FiniteEnds
<1>5. Max(S) \in Int /\ Min(S) \in Int /\ a <= Max(S) /\ Min(S) <= a
      /\ \A t \in T : f[t] <= Max(S) /\ Min(S) <= f[t]
  BY <1>2, <1>4
<1> QED BY <1>5 DEF S

\* Finitely many stretches of a wall.
Spans(T) == IsFiniteSet(T) /\ \A iv \in T : iv[1] \in Int /\ iv[2] \in Int

\* The ends of some stretches, shifted, and a number.
LEMMA EndOfSpans ==
    ASSUME NEW T, Spans(T), NEW A \in SUBSET T, NEW a \in Int, NEW d \in Int
    PROVE  /\ Max({a} \cup {iv[2] + d : iv \in A}) \in Int
           /\ Min({a} \cup {iv[1] - d : iv \in A}) \in Int
<1> DEFINE f == [iv \in A |-> iv[2] + d]
           g == [iv \in A |-> iv[1] - d]
<1>1. IsFiniteSet(A) /\ f \in [A -> Int] /\ g \in [A -> Int]
  BY FS_Subset DEF Spans
<1>2. {iv[2] + d : iv \in A} = {f[iv] : iv \in A} /\ {iv[1] - d : iv \in A} = {g[iv] : iv \in A}
  OBVIOUS
<1> HIDE DEF f, g
<1>3. Max({a} \cup {f[iv] : iv \in A}) \in Int /\ Min({a} \cup {g[iv] : iv \in A}) \in Int
  BY <1>1, EndOfNumbers
<1> QED BY <1>2, <1>3

\* What stays within a gap is a number.
LEMMA GapNumber ==
    ASSUME NEW T, Spans(T), NEW along \in Int, NEW half \in Int, NEW wallHalf \in Int,
           NEW anchor \in Int
    PROVE  clampAlongWithinGap(along, half, wallHalf, T, anchor) \in Int
<1> DEFINE A == {i \in T : i[2] + half <= anchor}
           B == {i \in T : i[2] + half > anchor /\ i[1] - half >= anchor}
           lo == Max({half - wallHalf} \cup {iv[2] + half : iv \in A})
           hi == Min({wallHalf - half} \cup {iv[1] - half : iv \in B})
<1>1. clampAlongWithinGap(along, half, wallHalf, T, anchor) =
        CASE half > wallHalf -> 0
          [] half <= wallHalf /\ lo > hi -> anchor
          [] OTHER -> clamp(along, lo, hi)
  BY DEF clampAlongWithinGap
<1>2. A \in SUBSET T /\ B \in SUBSET T
  OBVIOUS
<1> HIDE DEF A, B
<1> DEFINE p == half - wallHalf
           q == wallHalf - half
<1>3. p \in Int /\ q \in Int
  OBVIOUS
<1> HIDE DEF p, q
<1>4. Max({p} \cup {iv[2] + half : iv \in A}) \in Int /\ Min({q} \cup {iv[1] - half : iv \in B}) \in Int
  BY <1>2, <1>3, EndOfSpans
<1>5. lo \in Int /\ hi \in Int
  BY <1>4 DEF p, q
<1> HIDE DEF lo, hi
<1>6. clamp(along, lo, hi) \in Int
  BY <1>5, Clamped
<1> QED BY <1>1, <1>6

\* The stretches other doors and windows take of a wall.
LEMMA TakenSpans ==
    ASSUME NEW wall, HostOnPixels(wall), NEW objs, Plane(objs), NEW id
    PROVE  Spans(openingsOnWall(wall, objs, id))
<1> DEFINE P == {p \in Range(Others(objs, id)) :
                    IsOpening(p.type) /\ OnWall(wall, CenterX(p), CenterY(p), 2)}
           MiddleAt(o) == projectAlong(wall, CenterX(o), CenterY(o))
           f == [o \in P |-> <<MiddleAt(o) - o.width \div 2, MiddleAt(o) + o.width \div 2>>]
<1>1. openingsOnWall(wall, objs, id) = {f[o] : o \in P}
  <2>1. openingsOnWall(wall, objs, id)
          = {<<MiddleAt(o) - o.width \div 2, MiddleAt(o) + o.width \div 2>> : o \in P}
    BY DEF openingsOnWall
  <2> QED BY <2>1
<1>2. \A o \in P : OnPlane(o)
  BY FewerInPlace DEF Range, Plane
<1>3. IsFiniteSet(P)
  <2> DEFINE D == Others(objs, id)
  <2>1. IsFiniteSet(DOMAIN D)
    BY FewerInPlace DEF Plane
  <2>2. D \in Surjection(DOMAIN D, Range(D))
    <3>0. D = [i \in DOMAIN D |-> D[i]]
      BY DEF Others, Restrict
    <3> HIDE DEF D
    <3>1. D \in [DOMAIN D -> Range(D)]
      BY <3>0 DEF Range
    <3> QED BY <3>1, Fun_RangeProperties
  <2> HIDE DEF D
  <2>3. IsFiniteSet(Range(D))
    BY <2>1, <2>2, FS_Surjection
  <2>4. P \in SUBSET Range(D)
    BY DEF D
  <2> HIDE DEF P
  <2> QED BY <2>3, <2>4, FS_Subset
<1>4. ASSUME NEW o \in P PROVE f[o][1] \in Int /\ f[o][2] \in Int
  <2>1. CenterX(o) \in Int /\ CenterY(o) \in Int /\ o.width \div 2 \in Int
    BY <1>2, Centre
  <2>2. MiddleAt(o) \in Int
    BY <2>1, WallCoordinates
  <2> DEFINE a == MiddleAt(o)
             h == o.width \div 2
             lo == a - h
             hi == a + h
  <2>3. a \in Int /\ h \in Int
    BY <2>1, <2>2
  <2>4. f[o] = <<lo, hi>>
    OBVIOUS
  <2> HIDE DEF a, h, f
  <2>5. lo \in Int /\ hi \in Int
    BY <2>3
  <2> HIDE DEF lo, hi
  <2> QED BY <2>4, <2>5
<1>5. IsFiniteSet({f[o] : o \in P})
  <2>1. DOMAIN f = P
    OBVIOUS
  <2>2. f \in [P -> Range(f)]
    BY DEF Range
  <2> HIDE DEF f, P
  <2>4. f \in Surjection(P, Range(f))
    BY <2>2, Fun_RangeProperties
  <2>3. Range(f) = {f[o] : o \in P}
    BY <2>1 DEF Range
  <2> QED BY <1>3, <2>4, <2>3, FS_Surjection
<1> HIDE DEF f, P
<1> QED BY <1>1, <1>4, <1>5 DEF Spans

\* p is the object o with another place, size and turn.
ReshapedTo(o, p) ==
    \E x, y, w, h \in Int : \E a :
       p = [o EXCEPT !.x = x, !.y = y, !.width = w, !.height = h, !.rotation = a]

\* It is the same object, on whole pixels.
LEMMA ReshapedSame ==
    ASSUME NEW o, Whole(o), NEW p, ReshapedTo(o, p)
    PROVE  Whole(p) /\ OnPlane(p) /\ p.id = o.id /\ p.type = o.type
<1>0. PICK x \in Int, y \in Int, w \in Int, h \in Int :
         \E a : p = [o EXCEPT !.x = x, !.y = y, !.width = w, !.height = h, !.rotation = a]
  BY DEF ReshapedTo
<1>1. PICK a : p = [o EXCEPT !.x = x, !.y = y, !.width = w, !.height = h, !.rotation = a]
  BY <1>0
<1>2. Whole(p)
  BY <1>1 DEF Whole, HasFields, ObjectFields, ShapeFields
<1>3. DOMAIN o = {"id", "type", "x", "y", "width", "height", "rotation"}
  BY WholeDomain DEF ObjectFields, ShapeFields
<1>4. p.x = x /\ p.y = y /\ p.width = w /\ p.height = h /\ p.id = o.id /\ p.type = o.type
  BY <1>1, <1>3
<1> QED BY <1>2, <1>4 DEF OnPlane, OnPixels

\* What is moved is reshaped.
LEMMA MovedReshaped ==
    ASSUME NEW o, Whole(o), OnPlane(o), NEW p, MovedTo(o, p)
    PROVE  ReshapedTo(o, p)
<1>1. PICK x \in Int, y \in Int : p = [o EXCEPT !.x = x, !.y = y]
  BY DEF MovedTo
<1>2. p = [o EXCEPT !.x = x, !.y = y, !.width = o.width, !.height = o.height, !.rotation = o.rotation]
  BY <1>1 DEF Whole, HasFields, ObjectFields, ShapeFields
<1> QED BY <1>2 DEF ReshapedTo, OnPlane, OnPixels

\* A door or window that slides is moved.
LEMMA SlidMoves ==
    ASSUME NEW o, OnPlane(o), NEW x \in Int, NEW y \in Int, NEW objs, Plane(objs),
           NEW W, HostsInPlace(W)
    PROVE  \/ constrainWallObjectMove(o, x, y, objs, W) = <<>>
           \/ \E p : MovedTo(o, p) /\ constrainWallObjectMove(o, x, y, objs, W) = <<p>>
<1> DEFINE host == nearestWall(W, CenterX(o), CenterY(o))
           wall == host[1]
           target == projectAlong(wall, x + o.width \div 2, y + o.height \div 2)
           anchor == projectAlong(wall, CenterX(o), CenterY(o))
           along == clampAlongWithinGap(target, o.width \div 2, wall.length \div 2,
                        openingsOnWall(wall, objs, o.id), anchor)
           p == pointOnWall(wall, along)
           a == p[1] - o.width \div 2
           b == p[2] - o.height \div 2
<1>1. constrainWallObjectMove(o, x, y, objs, W)
        = IF host = <<>> THEN <<>> ELSE <<[o EXCEPT !.x = a, !.y = b]>>
  BY DEF constrainWallObjectMove
<1>2. CASE host = <<>>
  BY <1>1, <1>2
<1>3. CASE host # <<>>
  <2>1. /\ CenterX(o) \in Int /\ CenterY(o) \in Int
        /\ o.width \div 2 \in Int /\ o.height \div 2 \in Int
    BY Centre
  <2>2. HostOnPixels(wall)
    BY <1>3, <2>1, HostFound
  <2>3. wall.length \div 2 \in Int
    BY <2>2, Half DEF HostOnPixels, OnPixels
  <2> DEFINE u == x + o.width \div 2
             v == y + o.height \div 2
  <2>4. u \in Int /\ v \in Int
    BY <2>1
  <2> HIDE DEF host, u, v
  <2>5. projectAlong(wall, u, v) \in Int /\ anchor \in Int
    BY <2>1, <2>2, <2>4, WallCoordinates
  <2>6. Spans(openingsOnWall(wall, objs, o.id))
    BY <2>2, TakenSpans
  <2>7. target \in Int
    BY <2>5 DEF u, v
  <2> DEFINE oh == o.width \div 2
             wh == wall.length \div 2
             T == openingsOnWall(wall, objs, o.id)
  <2>8. oh \in Int /\ wh \in Int /\ Spans(T)
    BY <2>1, <2>3, <2>6
  <2> HIDE DEF oh, wh, T, target, anchor
  <2>9. clampAlongWithinGap(target, oh, wh, T, anchor) \in Int
    BY <2>5, <2>7, <2>8, GapNumber
  <2>10. along \in Int
    BY <2>9 DEF oh, wh, T
  <2> HIDE DEF along
  <2>11. p[1] \in Int /\ p[2] \in Int
    BY <2>1, <2>2, <2>10, WallCoordinates
  <2> HIDE DEF p
  <2>12. a \in Int /\ b \in Int
    BY <2>1, <2>11
  <2> HIDE DEF a, b
  <2>13. MovedTo(o, [o EXCEPT !.x = a, !.y = b])
    BY <2>12 DEF MovedTo
  <2> QED BY <1>1, <1>3, <2>13
<1> QED BY <1>2, <1>3

\* A door or window is drawn where it is, or on its wall.
LEMMA AlignedPlace ==
    ASSUME NEW o, Whole(o), OnPlane(o), NEW W, HostsInPlace(W)
    PROVE  ReshapedTo(o, alignOpeningToWall(o, W))
<1> DEFINE host == nearestWall(W, CenterX(o), CenterY(o))
           wall == host[1]
           length == Max({o.width, o.height})
           p == pointOnWall(wall, projectAlong(wall, CenterX(o), CenterY(o)))
           a == p[1] - length \div 2
           b == p[2] - wall.thickness \div 2
<1>1. alignOpeningToWall(o, W)
        = IF ~IsOpening(o.type) \/ host = <<>> THEN o
          ELSE [o EXCEPT !.x = a, !.y = b, !.width = length,
                         !.height = wall.thickness, !.rotation = wall.angle]
  BY DEF alignOpeningToWall
<1>2. ReshapedTo(o, o)
  BY NotMoved, MovedReshaped
<1>3. CASE host # <<>>
  <2>1. CenterX(o) \in Int /\ CenterY(o) \in Int /\ o.width \in Int /\ o.height \in Int
    BY Centre
  <2>2. HostOnPixels(wall)
    BY <1>3, <2>1, HostFound
  <2>3. wall.thickness \in Int /\ length \in Int
    BY <2>1, <2>2, TwoNumbers DEF HostOnPixels, OnPixels
  <2> HIDE DEF host, length
  <2>4. wall.thickness \div 2 \in Int /\ length \div 2 \in Int
    BY <2>3, Half
  <2> DEFINE s == projectAlong(wall, CenterX(o), CenterY(o))
  <2>5. s \in Int
    BY <2>1, <2>2, WallCoordinates
  <2> HIDE DEF s
  <2>6. pointOnWall(wall, s)[1] \in Int /\ pointOnWall(wall, s)[2] \in Int
    BY <2>1, <2>2, <2>5, WallCoordinates
  <2>7. p[1] \in Int /\ p[2] \in Int
    BY <2>6 DEF s
  <2> HIDE DEF p
  <2>8. a \in Int /\ b \in Int
    BY <2>4, <2>7
  <2> HIDE DEF a, b
  <2>9. ReshapedTo(o, [o EXCEPT !.x = a, !.y = b, !.width = length,
                                !.height = wall.thickness, !.rotation = wall.angle])
    BY <2>3, <2>8 DEF ReshapedTo
  <2> QED BY <1>1, <1>2, <2>9
<1> QED BY <1>1, <1>2, <1>3

\* A door or window at the pointer is on its wall.
LEMMA SnappedPlace ==
    ASSUME NEW o, Whole(o), OnPlane(o), NEW x \in Int, NEW y \in Int, NEW W, HostsInPlace(W)
    PROVE  \/ snapToWall(o, x, y, W) = <<>>
           \/ \E q : ReshapedTo(o, q) /\ snapToWall(o, x, y, W) = <<q>>
<1> DEFINE host == nearestWall(W, x, y)
           wall == host[1]
           room2 == (wall.length - o.width) \div 2
           free == Max({0, room2})
           s == clamp(projectAlong(wall, x, y), -free, free)
           p == pointOnWall(wall, s)
           a == p[1] - o.width \div 2
           b == p[2] - wall.thickness \div 2
<1>1. snapToWall(o, x, y, W)
        = IF host = <<>> THEN <<>>
          ELSE <<[o EXCEPT !.x = a, !.y = b, !.height = wall.thickness, !.rotation = wall.angle]>>
  BY DEF snapToWall
<1>2. CASE host # <<>>
  <2>1. o.width \in Int /\ o.width \div 2 \in Int
    BY Centre
  <2>2. HostOnPixels(wall)
    BY <1>2, HostFound
  <2>3. wall.thickness \in Int /\ wall.length \in Int
    BY <2>2 DEF HostOnPixels, OnPixels
  <2> HIDE DEF host
  <2>4. wall.thickness \div 2 \in Int
    BY <2>3, Half
  <2>5. room2 \in Int
    BY <2>1, <2>3
  <2> HIDE DEF room2
  <2>6. free \in Int
    BY <2>5, TwoNumbers
  <2> HIDE DEF free
  <2> DEFINE t == projectAlong(wall, x, y)
             m == -free
  <2>7. t \in Int
    BY <2>2, WallCoordinates
  <2>8. m \in Int
    BY <2>6
  <2> HIDE DEF t, m
  <2>9. clamp(t, m, free) \in Int
    BY <2>6, <2>7, <2>8, Clamped
  <2>10. s \in Int
    BY <2>9 DEF t, m
  <2> HIDE DEF s
  <2>11. p[1] \in Int /\ p[2] \in Int
    BY <2>2, <2>10, WallCoordinates
  <2> HIDE DEF p
  <2>12. a \in Int /\ b \in Int
    BY <2>1, <2>4, <2>11
  <2> HIDE DEF a, b
  <2> DEFINE q == [o EXCEPT !.x = a, !.y = b, !.height = wall.thickness, !.rotation = wall.angle]
  <2>13. q = [o EXCEPT !.x = a, !.y = b, !.width = o.width, !.height = wall.thickness,
                       !.rotation = wall.angle]
    BY DEF Whole, HasFields, ObjectFields, ShapeFields
  <2> DEFINE w == o.width
             h == wall.thickness
             d == wall.angle
  <2>14. w \in Int /\ h \in Int /\ q = [o EXCEPT !.x = a, !.y = b, !.width = w, !.height = h, !.rotation = d]
    BY <2>1, <2>3, <2>13
  <2> HIDE DEF q, w, h, d
  <2>15. ReshapedTo(o, q)
    BY <2>12, <2>14 DEF ReshapedTo
  <2> QED BY <1>1, <1>2, <2>15 DEF q
<1> QED BY <1>1, <1>2

\* The ends of some stretches and a number.
LEMMA EndOfStretches ==
    ASSUME NEW T, Spans(T), NEW A \in SUBSET T, NEW a \in Int
    PROVE  /\ Max({a} \cup {iv[2] : iv \in A}) \in Int
           /\ Min({a} \cup {iv[1] : iv \in A}) \in Int
<1> DEFINE f == [iv \in A |-> iv[2]]
           g == [iv \in A |-> iv[1]]
<1>1. IsFiniteSet(A) /\ f \in [A -> Int] /\ g \in [A -> Int]
  BY FS_Subset DEF Spans
<1>2. {iv[2] : iv \in A} = {f[iv] : iv \in A} /\ {iv[1] : iv \in A} = {g[iv] : iv \in A}
  OBVIOUS
<1> HIDE DEF f, g
<1>3. Max({a} \cup {f[iv] : iv \in A}) \in Int /\ Min({a} \cup {g[iv] : iv \in A}) \in Int
  BY <1>1, EndOfNumbers
<1> QED BY <1>2, <1>3

\* A door or window that is stretched is reshaped.
LEMMA ResizedPlace ==
    ASSUME NEW o, Whole(o), OnPlane(o), NEW wall, HostOnPixels(wall), NEW x \in Int, NEW y \in Int,
           NEW proposed \in Int, NEW objs, Plane(objs)
    PROVE  ReshapedTo(o, resizeOpeningOnWall(o, wall, x, y, proposed, objs))
<1> DEFINE anchor == projectAlong(wall, CenterX(o), CenterY(o))
           taken == openingsOnWall(wall, objs, o.id)
           before == {i \in taken : i[2] <= anchor}
           after == {i \in taken : i[2] > anchor /\ i[1] >= anchor}
           half == wall.length \div 2
           back == -half
           segLo == Max({back} \cup {iv[2] : iv \in before})
           segHi == Min({half} \cup {iv[1] : iv \in after})
           along == projectAlong(wall, x, y)
           want == proposed \div 2
           from == along - want
           to == along + want
           lo == Max({segLo, from})
           hi == Min({segHi, to})
           len == IF hi - lo < MIN_OBJECT_SIZE
                  THEN Min({MIN_OBJECT_SIZE, segHi - segLo}) ELSE hi - lo
           mid == IF hi - lo < MIN_OBJECT_SIZE
                  THEN Max({segLo + len \div 2, Min({segHi - len \div 2, (lo + hi) \div 2})})
                  ELSE (lo + hi) \div 2
           p == pointOnWall(wall, mid)
           a == p[1] - len \div 2
           b == p[2] - wall.thickness \div 2
<1>1. resizeOpeningOnWall(o, wall, x, y, proposed, objs)
        = [o EXCEPT !.x = a, !.y = b, !.width = len, !.height = wall.thickness, !.rotation = wall.angle]
  BY DEF resizeOpeningOnWall
<1>2. CenterX(o) \in Int /\ CenterY(o) \in Int
  BY Centre
<1>3. anchor \in Int /\ along \in Int
  BY <1>2, WallCoordinates
<1>4. Spans(taken)
  BY TakenSpans
<1>5. wall.length \in Int /\ wall.thickness \in Int
  BY DEF HostOnPixels, OnPixels
<1>6. half \in Int /\ want \in Int /\ wall.thickness \div 2 \in Int
  BY <1>5, Half
<1>7. back \in Int
  <2> HIDE DEF half
  <2> QED BY <1>6
<1>8. before \in SUBSET taken /\ after \in SUBSET taken
  OBVIOUS
<1> HIDE DEF anchor, along, taken, before, after, half, want, back
<1>9. segLo \in Int /\ segHi \in Int
  BY <1>4, <1>6, <1>7, <1>8, EndOfStretches
<1> HIDE DEF segLo, segHi
<1>10. from \in Int /\ to \in Int
  BY <1>3, <1>6
<1> HIDE DEF from, to
<1>11. lo \in Int /\ hi \in Int
  BY <1>9, <1>10, TwoNumbers
<1> HIDE DEF lo, hi
<1>12. len \in Int
  <2>1. MIN_OBJECT_SIZE \in Int
    BY GeometryAssumption
  <2> DEFINE d == segHi - segLo
  <2>2. d \in Int
    BY <1>9
  <2> HIDE DEF d
  <2>3. Min({MIN_OBJECT_SIZE, d}) \in Int
    BY <2>1, <2>2, TwoNumbers
  <2> QED BY <1>11, <2>3 DEF d
<1> HIDE DEF len
<1>13. mid \in Int
  <2> DEFINE h == len \div 2
             c == (lo + hi) \div 2
             u == segHi - h
             v == segLo + h
             m == Min({u, c})
             q == Max({v, m})
  <2>1. h \in Int
    BY <1>12, Half
  <2>2. c \in Int
    BY <1>11
  <2> HIDE DEF h, c
  <2>3. u \in Int /\ v \in Int
    BY <1>9, <2>1
  <2> HIDE DEF u, v
  <2>4. m \in Int
    BY <2>2, <2>3, TwoNumbers
  <2> HIDE DEF m
  <2>5. q \in Int
    BY <2>3, <2>4, TwoNumbers
  <2>6. mid \in {q, c}
    BY DEF q, m, u, v, h, c
  <2> HIDE DEF q, mid
  <2> QED BY <2>2, <2>5, <2>6
<1> HIDE DEF mid
<1>14. p[1] \in Int /\ p[2] \in Int
  BY <1>2, <1>13, WallCoordinates
<1>15. len \div 2 \in Int
  BY <1>12, Half
<1> HIDE DEF p
<1>16. a \in Int /\ b \in Int
  BY <1>6, <1>14, <1>15
<1> HIDE DEF a, b
<1> DEFINE h == wall.thickness
           d == wall.angle
           r == resizeOpeningOnWall(o, wall, x, y, proposed, objs)
<1>17. h \in Int /\ r = [o EXCEPT !.x = a, !.y = b, !.width = len, !.height = h, !.rotation = d]
  BY <1>1, <1>5
<1> HIDE DEF h, d, r
<1>18. ReshapedTo(o, r)
  BY <1>12, <1>16, <1>17 DEF ReshapedTo
<1> QED BY <1>18 DEF r

\* A product and its share are numbers.
LEMMA Share ==
    ASSUME NEW a \in Int, NEW b \in Int, NEW c \in Int, c > 0
    PROVE  a * b \in Int /\ (a * b) \div c \in Int /\ (a > 0 /\ b > 0 => a * b > 0)
<1>1. a * b \in Int
  OBVIOUS
<1>2. a > 0 /\ b > 0 => a * b > 0
  OBVIOUS
<1> DEFINE p == a * b
<1>3. p \in Int
  BY <1>1
<1> HIDE DEF p
<1>4. p \div c \in Int
  BY <1>3
<1> QED BY <1>1, <1>2, <1>4 DEF p

\* A turned vector is one of whole pixels.
LEMMA RotatedTyped ==
    ASSUME NEW x \in Int, NEW y \in Int, NEW rotation
    PROVE  Rotated(x, y, rotation)[1] \in Int /\ Rotated(x, y, rotation)[2] \in Int
<1> DEFINE mx == -x
           my == -y
<1>1. mx \in Int /\ my \in Int
  OBVIOUS
<1>2. Rotated(x, y, rotation) \in {<<my, x>>, <<mx, my>>, <<y, mx>>, <<x, y>>}
  BY DEF Rotated
<1> HIDE DEF mx, my
<1> QED BY <1>1, <1>2

\* What a wall takes along is reshaped.
LEMMA MountedPlace ==
    ASSUME NEW o, Whole(o), OnPlane(o), NEW old, OnPlane(old), HasSize(old.width, old.height),
           NEW new, OnPlane(new)
    PROVE  ReshapedTo(o, transformOpeningWithWall(old, o, new))
<1> DEFINE dx == CenterX(o) - CenterX(old)
           dy == CenterY(o) - CenterY(old)
           local == Rotated(dx, dy, -old.rotation)
           lx == (local[1] * new.width) \div old.width
           ly == (local[2] * new.height) \div old.height
           offset == Rotated(lx, ly, new.rotation)
           w == (o.width * new.width) \div old.width
           h == (o.height * new.height) \div old.height
           a == CenterX(new) + offset[1] - w \div 2
           b == CenterY(new) + offset[2] - h \div 2
           d == o.rotation + new.rotation - old.rotation
<1>1. transformOpeningWithWall(old, o, new)
        = [o EXCEPT !.x = a, !.y = b, !.width = w, !.height = h, !.rotation = d]
  <2>1. transformOpeningWithWall(old, o, new)
          = [o EXCEPT !.x = a, !.y = b, !.width = w, !.height = h,
                      !.rotation = @ + new.rotation - old.rotation]
    BY DEF transformOpeningWithWall
  <2> HIDE DEF a, b, w, h
  <2> QED BY <2>1
<1>2. /\ CenterX(o) \in Int /\ CenterY(o) \in Int /\ CenterX(old) \in Int /\ CenterY(old) \in Int
      /\ CenterX(new) \in Int /\ CenterY(new) \in Int /\ new.width \in Int /\ new.height \in Int
      /\ o.width \in Int /\ o.height \in Int /\ old.width \in Int /\ old.height \in Int
      /\ old.width > 0 /\ old.height > 0
  BY Centre DEF HasSize
<1>3. dx \in Int /\ dy \in Int
  BY <1>2
<1> HIDE DEF dx, dy
<1>5. local[1] \in Int /\ local[2] \in Int
  BY <1>3, RotatedTyped
<1> HIDE DEF local
<1>6. lx \in Int /\ ly \in Int /\ w \in Int /\ h \in Int
  BY <1>2, <1>5, Share
<1> HIDE DEF lx, ly, w, h
<1>8. offset[1] \in Int /\ offset[2] \in Int
  BY <1>6, RotatedTyped
<1> HIDE DEF offset
<1>9. w \div 2 \in Int /\ h \div 2 \in Int
  BY <1>6, Half
<1>10. a \in Int /\ b \in Int
  BY <1>2, <1>8, <1>9
<1> HIDE DEF a, b, d
<1> QED BY <1>1, <1>6, <1>10 DEF ReshapedTo

\* What a resize of the room carries are doors and windows that are moved.
LEMMA CarriedMoves ==
    ASSUME NEW old, IsBox(old), HasSize(old.w, old.h), NEW new, IsBox(new),
           NEW objs, \A o \in ToSet(objs) : OnPlane(o)
    PROVE  \A c \in carryBoundaryOpeningsOnResize(old, new, objs) :
              \E o \in ToSet(objs) : IsOpening(o.type) /\ MovedTo(o, c)
<1> DEFINE oldWalls == getBoundaryWalls(old)
           Hosts(o) == {i \in 1 .. 4 : OnWall(oldWalls[i], CenterX(o), CenterY(o), 4)}
           Across(o, i) == projectPerp(oldWalls[i], CenterX(o), CenterY(o))
           Best(o, i) == \A j \in Hosts(o) :
                            Across(o, i) < Across(o, j) \/ (Across(o, i) = Across(o, j) /\ i <= j)
           Host(o) == CHOOSE i \in Hosts(o) : Best(o, i)
           From(o) == oldWalls[Host(o)]
           To(o) == getBoundaryWalls(new)[Host(o)]
           Scaled(o) == (projectAlong(From(o), CenterX(o), CenterY(o)) * To(o).length) \div From(o).length
           Free(o) == Max({0, (To(o).length - o.width) \div 2})
           P(o) == pointOnWall(To(o), WithinWall(Scaled(o), Free(o)))
           Carried(o) == [o EXCEPT !.x = P(o)[1] - o.width \div 2, !.y = P(o)[2] - o.height \div 2]
<1>1. carryBoundaryOpeningsOnResize(old, new, objs)
        = {Carried(o) : o \in {p \in ToSet(objs) : IsOpening(p.type) /\ Hosts(p) # {}}}
  BY DEF carryBoundaryOpeningsOnResize
<1>2. ASSUME NEW o \in ToSet(objs), Hosts(o) # {} PROVE MovedTo(o, Carried(o))
  <2>1. /\ CenterX(o) \in Int /\ CenterY(o) \in Int /\ o.width \in Int
        /\ o.width \div 2 \in Int /\ o.height \div 2 \in Int
    BY Centre
  <2>2. Host(o) \in 1 .. 4
    <3>1. \A i \in Hosts(o) : i \in 1 .. 4 /\ i \in Nat /\ Across(o, i) \in Nat
      BY <2>1, RoomHosts, WallCoordinates
    <3> DEFINE S == Hosts(o)
               f == [i \in S |-> Across(o, i)]
               g == [i \in S |-> i]
    <3>2. f \in [S -> Nat] /\ g \in [S -> Nat] /\ \A i \in S : f[i] = Across(o, i) /\ g[i] = i
      <4> HIDE DEF Across, Hosts
      <4> QED BY <3>1
    <3>3. \E i \in S : \A j \in S : f[i] < f[j] \/ (f[i] = f[j] /\ g[i] <= g[j])
      <4> HIDE DEF S, f, g
      <4> QED BY <1>2, <3>2, FirstNearest DEF S
    <3>4. \E i \in Hosts(o) : Best(o, i)
      <4> HIDE DEF f, g, Across
      <4> QED BY <3>2, <3>3
    <3>5. Host(o) \in Hosts(o)
      <4> HIDE DEF Best, Hosts
      <4> QED BY <3>4
    <3> HIDE DEF Host, Hosts
    <3> QED BY <3>1, <3>5
  <2> HIDE DEF Host
  <2>3. /\ HostOnPixels(From(o)) /\ HostOnPixels(To(o))
        /\ From(o).length \in {old.w, old.h} /\ To(o).length \in {new.w, new.h}
    BY <2>2, RoomHosts
  <2> DEFINE from == From(o)
             to == To(o)
             s == projectAlong(from, CenterX(o), CenterY(o))
             l == to.length
             m == from.length
             q == (l - o.width) \div 2
             free == Max({0, q})
             back == -free
             scaled == (s * l) \div m
             at == clamp(scaled, back, free)
             p == pointOnWall(to, at)
             a == p[1] - o.width \div 2
             b == p[2] - o.height \div 2
  <2>4. Carried(o) = [o EXCEPT !.x = a, !.y = b]
    BY DEF WithinWall
  <2> HIDE DEF From, To
  <2>5. l \in Int /\ m \in Int /\ m > 0
    BY <2>3 DEF IsBox, OnPixels, HasSize
  <2>6. s \in Int
    BY <2>1, <2>3, WallCoordinates
  <2> HIDE DEF l, m, s, from, to
  <2>7. q \in Int
    BY <2>1, <2>5
  <2> HIDE DEF q
  <2>8. free \in Int
    BY <2>7, TwoNumbers
  <2> HIDE DEF free
  <2>9. back \in Int
    BY <2>8
  <2>10. scaled \in Int
    BY <2>5, <2>6, Share
  <2> HIDE DEF back, scaled
  <2>11. at \in Int
    BY <2>8, <2>9, <2>10, Clamped
  <2> HIDE DEF at
  <2>12. p[1] \in Int /\ p[2] \in Int
    BY <2>1, <2>3, <2>11, WallCoordinates DEF to
  <2> HIDE DEF p
  <2>13. a \in Int /\ b \in Int
    BY <2>1, <2>12
  <2> HIDE DEF a, b, Carried
  <2> QED BY <2>4, <2>13 DEF MovedTo
<1> HIDE DEF Carried, Hosts
<1> QED BY <1>1, <1>2

(***************************************************************************)
(* The room, and cutouts at its walls                                      *)
(***************************************************************************)
\* A cutout that goes flush with a wall is moved.
LEMMA FlushMoves ==
    ASSUME NEW o, OnPlane(o), NEW r, IsBox(r)
    PROVE  MovedTo(o, snapCutoutToBoundary(o, r))
<1> DEFINE right == r.x + r.w
           bottom == r.y + r.h
           endX == right - o.width
           endY == bottom - o.height
           maxX == Max({r.x, endX})
           maxY == Max({r.y, endY})
           cx == clamp(o.x, r.x, maxX)
           cy == clamp(o.y, r.y, maxY)
           nx == FlushWithin(cx, o.width, r.x, right, maxX)
           ny == FlushWithin(cy, o.height, r.y, bottom, maxY)
           gaps == <<nx - r.x, right - (nx + o.width), ny - r.y, bottom - (ny + o.height)>>
           side == FirstLeast(gaps)
<1>1. snapCutoutToBoundary(o, r) =
         CASE gaps[side] <= 0 -> [o EXCEPT !.x = nx, !.y = ny]
           [] gaps[side] > 0 /\ side = 1 -> [o EXCEPT !.x = r.x, !.y = ny]
           [] gaps[side] > 0 /\ side = 2 -> [o EXCEPT !.x = maxX, !.y = ny]
           [] gaps[side] > 0 /\ side = 3 -> [o EXCEPT !.x = nx, !.y = r.y]
           [] OTHER -> [o EXCEPT !.x = nx, !.y = maxY]
  BY DEF snapCutoutToBoundary
<1> DEFINE px == r.x
           py == r.y
           gap == gaps[side]
<1>2. /\ o.x \in Int /\ o.y \in Int /\ o.width \in Int /\ o.height \in Int
      /\ r.x \in Int /\ r.y \in Int /\ r.w \in Int /\ r.h \in Int
  BY DEF IsBox, OnPlane, OnPixels
<1>3. right \in Int /\ bottom \in Int /\ endX \in Int /\ endY \in Int
  BY <1>2
<1>4. snapCutoutToBoundary(o, r) =
         CASE gap <= 0 -> [o EXCEPT !.x = nx, !.y = ny]
           [] gap > 0 /\ side = 1 -> [o EXCEPT !.x = px, !.y = ny]
           [] gap > 0 /\ side = 2 -> [o EXCEPT !.x = maxX, !.y = ny]
           [] gap > 0 /\ side = 3 -> [o EXCEPT !.x = nx, !.y = py]
           [] OTHER -> [o EXCEPT !.x = nx, !.y = maxY]
  BY <1>1
<1> HIDE DEF side, gap, right, bottom, endX, endY
<1>5. maxX \in Int /\ maxY \in Int
  BY <1>2, <1>3, TwoNumbers
<1> HIDE DEF maxX, maxY
<1>6. cx \in Int /\ cy \in Int
  <2> DEFINE u == o.x
             v == o.y
  <2>1. u \in Int /\ v \in Int /\ px \in Int /\ py \in Int
    BY <1>2
  <2> HIDE DEF u, v, px, py
  <2>2. clamp(u, px, maxX) \in Int /\ clamp(v, py, maxY) \in Int
    BY <1>5, <2>1, Clamped
  <2> QED BY <2>2 DEF u, v, px, py
<1> HIDE DEF cx, cy
<1>7. nx \in Int /\ ny \in Int
  BY <1>2, <1>5, <1>6 DEF FlushWithin
<1> HIDE DEF nx, ny
<1>8. px \in Int /\ py \in Int
  BY <1>2
<1> HIDE DEF px, py
<1>9. snapCutoutToBoundary(o, r) \in
          {[o EXCEPT !.x = nx, !.y = ny], [o EXCEPT !.x = px, !.y = ny],
           [o EXCEPT !.x = maxX, !.y = ny], [o EXCEPT !.x = nx, !.y = py],
           [o EXCEPT !.x = nx, !.y = maxY]}
  BY <1>4
<1> QED BY <1>5, <1>7, <1>8, <1>9 DEF MovedTo

\* Cutouts have a corner and a size on whole pixels.
LEMMA CutoutList ==
    ASSUME NEW objs, Plane(objs)
    PROVE  BoxList(getCutoutRects(objs)) /\ DOMAIN getCutoutRects(objs) \subseteq Nat
<1> DEFINE S == {i \in DOMAIN objs : objs[i].type = "cutout"}
<1>1. getCutoutRects(objs) = [i \in S |-> Rect(objs[i].x, objs[i].y, objs[i].width, objs[i].height)]
  BY DEF getCutoutRects
<1>2. S \in SUBSET DOMAIN objs
  OBVIOUS
<1> HIDE DEF S
<1>3. IsFiniteSet(S) /\ S \subseteq Nat
  BY <1>2, FS_Subset DEF Plane
<1>4. \A i \in S : IsBox(Rect(objs[i].x, objs[i].y, objs[i].width, objs[i].height))
  BY <1>2 DEF Plane, OnPlane, OnPixels, IsBox, Rect
<1> QED BY <1>1, <1>3, <1>4 DEF BoxList

\* A cutout that is aligned with others is moved.
LEMMA AbutMoves ==
    ASSUME NEW o, Whole(o), OnPlane(o), NEW others, BoxList(others), DOMAIN others \subseteq Nat
    PROVE  MovedTo(o, snapCutoutToNeighbors(o, others))
<1> DEFINE Edges(lo, len, own) == <<lo + len, lo - own, lo, lo + len - own>>
           xs == {<<4 * i + k, Edges(others[i].x, others[i].w, o.width)[k]>> :
                     i \in DOMAIN others, k \in 1 .. 4}
           ys == {<<4 * i + k, Edges(others[i].y, others[i].h, o.height)[k]>> :
                     i \in DOMAIN others, k \in 1 .. 4}
<1>1. snapCutoutToNeighbors(o, others)
        = [o EXCEPT !.x = Nearest(xs, o.x, CUTOUT_NEIGHBOR_SNAP),
                    !.y = Nearest(ys, o.y, CUTOUT_NEIGHBOR_SNAP)]
  BY DEF snapCutoutToNeighbors
<1>2. o.x \in Int /\ o.y \in Int /\ o.width \in Int /\ o.height \in Int
  BY DEF OnPlane, OnPixels
<1>3. \A i \in DOMAIN others : /\ i \in Nat /\ others[i].x \in Int /\ others[i].y \in Int
                               /\ others[i].w \in Int /\ others[i].h \in Int
  BY DEF BoxList, IsBox, OnPixels
<1>4. \A lo, len, own \in Int, k \in 1 .. 4 : Edges(lo, len, own)[k] \in Int
  <2> SUFFICES ASSUME NEW lo \in Int, NEW len \in Int, NEW own \in Int, NEW k \in 1 .. 4
               PROVE  Edges(lo, len, own)[k] \in Int
    OBVIOUS
  <2> DEFINE a == lo + len
             b == lo - own
             d == lo + len - own
  <2>1. a \in Int /\ b \in Int /\ d \in Int
    OBVIOUS
  <2> HIDE DEF a, b, d
  <2>2. k \in {1, 2, 3, 4}
    OBVIOUS
  <2>3. <<a, b, lo, d>>[k] \in Int
    BY <2>1, <2>2
  <2> QED BY <2>3 DEF a, b, d
<1> HIDE DEF Edges
<1>5. \A c \in xs : c[1] \in Nat /\ c[2] \in Int
  <2> DEFINE N(i, k) == 4 * i + k
             V(i, k) == Edges(others[i].x, others[i].w, o.width)[k]
  <2>1. \A i \in DOMAIN others, k \in 1 .. 4 : N(i, k) \in Nat
    BY <1>3
  <2>2. ASSUME NEW i \in DOMAIN others, NEW k \in 1 .. 4 PROVE V(i, k) \in Int
    <3> DEFINE lo == others[i].x
               len == others[i].w
               own == o.width
    <3>1. lo \in Int /\ len \in Int /\ own \in Int
      BY <1>2, <1>3
    <3> HIDE DEF lo, len, own
    <3>2. Edges(lo, len, own)[k] \in Int
      BY <1>4, <3>1
    <3> QED BY <3>2 DEF lo, len, own
  <2>3. xs = {<<N(i, k), V(i, k)>> : i \in DOMAIN others, k \in 1 .. 4}
    OBVIOUS
  <2> HIDE DEF N, V, xs
  <2>4. \A c \in xs : \E i \in DOMAIN others, k \in 1 .. 4 : c = <<N(i, k), V(i, k)>>
    BY <2>3
  <2> QED BY <2>1, <2>2, <2>4
<1>6. \A c \in ys : c[1] \in Nat /\ c[2] \in Int
  <2> DEFINE N(i, k) == 4 * i + k
             V(i, k) == Edges(others[i].y, others[i].h, o.height)[k]
  <2>1. \A i \in DOMAIN others, k \in 1 .. 4 : N(i, k) \in Nat
    BY <1>3
  <2>2. ASSUME NEW i \in DOMAIN others, NEW k \in 1 .. 4 PROVE V(i, k) \in Int
    <3> DEFINE lo == others[i].y
               len == others[i].h
               own == o.height
    <3>1. lo \in Int /\ len \in Int /\ own \in Int
      BY <1>2, <1>3
    <3> HIDE DEF lo, len, own
    <3>2. Edges(lo, len, own)[k] \in Int
      BY <1>4, <3>1
    <3> QED BY <3>2 DEF lo, len, own
  <2>3. ys = {<<N(i, k), V(i, k)>> : i \in DOMAIN others, k \in 1 .. 4}
    OBVIOUS
  <2> HIDE DEF N, V, ys
  <2>4. \A c \in ys : \E i \in DOMAIN others, k \in 1 .. 4 : c = <<N(i, k), V(i, k)>>
    BY <2>3
  <2> QED BY <2>1, <2>2, <2>4
<1> HIDE DEF xs, ys
<1> DEFINE u == o.x
           v == o.y
           nx == Nearest(xs, u, CUTOUT_NEIGHBOR_SNAP)
           ny == Nearest(ys, v, CUTOUT_NEIGHBOR_SNAP)
<1>7. u \in Int /\ v \in Int
  BY <1>2
<1>8. snapCutoutToNeighbors(o, others) = [o EXCEPT !.x = nx, !.y = ny]
  BY <1>1
<1> HIDE DEF u, v
<1>9. nx \in Int /\ ny \in Int
  BY <1>5, <1>6, <1>7, NearestNumber
<1> HIDE DEF nx, ny
<1> QED BY <1>8, <1>9 DEF MovedTo

\* The room that is drawn from any two numbers has a size.
RoomSized(b) == IsBox(b) /\ b.w >= MIN_OBJECT_SIZE /\ b.h >= MIN_OBJECT_SIZE /\ HasSize(b.w, b.h)

\* makeFloorBoundary gives such a room for any two numbers.
LEMMA FloorSized ==
    ASSUME NEW w \in Int, NEW h \in Int
    PROVE  RoomSized(makeFloorBoundary(w, h))
<1>1. /\ SETTLE_SIZE_MIN \in Int /\ SETTLE_SIZE_MAX \in Int /\ SETTLE_SIZE_MIN <= SETTLE_SIZE_MAX
      /\ MIN_OBJECT_SIZE \in Int /\ MIN_OBJECT_SIZE > 0 /\ MIN_OBJECT_SIZE <= SETTLE_SIZE_MIN
  BY EditorAssumption, GeometryAssumption
<1> DEFINE a == clamp(w, SETTLE_SIZE_MIN, SETTLE_SIZE_MAX)
           b == clamp(h, SETTLE_SIZE_MIN, SETTLE_SIZE_MAX)
<1>2. a \in Int /\ b \in Int /\ SETTLE_SIZE_MIN <= a /\ SETTLE_SIZE_MIN <= b
  BY <1>1, Clamped
<1>3. makeFloorBoundary(w, h) = Rect(48, 48, a, b)
  BY DEF makeFloorBoundary, FLOOR_BOUNDARY_INSET
<1> HIDE DEF a, b
<1>4. a >= MIN_OBJECT_SIZE /\ b >= MIN_OBJECT_SIZE /\ a > 0 /\ b > 0
  BY <1>1, <1>2
<1> QED BY <1>2, <1>3, <1>4 DEF RoomSized, IsBox, OnPixels, HasSize, Rect

\* Sizes on the grid, and sizes cut to the room's.
LEMMA GridSized ==
    ASSUME NEW o, Whole(o), OnPlane(o), NEW g \in Nat, g # 0
    PROVE  LET p == [snapSizeToGrid(o, g) EXCEPT !.x = snapToGrid(o.x, g),
                                                 !.y = snapToGrid(o.y, g)]
           IN  /\ Whole(p) /\ OnPlane(p) /\ p.id = o.id /\ p.type = o.type
               /\ HasSize(p.width, p.height)
<1> DEFINE sw == snapToGrid(o.width, g)
           sh == snapToGrid(o.height, g)
           w == Max({MIN_OBJECT_SIZE, sw})
           h == Max({MIN_OBJECT_SIZE, sh})
           x == snapToGrid(o.x, g)
           y == snapToGrid(o.y, g)
           p == [snapSizeToGrid(o, g) EXCEPT !.x = x, !.y = y]
<1>1. o.x \in Int /\ o.y \in Int /\ o.width \in Int /\ o.height \in Int
  BY DEF OnPlane, OnPixels
<1>2. sw \in Int /\ sh \in Int /\ x \in Int /\ y \in Int
  BY <1>1, GridNumber
<1>3. MIN_OBJECT_SIZE \in Int /\ MIN_OBJECT_SIZE > 0
  BY GeometryAssumption
<1> HIDE DEF sw, sh, x, y
<1>4. w \in Int /\ h \in Int /\ w > 0 /\ h > 0
  BY <1>2, <1>3, TwoNumbers
<1>5. snapSizeToGrid(o, g) = [o EXCEPT !.width = w, !.height = h]
  BY DEF snapSizeToGrid, sw, sh
<1> HIDE DEF w, h
<1>6. p = [o EXCEPT !.x = x, !.y = y, !.width = w, !.height = h, !.rotation = o.rotation]
  BY <1>5 DEF Whole, HasFields, ObjectFields, ShapeFields
<1> HIDE DEF p
<1>7. ReshapedTo(o, p)
  BY <1>2, <1>4, <1>6 DEF ReshapedTo
<1>8. p.width = w /\ p.height = h
  <2>1. DOMAIN o = {"id", "type", "x", "y", "width", "height", "rotation"}
    BY WholeDomain DEF ObjectFields, ShapeFields
  <2> QED BY <1>6, <2>1
<1>9. /\ Whole(p) /\ OnPlane(p) /\ p.id = o.id /\ p.type = o.type /\ HasSize(p.width, p.height)
  BY <1>4, <1>7, <1>8, ReshapedSame DEF HasSize
<1> QED BY <1>9 DEF p, x, y

\* An object that is cut to the room is the same one, and has a size.
LEMMA CutSized ==
    ASSUME NEW o, Whole(o), OnPlane(o), HasSize(o.width, o.height), NEW r, RoomSized(r)
    PROVE  LET p == clampObjectTransformToBoundary(o, r)
           IN  /\ Whole(p) /\ OnPlane(p) /\ p.id = o.id /\ p.type = o.type
               /\ HasSize(p.width, p.height)
<1> DEFINE w == Min({o.width, r.w})
           h == Min({o.height, r.h})
           q == [o EXCEPT !.width = w, !.height = h]
           p == clampObjectToBoundary(q, r)
<1>1. /\ o.x \in Int /\ o.y \in Int /\ o.width \in Int /\ o.height \in Int
      /\ r.w \in Int /\ r.h \in Int /\ r.w > 0 /\ r.h > 0 /\ o.width > 0 /\ o.height > 0
  BY DEF OnPlane, OnPixels, RoomSized, IsBox, HasSize
<1>2. w \in Int /\ h \in Int /\ w > 0 /\ h > 0
  BY <1>1, TwoNumbers
<1>3. clampObjectTransformToBoundary(o, r) = p
  BY DEF clampObjectTransformToBoundary
<1> HIDE DEF w, h
<1>4. q = [o EXCEPT !.x = o.x, !.y = o.y, !.width = w, !.height = h, !.rotation = o.rotation]
  BY DEF Whole, HasFields, ObjectFields, ShapeFields
<1> HIDE DEF q
<1>5. ReshapedTo(o, q)
  BY <1>1, <1>2, <1>4 DEF ReshapedTo
<1>6. q.width = w /\ q.height = h
  <2>1. DOMAIN o = {"id", "type", "x", "y", "width", "height", "rotation"}
    BY WholeDomain DEF ObjectFields, ShapeFields
  <2> QED BY <1>4, <2>1
<1>7. Whole(q) /\ OnPlane(q) /\ q.id = o.id /\ q.type = o.type
  BY <1>5, ReshapedSame
<1>8. MovedTo(q, p)
  BY <1>7, ClampMoves DEF RoomSized
<1> HIDE DEF p
<1>9. /\ Whole(p) /\ OnPlane(p) /\ p.id = o.id /\ p.type = o.type /\ HasSize(p.width, p.height)
  BY <1>2, <1>6, <1>7, <1>8, MovedSame DEF HasSize
<1> QED BY <1>3, <1>9

(***************************************************************************)
(* What the page's handlers save                                           *)
(***************************************************************************)
\* The page draws whole objects in places, in a room with a size.
PageInPlace == Plane(objects) /\ RoomSized(boundary)

\* These changes put their objects at whole pixels.
NumberMoves(moves) == \A m \in moves : \E x, y \in Int : m.patch = [x |-> x, y |-> y]

\* An object of the page is whole and in a place.
LEMMA OnPage ==
    ASSUME PageInPlace, NEW o \in ToSet(objects)
    PROVE  Whole(o) /\ OnPlane(o)
BY DEF PageInPlace, Plane, ToSet

\* A moved object is at whole pixels.
LEMMA MovedNumbers ==
    ASSUME NEW o, Whole(o), OnPlane(o), NEW p, MovedTo(o, p)
    PROVE  p.x \in Int /\ p.y \in Int
<1>1. OnPlane(p)
  BY MovedSame
<1> QED BY <1>1 DEF OnPlane, OnPixels

\* A place is one change.
LEMMA OneMove ==
    ASSUME NEW id, NEW x \in Int, NEW y \in Int
    PROVE  NumberMoves({Move(id, x, y)})
BY DEF NumberMoves, Move, Change

\* Some of these changes are such changes.
LEMMA FewerMoves ==
    ASSUME NEW moves, NumberMoves(moves), NEW guard
    PROVE  NumberMoves(Unguarded(moves, guard))
BY DEF NumberMoves, Unguarded

\* The walls the page snaps to.
LEMMA HostsHere ==
    ASSUME PageInPlace, NEW carved
    PROVE  HostsInPlace(HostWalls(carved))
<1> DEFINE c == snapCutouts(carved)
<1>1. BoxList(getCutoutRects(objects))
  BY CutoutList DEF PageInPlace
<1>2. BoxList(<<>>)
  <2>1. DOMAIN <<>> = {}
    OBVIOUS
  <2> QED BY <2>1, FS_EmptySet DEF BoxList
<1>3. BoxList(c)
  BY <1>1, <1>2 DEF snapCutouts
<1> HIDE DEF c
<1>4. HostsInPlace(getSnapWalls(objects, boundary, c))
  BY <1>3, SnapWallsHosts DEF PageInPlace, RoomSized
<1> QED BY <1>4 DEF HostWalls, c

\* Coordinates on the grid are whole.
LEMMA GridKeeps ==
    ASSUME NEW v \in Int, NEW grid \in Nat
    PROVE  OnGrid(v, grid) \in Int
BY GridNumber DEF OnGrid

\* A wall's doors and windows go as far as it does.
LEMMA MoveToNumbers ==
    ASSUME PageInPlace, NEW o, OnPlane(o), NEW x \in Int, NEW y \in Int
    PROVE  NumberMoves(MoveTo(o, x, y))
<1> SUFFICES ASSUME NEW m \in MoveTo(o, x, y)
             PROVE  \E a, b \in Int : m.patch = [x |-> a, y |-> b]
  BY DEF NumberMoves
<1>1. CASE \E id : m = Move(id, x, y)
  BY <1>1 DEF Move, Change
<1>2. CASE \E p \in ToSet(objects) : m = Move(p.id, p.x + x - o.x, p.y + y - o.y)
  <2>1. PICK p \in ToSet(objects) : m = Move(p.id, p.x + x - o.x, p.y + y - o.y)
    BY <1>2
  <2> DEFINE a == p.x + x - o.x
             b == p.y + y - o.y
  <2>2. a \in Int /\ b \in Int
    BY OnPage DEF OnPlane, OnPixels
  <2>3. m = Move(p.id, a, b)
    BY <2>1
  <2> HIDE DEF a, b
  <2> QED BY <2>2, <2>3 DEF Move, Change
<1> QED BY <1>1, <1>2 DEF MoveTo, moveWallAndOpenings, attachedOpenings

\* A resize of the room puts everything at whole pixels.
LEMMA ResizeNumbers ==
    ASSUME PageInPlace, NEW new, IsBox(new), NEW sx \in Int, NEW sy \in Int
    PROVE  NumberMoves(resizeMoves(new, <<sx, sy>>))
<1> SUFFICES ASSUME NEW m \in resizeMoves(new, <<sx, sy>>)
             PROVE  \E a, b \in Int : m.patch = [x |-> a, y |-> b]
  BY DEF NumberMoves
<1> DEFINE carried == carryBoundaryOpeningsOnResize(boundary, new, objects)
<1>1. \A o \in ToSet(objects) : Whole(o) /\ OnPlane(o)
  BY OnPage
<1>2. \A c \in carried : \E o \in ToSet(objects) : IsOpening(o.type) /\ MovedTo(o, c)
  BY <1>1, CarriedMoves DEF PageInPlace, RoomSized
<1>3. \/ \E c \in carried : m = Move(c.id, c.x, c.y)
      \/ \E o \in ToSet(objects) : m = Move(o.id, o.x + sx, o.y + sy)
  BY DEF resizeMoves
<1> HIDE DEF carried
<1>4. CASE \E c \in carried : m = Move(c.id, c.x, c.y)
  <2>1. PICK c \in carried : m = Move(c.id, c.x, c.y)
    BY <1>4
  <2>2. c.x \in Int /\ c.y \in Int
    BY <1>1, <1>2, MovedNumbers
  <2> QED BY <2>1, <2>2 DEF Move, Change
<1>5. CASE \E o \in ToSet(objects) : m = Move(o.id, o.x + sx, o.y + sy)
  <2>1. PICK o \in ToSet(objects) : m = Move(o.id, o.x + sx, o.y + sy)
    BY <1>5
  <2> DEFINE a == o.x + sx
             b == o.y + sy
  <2>2. a \in Int /\ b \in Int
    BY <1>1 DEF OnPlane, OnPixels
  <2>3. m = Move(o.id, a, b)
    BY <2>1
  <2> HIDE DEF a, b
  <2> QED BY <2>2, <2>3 DEF Move, Change
<1> QED BY <1>3, <1>4, <1>5

\* An arrow key points to whole pixels.
LEMMA KeyTargetMoves ==
    ASSUME NEW o, Whole(o), OnPlane(o), NEW dx \in Int, NEW dy \in Int, NEW step \in Int,
           NEW grid \in Nat
    PROVE  MovedTo(o, keyTarget(o, dx, dy, step, grid))
<1> DEFINE n == IF grid = 0 THEN step ELSE grid
           u == o.x
           v == o.y
           p == u + n * dx
           q == v + n * dy
           x == IF dx = 0 THEN u ELSE OnGrid(p, grid)
           y == IF dy = 0 THEN v ELSE OnGrid(q, grid)
<1>1. u \in Int /\ v \in Int /\ n \in Int
  BY DEF OnPlane, OnPixels
<1>2. keyTarget(o, dx, dy, step, grid) = [o EXCEPT !.x = x, !.y = y]
  BY DEF keyTarget, Whole, HasFields, ObjectFields, ShapeFields
<1> HIDE DEF n, u, v
<1>3. n * dx \in Int /\ n * dy \in Int
  BY <1>1
<1>4. p \in Int /\ q \in Int
  BY <1>1, <1>3
<1> HIDE DEF p, q
<1>5. x \in Int /\ y \in Int
  BY <1>1, <1>4, GridKeeps
<1> HIDE DEF x, y
<1> QED BY <1>2, <1>5 DEF MovedTo

\* Where a key leaves an object.
LEMMA KeyNumbers ==
    ASSUME PageInPlace, NEW o \in ToSet(objects), NEW raw, MovedTo(o, raw), NEW carved
    PROVE  NumberMoves(keyMoves(o, raw, carved))
<1> DEFINE at == clampObjectToBoundary(raw, boundary)
           flush == snapCutoutToBoundary(raw, boundary)
           rx == raw.x
           ry == raw.y
           slid == constrainWallObjectMove(o, rx, ry, objects, HostWalls(carved))
<1>1. Whole(o) /\ OnPlane(o) /\ Whole(raw) /\ OnPlane(raw) /\ rx \in Int /\ ry \in Int
  BY OnPage, MovedSame, MovedNumbers
<1>2. keyMoves(o, raw, carved) =
        CASE IsOpening(o.type) -> {Move(o.id, s.x, s.y) : s \in ToSet(slid)}
          [] o.type = "cutout" -> {Move(o.id, flush.x, flush.y)}
          [] OTHER -> IF overlapsBlockingObject(at, objects) THEN {}
                      ELSE MoveTo(o, at.x, at.y)
  BY DEF keyMoves
<1>3. at.x \in Int /\ at.y \in Int
  BY <1>1, ClampMoves, MovedNumbers DEF PageInPlace, RoomSized
<1>4. flush.x \in Int /\ flush.y \in Int
  BY <1>1, FlushMoves, MovedNumbers DEF PageInPlace, RoomSized
<1>5. slid = <<>> \/ \E p : MovedTo(o, p) /\ slid = <<p>>
  <2> HIDE DEF rx, ry
  <2> QED BY <1>1, HostsHere, SlidMoves DEF PageInPlace
<1> HIDE DEF at, flush, slid
<1>6. CASE IsOpening(o.type)
  <2>1. \A s \in ToSet(slid) : s.x \in Int /\ s.y \in Int
    <3>1. CASE slid = <<>>
      BY <3>1 DEF ToSet
    <3>2. CASE slid # <<>>
      <4>1. PICK p : MovedTo(o, p) /\ slid = <<p>>
        BY <1>5, <3>2
      <4>2. p.x \in Int /\ p.y \in Int
        BY <1>1, <4>1, MovedNumbers
      <4> QED BY <4>1, <4>2 DEF ToSet
    <3> QED BY <3>1, <3>2
  <2>0. o.type # "cutout"
    BY <1>6 DEF IsOpening
  <2>2. keyMoves(o, raw, carved) = {Move(o.id, s.x, s.y) : s \in ToSet(slid)}
    BY <1>2, <1>6, <2>0
  <2> QED BY <2>1, <2>2 DEF NumberMoves, Move, Change
<1>7. CASE ~IsOpening(o.type) /\ o.type = "cutout"
  <2> DEFINE a == flush.x
             b == flush.y
  <2>1. keyMoves(o, raw, carved) = {Move(o.id, a, b)}
    BY <1>2, <1>7
  <2>2. a \in Int /\ b \in Int
    BY <1>4
  <2> HIDE DEF a, b
  <2> QED BY <2>1, <2>2, OneMove
<1>8. CASE ~IsOpening(o.type) /\ o.type # "cutout"
  <2> DEFINE a == at.x
             b == at.y
  <2>1. keyMoves(o, raw, carved) = {} \/ keyMoves(o, raw, carved) = MoveTo(o, a, b)
    BY <1>2, <1>8
  <2>2. a \in Int /\ b \in Int
    BY <1>3
  <2> HIDE DEF a, b
  <2>3. NumberMoves(MoveTo(o, a, b))
    BY <1>1, <2>2, MoveToNumbers
  <2> QED BY <2>1, <2>3 DEF NumberMoves
<1> QED BY <1>6, <1>7, <1>8

\* What is pulled into the room ends at whole pixels.
LEMMA ReflowNumbers ==
    ASSUME PageInPlace, NEW new, IsBox(new)
    PROVE  NumberMoves(reflowMoves(new))
<1> SUFFICES ASSUME NEW m \in reflowMoves(new)
             PROVE  \E a, b \in Int : m.patch = [x |-> a, y |-> b]
  BY DEF NumberMoves
<1> DEFINE Inward(o) == clampObjectToBoundary(o, new)
           Pull(i) == {[k EXCEPT !.turn = i] :
                         k \in MoveTo(objects[i], Inward(objects[i]).x, Inward(objects[i]).y)}
           out == {j \in DOMAIN objects :
                     LET o == objects[j] IN /\ ~IsOpening(o.type)
                                            /\ <<Inward(o).x, Inward(o).y>> # <<o.x, o.y>>}
<1>1. reflowMoves(new) = UNION {Pull(i) : i \in out}
  BY DEF reflowMoves
<1>2. out \subseteq DOMAIN objects
  OBVIOUS
<1> HIDE DEF out
<1>3. PICK i \in out : m \in Pull(i)
  <2> HIDE DEF Pull
  <2> QED BY <1>1
<1> DEFINE x == Inward(objects[i]).x
           y == Inward(objects[i]).y
<1>4. Whole(objects[i]) /\ OnPlane(objects[i])
  BY <1>2, <1>3 DEF PageInPlace, Plane
<1>5. x \in Int /\ y \in Int
  BY <1>4, ClampMoves, MovedNumbers
<1> HIDE DEF Inward
<1>6. PICK k \in MoveTo(objects[i], x, y) : m = [k EXCEPT !.turn = i]
  BY <1>3
<1> HIDE DEF x, y
<1>7. NumberMoves(MoveTo(objects[i], x, y))
  BY <1>4, <1>5, MoveToNumbers
<1>8. \E id, a, b : k = Move(id, a, b)
  BY <1>6, MoveToMoves DEF IsMoves
<1>9. m.patch = k.patch
  BY <1>6, <1>8 DEF Move, Change
<1> QED BY <1>6, <1>7, <1>9 DEF NumberMoves

\* What is pulled on the canvas stays at whole pixels.
LEMMA PulledNumbers ==
    ASSUME PageInPlace, NEW o \in ToSet(objects), NEW x \in Int, NEW y \in Int, NEW carved
    PROVE  Pulled(o, x, y, carved).x \in Int /\ Pulled(o, x, y, carved).y \in Int
<1>1. Whole(o) /\ OnPlane(o) /\ HostsInPlace(HostWalls(carved))
  BY OnPage, HostsHere
<1>2. CASE IsOpening(o.type)
  <2> DEFINE drawn == Drawn(o, carved)
             slid == constrainWallObjectMove(drawn, x, y, objects, HostWalls(carved))
  <2>1. Whole(drawn) /\ OnPlane(drawn)
    BY <1>1, AlignedPlace, ReshapedSame DEF Drawn
  <2>2. Pulled(o, x, y, carved) = IF slid = <<>> THEN [drawn EXCEPT !.x = x, !.y = y] ELSE slid[1]
    BY <1>2 DEF Pulled, wallDragBoundFor
  <2> HIDE DEF drawn
  <2>3. slid = <<>> \/ \E p : MovedTo(drawn, p) /\ slid = <<p>>
    BY <1>1, <2>1, SlidMoves DEF PageInPlace
  <2> HIDE DEF slid
  <2>4. MovedTo(drawn, Pulled(o, x, y, carved))
    <3>1. CASE slid = <<>>
      BY <2>2, <3>1 DEF MovedTo
    <3>2. CASE slid # <<>>
      BY <2>2, <2>3, <3>2
    <3> QED BY <3>1, <3>2
  <2> QED BY <2>1, <2>4, MovedNumbers
<1>3. CASE ~IsOpening(o.type)
  <2> DEFINE p == [o EXCEPT !.x = x, !.y = y]
  <2>1. MovedTo(o, p)
    BY DEF MovedTo
  <2>2. Pulled(o, x, y, carved) = snapToNeighbors(p, objects)
    BY <1>3 DEF Pulled, handleObjectDragMove
  <2> HIDE DEF p
  <2>3. Whole(p) /\ OnPlane(p)
    BY <1>1, <2>1, MovedSame
  <2>4. MovedTo(p, snapToNeighbors(p, objects))
    BY <2>3, NeighborsMove DEF PageInPlace
  <2> QED BY <2>2, <2>3, <2>4, MovedNumbers
<1> QED BY <1>2, <1>3

\* A door or window that is let go,
LEMMA OpeningDragged ==
    ASSUME PageInPlace, NEW o \in ToSet(objects), NEW x \in Int, NEW y \in Int, NEW carved,
           dragOpening(o, x, y, carved)
    PROVE  \E moves, op : persistObjectPatch(moves, TRUE, op) /\ IsMoves(moves) /\ NumberMoves(moves)
<1> DEFINE to == constrainWallObjectMove(o, x, y, objects, HostWalls(carved))
<1>1. Whole(o) /\ OnPlane(o) /\ HostsInPlace(HostWalls(carved))
  BY OnPage, HostsHere
<1>2. to = <<>> \/ \E p : MovedTo(o, p) /\ to = <<p>>
  BY <1>1, SlidMoves DEF PageInPlace
<1>3. IF to = <<>> THEN persistObjectPatch({Move(o.id, x, y)}, TRUE, "loose")
      ELSE persistObjectPatch({Move(o.id, to[1].x, to[1].y)}, TRUE, "slide")
  BY DEF dragOpening
<1> HIDE DEF to
<1>4. CASE to = <<>>
  BY <1>3, <1>4, OneMove DEF IsMoves
<1>5. CASE to # <<>>
  <2> DEFINE a == to[1].x
             b == to[1].y
  <2>1. a \in Int /\ b \in Int
    BY <1>1, <1>2, <1>5, MovedNumbers
  <2>2. persistObjectPatch({Move(o.id, a, b)}, TRUE, "slide")
    BY <1>3, <1>5
  <2> HIDE DEF a, b
  <2> QED BY <2>1, <2>2, OneMove DEF IsMoves
<1> QED BY <1>4, <1>5

\* a cutout,
LEMMA CutoutDragged ==
    ASSUME PageInPlace, NEW o \in ToSet(objects), NEW x \in Int, NEW y \in Int,
           dragCutout(o, x, y)
    PROVE  \E moves, op : persistObjectPatch(moves, TRUE, op) /\ IsMoves(moves) /\ NumberMoves(moves)
<1> DEFINE p == [o EXCEPT !.x = x, !.y = y]
           others == getCutoutRects(Others(objects, o.id))
           flush == snapCutoutToBoundary(p, boundary)
           beside == snapCutoutToNeighbors(flush, others)
           final == snapCutoutToBoundary(beside, boundary)
<1>1. Whole(o) /\ OnPlane(o)
  BY OnPage
<1>2. Whole(p) /\ OnPlane(p)
  <2>1. MovedTo(o, p)
    BY DEF MovedTo
  <2> QED BY <1>1, <2>1, MovedSame
<1>3. persistObjectPatch({Move(o.id, final.x, final.y)}, TRUE, "drag")
  BY DEF dragCutout
<1> HIDE DEF p
<1>4. BoxList(others) /\ DOMAIN others \subseteq Nat
  <2> DEFINE objs == Others(objects, o.id)
  <2>1. Plane(objs)
    BY FewerInPlace DEF PageInPlace, Others
  <2> HIDE DEF objs
  <2>2. BoxList(getCutoutRects(objs)) /\ DOMAIN getCutoutRects(objs) \subseteq Nat
    BY <2>1, CutoutList
  <2> QED BY <2>2 DEF objs
<1> HIDE DEF others
<1>5. Whole(flush) /\ OnPlane(flush)
  BY <1>2, FlushMoves, MovedSame DEF PageInPlace, RoomSized
<1> HIDE DEF flush
<1>6. Whole(beside) /\ OnPlane(beside)
  BY <1>4, <1>5, AbutMoves, MovedSame
<1> HIDE DEF beside
<1>7. MovedTo(beside, final)
  BY <1>6, FlushMoves DEF PageInPlace, RoomSized
<1> HIDE DEF final
<1> DEFINE a == final.x
           b == final.y
<1>8. a \in Int /\ b \in Int
  BY <1>6, <1>7, MovedNumbers
<1>9. persistObjectPatch({Move(o.id, a, b)}, TRUE, "drag")
  BY <1>3
<1> HIDE DEF a, b
<1> QED BY <1>8, <1>9, OneMove DEF IsMoves

\* anything else goes to whole pixels,
LEMMA FurnitureGoes ==
    ASSUME PageInPlace, NEW o \in ToSet(objects), NEW x \in Int, NEW y \in Int,
           NEW grid \in Nat, dragFurniture(o, x, y, grid)
    PROVE  \E a, b \in Int : persistObjectPatch(MoveTo(o, a, b), TRUE, "drag")
<1> DEFINE u == OnGrid(x, grid)
           v == OnGrid(y, grid)
           p == [o EXCEPT !.x = u, !.y = v]
           q == snapToNeighbors(p, objects)
           s == clampObjectToBoundary(q, boundary)
           drop == resolveDrop(s, objects)
           o2 == drop.object
           to == clampObjectToBoundary(o2, boundary)
<1>1. Whole(o) /\ OnPlane(o)
  BY OnPage
<1>2. u \in Int /\ v \in Int
  BY GridKeeps
<1>3. persistObjectPatch(MoveTo(o, to.x, to.y), TRUE, "drag")
  BY DEF dragFurniture, Dropped
<1> HIDE DEF u, v
<1>4. Whole(p) /\ OnPlane(p)
  <2>1. MovedTo(o, p)
    BY <1>2 DEF MovedTo
  <2> QED BY <1>1, <2>1, MovedSame
<1> HIDE DEF p
<1>5. Whole(q) /\ OnPlane(q)
  BY <1>4, NeighborsMove, MovedSame DEF PageInPlace
<1> HIDE DEF q
<1>6. Whole(s) /\ OnPlane(s)
  BY <1>5, ClampMoves, MovedSame DEF PageInPlace, RoomSized
<1> HIDE DEF s
<1>7. MovedTo(s, o2)
  BY <1>6, DropMoves DEF PageInPlace
<1> HIDE DEF o2
<1>8. Whole(o2) /\ OnPlane(o2)
  BY <1>6, <1>7, MovedSame
<1>9. MovedTo(o2, to)
  BY <1>8, ClampMoves DEF PageInPlace, RoomSized
<1> HIDE DEF to
<1> DEFINE a == to.x
           b == to.y
<1>10. a \in Int /\ b \in Int
  BY <1>8, <1>9, MovedNumbers
<1>11. persistObjectPatch(MoveTo(o, a, b), TRUE, "drag")
  BY <1>3
<1> HIDE DEF a, b
<1> QED BY <1>10, <1>11

\* and so does what it takes along.
LEMMA FurnitureDragged ==
    ASSUME PageInPlace, NEW o \in ToSet(objects), NEW x \in Int, NEW y \in Int,
           NEW grid \in Nat, dragFurniture(o, x, y, grid)
    PROVE  \E moves, op : persistObjectPatch(moves, TRUE, op) /\ IsMoves(moves) /\ NumberMoves(moves)
<1>1. PICK a \in Int, b \in Int : persistObjectPatch(MoveTo(o, a, b), TRUE, "drag")
  BY FurnitureGoes
<1>2. Whole(o) /\ OnPlane(o)
  BY OnPage
<1> QED BY <1>1, <1>2, MoveToNumbers, MoveToMoves

(***************************************************************************)
(* What the handles make of an object, and new objects                     *)
(***************************************************************************)
\* An object in its place that has a size, or is a door or window.
Good(o) == Whole(o) /\ OnPlane(o) /\ (IsOpening(o.type) \/ HasSize(o.width, o.height))

\* A box of the transformer, as InputsAssumption gives them.
BoxInput(b) == /\ HasFields(b, ShapeFields) /\ HasSize(b.width, b.height)
               /\ OnPixels({b.x, b.y, b.width, b.height})

\* t is the object o with another geometry.
Remade(o, t) == Good(t) /\ t.id = o.id /\ t.type = o.type

\* A moved object is as good as it was.
LEMMA MovedGood ==
    ASSUME NEW o, Good(o), NEW p, MovedTo(o, p)
    PROVE  Remade(o, p)
BY MovedSame DEF Good, Remade

\* An object as the handles leave it.
LEMMA RawGood ==
    ASSUME NEW o, Good(o), NEW box, BoxInput(box)
    PROVE  Remade(o, With(o, Handled(o, box)))
<1> DEFINE h == Handled(o, box)
           raw == With(o, h)
<1>1. DOMAIN o = ObjectFields /\ DOMAIN box = ShapeFields
  BY WholeDomain DEF Good, BoxInput, HasFields
<1>2. /\ o.x \in Int /\ o.y \in Int /\ o.width \in Int /\ o.height \in Int
      /\ box.x \in Int /\ box.y \in Int /\ box.width \in Int /\ box.height \in Int
  BY DEF Good, OnPlane, OnPixels, BoxInput
<1>3. /\ DOMAIN h = ShapeFields /\ h.x = box.x /\ h.y = box.y /\ h.width = box.width
      /\ IsOpening(o.type) => h.height = o.height
      /\ ~IsOpening(o.type) => h.height = box.height
  BY <1>1 DEF Handled, ShapeFields
<1> HIDE DEF h
<1>4. Whole(raw) /\ raw.id = o.id
  BY <1>3, PatchKeeps DEF Good
<1>5. raw.type = o.type /\ \A f \in ShapeFields : raw[f] = h[f]
  BY <1>1, <1>3 DEF With, ObjectFields, ShapeFields
<1> HIDE DEF raw
<1>6. raw.x = h.x /\ raw.y = h.y /\ raw.width = h.width /\ raw.height = h.height
  BY <1>5 DEF ShapeFields
<1>7. OnPlane(raw)
  BY <1>2, <1>3, <1>6 DEF OnPlane, OnPixels
<1>8. IsOpening(o.type) \/ HasSize(raw.width, raw.height)
  BY <1>3, <1>6 DEF HasSize, BoxInput
<1>9. Remade(o, raw)
  BY <1>4, <1>5, <1>7, <1>8 DEF Remade, Good
<1> QED BY <1>9 DEF raw, h

\* A reshaped door or window is as good as it was.
LEMMA ReshapedGood ==
    ASSUME NEW o, Good(o), IsOpening(o.type), NEW p, ReshapedTo(o, p)
    PROVE  Remade(o, p)
<1>1. Whole(p) /\ OnPlane(p) /\ p.id = o.id /\ p.type = o.type
  BY ReshapedSame DEF Good
<1> QED BY <1>1 DEF Good, Remade

\* What the handles make of a wall, or of furniture.
LEMMA FurnitureRemade ==
    ASSUME PageInPlace, NEW o, ~IsOpening(o.type), NEW raw, Remade(o, raw), NEW grid \in Nat,
           NEW sized,
           sized = IF grid = 0 THEN raw
                   ELSE [snapSizeToGrid(raw, grid) EXCEPT !.x = snapToGrid(raw.x, grid),
                                                          !.y = snapToGrid(raw.y, grid)]
    PROVE  Remade(o, clampObjectTransformToBoundary(sized, boundary))
<1> DEFINE gridded == [snapSizeToGrid(raw, grid) EXCEPT !.x = snapToGrid(raw.x, grid),
                                                        !.y = snapToGrid(raw.y, grid)]
<1>1. Good(raw) /\ raw.id = o.id /\ raw.type = o.type /\ HasSize(raw.width, raw.height)
  BY DEF Remade, Good
<1>2. /\ Whole(sized) /\ OnPlane(sized) /\ sized.id = o.id /\ sized.type = o.type
      /\ HasSize(sized.width, sized.height)
  <2>1. CASE grid = 0
    BY <1>1, <2>1 DEF Good
  <2>2. CASE grid # 0
    <3>1. Whole(raw) /\ OnPlane(raw)
      BY <1>1 DEF Good
    <3>2. /\ Whole(gridded) /\ OnPlane(gridded) /\ gridded.id = raw.id /\ gridded.type = raw.type
          /\ HasSize(gridded.width, gridded.height)
      BY <2>2, <3>1, GridSized
    <3>3. sized = gridded
      BY <2>2
    <3> HIDE DEF gridded
    <3> QED BY <1>1, <3>2, <3>3
  <2> QED BY <2>1, <2>2
<1> QED BY <1>2, CutSized DEF PageInPlace, Remade, Good

\* The handles of anything but a wall change nothing else,
LEMMA TransformedAlone ==
    ASSUME PageInPlace, NEW o, Good(o), o.type # "wall",
           NEW box, BoxInput(box), NEW grid \in Nat, NEW carved
    PROVE  \A t \in transformed(o, box, grid, carved) : Remade(o, t)
<1> DEFINE raw == With(o, Handled(o, box))
           host == nearestWall(HostWalls(carved), CenterX(o), CenterY(o))
           gridded == [snapSizeToGrid(raw, grid) EXCEPT !.x = snapToGrid(raw.x, grid),
                                                        !.y = snapToGrid(raw.y, grid)]
           sized == IF grid = 0 THEN raw ELSE gridded
           wall == clampObjectTransformToBoundary(sized, boundary)
           flat == [raw EXCEPT !.rotation = 0]
           cut == clampObjectTransformToBoundary(flat, boundary)
           slid == resizeOpeningOnWall(o, host[1], CenterX(raw), CenterY(raw), raw.width, objects)
<1>1. Good(o) /\ Remade(o, raw)
  BY RawGood
<1>2. transformed(o, box, grid, carved) =
        CASE IsOpening(o.type) -> {IF host = <<>> THEN raw ELSE slid}
          [] o.type = "cutout" -> {snapCutoutToBoundary(cut, boundary)}
          [] OTHER -> {wall}
  BY DEF transformed
<1>3. CASE IsOpening(o.type)
  <2>1. o.type # "cutout"
    BY <1>3 DEF IsOpening
  <2>2. transformed(o, box, grid, carved) = {IF host = <<>> THEN raw ELSE slid}
    BY <1>2, <1>3, <2>1
  <2>3. host # <<>> => HostOnPixels(host[1])
    <3> DEFINE cx == CenterX(o)
               cy == CenterY(o)
    <3>1. cx \in Int /\ cy \in Int
      BY <1>1, Centre DEF Good
    <3>2. host = nearestWall(HostWalls(carved), cx, cy)
      OBVIOUS
    <3> HIDE DEF cx, cy, host
    <3> QED BY <3>1, <3>2, HostsHere, HostFound
  <2>4. host # <<>> => Remade(o, slid)
    <3> SUFFICES ASSUME host # <<>> PROVE Remade(o, slid)
      OBVIOUS
    <3> DEFINE wl == host[1]
               cx == CenterX(raw)
               cy == CenterY(raw)
               len == raw.width
    <3>1. HostOnPixels(wl)
      BY <2>3
    <3>2. cx \in Int /\ cy \in Int /\ len \in Int
      <4> HIDE DEF raw
      <4> QED BY <1>1, Centre DEF Remade, Good
    <3>3. slid = resizeOpeningOnWall(o, wl, cx, cy, len, objects)
      OBVIOUS
    <3> HIDE DEF wl, cx, cy, len, slid
    <3>4. ReshapedTo(o, slid)
      BY <1>1, <3>1, <3>2, <3>3, ResizedPlace DEF Good, PageInPlace
    <3> QED BY <1>1, <1>3, <3>4, ReshapedGood
  <2> HIDE DEF raw, slid, host
  <2> QED BY <1>1, <2>2, <2>4
<1>4. CASE o.type = "cutout"
  <2>1. ~IsOpening(o.type)
    BY <1>4 DEF IsOpening
  <2>2. transformed(o, box, grid, carved) = {snapCutoutToBoundary(cut, boundary)}
    BY <1>2, <1>4, <2>1
  <2> HIDE DEF raw
  <2>3. /\ Whole(flat) /\ OnPlane(flat) /\ flat.id = o.id /\ flat.type = o.type
        /\ HasSize(flat.width, flat.height)
    BY <1>1, <1>4, <2>1 DEF Remade, Good, Whole, HasFields, ObjectFields, ShapeFields, OnPlane, OnPixels
  <2> HIDE DEF flat
  <2>4. Remade(o, cut)
    BY <2>3, CutSized DEF PageInPlace, Remade, Good
  <2> HIDE DEF cut
  <2>5. MovedTo(cut, snapCutoutToBoundary(cut, boundary))
    BY <2>4, FlushMoves DEF PageInPlace, RoomSized, Remade, Good
  <2>6. Remade(o, snapCutoutToBoundary(cut, boundary))
    BY <2>4, <2>5, MovedGood DEF Remade
  <2> QED BY <2>2, <2>6
<1>5. CASE ~IsOpening(o.type) /\ o.type # "cutout"
  <2>1. transformed(o, box, grid, carved) = {wall}
    BY <1>2, <1>5
  <2> HIDE DEF raw
  <2>2. Remade(o, wall)
    BY <1>1, <1>5, FurnitureRemade
  <2> HIDE DEF wall
  <2> QED BY <2>1, <2>2
<1> QED BY <1>3, <1>4, <1>5

\* and those of a wall change what is on it.
LEMMA TransformedWall ==
    ASSUME PageInPlace, NEW o, Good(o), o.type = "wall",
           NEW box, BoxInput(box), NEW grid \in Nat, NEW carved
    PROVE  \E wall : /\ Remade(o, wall)
                     /\ transformed(o, box, grid, carved) =
                          {wall} \cup {transformOpeningWithWall(o, p, wall) :
                                         p \in attachedOpenings(o, objects)}
<1> DEFINE raw == With(o, Handled(o, box))
           gridded == [snapSizeToGrid(raw, grid) EXCEPT !.x = snapToGrid(raw.x, grid),
                                                        !.y = snapToGrid(raw.y, grid)]
           sized == IF grid = 0 THEN raw ELSE gridded
           wall == clampObjectTransformToBoundary(sized, boundary)
<1>1. ~IsOpening(o.type) /\ o.type # "cutout"
  BY DEF IsOpening
<1>2. transformed(o, box, grid, carved) =
        {wall} \cup {transformOpeningWithWall(o, p, wall) : p \in attachedOpenings(o, objects)}
  BY <1>1 DEF transformed
<1>3. Remade(o, raw)
  BY RawGood
<1> HIDE DEF raw
<1>4. Remade(o, wall)
  BY <1>1, <1>3, FurnitureRemade
<1> HIDE DEF wall
<1> QED BY <1>2, <1>4

\* Whatever its type, what a transformer makes of an object has a size.
LEMMA TransformedGood ==
    ASSUME PageInPlace, \A o \in ToSet(objects) : Good(o),
           NEW o \in ToSet(objects), NEW box, BoxInput(box), NEW grid \in Nat, NEW carved
    PROVE  \A t \in transformed(o, box, grid, carved) : \E p \in ToSet(objects) : Remade(p, t)
<1>1. CASE o.type # "wall"
  BY <1>1, TransformedAlone
<1>2. CASE o.type = "wall"
  <2>1. PICK wall : /\ Remade(o, wall)
                    /\ transformed(o, box, grid, carved) =
                         {wall} \cup {transformOpeningWithWall(o, p, wall) :
                                        p \in attachedOpenings(o, objects)}
    BY <1>2, TransformedWall
  <2>2. \A p \in attachedOpenings(o, objects) :
           p \in ToSet(objects) /\ Remade(p, transformOpeningWithWall(o, p, wall))
    <3> SUFFICES ASSUME NEW p \in attachedOpenings(o, objects)
                 PROVE  p \in ToSet(objects) /\ Remade(p, transformOpeningWithWall(o, p, wall))
      OBVIOUS
    <3>1. p \in ToSet(objects) /\ IsOpening(p.type)
      BY DEF attachedOpenings
    <3>2. Good(p)
      BY <3>1
    <3>3. ~IsOpening(o.type)
      BY <1>2 DEF IsOpening
    <3>4. ReshapedTo(p, transformOpeningWithWall(o, p, wall))
      BY <2>1, <3>2, <3>3, MountedPlace DEF Remade, Good
    <3> QED BY <3>1, <3>2, <3>4, ReshapedGood
  <2> QED BY <2>1, <2>2
<1> QED BY <1>1, <1>2

\* A size to add: of numbers, and positive.
SizeInput(s) == OnPixels({s.width, s.height}) /\ HasSize(s.width, s.height)

\* What is added near the middle is good.
LEMMA AddedGood ==
    ASSUME PageInPlace, Len(objects) \in Nat, NEW size, SizeInput(size), handleQuickAdd(size)
    PROVE  \E o : Good(o) /\ Send({Request("create", "add", PlanObject, o, Nothing)})
<1> DEFINE cascade == (Len(objects) % 6) * 16
           x == boundary.x + boundary.w \div 2 - size.width \div 2 + cascade
           y == boundary.y + boundary.h \div 2 - size.height \div 2 + cascade
           w == size.width
           h == size.height
           o == [id |-> PlanObject, type |-> size.type, rotation |-> 0,
                 width |-> w, height |-> h, x |-> x, y |-> y]
           p == clampObjectToBoundary(o, boundary)
<1>1. cascade \in Int
  OBVIOUS
<1> HIDE DEF cascade
<1>2. x \in Int /\ y \in Int /\ w \in Int /\ h \in Int /\ HasSize(w, h)
  <2>1. w \in Int /\ h \in Int /\ HasSize(w, h)
    BY DEF OnPixels, SizeInput
  <2>2. boundary.x \in Int /\ boundary.y \in Int /\ boundary.w \in Int /\ boundary.h \in Int
    BY DEF PageInPlace, RoomSized, IsBox, OnPixels
  <2>3. /\ boundary.w \div 2 \in Int /\ boundary.h \div 2 \in Int
        /\ size.width \div 2 \in Int /\ size.height \div 2 \in Int
    BY <2>1, <2>2, Half
  <2>4. x \in Int /\ y \in Int
    <3> SUFFICES ASSUME NEW a \in Int, NEW b \in Int, NEW c \in Int PROVE a + b - c + cascade \in Int
      BY <2>2, <2>3
    <3> QED BY <1>1
  <2> QED BY <2>1, <2>4
<1>3. Send({Request("create", "add", PlanObject, p, Nothing)})
  BY DEF handleQuickAdd, cascade
<1> HIDE DEF x, y, w, h
<1>4. Good(o)
  BY <1>2 DEF Good, Whole, HasFields, ObjectFields, ShapeFields, OnPlane, OnPixels
<1> HIDE DEF o
<1>5. MovedTo(o, p)
  BY <1>4, ClampMoves DEF Good, PageInPlace, RoomSized
<1>6. Good(p)
  BY <1>4, <1>5, MovedGood DEF Remade
<1> QED BY <1>3, <1>6

\* A door or window in its place.
GoodOpening(o) == Whole(o) /\ OnPlane(o) /\ IsOpening(o.type)

\* The mount of a door or window is as long and as thick as numbers say.
LEMMA MountNumbers ==
    ASSUME NEW size, OnPixels({size.width, size.height})
    PROVE  getMountDimensions(size).length \in Int /\ getMountDimensions(size).thickness \in Int
<1> DEFINE a == size.width
           b == size.height
<1>1. a \in Int /\ b \in Int
  BY DEF OnPixels
<1>2. getMountDimensions(size) = [length |-> Max({a, b}), thickness |-> Min({a, b})]
  BY DEF getMountDimensions
<1> HIDE DEF a, b
<1>3. Max({a, b}) \in Int /\ Min({a, b}) \in Int
  BY <1>1, TwoNumbers
<1> QED BY <1>2, <1>3

\* What the pointer shows of a door or window.
LEMMA GhostGood ==
    ASSUME PageInPlace, NEW size, OnPixels({size.width, size.height}), IsOpening(size.type),
           NEW at, at[1] \in Int, at[2] \in Int, NEW carved
    PROVE  \A o \in ToSet(computeGhost(size, at, carved)) : GoodOpening(o)
<1> DEFINE w == getMountDimensions(size).length
           h == getMountDimensions(size).thickness
           mount == [id |-> PlanObject, type |-> size.type, x |-> 0, y |-> 0, rotation |-> 0,
                     width |-> w, height |-> h]
           walls == HostWalls(carved)
           px == at[1]
           py == at[2]
           snapped == snapToWall(mount, px, py, walls)
<1>1. computeGhost(size, at, carved) \in {<<>>, snapped}
  BY DEF computeGhost
<1>2. px \in Int /\ py \in Int /\ HostsInPlace(walls) /\ w \in Int /\ h \in Int
  BY HostsHere, MountNumbers
<1> HIDE DEF w, h
<1>3. GoodOpening(mount)
  BY <1>2 DEF GoodOpening, Whole, HasFields, ObjectFields, ShapeFields, OnPlane, OnPixels
<1> HIDE DEF mount, walls, px, py
<1>4. snapped = <<>> \/ \E q : ReshapedTo(mount, q) /\ snapped = <<q>>
  BY <1>2, <1>3, SnappedPlace DEF GoodOpening
<1> HIDE DEF snapped
<1>5. \A o \in ToSet(snapped) : GoodOpening(o)
  <2>1. CASE snapped = <<>>
    BY <2>1 DEF ToSet
  <2>2. CASE snapped # <<>>
    <3>1. PICK q : ReshapedTo(mount, q) /\ snapped = <<q>>
      BY <1>4, <2>2
    <3>2. GoodOpening(q)
      BY <1>3, <3>1, ReshapedSame DEF GoodOpening
    <3> QED BY <3>1, <3>2 DEF ToSet
  <2> QED BY <2>1, <2>2
<1> QED BY <1>1, <1>5 DEF ToSet

\* A door or window that is placed.
LEMMA PlacedGood ==
    ASSUME NEW place, GoodOpening(place), NEW size, OnPixels({size.width, size.height}),
           IsOpening(size.type)
    PROVE  Good(placementToObjectFields(place, size))
<1> DEFINE b == getMountDimensions(size).length
           c == CenterX(place)
           a == c - b \div 2
           t == size.type
           p == placementToObjectFields(place, size)
<1>1. p = [place EXCEPT !.type = t, !.x = a, !.width = b]
  BY DEF placementToObjectFields
<1>2. b \in Int /\ c \in Int
  BY MountNumbers, Centre DEF GoodOpening
<1> HIDE DEF b, c
<1>3. a \in Int
  BY <1>2
<1> HIDE DEF a, p, t
<1>4. Whole(p) /\ p.x = a /\ p.width = b /\ p.type = t /\ p.y = place.y /\ p.height = place.height
  BY <1>1 DEF GoodOpening, Whole, HasFields, ObjectFields, ShapeFields
<1>5. OnPlane(p)
  BY <1>2, <1>3, <1>4 DEF GoodOpening, OnPlane, OnPixels
<1> QED BY <1>4, <1>5 DEF Good, p, t

(***************************************************************************)
(* The types of everything the page, its requests and the server hold      *)
(***************************************************************************)
\* What kind of object each id is: no step ever changes it.
Kinds == [id \in DOMAIN stored |-> stored[id].object.type]

\* The fields a patch or a shape sets are numbers, and a size for all but openings.
MeasuredAs(s, type) ==
    /\ \A f \in {"x", "y", "width", "height"} \cap DOMAIN s : s[f] \in Int
    /\ IsOpening(type) \/ \A f \in {"width", "height"} \cap DOMAIN s : s[f] > 0

\* An object of the kind its id is.
Typed(o, K) == o.id \in DOMAIN K /\ o.type = K[o.id] /\ Good(o)

ShapesTyped(S, K) == \A s \in S : MeasuredAs(s, K[s.id])
RunTyped(run, K) == ShapesTyped(run.before, K) /\ ShapesTyped(run.after, K)
OpTyped(c, K) == MeasuredAs(c.before, K[c.id]) /\ MeasuredAs(c.after, K[c.id])

\* What a request carries can be put on the page and into the rows.
RequestTyped(r, K) ==
    /\ r.kind = "patch" => MeasuredAs(r.body, K[r.id]) /\ MeasuredAs(r.prev, K[r.id])
    /\ r.at = "read" => Typed(r.copy.object, K)
    /\ r.kind = "create" => Good(r.body)
    /\ IsNew(r) => Typed(r.copy, K)
    /\ r.kind = "floor" => RoomSized(r.body)
    /\ r.kind = "tidy" => \A c \in r.body.plan : OpTyped(c, K)
    /\ r.kind = "undo" => RunTyped(r.body, K)
    /\ IsRun(r) /\ r.at = "done" => \A o \in r.copy.rows : Typed(o, K)
    /\ r.kind = "tidy" /\ r.at = "done" => RunTyped(r.copy.run, K)

SeqTyped(seq, K) == \A o \in ToSet(seq) : Typed(o, K)
RoomsTyped == RoomSized(boundary) /\ RoomSized(room) /\ \A b \in timer : RoomSized(b)
StoreTyped == \A id \in DOMAIN stored : Good(stored[id].object)
RunsTyped(K) == \A run \in runs \cup runId : RunTyped(run, K)
RequestsTyped(K) == \A r \in requests : RequestTyped(r, K)
PlacesTyped == /\ \A size \in placing : OnPixels({size.width, size.height}) /\ IsOpening(size.type)
               /\ \A o \in ToSet(ghost) : GoodOpening(o)

RectTyped(r) == OnPixels({r.x, r.y, r.w, r.h}) /\ (IsOpening(r.type) \/ HasSize(r.w, r.h))
RectsTyped == \A i \in DOMAIN rects : RectTyped(rects[i])

Typing == /\ RoomsTyped
          /\ StoreTyped
          /\ SeqTyped(objects, Kinds) /\ SeqTyped(layout, Kinds)
          /\ RunsTyped(Kinds)
          /\ RequestsTyped(Kinds)
          /\ PlacesTyped
          /\ RectsTyped

\* The invariant says what TypeOK does, and more.
LEMMA TypingShows ==
    ASSUME Typing
    PROVE  TypeOK
<1>1. \A b \in {boundary, room} : OnPixels({b.x, b.y, b.w, b.h}) /\ HasSize(b.w, b.h)
  BY DEF Typing, RoomsTyped, RoomSized, IsBox
<1>2. \A o \in ToSet(objects) \cup ToSet(layout) :
         OnPixels({o.x, o.y, o.width, o.height}) /\ (IsOpening(o.type) \/ HasSize(o.width, o.height))
  BY DEF Typing, SeqTyped, Typed, Good, OnPlane
<1>3. \A r \in ToSet(rects) : OnPixels({r.x, r.y, r.w, r.h}) /\ (IsOpening(r.type) \/ HasSize(r.w, r.h))
  BY DEF Typing, RectsTyped, RectTyped, ToSet
<1> QED BY <1>1, <1>2, <1>3 DEF TypeOK

\* The page's objects are in places.
LEMMA PageHere ==
    ASSUME Wholes, Typing
    PROVE  /\ PageInPlace /\ Len(objects) \in Nat
           /\ \A o \in ToSet(objects) : Good(o) /\ o.id \in DOMAIN stored /\ Kinds[o.id] = o.type
<1>1. Len(objects) \in Nat /\ DOMAIN objects = 1 .. Len(objects)
  BY PageObjects
<1>2. DOMAIN objects \subseteq Nat /\ IsFiniteSet(DOMAIN objects)
  BY <1>1, FS_Interval
<1>3. \A o \in ToSet(objects) : Typed(o, Kinds)
  BY DEF Typing, SeqTyped
<1>4. \A o \in ToSet(objects) : Good(o) /\ o.id \in DOMAIN stored /\ Kinds[o.id] = o.type
  BY <1>3 DEF Typed, Kinds
<1>5. Plane(objects)
  <2>1. \A i \in DOMAIN objects : objects[i] \in ToSet(objects)
    BY DEF ToSet
  <2> QED BY <1>2, <1>4, <2>1 DEF Plane, Good
<1> QED BY <1>1, <1>4, <1>5 DEF PageInPlace, Typing, RoomsTyped

\* Typed fields make a typed object of a typed one.
LEMMA WithTyped ==
    ASSUME NEW K, NEW o, Typed(o, K), NEW s, DOMAIN s \subseteq {"id"} \cup ShapeFields,
           "id" \in DOMAIN s => s.id = o.id, MeasuredAs(s, o.type)
    PROVE  Typed(With(o, s), K)
<1> DEFINE p == With(o, s)
<1>1. DOMAIN o = ObjectFields
  BY WholeDomain DEF Typed, Good
<1>2. \A f \in ObjectFields : p[f] = IF f \in DOMAIN s THEN s[f] ELSE o[f]
  BY <1>1 DEF With, ObjectFields
<1>3. Whole(p)
  BY <1>1 DEF With, ObjectFields, Whole, HasFields
<1>4. p.id = o.id /\ p.type = o.type
  BY <1>2 DEF ObjectFields, ShapeFields
<1>5. /\ p.x = IF "x" \in DOMAIN s THEN s.x ELSE o.x
      /\ p.y = IF "y" \in DOMAIN s THEN s.y ELSE o.y
      /\ p.width = IF "width" \in DOMAIN s THEN s.width ELSE o.width
      /\ p.height = IF "height" \in DOMAIN s THEN s.height ELSE o.height
  BY <1>2 DEF ObjectFields, ShapeFields
<1> HIDE DEF p
<1>6. OnPlane(p)
  BY <1>5 DEF Typed, Good, OnPlane, OnPixels, MeasuredAs
<1>7. IsOpening(o.type) \/ HasSize(p.width, p.height)
  BY <1>5 DEF Typed, Good, HasSize, MeasuredAs
<1> QED BY <1>3, <1>4, <1>6, <1>7 DEF Typed, Good, p

\* The same fields of a good object are typed.
LEMMA FieldsTyped ==
    ASSUME NEW o, Good(o), NEW s, \A f \in DOMAIN s \cap {"x", "y", "width", "height"} : s[f] = o[f]
    PROVE  MeasuredAs(s, o.type)
BY DEF Good, OnPlane, OnPixels, HasSize, MeasuredAs

\* Two numbers for a place are typed, for every kind of object.
LEMMA PlaceTyped ==
    ASSUME NEW s, \E x, y \in Int : s = [x |-> x, y |-> y], NEW type
    PROVE  MeasuredAs(s, type)
BY DEF MeasuredAs

(***************************************************************************)
(* Steps that change the page, the requests or a run                       *)
(***************************************************************************)
\* The kinds are those of the rows.
LEMMA SameKinds ==
    ASSUME stored' = stored
    PROVE  Kinds' = Kinds /\ (StoreTyped => StoreTyped')
BY DEF Kinds, StoreTyped

\* A step that leaves the rows and runs alone keeps what it does not touch.
LEMMA TypingKept ==
    ASSUME Typing, UNCHANGED <<stored, runs>>, runId' \subseteq runId,
           SeqTyped(objects', Kinds), SeqTyped(layout', Kinds),
           \A r \in requests' : RequestTyped(r, Kinds),
           RoomsTyped', PlacesTyped', RectsTyped'
    PROVE  Typing'
<1>1. Kinds' = Kinds /\ StoreTyped'
  BY SameKinds DEF Typing
<1>2. SeqTyped(objects, Kinds)' /\ SeqTyped(layout, Kinds)'
  BY <1>1 DEF SeqTyped
<1>3. RunsTyped(Kinds)'
  BY <1>1 DEF Typing, RunsTyped
<1>4. RequestsTyped(Kinds)'
  BY <1>1 DEF RequestsTyped
<1> QED BY <1>1, <1>2, <1>3, <1>4 DEF Typing

\* A save is typed, and what it takes back is.
LEMMA SaveTyped ==
    ASSUME Wholes, Typing, NEW m, m.id \in IdsOf(objects), MeasuredAs(m.patch, Kinds[m.id]), NEW op
    PROVE  RequestTyped(SaveOf(m, op), Kinds)
<1> DEFINE r == SaveOf(m, op)
           o == ObjectOf(m.id)
           p == Before(m.id, m.patch)
<1>1. /\ r.kind = "patch" /\ r.id = m.id /\ r.at = "sent" /\ r.body = m.patch /\ r.prev = p
  BY SaveFields
<1>2. o \in ToSet(objects) /\ o.id = m.id
  BY PageObject
<1>3. Good(o) /\ Kinds[m.id] = o.type
  BY <1>2, PageHere
<1>4. p = [f \in DOMAIN m.patch |-> o[f]]
  BY DEF Before
<1> HIDE DEF r, o, p
<1>5. MeasuredAs(p, o.type)
  BY <1>3, <1>4, FieldsTyped
<1>6. RequestTyped(r, Kinds)
  BY <1>1, <1>3, <1>5 DEF RequestTyped, IsNew, IsRun
<1> QED BY <1>6 DEF r

\* The objects after typed changes, and the saves of them.
LEMMA SavesTyped ==
    ASSUME Wholes, Typing, NEW go, NEW op, NEW gone,
           \A m \in go : /\ MoveWhole(m, Len(objects)) /\ m.id \in IdsOf(objects)
                         /\ MeasuredAs(m.patch, Kinds[m.id]),
           requests' = (requests \ gone) \cup {SaveOf(m, op) : m \in go}
    PROVE  SeqTyped(Patched(objects, go), Kinds) /\ \A r \in requests' : RequestTyped(r, Kinds)
<1>1. \A r \in requests' : RequestTyped(r, Kinds)
  BY SaveTyped DEF Typing, RequestsTyped
<1>2. SeqTyped(Patched(objects, go), Kinds)
  <2> DEFINE new == Patched(objects, go)
  <2>1. DOMAIN new = DOMAIN objects
    BY DEF Patched
  <2>2. \A i \in DOMAIN objects : Typed(new[i], Kinds)
    <3> SUFFICES ASSUME NEW i \in DOMAIN objects PROVE Typed(new[i], Kinds)
      OBVIOUS
    <3>1. Typed(objects[i], Kinds)
      BY DEF Typing, SeqTyped, ToSet
    <3>2. \/ new[i] = objects[i]
          \/ \E m \in go : m.id = objects[i].id /\ new[i] = With(objects[i], m.patch)
      BY PageHere, PatchedPlace
    <3> HIDE DEF new
    <3>3. ASSUME NEW m \in go, m.id = objects[i].id, new[i] = With(objects[i], m.patch)
          PROVE  Typed(new[i], Kinds)
      <4>1. DOMAIN m.patch \subseteq ShapeFields /\ "id" \notin DOMAIN m.patch
        BY FieldsDiffer DEF MoveWhole
      <4>2. MeasuredAs(m.patch, objects[i].type)
        BY <3>1, <3>3 DEF Typed
      <4> QED BY <3>1, <3>3, <4>1, <4>2, WithTyped
    <3> QED BY <3>1, <3>2, <3>3
  <2> HIDE DEF new
  <2>3. SeqTyped(new, Kinds)
    BY <2>1, <2>2 DEF SeqTyped, ToSet
  <2> QED BY <2>3 DEF new
<1> QED BY <1>1, <1>2

\* Saves beside nothing but a change of the room.
LEMMA PersistTyped ==
    ASSUME Wholes, Typing, NEW moves, NEW guard, NEW op, persistObjectPatch(moves, guard, op),
           \A m \in moves : /\ MoveWhole(m, Len(objects))
                            /\ m.id \in IdsOf(objects) => MeasuredAs(m.patch, Kinds[m.id]),
           UNCHANGED <<stored, runs, runId, layout, rects, placing, ghost>>, RoomsTyped'
    PROVE  Typing'
<1> DEFINE go == Unguarded(moves, guard)
<1>1. \A m \in go : /\ MoveWhole(m, Len(objects)) /\ m.id \in IdsOf(objects)
                    /\ MeasuredAs(m.patch, Kinds[m.id])
  BY DEF Unguarded
<1>2. objects' = Patched(objects, go) /\ requests' = (requests \ {}) \cup {SaveOf(m, op) : m \in go}
  BY DEF persistObjectPatch, Send
<1> HIDE DEF go
<1>3. SeqTyped(objects', Kinds) /\ \A r \in requests' : RequestTyped(r, Kinds)
  BY <1>1, <1>2, SavesTyped
<1>4. PlacesTyped' /\ RectsTyped' /\ SeqTyped(layout', Kinds)
  BY DEF Typing, PlacesTyped, RectsTyped
<1> QED BY <1>3, <1>4, TypingKept

\* A place is typed whatever the object.
LEMMA NumbersTyped ==
    ASSUME NEW moves, NumberMoves(moves), NEW K
    PROVE  \A m \in moves : MeasuredAs(m.patch, K[m.id])
BY PlaceTyped DEF NumberMoves

\* Places saved by a handler.
LEMMA MovesTyped ==
    ASSUME Wholes, Typing, NEW moves, NEW op, persistObjectPatch(moves, TRUE, op),
           IsMoves(moves), NumberMoves(moves),
           UNCHANGED <<stored, runs, runId, layout, rects, placing, ghost>>, RoomsTyped'
    PROVE  Typing'
<1>1. \A m \in moves : MoveWhole(m, Len(objects))
  BY PageHere, MovesAreWhole
<1>2. \A m \in moves : MeasuredAs(m.patch, Kinds[m.id])
  BY NumbersTyped
<1> QED BY <1>1, <1>2, PersistTyped

\* Requests that carry nothing, or a new object, or a room.
LEMMA SentTyped ==
    ASSUME Typing, NEW kind, NEW op, NEW id, NEW body,
           \/ kind \in {"delete", "publish", "unpublish"}
           \/ kind = "create" /\ Good(body)
           \/ kind = "floor" /\ RoomSized(body),
           NEW news, \A r \in news : r = Request(kind, op, id, body, Nothing), Send(news),
           UNCHANGED <<objects, stored, runs, layout, rects>>, runId' \subseteq runId,
           RoomsTyped', PlacesTyped'
    PROVE  Typing'
<1>1. \A r \in news : r.kind = kind /\ r.at = "sent" /\ r.body = body
  BY RequestFields
<1>2. \A r \in news : RequestTyped(r, Kinds)
  BY <1>1 DEF RequestTyped, IsNew, IsRun
<1>3. \A r \in requests' : RequestTyped(r, Kinds)
  BY <1>2 DEF Send, Typing, RequestsTyped
<1>4. RectsTyped' /\ SeqTyped(layout', Kinds) /\ SeqTyped(objects', Kinds)
  BY DEF Typing, RectsTyped
<1> QED BY <1>3, <1>4, TypingKept

\* What the user of this visit puts in.
LEMMA Inputs ==
    ASSUME Wholes
    PROVE  /\ OnPixels({visit.room.w, visit.room.h} \cup visit.keys \cup visit.sizes)
           /\ visit.grids \subseteq Nat
           /\ \A at \in visit.drops \cup visit.pointers : at[1] \in Int /\ at[2] \in Int
           /\ \A b \in visit.boxes : BoxInput(b)
           /\ \A b \in visit.rooms : b.x \in Int /\ b.y \in Int /\ b.width \in Int /\ b.height \in Int
           /\ \A s \in visit.details : /\ s.width \in Int /\ s.height \in Int
                                       /\ HasFields(s, {"width", "height", "rotation"})
           /\ \A s \in visit.adds : SizeInput(s)
<1> DEFINE v == visit
<1>1. v \in Visits
  BY DEF Wholes
<1> HIDE DEF v
<1>2. /\ OnPixels({v.room.w, v.room.h} \cup v.keys \cup v.sizes) /\ v.grids \subseteq Nat
      /\ \A at \in v.drops \cup v.pointers : OnPixels({at[1], at[2]})
      /\ \A b \in v.boxes : /\ HasFields(b, ShapeFields) /\ HasSize(b.width, b.height)
                            /\ OnPixels({b.x, b.y, b.width, b.height})
      /\ \A b \in v.rooms : OnPixels({b.x, b.y, b.width, b.height})
      /\ \A s \in v.details \cup v.adds : OnPixels({s.width, s.height})
      /\ \A s \in v.adds : HasSize(s.width, s.height)
  BY <1>1, InputsAssumption
<1>3. \A s \in v.details : HasFields(s, {"width", "height", "rotation"})
  BY <1>1, VisitsAssumption
<1> QED BY <1>2, <1>3 DEF v, OnPixels, BoxInput, SizeInput

\* A change of the room: what it carries and shifts is on whole pixels.
LEMMA ResizeTyped ==
    ASSUME Wholes, Typing, NEW w \in Int, NEW h \in Int, NEW sx \in Int, NEW sy \in Int,
           handleBoundaryResize(makeFloorBoundary(w, h), <<sx, sy>>)
    PROVE  Typing'
<1> DEFINE new == makeFloorBoundary(w, h)
           moves == resizeMoves(new, <<sx, sy>>)
<1>1. RoomSized(new)
  BY FloorSized
<1>2. /\ persistObjectPatch(moves, TRUE, "resize") /\ boundary' = new /\ timer' = {new}
      /\ UNCHANGED <<stored, runs, runId, layout, room, rects, placing, ghost>>
  BY DEF handleBoundaryResize, tidyVars, canvasVars, serverVars
<1> HIDE DEF new
<1>3. NumberMoves(moves) /\ IsMoves(moves)
  BY <1>1, PageHere, ResizeNumbers, ResizeMoves DEF RoomSized
<1>4. RoomsTyped'
  BY <1>1, <1>2 DEF Typing, RoomsTyped
<1> HIDE DEF moves
<1> QED BY <1>2, <1>3, <1>4, MovesTyped

\* Whatever is edited, numbers stay numbers and sizes stay sizes.
LEMMA EditTyped ==
    ASSUME Wholes, Typing, Edit
    PROVE  Typing'
<1>a. UNCHANGED_rest => /\ UNCHANGED <<stored, runs, runId, layout, rects, placing, ghost>>
                        /\ RoomsTyped' /\ PlacesTyped'
  BY DEF UNCHANGED_rest, UNCHANGED_besides, canvasVars, serverVars, tidyVars, Typing, RoomsTyped, PlacesTyped
<1>b. UNCHANGED_besides => UNCHANGED <<stored, runs, runId, layout, rects>> /\ RoomsTyped'
  BY DEF UNCHANGED_besides, serverVars, tidyVars, Typing, RoomsTyped
<1>c. PageInPlace /\ Len(objects) \in Nat
      /\ \A o \in ToSet(objects) : Good(o) /\ o.id \in DOMAIN stored /\ Kinds[o.id] = o.type
  BY PageHere
<1>1. CASE handleObjectDragEnd
  <2>1. PICK o \in ToSet(objects), at \in visit.drops, view \in Views :
          \E to \in {Pulled(o, at[1], at[2], view.carved)} :
             \/ dragOpening(o, to.x, to.y, view.carved)
             \/ dragCutout(o, to.x, to.y)
             \/ dragFurniture(o, to.x, to.y, view.grid)
    BY <1>1 DEF handleObjectDragEnd
  <2> DEFINE px == at[1]
             py == at[2]
             carved == view.carved
             grid == view.grid
             x == Pulled(o, px, py, carved).x
             y == Pulled(o, px, py, carved).y
  <2>2. px \in Int /\ py \in Int /\ grid \in Nat
    BY Inputs DEF Views
  <2>3. \/ dragOpening(o, x, y, carved)
        \/ dragCutout(o, x, y)
        \/ dragFurniture(o, x, y, grid)
    BY <2>1
  <2> HIDE DEF px, py, carved, grid
  <2>4. x \in Int /\ y \in Int
    BY <1>c, <2>2, PulledNumbers
  <2> HIDE DEF x, y
  <2>5. \E moves, op : persistObjectPatch(moves, TRUE, op) /\ IsMoves(moves) /\ NumberMoves(moves)
    BY <1>c, <2>2, <2>3, <2>4, OpeningDragged, CutoutDragged, FurnitureDragged
  <2>6. UNCHANGED_rest
    BY <1>1 DEF handleObjectDragEnd
  <2> QED BY <1>a, <2>5, <2>6, MovesTyped
<1>2. CASE handleCanvasKeyDown
  <2>1. PICK o \in ToSet(objects), d \in {<<-1, 0>>, <<1, 0>>, <<0, -1>>, <<0, 1>>},
             step \in visit.keys, view \in Views :
          persistObjectPatch(keyMoves(o, keyTarget(o, d[1], d[2], step, view.grid), view.carved),
                             TRUE, IF IsOpening(o.type) THEN "slide" ELSE "key")
    BY <1>2 DEF handleCanvasKeyDown
  <2> DEFINE dx == d[1]
             dy == d[2]
             carved == view.carved
             grid == view.grid
             raw == keyTarget(o, dx, dy, step, grid)
             moves == keyMoves(o, raw, carved)
  <2>2. dx \in Int /\ dy \in Int /\ grid \in Nat /\ step \in Int
    BY Inputs DEF Views, OnPixels
  <2>3. \E op : persistObjectPatch(moves, TRUE, op)
    BY <2>1
  <2> HIDE DEF dx, dy, carved, grid
  <2>4. MovedTo(o, raw)
    BY <1>c, <2>2, KeyTargetMoves DEF Good
  <2> HIDE DEF raw
  <2>5. IsMoves(moves) /\ NumberMoves(moves)
    BY <1>c, <2>4, KeyNumbers, KeyMoves
  <2> HIDE DEF moves
  <2>6. UNCHANGED_rest
    BY <1>2 DEF handleCanvasKeyDown
  <2> QED BY <1>a, <2>3, <2>5, <2>6, MovesTyped
<1>3. CASE handleObjectTransform
  <2>1. PICK o \in ToSet(objects), box \in visit.boxes, view \in Views :
          persistObjectPatch({Change(t.id, Shape(t)) :
                                t \in transformed(o, box, view.grid, view.carved)},
                             TRUE, IF Hosted(o, view.carved) THEN "slide" ELSE "transform")
    BY <1>3 DEF handleObjectTransform
  <2> DEFINE carved == view.carved
             grid == view.grid
             S == transformed(o, box, grid, carved)
             moves == {Change(t.id, Shape(t)) : t \in S}
  <2>2. grid \in Nat /\ BoxInput(box)
    BY Inputs DEF Views
  <2>3. \E op : persistObjectPatch(moves, TRUE, op)
    BY <2>1
  <2> HIDE DEF carved, grid
  <2>4. \A t \in S : \E p \in ToSet(objects) : Remade(p, t)
    BY <1>c, <2>2, TransformedGood
  <2> HIDE DEF S
  <2>5. \A t \in S : Good(t) /\ Kinds[t.id] = t.type
    BY <1>c, <2>4 DEF Remade
  <2>6. \A m \in moves : MoveWhole(m, Len(objects))
    BY <1>c DEF Change, Shape, MoveWhole
  <2>7. \A m \in moves : MeasuredAs(m.patch, Kinds[m.id])
    <3> SUFFICES ASSUME NEW t \in S PROVE MeasuredAs(Change(t.id, Shape(t)).patch, Kinds[Change(t.id, Shape(t)).id])
      OBVIOUS
    <3>1. MeasuredAs(Shape(t), t.type)
      BY <2>5, FieldsTyped DEF Shape
    <3> QED BY <2>5, <3>1 DEF Change
  <2>8. UNCHANGED_rest
    BY <1>3 DEF handleObjectTransform
  <2> HIDE DEF moves
  <2> QED BY <1>a, <2>3, <2>6, <2>7, <2>8, PersistTyped
<1>4. CASE InspectorEditor
  <2>1. PICK o \in ToSet(objects), detail \in visit.details :
          canSave(o, detail) /\ persistObjectPatch({Change(o.id, detail)}, FALSE, "details")
    BY <1>4 DEF InspectorEditor, handleObjectDetailsSave
  <2>2. /\ DOMAIN detail = {"width", "height", "rotation"} /\ detail.width \in Int /\ detail.height \in Int
        /\ detail.width > 0 /\ detail.height > 0
    BY <2>1, Inputs DEF canSave, HasFields
  <2>3. \A m \in {Change(o.id, detail)} : MoveWhole(m, Len(objects))
    BY <1>c, <2>2 DEF Change, MoveWhole, ShapeFields
  <2>4. \A m \in {Change(o.id, detail)} : MeasuredAs(m.patch, Kinds[m.id])
    BY <2>2 DEF Change, MeasuredAs
  <2>5. UNCHANGED_rest
    BY <1>4 DEF InspectorEditor
  <2> DEFINE moves == {Change(o.id, detail)}
  <2>6. /\ persistObjectPatch(moves, FALSE, "details")
        /\ \A m \in moves : MoveWhole(m, Len(objects)) /\ MeasuredAs(m.patch, Kinds[m.id])
    BY <2>1, <2>3, <2>4
  <2> HIDE DEF moves
  <2> QED BY <1>a, <2>5, <2>6, PersistTyped
<1>5. CASE handleDeleteSelected
  <2>1. PICK o \in ToSet(objects) :
          Send({Request("delete", "delete", o.id, Nothing, Nothing)})
    BY <1>5 DEF handleDeleteSelected
  <2>2. UNCHANGED_rest /\ UNCHANGED objects
    BY <1>5 DEF handleDeleteSelected
  <2> QED BY <1>a, <2>1, <2>2, SentTyped
<1>6. CASE handleLibrarySelect
  <2>1. PICK size \in visit.adds :
          IF IsOpening(size.type)
          THEN placing' = {size} /\ UNCHANGED <<requests, left, blurred>>
          ELSE placing' = {} /\ handleQuickAdd(size)
    BY <1>6 DEF handleLibrarySelect
  <2>2. UNCHANGED <<objects, ghost>> /\ UNCHANGED_besides
    BY <1>6 DEF handleLibrarySelect
  <2>3. SizeInput(size)
    BY Inputs
  <2>4. PlacesTyped'
    BY <2>1, <2>2, <2>3 DEF PlacesTyped, Typing, SizeInput
  <2>5. CASE IsOpening(size.type)
    <3>1. SeqTyped(objects', Kinds) /\ SeqTyped(layout', Kinds) /\ RectsTyped'
      BY <1>b, <2>2 DEF Typing, RectsTyped
    <3>2. \A r \in requests' : RequestTyped(r, Kinds)
      BY <2>1, <2>5 DEF Typing, RequestsTyped
    <3> QED BY <1>b, <2>2, <2>4, <3>1, <3>2, TypingKept
  <2>6. CASE ~IsOpening(size.type)
    <3>1. PICK o : Good(o) /\ Send({Request("create", "add", PlanObject, o, Nothing)})
      BY <1>c, <2>1, <2>3, <2>6, AddedGood
    <3> QED BY <1>b, <2>2, <2>4, <3>1, SentTyped
  <2> QED BY <2>5, <2>6
<1>7. CASE handlePlacementMove
  <2>1. UNCHANGED <<objects, requests, placing>> /\ UNCHANGED_besides
    BY <1>7 DEF handlePlacementMove
  <2>2. PICK size \in placing, at \in visit.pointers, carved \in visit.carved :
          ghost' = computeGhost(size, at, carved) \/ ghost' = <<>>
    BY <1>7 DEF handlePlacementMove
  <2>3. \A o \in ToSet(computeGhost(size, at, carved)) : GoodOpening(o)
    BY <1>c, Inputs, GhostGood DEF Typing, PlacesTyped
  <2>4. PlacesTyped'
    BY <2>1, <2>2, <2>3 DEF Typing, PlacesTyped, ToSet
  <2>5. SeqTyped(objects', Kinds) /\ SeqTyped(layout', Kinds) /\ RectsTyped'
    BY <1>b, <2>1 DEF Typing, RectsTyped
  <2>6. \A r \in requests' : RequestTyped(r, Kinds)
    BY <2>1 DEF Typing, RequestsTyped
  <2> QED BY <1>b, <2>1, <2>4, <2>5, <2>6, TypingKept
<1>8. CASE handlePlacementClick
  <2>1. PICK size \in placing, at \in visit.pointers, carved \in visit.carved :
          \E place \in ToSet(IF computeGhost(size, at, carved) = <<>> THEN ghost
                             ELSE computeGhost(size, at, carved)) :
             Send({Request("create", "place", PlanObject,
                           placementToObjectFields(place, size), Nothing)})
    BY <1>8 DEF handlePlacementClick
  <2>2. PICK place \in ToSet(IF computeGhost(size, at, carved) = <<>> THEN ghost
                             ELSE computeGhost(size, at, carved)) :
             Send({Request("create", "place", PlanObject,
                           placementToObjectFields(place, size), Nothing)})
    BY <2>1
  <2>3. OnPixels({size.width, size.height}) /\ IsOpening(size.type)
    BY DEF Typing, PlacesTyped
  <2>4. GoodOpening(place)
    <3>1. \A o \in ToSet(computeGhost(size, at, carved)) : GoodOpening(o)
      BY <1>c, <2>3, Inputs, GhostGood
    <3> QED BY <2>2, <3>1 DEF Typing, PlacesTyped
  <2>5. Good(placementToObjectFields(place, size))
    BY <2>3, <2>4, PlacedGood
  <2>6. UNCHANGED <<objects, placing, ghost>> /\ UNCHANGED_besides
    BY <1>8 DEF handlePlacementClick
  <2>7. PlacesTyped'
    BY <2>6 DEF Typing, PlacesTyped
  <2> QED BY <1>b, <2>2, <2>5, <2>6, <2>7, SentTyped
<1>9. CASE onRoomSizeChange
  <2> DEFINE bw == boundary.w
             bh == boundary.h
  <2>1. PICK n \in visit.sizes : \/ handleBoundaryResize(makeFloorBoundary(n, bh), <<0, 0>>)
                                 \/ handleBoundaryResize(makeFloorBoundary(bw, n), <<0, 0>>)
    BY <1>9 DEF onRoomSizeChange
  <2>2. n \in Int /\ bw \in Int /\ bh \in Int
    BY <1>c, Inputs DEF OnPixels, PageInPlace, RoomSized, IsBox
  <2> HIDE DEF bw, bh
  <2> QED BY <2>1, <2>2, ResizeTyped
<1>10. CASE handleBoundaryTransformEnd
  <2> DEFINE new(box) == makeFloorBoundary(box.width, box.height)
             sx(box) == IF box.x + box.width = boundary.x + boundary.w THEN new(box).w - boundary.w ELSE 0
             sy(box) == IF box.y + box.height = boundary.y + boundary.h THEN new(box).h - boundary.h ELSE 0
  <2>1. PICK box \in visit.rooms : handleBoundaryResize(new(box), <<sx(box), sy(box)>>)
    BY <1>10 DEF handleBoundaryTransformEnd
  <2> DEFINE w == box.width
             h == box.height
             p == sx(box)
             q == sy(box)
  <2>2. w \in Int /\ h \in Int
    BY Inputs
  <2>3. new(box) = makeFloorBoundary(w, h)
    OBVIOUS
  <2>4. new(box).w \in Int /\ new(box).h \in Int
    <3> HIDE DEF w, h
    <3>1. RoomSized(makeFloorBoundary(w, h))
      BY <2>2, FloorSized
    <3> QED BY <2>3, <3>1 DEF RoomSized, IsBox, OnPixels
  <2>5. boundary.w \in Int /\ boundary.h \in Int
    BY <1>c DEF PageInPlace, RoomSized, IsBox, OnPixels
  <2> HIDE DEF new
  <2>6. p \in Int /\ q \in Int
    BY <2>4, <2>5
  <2>7. handleBoundaryResize(makeFloorBoundary(w, h), <<p, q>>)
    BY <2>1, <2>3
  <2> HIDE DEF w, h, p, q
  <2> QED BY <2>2, <2>6, <2>7, ResizeTyped
<1> QED BY <1>1, <1>2, <1>3, <1>4, <1>5, <1>6, <1>7, <1>8, <1>9, <1>10 DEF Edit

(***************************************************************************)
(* Plans that are shown, saved, undone                                     *)
(***************************************************************************)
\* The footprint of a good object is typed.
LEMMA FootprintTyped ==
    ASSUME NEW o, Good(o)
    PROVE  RectTyped(toScreenRect(o)) /\ toScreenRect(o).type = o.type
<1> DEFINE r == toScreenRect(o)
           b == boxOf(o)
<1>1. IsBox(b) /\ (HasSize(o.width, o.height) => HasSize(b.w, b.h))
  BY FootprintIsBox DEF Good
<1>2. r.type = o.type /\ r.x = b.x /\ r.y = b.y /\ r.w = b.w /\ r.h = b.h
  BY DEF toScreenRect
<1> HIDE DEF r, b
<1>3. RectTyped(r)
  BY <1>1, <1>2 DEF RectTyped, IsBox, Good
<1> QED BY <1>2, <1>3 DEF r

\* A typed footprint is stored as a box that is typed.
LEMMA StoredTyped ==
    ASSUME NEW r, RectTyped(r)
    PROVE  MeasuredAs(Shape(toStored(r)), r.type)
<1> DEFINE x == r.x
           y == r.y
           w == r.w
           h == r.h
           b == rotatedRectExtent(x, y, w, h, r.rot)
           s == Shape(toStored(r))
           dx == (w - h) \div 2
           dy == (h - w) \div 2
<1>1. x \in Int /\ y \in Int /\ w \in Int /\ h \in Int /\ (IsOpening(r.type) \/ HasSize(w, h))
  BY DEF RectTyped, OnPixels
<1>2. toStored(r) = [id |-> r.id, type |-> r.type, x |-> b.x, y |-> b.y,
                     width |-> b.w, height |-> b.h, rotation |-> r.rot]
  BY DEF toStored
<1>3. s.x = b.x /\ s.y = b.y /\ s.width = b.w /\ s.height = b.h
  BY <1>2 DEF Shape, ShapeFields
<1>4. b = (IF IsQuarter(r.rot) THEN Rect(x + dx, y + dy, h, w) ELSE Rect(x, y, w, h))
  BY DEF rotatedRectExtent
<1> HIDE DEF x, y, w, h, b
<1>5. dx \in Int /\ dy \in Int
  BY <1>1
<1> HIDE DEF dx, dy
<1>6. /\ b.x \in Int /\ b.y \in Int /\ b.w \in Int /\ b.h \in Int
      /\ IsOpening(r.type) \/ (b.w > 0 /\ b.h > 0)
  BY <1>1, <1>4, <1>5 DEF Rect, HasSize
<1> HIDE DEF s
<1>7. MeasuredAs(s, r.type)
  BY <1>3, <1>6 DEF MeasuredAs
<1> QED BY <1>7 DEF s

\* A preview begins with footprints of good objects.
LEMMA BeginTyped ==
    ASSUME Wholes, Typing, Begin(objects, boundary)
    PROVE  SeqTyped(layout', Kinds) /\ RectsTyped' /\ RoomSized(room')
<1>1. layout' = objects /\ room' = boundary /\ rects' = ScreenRects(objects)
  BY DEF Begin
<1>2. \A i \in DOMAIN objects : Good(objects[i])
  BY PageHere DEF ToSet
<1>3. \A i \in DOMAIN rects' : RectTyped(rects'[i])
  BY <1>1, <1>2, FootprintTyped DEF ScreenRects
<1> QED BY <1>1, <1>3 DEF Typing, RectsTyped, RoomsTyped

\* The operations of a plan are typed.
LEMMA OperationsTyped ==
    ASSUME Wholes, TidyInv, Typing, phase = "planned"
    PROVE  \A c \in Operations : OpTyped(c, Kinds)
<1> SUFFICES ASSUME NEW o \in ToSet(layout), o.id \in PlanIds
             PROVE  /\ MeasuredAs(Shape(o), Kinds[o.id])
                    /\ MeasuredAs(Shape(toStored(At(rects, o.id))), Kinds[o.id])
  BY DEF Operations, OpTyped
<1>1. Typed(o, Kinds)
  BY DEF Typing, SeqTyped
<1>2. MeasuredAs(Shape(o), Kinds[o.id])
  BY <1>1, FieldsTyped DEF Typed, Shape
<1> DEFINE r == At(rects, o.id)
<1>3. r \in ToSet(rects) /\ r.id = o.id
  BY DEF PlanIds, At
<1>4. PICK k \in DOMAIN rects : r = rects[k]
  BY <1>3 DEF ToSet
<1> HIDE DEF r
<1>5. RectsKept
  BY DEF TidyInv, HasPlan
<1>6. k \in DOMAIN layout
  BY <1>5 DEF RectsKept
<1>7. SameObject(rects[k], Originals[k])
  BY <1>5, <1>6 DEF RectsKept
<1>8. Originals[k].id = layout[k].id /\ Originals[k].type = layout[k].type
  BY <1>6 DEF Originals, ScreenRects, toScreenRect
<1>9. Typed(layout[k], Kinds)
  BY <1>6 DEF Typing, SeqTyped, ToSet
<1>10. r.type = Kinds[o.id]
  BY <1>3, <1>4, <1>7, <1>8, <1>9 DEF SameObject, Typed
<1>11. RectTyped(r)
  BY <1>4 DEF Typing, RectsTyped
<1>12. MeasuredAs(Shape(toStored(r)), Kinds[o.id])
  BY <1>10, <1>11, StoredTyped
<1> QED BY <1>2, <1>12 DEF r

\* A step of the wizard may open a preview.
LEMMA ShownTyped ==
    ASSUME Wholes, Typing, NEW mode, NEW step, Shown(mode, step), UNCHANGED_step
    PROVE  Typing'
<1>1. UNCHANGED <<objects, stored, runs, requests, runId, placing, ghost, boundary, timer>>
  BY DEF UNCHANGED_step, canvasVars, serverVars
<1>2. /\ SeqTyped(objects', Kinds) /\ PlacesTyped'
      /\ \A r \in requests' : RequestTyped(r, Kinds)
  BY <1>1 DEF Typing, RequestsTyped, PlacesTyped
<1>3. SeqTyped(layout', Kinds) /\ RectsTyped' /\ RoomSized(room')
  <2>1. CASE Begin(objects, boundary)
    BY <2>1, BeginTyped
  <2>2. CASE UNCHANGED tidyVars
    BY <2>2 DEF tidyVars, Typing, RectsTyped, RoomsTyped
  <2> QED BY <2>1, <2>2 DEF Shown
<1>4. RoomsTyped'
  BY <1>1, <1>3 DEF Typing, RoomsTyped
<1> QED BY <1>1, <1>2, <1>3, <1>4, TypingKept

\* The timer, the wizard, publishing and the dialog.
LEMMA PageTyped ==
    ASSUME Wholes, TidyInv, Typing, Page
    PROVE  Typing'
<1>a. UNCHANGED <<boundary, timer, room>> => RoomsTyped'
  BY DEF Typing, RoomsTyped
<1>b. UNCHANGED <<placing, ghost>> => PlacesTyped'
  BY DEF Typing, PlacesTyped
<1>c. UNCHANGED <<layout, rects>> => SeqTyped(layout', Kinds) /\ RectsTyped'
  BY DEF Typing, RectsTyped
<1>d. /\ UNCHANGED objects => SeqTyped(objects', Kinds)
      /\ UNCHANGED requests => \A r \in requests' : RequestTyped(r, Kinds)
  BY DEF Typing, RequestsTyped
<1>1. CASE persistBoundary
  <2>1. /\ UNCHANGED <<objects, stored, runs, runId, layout, rects, room, boundary, placing, ghost>>
        /\ timer' = {}
    BY <1>1 DEF persistBoundary, canvasVars, serverVars, tidyVars
  <2> DEFINE news == {Request("floor", "floor", PlanObject, new, Nothing) : new \in timer}
  <2>2. Send(news)
    BY <1>1 DEF persistBoundary
  <2>3. \A r \in news : \E new : RoomSized(new) /\ r = Request("floor", "floor", PlanObject, new, Nothing)
    BY DEF Typing, RoomsTyped
  <2> HIDE DEF news
  <2>4. ASSUME NEW r \in news PROVE RequestTyped(r, Kinds)
    <3>1. PICK new : RoomSized(new) /\ r = Request("floor", "floor", PlanObject, new, Nothing)
      BY <2>3
    <3>2. r.at = "sent" /\ r.kind = "floor" /\ r.body = new
      BY <3>1, RequestFields
    <3> QED BY <3>1, <3>2 DEF RequestTyped, IsRun, IsNew
  <2>5. \A r \in requests' : RequestTyped(r, Kinds)
    BY <2>2, <2>4 DEF Send, Typing, RequestsTyped
  <2>6. RoomsTyped'
    BY <2>1 DEF Typing, RoomsTyped
  <2> QED BY <1>b, <1>c, <1>d, <2>1, <2>5, <2>6, TypingKept
<1>2. CASE goTo
  BY <1>2, ShownTyped DEF goTo
<1>3. CASE toggleWizard
  BY <1>3, ShownTyped DEF toggleWizard
<1>4. CASE handlePublish
  <2>1. /\ UNCHANGED <<objects, stored, runs, runId, layout, rects, room, boundary, timer, placing, ghost>>
        /\ Send({Request("publish", "status", PlanObject, Nothing, Nothing)})
    BY <1>4 DEF handlePublish, pageVars, canvasVars, serverVars, tidyVars
  <2> QED BY <1>a, <1>b, <2>1, SentTyped
<1>5. CASE requestEdit
  <2>1. UNCHANGED <<objects, stored, runs, runId, layout, rects, room, boundary, timer, placing, ghost, requests>>
    BY <1>5 DEF requestEdit, canvasVars, serverVars, tidyVars
  <2> QED BY <1>a, <1>b, <1>c, <1>d, <2>1, TypingKept
<1>6. CASE cancelEdit
  <2>1. UNCHANGED <<objects, stored, runs, runId, layout, rects, room, boundary, timer, placing, ghost, requests>>
    BY <1>6 DEF cancelEdit, canvasVars, serverVars, tidyVars
  <2> QED BY <1>a, <1>b, <1>c, <1>d, <2>1, TypingKept
<1>7. CASE confirmEdit
  <2>1. /\ UNCHANGED <<objects, stored, runs, runId, layout, rects, room, boundary, timer, placing, ghost>>
        /\ Send({Request("unpublish", "status", PlanObject, Nothing, Nothing)})
    BY <1>7 DEF confirmEdit, pageVars, canvasVars, serverVars, tidyVars
  <2> QED BY <1>a, <1>b, <2>1, SentTyped
<1>8. CASE openPreview
  <2>1. UNCHANGED <<objects, stored, runs, runId, boundary, timer, placing, ghost, requests>>
    BY <1>8 DEF openPreview, pageVars, canvasVars, serverVars
  <2>2. SeqTyped(layout', Kinds) /\ RectsTyped' /\ RoomSized(room')
    BY <1>8, BeginTyped DEF openPreview
  <2>3. RoomsTyped'
    BY <2>1, <2>2 DEF Typing, RoomsTyped
  <2> QED BY <1>b, <1>d, <2>1, <2>2, <2>3, TypingKept
<1>9. CASE cancel
  <2>1. /\ UNCHANGED <<objects, stored, runs, room, boundary, timer, placing, ghost, requests>>
        /\ runId' = {} /\ layout' = <<>> /\ rects' = <<>>
    BY <1>9 DEF cancel, reset, canvasVars, serverVars
  <2>2. SeqTyped(layout', Kinds) /\ RectsTyped'
    BY <2>1 DEF SeqTyped, RectsTyped, ToSet
  <2> QED BY <1>a, <1>b, <1>d, <2>1, <2>2, TypingKept
<1>10. CASE apply
  <2>1. UNCHANGED <<objects, stored, runs, runId, layout, rects, room, boundary, timer, placing, ghost>>
    BY <1>10 DEF apply, pageVars, canvasVars, serverVars, tidyVars
  <2>2. phase = "planned"
    BY <1>10 DEF apply, DialogShows, PanelShows
  <2>3. PICK chosen : Send({Request("tidy", "tidy", PlanObject, ChosenPlan(chosen), Nothing)})
    BY <1>10 DEF apply
  <2> DEFINE r == Request("tidy", "tidy", PlanObject, ChosenPlan(chosen), Nothing)
  <2>4. r.kind = "tidy" /\ r.at = "sent" /\ r.body = ChosenPlan(chosen)
    BY RequestFields
  <2>5. ChosenPlan(chosen).plan \subseteq Operations
    BY DEF ChosenPlan
  <2>6. \A c \in r.body.plan : OpTyped(c, Kinds)
    BY <2>2, <2>4, <2>5, OperationsTyped
  <2>7. requests' = requests \cup {r}
    BY <2>3 DEF Send
  <2> HIDE DEF r
  <2>8. RequestTyped(r, Kinds)
    BY <2>4, <2>6 DEF RequestTyped, IsRun, IsNew
  <2>9. \A q \in requests' : RequestTyped(q, Kinds)
    BY <2>7, <2>8 DEF Typing, RequestsTyped
  <2> QED BY <1>a, <1>b, <1>c, <1>d, <2>1, <2>9, TypingKept
<1>11. CASE undo
  <2>1. UNCHANGED <<objects, stored, runs, runId, layout, rects, room, boundary, timer, placing, ghost>>
    BY <1>11 DEF undo, pageVars, canvasVars, serverVars, tidyVars
  <2>2. PICK run \in runId : Send({Request("undo", "tidy", PlanObject, run, Nothing)})
    BY <1>11 DEF undo
  <2> DEFINE r == Request("undo", "tidy", PlanObject, run, Nothing)
  <2>3. r.kind = "undo" /\ r.at = "sent" /\ r.body = run
    BY RequestFields
  <2>4. RunTyped(run, Kinds)
    BY DEF Typing, RunsTyped
  <2>5. requests' = requests \cup {r}
    BY <2>2 DEF Send
  <2> HIDE DEF r
  <2>6. RequestTyped(r, Kinds)
    BY <2>3, <2>4 DEF RequestTyped, IsRun, IsNew
  <2>7. \A q \in requests' : RequestTyped(q, Kinds)
    BY <2>5, <2>6 DEF Typing, RequestsTyped
  <2> QED BY <1>a, <1>b, <1>c, <1>d, <2>1, <2>7, TypingKept
<1> QED BY <1>1, <1>2, <1>3, <1>4, <1>5, <1>6, <1>7, <1>8, <1>9, <1>10, <1>11 DEF Page

\* A row holds an object of its kind.
LEMMA RowTyped ==
    ASSUME Wholes, Typing, NEW id \in DOMAIN stored
    PROVE  RowFor(stored[id], id) /\ Typed(stored[id].object, Kinds)
BY DEF Wholes, StoreWhole, Typing, StoreTyped, RowFor, Typed, Kinds

\* What is typed stays so when rows are added.
LEMMA StillTyped ==
    ASSUME NEW K, NEW L, DOMAIN K \subseteq DOMAIN L, \A id \in DOMAIN K : L[id] = K[id]
    PROVE  /\ \A o : Typed(o, K) => Typed(o, L)
           /\ \A run : RunWhole(run, DOMAIN K) /\ RunTyped(run, K) => RunTyped(run, L)
           /\ \A r, page : RequestGood(r, DOMAIN K, page) /\ RequestTyped(r, K) => RequestTyped(r, L)
<1>1. \A o : Typed(o, K) => Typed(o, L)
  BY DEF Typed
<1>2. \A run : RunWhole(run, DOMAIN K) /\ RunTyped(run, K) => RunTyped(run, L)
  BY DEF RunWhole, ShapeWhole, RunTyped, ShapesTyped
<1>3. \A c : OpWhole(c, DOMAIN K) /\ OpTyped(c, K) => OpTyped(c, L)
  BY DEF OpWhole, OpTyped
<1>4. ASSUME NEW r, NEW page, RequestGood(r, DOMAIN K, page), RequestTyped(r, K)
      PROVE  RequestTyped(r, L)
  BY <1>1, <1>2, <1>3, <1>4 DEF RequestGood, RequestTyped
<1> QED BY <1>1, <1>2, <1>4

\* The kinds of the rows after a step.
LEMMA KindsAfter ==
    ASSUME DOMAIN stored \subseteq DOMAIN stored',
           \A id \in DOMAIN stored : stored'[id].object.type = stored[id].object.type
    PROVE  /\ DOMAIN Kinds = DOMAIN stored /\ DOMAIN Kinds' = DOMAIN stored'
           /\ \A id \in DOMAIN Kinds : Kinds'[id] = Kinds[id]
           /\ DOMAIN stored' = DOMAIN stored => Kinds' = Kinds
BY DEF Kinds

\* A request that goes on to its next stage, perhaps with a change of the rows.
LEMMA StagesTyped ==
    ASSUME Wholes, RequestsWhole, Typing, NEW r \in requests, NEW at, NEW copy, At_(r, at, copy),
           UNCHANGED <<objects, runId, layout, rects, room, boundary, timer, placing, ghost>>,
           DOMAIN stored \subseteq DOMAIN stored', StoreTyped',
           \A id \in DOMAIN stored : stored'[id].object.type = stored[id].object.type,
           \A run \in runs' : RunTyped(run, Kinds'),
           \A next : /\ next.kind = r.kind /\ next.id = r.id /\ next.at = at /\ next.copy = copy
                     /\ next.body = r.body /\ next.prev = r.prev
                     /\ RequestTyped(r, Kinds')
                     => RequestTyped(next, Kinds')
    PROVE  Typing'
<1> DEFINE next == [r EXCEPT !.at = at, !.copy = copy]
           L == Kinds'
<1>1. requests' = (requests \ {r}) \cup {next} /\ next = [r EXCEPT !.at = at, !.copy = copy]
  BY DEF At_
<1> HIDE DEF next
<1>2. /\ next.kind = r.kind /\ next.id = r.id /\ next.at = at /\ next.copy = copy
      /\ next.body = r.body /\ next.prev = r.prev
  BY <1>1, NextStage
<1>3. /\ DOMAIN Kinds = DOMAIN stored /\ DOMAIN Kinds \subseteq DOMAIN L
      /\ \A id \in DOMAIN Kinds : L[id] = Kinds[id]
  BY KindsAfter
<1> HIDE DEF L
<1>4. /\ \A o : Typed(o, Kinds) => Typed(o, L)
      /\ \A run : RunWhole(run, DOMAIN stored) /\ RunTyped(run, Kinds) => RunTyped(run, L)
      /\ \A q, page : RequestGood(q, DOMAIN stored, page) /\ RequestTyped(q, Kinds) => RequestTyped(q, L)
  BY <1>3, StillTyped
<1>5. \A q \in requests : RequestTyped(q, L)
  BY <1>4 DEF Wholes, Typing, RequestsTyped
<1>6. \A q \in requests' : RequestTyped(q, L)
  BY <1>1, <1>2, <1>5 DEF L
<1>7. SeqTyped(objects', L) /\ SeqTyped(layout', L)
  BY <1>4 DEF Typing, SeqTyped
<1>8. \A run \in runs' \cup runId' : RunTyped(run, L)
  BY <1>4 DEF L, Wholes, Typing, RunsTyped
<1>9. RoomsTyped' /\ PlacesTyped' /\ RectsTyped'
  BY DEF Typing, RoomsTyped, PlacesTyped, RectsTyped
<1>10. RequestsTyped(Kinds)'
  BY <1>6 DEF RequestsTyped, L
<1>11. SeqTyped(objects, Kinds)' /\ SeqTyped(layout, Kinds)'
  BY <1>7 DEF SeqTyped, L
<1>12. RunsTyped(Kinds)'
  BY <1>8 DEF RunsTyped, L
<1> QED BY <1>9, <1>10, <1>11, <1>12 DEF Typing

\* A stage that brings nothing new.
LEMMA PlainTyped ==
    ASSUME Wholes, RequestsWhole, Typing, NEW r \in requests, NEW at, NEW copy, At_(r, at, copy),
           UNCHANGED <<objects, runId, layout, rects, room, boundary, timer, placing, ghost, runs>>,
           DOMAIN stored' = DOMAIN stored, StoreTyped',
           \A id \in DOMAIN stored : stored'[id].object.type = stored[id].object.type,
           \/ at = "refused"
           \/ at = "done" /\ r.kind \notin {"create", "tidy", "undo"}
           \/ at = "read" /\ r.kind \in {"patch", "delete"} /\ Typed(copy.object, Kinds)
    PROVE  Typing'
<1>1. Kinds' = Kinds
  BY KindsAfter
<1>2. \A run \in runs' : RunTyped(run, Kinds')
  BY <1>1 DEF Typing, RunsTyped
<1>3. ASSUME NEW next, next.kind = r.kind, next.id = r.id, next.at = at, next.copy = copy,
             next.body = r.body, next.prev = r.prev, RequestTyped(r, Kinds')
      PROVE  RequestTyped(next, Kinds')
  BY <1>1, <1>3 DEF RequestTyped, IsNew, IsRun
<1> QED BY <1>2, <1>3, StagesTyped

\* A view that saves a row, or a copy of one.
LEMMA SavedTyped ==
    ASSUME Wholes, Typing, NEW r \in requests, r.kind \in {"patch", "delete"},
           NEW copy, RowFor(copy, r.id), Typed(copy.object, Kinds),
           stored' = [stored EXCEPT ![r.id] = Saved(r, copy)]
    PROVE  /\ DOMAIN stored' = DOMAIN stored /\ StoreTyped'
           /\ \A id \in DOMAIN stored : stored'[id].object.type = stored[id].object.type
<1>1. r.id \in DOMAIN stored /\ (r.kind = "patch" => DOMAIN r.body \subseteq ShapeFields)
  BY DEF Wholes, RequestGood
<1>2. copy.object.id = r.id /\ Kinds[r.id] = stored[r.id].object.type
  BY <1>1 DEF RowFor, Kinds
<1>3. Typed(Saved(r, copy).object, Kinds) /\ Saved(r, copy).object.id = r.id
  <2>1. CASE r.kind = "patch"
    <3>1. MeasuredAs(r.body, copy.object.type)
      BY <1>2, <2>1 DEF Typing, RequestsTyped, RequestTyped, Typed
    <3>2. "id" \notin DOMAIN r.body
      BY <1>1, <2>1, FieldsDiffer
    <3>3. Typed(With(copy.object, r.body), Kinds)
      BY <1>1, <2>1, <3>1, <3>2, WithTyped
    <3>4. With(copy.object, r.body).id = r.id
      BY <1>1, <1>2, <2>1, PatchKeeps DEF Typed, Good
    <3> QED BY <2>1, <3>3, <3>4 DEF Saved
  <2>2. CASE r.kind # "patch"
    BY <1>2, <2>2 DEF Saved
  <2> QED BY <2>1, <2>2
<1>4. DOMAIN stored' = DOMAIN stored
  OBVIOUS
<1>5. \A id \in DOMAIN stored : Good(stored'[id].object) /\ stored'[id].object.type = stored[id].object.type
  BY <1>2, <1>3 DEF Typed, Typing, StoreTyped
<1> QED BY <1>4, <1>5 DEF StoreTyped

\* Writing typed shapes keeps the rows typed.
LEMMA ShapesGood ==
    ASSUME Wholes, Typing, NEW S, \A s \in S : ShapeWhole(s, DOMAIN stored), ShapesTyped(S, Kinds),
           stored' = WithShapes(S)
    PROVE  /\ DOMAIN stored' = DOMAIN stored /\ StoreTyped'
           /\ \A id \in DOMAIN stored : /\ Typed(stored'[id].object, Kinds)
                                        /\ stored'[id].object.type = stored[id].object.type
<1>1. DOMAIN stored' = DOMAIN stored
  BY DEF WithShapes
<1>2. ASSUME NEW id \in DOMAIN stored
      PROVE  Typed(stored'[id].object, Kinds) /\ stored'[id].object.type = stored[id].object.type
  <2> DEFINE mine == {s \in S : s.id = id}
             s == CHOOSE t \in mine : TRUE
  <2>1. stored'[id] = IF mine = {} THEN stored[id] ELSE [stored[id] EXCEPT !.object = With(@, s)]
    BY DEF WithShapes
  <2>2. RowFor(stored[id], id) /\ Typed(stored[id].object, Kinds)
    BY RowTyped
  <2>3. CASE mine = {}
    BY <2>1, <2>2, <2>3
  <2>4. CASE mine # {}
    <3>1. s \in S /\ s.id = id
      BY <2>4
    <3> HIDE DEF s, mine
    <3>2. DOMAIN s = {"id"} \cup ShapeFields /\ s.id = stored[id].object.id
      BY <2>2, <3>1 DEF ShapeWhole, RowFor
    <3>3. MeasuredAs(s, stored[id].object.type)
      BY <3>1 DEF ShapesTyped, Kinds
    <3>4. Typed(With(stored[id].object, s), Kinds)
      BY <2>2, <3>2, <3>3, WithTyped
    <3>5. stored'[id].object = With(stored[id].object, s)
      BY <2>1, <2>2, <2>4 DEF RowFor
    <3>6. With(stored[id].object, s).id = stored[id].object.id
      BY <2>2, <3>2, ShapeKeeps DEF Typed, Good
    <3> QED BY <2>2, <3>4, <3>5, <3>6 DEF Typed
  <2> QED BY <2>3, <2>4
<1> QED BY <1>1, <1>2 DEF StoreTyped, Typed

\* A run is made of the typed shapes of its plan.
LEMMA RunOfTyped ==
    ASSUME NEW r, NEW K, \A c \in r.body.plan : OpTyped(c, K) /\ OpWhole(c, DOMAIN K)
    PROVE  RunTyped(RunOf(r), K)
<1> DEFINE fresh == {c \in r.body.plan : StillAs(Named(c.id, c.before))}
<1>1. /\ RunOf(r).before = {Named(c.id, c.before) : c \in fresh}
      /\ RunOf(r).after = {Named(c.id, c.after) : c \in fresh}
  BY DEF RunOf
<1>2. \A c \in fresh : OpTyped(c, K) /\ OpWhole(c, DOMAIN K)
  OBVIOUS
<1> HIDE DEF fresh
<1>3. ASSUME NEW id, NEW s, DOMAIN s = ShapeFields, NEW type, MeasuredAs(s, type)
      PROVE  Named(id, s).id = id /\ MeasuredAs(Named(id, s), type)
  BY <1>3, FieldsDiffer DEF Named, With, MeasuredAs, ShapeFields
<1>4. ASSUME NEW c \in fresh
      PROVE  /\ MeasuredAs(Named(c.id, c.before), K[Named(c.id, c.before).id])
             /\ MeasuredAs(Named(c.id, c.after), K[Named(c.id, c.after).id])
  BY <1>2, <1>3 DEF OpTyped, OpWhole
<1> QED BY <1>1, <1>4 DEF RunTyped, ShapesTyped

\* The rows a run answers with.
LEMMA RowsTyped ==
    ASSUME NEW rows, NEW ids, NEW K, \A id \in ids : Typed(rows[id].object, K)
    PROVE  \A o \in Rows(rows, ids) : Typed(o, K)
BY DEF Rows

\* What the server leaves alone.
ServerAside == UNCHANGED <<objects, runId, layout, rects, room, boundary, timer, placing, ghost>>

\* createRow: the new row is of the kind it was asked for.
LEMMA CreateTyped ==
    ASSUME Wholes, RequestsWhole, Typing, NEW r \in requests, createRow(r), ServerAside
    PROVE  Typing'
<1> DEFINE n == 1 + Cardinality(DOMAIN stored)
           new == [r.body EXCEPT !.id = n]
<1>1. Good(r.body) /\ r.kind = "create"
  BY DEF createRow, Typing, RequestsTyped, RequestTyped
<1> HIDE DEF n
<1>2. Good(new) /\ new.id = n
  <2>1. DOMAIN r.body = ObjectFields
    BY <1>1, WholeDomain DEF Good
  <2>2. Whole(new)
    BY <2>1 DEF Whole, HasFields, ObjectFields, ShapeFields
  <2>3. /\ new.id = n /\ new.type = r.body.type /\ new.x = r.body.x /\ new.y = r.body.y
        /\ new.width = r.body.width /\ new.height = r.body.height
    BY <2>1 DEF ObjectFields, ShapeFields
  <2> HIDE DEF new
  <2> QED BY <1>1, <2>2, <2>3 DEF Good, OnPlane
<1>3. /\ stored' = [id \in {new.id} \cup DOMAIN stored |->
                      IF id = new.id THEN [object |-> new, active |-> TRUE] ELSE stored[id]]
      /\ At_(r, "done", new) /\ runs' = runs
  BY DEF createRow, n
<1> HIDE DEF new
<1>4. new.id \notin DOMAIN stored
  BY <1>2, <1>3, NewRow DEF Wholes, n, Good
<1>5. /\ DOMAIN stored' = {new.id} \cup DOMAIN stored
      /\ stored'[new.id].object = new
      /\ \A id \in DOMAIN stored : stored'[id] = stored[id]
  BY <1>3, <1>4
<1>6. StoreTyped'
  BY <1>2, <1>5 DEF Typing, StoreTyped
<1>7. /\ DOMAIN Kinds \subseteq DOMAIN Kinds' /\ \A id \in DOMAIN Kinds : Kinds'[id] = Kinds[id]
      /\ DOMAIN Kinds = DOMAIN stored /\ new.id \in DOMAIN Kinds' /\ Kinds'[new.id] = new.type
  BY <1>5 DEF Kinds
<1>8. \A run \in runs' : RunTyped(run, Kinds')
  <2> DEFINE L == Kinds'
  <2>1. DOMAIN Kinds \subseteq DOMAIN L /\ \A id \in DOMAIN Kinds : L[id] = Kinds[id]
    BY <1>7
  <2> HIDE DEF L
  <2>2. \A run : RunWhole(run, DOMAIN Kinds) /\ RunTyped(run, Kinds) => RunTyped(run, L)
    BY <2>1, StillTyped
  <2>3. \A run \in runs' : RunTyped(run, L)
    BY <1>3, <1>7, <2>2 DEF Wholes, Typing, RunsTyped
  <2> QED BY <2>3 DEF L
<1>9. Typed(new, Kinds')
  BY <1>2, <1>7 DEF Typed
<1>10. \A next : /\ next.kind = r.kind /\ next.id = r.id /\ next.at = "done" /\ next.copy = new
                 /\ next.body = r.body /\ next.prev = r.prev
                 /\ RequestTyped(r, Kinds')
                 => RequestTyped(next, Kinds')
  BY <1>1, <1>9 DEF RequestTyped, IsRun, IsNew
<1> QED BY <1>3, <1>5, <1>6, <1>8, <1>10, StagesTyped DEF ServerAside

\* A run's answer.
LEMMA RunAnswerTyped ==
    ASSUME Wholes, RequestsWhole, Typing, NEW r \in requests, IsRun(r), NEW copy,
           At_(r, "done", copy), ServerAside,
           DOMAIN stored' = DOMAIN stored, StoreTyped',
           \A id \in DOMAIN stored : stored'[id].object.type = stored[id].object.type,
           \A run \in runs' : RunTyped(run, Kinds),
           \A o \in copy.rows : Typed(o, Kinds),
           r.kind = "tidy" => RunTyped(copy.run, Kinds)
    PROVE  Typing'
<1>1. Kinds' = Kinds
  BY KindsAfter
<1>2. \A next : /\ next.kind = r.kind /\ next.id = r.id /\ next.at = "done" /\ next.copy = copy
                /\ next.body = r.body /\ next.prev = r.prev
                /\ RequestTyped(r, Kinds')
                => RequestTyped(next, Kinds')
  BY <1>1 DEF RequestTyped, IsRun, IsNew
<1>3. \A run \in runs' : RunTyped(run, Kinds')
  BY <1>1
<1> QED BY <1>2, <1>3, StagesTyped DEF ServerAside

\* applyRun writes and answers with typed shapes,
LEMMA ApplyTyped ==
    ASSUME Wholes, RequestsWhole, Typing, NEW r \in requests, applyRun(r), ServerAside
    PROVE  Typing'
<1>0. DOMAIN Kinds = DOMAIN stored
  BY DEF Kinds
<1>1. r.kind = "tidy" /\ IsRun(r)
  BY DEF applyRun, IsRun
<1>2. \A c \in r.body.plan : OpTyped(c, Kinds) /\ OpWhole(c, DOMAIN stored)
  BY <1>1 DEF Wholes, RequestGood, Typing, RequestsTyped, RequestTyped
<1> DEFINE run == RunOf(r)
           prior == {p \in runs : p.key = r.body.key}
<1>3. RunWhole(run, DOMAIN stored) /\ RunTyped(run, Kinds)
  BY <1>0, <1>2, RunShapes, RunOfTyped
<1>4. \A p \in runs : RunTyped(p, Kinds) /\ RunWhole(p, DOMAIN stored)
  BY DEF Typing, RunsTyped, Wholes
<1>5. CASE prior = {}
  <2> DEFINE rows == Rows(stored', Ids(run.after))
             copy == [run |-> run, rows |-> rows]
  <2>1. /\ runs' = runs \cup {run} /\ stored' = WithShapes(run.after)
        /\ At_(r, "done", copy)
    BY <1>5 DEF applyRun
  <2>2. copy.run = run /\ copy.rows = rows
    OBVIOUS
  <2> HIDE DEF copy, run
  <2>3. (\A s \in run.after : ShapeWhole(s, DOMAIN stored)) /\ ShapesTyped(run.after, Kinds)
    BY <1>3 DEF RunWhole, RunTyped
  <2>4. /\ DOMAIN stored' = DOMAIN stored /\ StoreTyped'
        /\ \A id \in DOMAIN stored : /\ Typed(stored'[id].object, Kinds)
                                     /\ stored'[id].object.type = stored[id].object.type
    BY <2>1, <2>3, ShapesGood
  <2>5. Ids(run.after) \subseteq DOMAIN stored
    BY <2>3, IdsKnown
  <2>6. \A o \in rows : Typed(o, Kinds)
    <3>1. \A id \in Ids(run.after) : Typed(stored'[id].object, Kinds)
      BY <2>4, <2>5
    <3> QED BY <3>1, RowsTyped
  <2>7. \A p \in runs' : RunTyped(p, Kinds)
    BY <1>3, <1>4, <2>1
  <2> HIDE DEF rows
  <2> QED BY <1>1, <1>3, <2>1, <2>2, <2>4, <2>6, <2>7, RunAnswerTyped
<1>6. CASE prior # {}
  <2> DEFINE first == CHOOSE p \in prior : TRUE
             rows == UNION {Rows(stored, Ids(p.after)) : p \in prior}
             copy == [run |-> first, rows |-> rows]
  <2>1. At_(r, "done", copy) /\ UNCHANGED <<stored, runs>>
    BY <1>6 DEF applyRun
  <2>2. first \in prior
    BY <1>6
  <2>3. prior \subseteq runs
    OBVIOUS
  <2>4. copy.run = first /\ copy.rows = rows
    OBVIOUS
  <2> HIDE DEF copy, first, prior
  <2>5. ASSUME NEW p \in prior, NEW o \in Rows(stored, Ids(p.after)) PROVE Typed(o, Kinds)
    <3>1. \A s \in p.after : ShapeWhole(s, DOMAIN stored)
      BY <1>4, <2>3 DEF RunWhole
    <3>2. \A id \in Ids(p.after) : Typed(stored[id].object, Kinds)
      BY <3>1, IdsKnown, RowTyped
    <3> QED BY <3>2, RowsTyped
  <2>6. \A o \in rows : Typed(o, Kinds)
    BY <2>5
  <2> HIDE DEF rows
  <2>7. StoreTyped' /\ DOMAIN stored' = DOMAIN stored
        /\ \A id \in DOMAIN stored : stored'[id].object.type = stored[id].object.type
    BY <2>1, SameKinds DEF Typing
  <2> QED BY <1>1, <1>4, <2>1, <2>2, <2>3, <2>4, <2>6, <2>7, RunAnswerTyped
<1> QED BY <1>5, <1>6

\* and undoRun.
LEMMA UndoTyped ==
    ASSUME Wholes, RequestsWhole, Typing, NEW r \in requests, undoRun(r), ServerAside
    PROVE  Typing'
<1> DEFINE back == {b \in r.body.before : \E a \in r.body.after : a.id = b.id /\ StillAs(a)}
           rows == Rows(stored', Ids(back))
           copy == [rows |-> rows]
<1>1. /\ r.kind = "undo" /\ IsRun(r) /\ runs' = runs
      /\ stored' = WithShapes(back) /\ At_(r, "done", copy)
  BY DEF undoRun, IsRun
<1>2. back \subseteq r.body.before /\ copy.rows = rows
  OBVIOUS
<1> HIDE DEF back, copy
<1>3. (\A s \in back : ShapeWhole(s, DOMAIN stored)) /\ ShapesTyped(back, Kinds)
  <2>1. \A s \in r.body.before : ShapeWhole(s, DOMAIN stored)
    BY <1>1 DEF Wholes, RequestGood, RunWhole
  <2>2. ShapesTyped(r.body.before, Kinds)
    BY <1>1 DEF Typing, RequestsTyped, RequestTyped, RunTyped
  <2> QED BY <1>2, <2>1, <2>2 DEF ShapesTyped
<1>4. /\ DOMAIN stored' = DOMAIN stored /\ StoreTyped'
      /\ \A id \in DOMAIN stored : /\ Typed(stored'[id].object, Kinds)
                                   /\ stored'[id].object.type = stored[id].object.type
  BY <1>1, <1>3, ShapesGood
<1>5. \A o \in rows : Typed(o, Kinds)
  <2>1. \A id \in Ids(back) : Typed(stored'[id].object, Kinds)
    BY <1>3, <1>4, IdsKnown
  <2> QED BY <2>1, RowsTyped
<1> HIDE DEF rows
<1>6. \A p \in runs' : RunTyped(p, Kinds)
  BY <1>1 DEF Typing, RunsTyped
<1> QED BY <1>1, <1>2, <1>4, <1>5, <1>6, RunAnswerTyped

\* Every step of the server keeps the types,
LEMMA ServerTyped ==
    ASSUME Wholes, RequestsWhole, Typing, NEW r \in requests, serverStep(r), ServerAside
    PROVE  Typing'
<1>0. /\ stored' = stored => /\ StoreTyped' /\ DOMAIN stored' = DOMAIN stored
                             /\ \A id \in DOMAIN stored : stored'[id].object.type = stored[id].object.type
      /\ ServerAside
  BY SameKinds DEF Typing
<1>1. CASE handleAlone(r)
  <2>1. r.kind \in {"patch", "delete"} /\ runs' = runs /\ r.id \in DOMAIN stored
    BY <1>1 DEF handleAlone, Wholes, RequestGood
  <2>2. RowFor(stored[r.id], r.id) /\ Typed(stored[r.id].object, Kinds)
    BY <2>1, RowTyped
  <2>3. \/ stored' = [stored EXCEPT ![r.id] = Saved(r, stored[r.id])] /\ At_(r, "done", Nothing)
        \/ At_(r, "refused", Nothing) /\ stored' = stored
    BY <1>1 DEF handleAlone
  <2>4. /\ StoreTyped' /\ DOMAIN stored' = DOMAIN stored
        /\ \A id \in DOMAIN stored : stored'[id].object.type = stored[id].object.type
    BY <1>0, <2>1, <2>2, <2>3, SavedTyped
  <2>5. \E at, copy :
          /\ At_(r, at, copy)
          /\ (at = "refused" \/ (at = "done" /\ r.kind \notin {"create", "tidy", "undo"}))
    BY <2>1, <2>3
  <2> QED BY <2>1, <2>4, <2>5, PlainTyped DEF ServerAside
<1>2. CASE readRow(r)
  <2>1. r.kind \in {"patch", "delete"} /\ runs' = runs /\ stored' = stored /\ r.id \in DOMAIN stored
    BY <1>2 DEF readRow, serverVars, Wholes, RequestGood
  <2>2. Typed(stored[r.id].object, Kinds)
    BY <2>1, RowTyped
  <2>3. At_(r, "read", stored[r.id]) \/ At_(r, "refused", Nothing)
    BY <1>2 DEF readRow
  <2>4. \E at, copy :
          /\ At_(r, at, copy)
          /\ at = "refused" \/ (at = "read" /\ r.kind \in {"patch", "delete"} /\ Typed(copy.object, Kinds))
    BY <2>1, <2>2, <2>3
  <2> QED BY <1>0, <2>1, <2>4, PlainTyped DEF ServerAside
<1>3. CASE saveRow(r)
  <2>1. /\ r.kind \in {"patch", "delete"} /\ RowFor(r.copy, r.id) /\ runs' = runs
        /\ stored' = [stored EXCEPT ![r.id] = Saved(r, r.copy)] /\ At_(r, "done", Nothing)
    BY <1>3 DEF saveRow, Wholes, RequestGood
  <2>2. Typed(r.copy.object, Kinds)
    BY <1>3 DEF saveRow, Typing, RequestsTyped, RequestTyped
  <2>3. /\ StoreTyped' /\ DOMAIN stored' = DOMAIN stored
        /\ \A id \in DOMAIN stored : stored'[id].object.type = stored[id].object.type
    <3> DEFINE copy == r.copy
    <3>1. RowFor(copy, r.id) /\ Typed(copy.object, Kinds) /\ stored' = [stored EXCEPT ![r.id] = Saved(r, copy)]
      BY <2>1, <2>2
    <3> HIDE DEF copy
    <3> QED BY <2>1, <3>1, SavedTyped
  <2>4. \E at, copy : At_(r, at, copy) /\ at = "done" /\ r.kind \notin {"create", "tidy", "undo"}
    BY <2>1
  <2> QED BY <2>1, <2>3, <2>4, PlainTyped DEF ServerAside
<1>4. CASE createRow(r)
  BY <1>4, CreateTyped
<1>5. CASE applyRun(r)
  BY <1>5, ApplyTyped
<1>6. CASE undoRun(r)
  BY <1>6, UndoTyped
<1>7. CASE handleFloor(r)
  <2>1. /\ r.kind \in {"floor", "publish", "unpublish"} /\ runs' = runs /\ stored' = stored
        /\ At_(r, "done", Nothing)
    BY <1>7 DEF handleFloor
  <2>2. \E at, copy : At_(r, at, copy) /\ at = "done" /\ r.kind \notin {"create", "tidy", "undo"}
    BY <2>1
  <2> QED BY <1>0, <2>1, <2>2, PlainTyped DEF ServerAside
<1> QED BY <1>1, <1>2, <1>3, <1>4, <1>5, <1>6, <1>7 DEF serverStep

\* and so does a lost connection.
LEMMA LoseTyped ==
    ASSUME Wholes, RequestsWhole, Typing, NEW r \in requests, lose(r)
    PROVE  Typing'
<1>1. /\ At_(r, "refused", Nothing) /\ runs' = runs /\ stored' = stored
      /\ UNCHANGED <<objects, runId, layout, rects, room, boundary, timer, placing, ghost>>
  BY DEF lose, pageVars, serverVars, canvasVars, tidyVars
<1>2. /\ StoreTyped' /\ DOMAIN stored' = DOMAIN stored
      /\ \A id \in DOMAIN stored : stored'[id].object.type = stored[id].object.type
  BY <1>1, SameKinds DEF Typing
<1>3. \E at, copy : At_(r, at, copy) /\ at = "refused"
  BY <1>1
<1> QED BY <1>1, <1>2, <1>3, PlainTyped

\* What is left of a typed list is typed, and what joins it.
LEMMA RemovedTyped ==
    ASSUME Wholes, NEW K, SeqTyped(objects, K), NEW id
    PROVE  SeqTyped(removeObject(objects, id), K)
<1>1. CASE id \notin IdsOf(objects)
  BY <1>1 DEF removeObject
<1>2. CASE id \in IdsOf(objects)
  <2> DEFINE i == CHOOSE j \in DOMAIN objects : objects[j].id = id
             new == removeObject(objects, id)
  <2>1. i \in DOMAIN objects /\ objects[i].id = id
    BY <1>2 DEF IdsOf
  <2>2. new = RemoveAt(objects, i)
    BY <1>2 DEF removeObject
  <2>3. Listed(objects, DOMAIN stored)
    BY DEF Wholes
  <2> HIDE DEF i, new
  <2>4. /\ Of(new, objects[i].id) = {}
        /\ \A n : n # objects[i].id => Of(new, n) = Of(objects, n)
    BY <2>1, <2>2, <2>3, RemovedPlaces
  <2>5. ToSet(new) \subseteq ToSet(objects)
    BY <2>4 DEF Of
  <2>6. SeqTyped(new, K)
    BY <2>5 DEF SeqTyped
  <2> QED BY <2>6 DEF new
<1> QED BY <1>1, <1>2

\* A typed object that is new to the page keeps the list typed.
LEMMA AppendedTyped ==
    ASSUME Wholes, NEW K, SeqTyped(objects, K), NEW o, Typed(o, K), o.id \in DOMAIN stored,
           o.id \notin IdsOf(objects)
    PROVE  SeqTyped(Append(objects, o), K)
<1> DEFINE new == Append(objects, o)
<1>1. Listed(objects, DOMAIN stored) /\ Whole(o)
  BY DEF Wholes, Typed, Good
<1>2. Of(new, o.id) = {o} /\ \A id : id # o.id => Of(new, id) = Of(objects, id)
  BY <1>1, AppendedPlaces
<1> HIDE DEF new
<1>3. ToSet(new) \subseteq ToSet(objects) \cup {o}
  BY <1>2 DEF Of
<1>4. SeqTyped(new, K)
  BY <1>3 DEF SeqTyped
<1> QED BY <1>4 DEF new

\* A save that was refused puts back what was typed.
LEMMA RolledTyped ==
    ASSUME Typing, NEW r \in requests, r.kind = "patch", DOMAIN r.prev \subseteq ShapeFields
    PROVE  SeqTyped(patchObject(objects, r.id, r.prev), Kinds)
<1> DEFINE id == r.id
           p == r.prev
           new == patchObject(objects, id, p)
<1>1. MeasuredAs(p, Kinds[id])
  BY DEF Typing, RequestsTyped, RequestTyped
<1>2. DOMAIN new = DOMAIN objects /\ DOMAIN p \subseteq ShapeFields
      /\ \A i \in DOMAIN objects : new[i] = IF objects[i].id = id THEN With(objects[i], p) ELSE objects[i]
  BY DEF patchObject
<1> HIDE DEF id, p, new
<1>3. \A i \in DOMAIN objects : Typed(new[i], Kinds)
  <2> SUFFICES ASSUME NEW i \in DOMAIN objects PROVE Typed(new[i], Kinds)
    OBVIOUS
  <2>1. Typed(objects[i], Kinds)
    BY DEF Typing, SeqTyped, ToSet
  <2>2. CASE objects[i].id = id
    <3>1. MeasuredAs(p, objects[i].type) /\ "id" \notin DOMAIN p
      BY <1>1, <1>2, <2>1, <2>2, FieldsDiffer DEF Typed
    <3>2. Typed(With(objects[i], p), Kinds)
      BY <1>2, <2>1, <3>1, WithTyped
    <3> QED BY <1>2, <2>2, <3>2
  <2>3. CASE objects[i].id # id
    BY <1>2, <2>1, <2>3
  <2> QED BY <2>2, <2>3
<1>4. SeqTyped(new, Kinds)
  BY <1>2, <1>3 DEF SeqTyped, ToSet
<1> QED BY <1>4 DEF new, id, p

\* Every answer keeps the types.
LEMMA AnswerTyped ==
    ASSUME Wholes, Typing, NEW r \in requests, answer(r)
    PROVE  Typing'
<1>1. UNCHANGED <<stored, runs, boundary, timer>> /\ r.at \in {"done", "refused"}
  BY DEF answer, UNCHANGED_answer, serverVars
<1>2. RequestTyped(r, Kinds) /\ RequestGood(r, DOMAIN stored, IdsOf(objects))
  BY DEF Typing, RequestsTyped, Wholes
<1>a. room' = room => RoomsTyped'
  BY <1>1 DEF Typing, RoomsTyped
<1>b. UNCHANGED ghost /\ placing' \subseteq placing => PlacesTyped'
  BY DEF Typing, PlacesTyped
<1>c. UNCHANGED <<layout, rects>> => SeqTyped(layout', Kinds) /\ RectsTyped'
  BY DEF Typing, RectsTyped
<1>d. requests' \subseteq requests => \A q \in requests' : RequestTyped(q, Kinds)
  BY DEF Typing, RequestsTyped
<1>e. SeqTyped(objects, Kinds)
  BY DEF Typing
<1>3. CASE answerPatch(r)
  <2>1. /\ requests' = requests \ {r} /\ UNCHANGED <<runId, placing, ghost, layout, rects, room>>
        /\ r.kind = "patch"
        /\ objects' = objects \/ objects' = patchObject(objects, r.id, r.prev)
    BY <1>3 DEF answerPatch, RolledBack, canvasVars, tidyVars
  <2>2. SeqTyped(objects', Kinds)
    BY <1>2, <1>e, <2>1, RolledTyped DEF RequestGood
  <2>3. requests' \subseteq requests
    BY <2>1
  <2> QED BY <1>1, <1>a, <1>b, <1>c, <1>d, <2>1, <2>2, <2>3, TypingKept
<1>4. CASE answerDelete(r)
  <2>1. /\ requests' = requests \ {r} /\ UNCHANGED <<runId, placing, ghost, layout, rects, room>>
        /\ objects' = objects \/ objects' = removeObject(objects, r.id)
    BY <1>4 DEF answerDelete, canvasVars, tidyVars
  <2>2. SeqTyped(objects', Kinds)
    BY <1>e, <2>1, RemovedTyped
  <2>3. requests' \subseteq requests
    BY <2>1
  <2> QED BY <1>1, <1>a, <1>b, <1>c, <1>d, <2>1, <2>2, <2>3, TypingKept
<1>5. CASE answerCreate(r)
  <2>1. /\ requests' = requests \ {r} /\ UNCHANGED <<runId, ghost, layout, rects, room>> /\ r.kind = "create"
        /\ \/ objects' = objects
           \/ r.at = "done" /\ objects' = Append(objects, r.copy)
        /\ placing' \subseteq placing
    BY <1>5 DEF answerCreate, tidyVars
  <2>2. ASSUME r.at = "done", objects' = Append(objects, r.copy)
        PROVE  SeqTyped(objects', Kinds)
    <3>1. IsNew(r)
      BY <2>1, <2>2 DEF IsNew
    <3>2. r.copy.id \in DOMAIN stored /\ r.copy.id \notin IdsOf(objects) /\ Typed(r.copy, Kinds)
      BY <1>2, <3>1 DEF RequestGood, RequestTyped
    <3> QED BY <1>e, <2>2, <3>2, AppendedTyped
  <2>3. SeqTyped(objects', Kinds)
    BY <1>e, <2>1, <2>2
  <2>4. requests' \subseteq requests
    BY <2>1
  <2> QED BY <1>1, <1>a, <1>b, <1>c, <1>d, <2>1, <2>3, <2>4, TypingKept
<1>6. CASE settleBoundary(r)
  <2> DEFINE new == r.body
             moves == reflowMoves(new)
             go == Unguarded(moves, TRUE)
             news == {SaveOf(m, "reflow") : m \in go}
             gone == {r}
  <2>1. /\ r.kind = "floor" /\ objects' = Patched(objects, go)
        /\ requests' = (requests \ gone) \cup news
        /\ UNCHANGED <<runId, placing, ghost, layout, rects, room>>
    BY <1>6 DEF settleBoundary, canvasVars, tidyVars
  <2>2. RoomSized(new)
    BY <1>2, <2>1 DEF RequestTyped
  <2>3. PageInPlace /\ Len(objects) \in Nat /\ DOMAIN objects = 1 .. Len(objects)
    BY PageHere, PageObjects
  <2> HIDE DEF new
  <2>4. NumberMoves(moves) /\ \A m \in moves : MoveWhole(m, Len(objects))
    BY <2>2, <2>3, ReflowNumbers, ReflowMoves DEF RoomSized
  <2> HIDE DEF moves
  <2>5. \A m \in moves : MeasuredAs(m.patch, Kinds[m.id])
    BY <2>4, NumbersTyped
  <2>6. \A m \in go : /\ MoveWhole(m, Len(objects)) /\ m.id \in IdsOf(objects)
                      /\ MeasuredAs(m.patch, Kinds[m.id])
    BY <2>4, <2>5 DEF Unguarded
  <2> HIDE DEF go, gone
  <2>7. SeqTyped(objects', Kinds) /\ \A q \in requests' : RequestTyped(q, Kinds)
    BY <2>1, <2>6, SavesTyped
  <2> QED BY <1>1, <1>a, <1>b, <1>c, <2>1, <2>7, TypingKept
<1>7. CASE answerRun(r)
  <2>1. /\ requests' = requests \ {r} /\ UNCHANGED <<placing, ghost, layout, rects, room>> /\ IsRun(r)
    BY <1>7 DEF answerRun, canvasVars, tidyVars, IsRun
  <2>2. requests' \subseteq requests
    BY <2>1
  <2>3. CASE r.at = "done"
    <3> DEFINE rows == r.copy.rows
    <3>1. objects' = TakenOver(objects, rows)
      BY <1>7, <2>3 DEF answerRun, TakenOver
    <3>2. runId' = {} \/ (r.kind = "tidy" /\ runId' = {r.copy.run})
      BY <1>7, <2>3 DEF answerRun
    <3>3. /\ \A o \in rows : Typed(o, Kinds)
          /\ r.kind = "tidy" => RunTyped(r.copy.run, Kinds)
      BY <1>2, <2>1, <2>3 DEF RequestTyped
    <3> HIDE DEF rows
    <3>4. SeqTyped(objects', Kinds)
      <4>1. DOMAIN objects' = DOMAIN objects
        BY <3>1 DEF TakenOver
      <4>2. \A i \in DOMAIN objects : Typed(objects'[i], Kinds)
        BY <1>e, <3>1, <3>3, TakenPlace DEF SeqTyped, ToSet
      <4> QED BY <4>1, <4>2 DEF SeqTyped, ToSet
    <3>5. Typing'
      <4> DEFINE K == Kinds
      <4>1. Kinds' = K /\ StoreTyped'
        BY <1>1, SameKinds DEF Typing
      <4>2. SeqTyped(objects', K) /\ SeqTyped(layout', K) /\ RectsTyped' /\ RoomsTyped' /\ PlacesTyped'
        BY <1>a, <1>b, <1>c, <2>1, <3>4
      <4>3. \A q \in requests' : RequestTyped(q, K)
        BY <1>d, <2>2
      <4>4. \A run \in runs' \cup runId' : RunTyped(run, K)
        BY <1>1, <3>2, <3>3 DEF Typing, RunsTyped
      <4> HIDE DEF K
      <4>5. SeqTyped(objects, Kinds)' /\ SeqTyped(layout, Kinds)'
        BY <4>1, <4>2 DEF SeqTyped
      <4>6. RequestsTyped(Kinds)' /\ RunsTyped(Kinds)'
        BY <4>1, <4>3, <4>4 DEF RequestsTyped, RunsTyped
      <4> QED BY <4>1, <4>2, <4>5, <4>6 DEF Typing
    <3> QED BY <3>5
  <2>4. CASE r.at # "done"
    <3>1. UNCHANGED <<objects, runId>>
      BY <1>7, <2>4 DEF answerRun
    <3> QED BY <1>1, <1>a, <1>b, <1>c, <1>d, <1>e, <2>1, <2>2, <3>1, TypingKept
  <2> QED BY <2>3, <2>4
<1>8. CASE answerStatus(r)
  <2>1. /\ requests' = requests \ {r}
        /\ UNCHANGED <<objects, runId, placing, ghost, layout, rects, room>>
    BY <1>8 DEF answerStatus, canvasVars, tidyVars
  <2>2. requests' \subseteq requests
    BY <2>1
  <2> QED BY <1>1, <1>a, <1>b, <1>c, <1>d, <1>e, <2>1, <2>2, TypingKept
<1> QED BY <1>3, <1>4, <1>5, <1>6, <1>7, <1>8 DEF answer

(***************************************************************************)
(* What the engine makes of a group of desks: sizes and places             *)
(***************************************************************************)
\* Boxes of one size, and those of them that lie in the room, if they can.
Sized(w, h) == {Rect(x, y, w, h) : x, y \in Int}
Kept(w, h) == {b \in Sized(w, h) : w <= room.w /\ h <= room.h => Inside(b, room)}

\* Such a box is a Rect of these numbers.
LEMMA SizedBox ==
    ASSUME NEW w \in Int, NEW h \in Int, NEW b \in Sized(w, h)
    PROVE  /\ IsBox(b) /\ b \in Boxes /\ b = Rect(b.x, b.y, w, h)
           /\ b.x \in Int /\ b.y \in Int /\ b.w = w /\ b.h = h
<1>1. PICK x \in Int, y \in Int : b = Rect(x, y, w, h)
  BY DEF Sized
<1> QED BY <1>1 DEF Rect, IsBox, OnPixels, Boxes

\* Clamping one keeps its size, and puts it in the room if it can.
LEMMA ClampedSized ==
    ASSUME IsBox(room), NEW w \in Int, NEW h \in Int, NEW b \in Sized(w, h)
    PROVE  clampBox(b, room) \in Kept(w, h)
<1>1. IsBox(b) /\ b = Rect(b.x, b.y, w, h)
  BY SizedBox
<1>2. PICK c \in Int, d \in Int : /\ clampBox(b, room) = Rect(c, d, w, h)
                                  /\ w <= room.w /\ h <= room.h => Inside(Rect(c, d, w, h), room)
  BY <1>1, BoxClamped
<1> QED BY <1>2 DEF Kept, Sized

\* What the engine stands on.
LEMMA Around ==
    ASSUME TidyInv, TypeOK
    PROVE  /\ IsBox(room) /\ HasSize(room.w, room.h) /\ Len(layout) \in Nat
           /\ IsFiniteSet(DOMAIN Cutouts) /\ \A n \in DOMAIN Cutouts : IsBox(Cutouts[n])
           /\ DOMAIN layout = 1 .. Len(layout)
<1>1. HasSize(room.w, room.h)
  BY DEF TypeOK
<1>2. layout \in Seq(ToSet(layout))
  BY DEF TidyInv, Listed
<1>3. DOMAIN layout = 1 .. Len(layout) /\ Len(layout) \in Nat
  BY <1>2
<1> QED BY <1>1, <1>3, LayoutCutouts

\* Whatever cutouts a box is pushed out of, it keeps its size, and it stays in the room
\* if it fits.
LEMMA ClampedInside ==
    ASSUME TidyInv, TypeOK, NEW w \in Int, NEW h \in Int, NEW box \in Sized(w, h)
    PROVE  clampInside(box) \in Kept(w, h)
<1> DEFINE L == Len(layout)
           start == clampBox(box, room)
           Step(s, c) == IF Overlap(s, c) THEN clampBox(PushOut(s, c), room) ELSE s
           Pass(n, s) == IF n \in DOMAIN Cutouts THEN Step(s, Cutouts[n]) ELSE s
           past[n \in 0 .. L] == IF n = 0 THEN start ELSE Pass(n, past[n - 1])
<1>1. clampInside(box) = past[L]
  BY DEF clampInside, OverCutouts
<1>2. /\ L \in Nat /\ IsBox(room) /\ \A n \in DOMAIN Cutouts : IsBox(Cutouts[n])
  BY Around
<1> DEFINE S == Kept(w, h)
<1>3. start \in S
  BY <1>2, ClampedSized
<1>4. \A n, s : s \in S => Pass(n, s) \in S
  <2> SUFFICES ASSUME NEW n \in DOMAIN Cutouts, NEW s \in S
               PROVE  clampBox(PushOut(s, Cutouts[n]), room) \in S
    OBVIOUS
  <2>1. s \in Sized(w, h)
    BY DEF Kept
  <2>2. s \in Boxes /\ s.w = w /\ s.h = h
    BY <2>1, SizedBox
  <2>3. PushOut(s, Cutouts[n]) \in Sized(w, h)
    <3> DEFINE c == Cutouts[n]
    <3>1. IsBox(c)
      BY <1>2
    <3> HIDE DEF c
    <3>2. \E x, y \in Int : PushOut(s, c) = Rect(x, y, s.w, s.h)
      BY <2>2, <3>1, PushedOut
    <3>3. PushOut(s, c) \in Sized(w, h)
      BY <2>2, <3>2 DEF Sized
    <3> QED BY <3>3 DEF c
  <2> DEFINE p == PushOut(s, Cutouts[n])
  <2> HIDE DEF p
  <2>4. clampBox(p, room) \in S
    BY <1>2, <2>3, ClampedSized DEF p
  <2> QED BY <2>4 DEF p
<1> HIDE DEF Pass, start, S, L
<1>5. past = [n \in 0 .. L |-> IF n = 0 THEN start ELSE Pass(n, past[n - 1])]
  <2> DEFINE F == [p \in (1 .. L) \X S |-> Pass(p[1], p[2])]
  <2>1. F \in [(1 .. L) \X S -> S]
    BY <1>4
  <2>2. PICK g : Leads(g, F, L, S, start)
    <3>1. IsStep(F, L, S)
      BY <2>1 DEF IsStep
    <3> HIDE DEF F
    <3> QED BY <1>2, <1>3, <3>1, StepsTaken
  <2>3. /\ g \in [0 .. L -> S] /\ g[0] = start
        /\ \A n \in 1 .. L : g[n] = F[<<n, g[n - 1]>>]
    BY <2>2 DEF Leads
  <2>4. \A n \in 1 .. L : g[n - 1] \in S
    BY <1>2, <2>3
  <2>5. \A n \in 1 .. L : g[n] = Pass(n, g[n - 1])
    BY <2>3, <2>4
  <2>6. g = [n \in 0 .. L |-> IF n = 0 THEN start ELSE Pass(n, g[n - 1])]
    BY <1>2, <2>3, <2>5
  <2> QED BY <2>6
<1> HIDE DEF past
<1>6. past[0] \in S /\ \A n \in 1 .. L : past[n - 1] \in S => past[n] \in S
  BY <1>2, <1>3, <1>4, <1>5
<1>7. past[L] \in S
  BY <1>2, <1>6, StepsKeep
<1> QED BY <1>1, <1>7 DEF S

\* The place of an edge that is within reach of a wall.
LEMMA FlushPlaced ==
    ASSUME NEW w \in Int, NEW h \in Int, NEW s \in Sized(w, h), NEW v \in Int
    PROVE  [s EXCEPT !.x = v] \in Sized(w, h) /\ [s EXCEPT !.y = v] \in Sized(w, h)
<1>1. s = Rect(s.x, s.y, w, h) /\ s.x \in Int /\ s.y \in Int
  BY SizedBox
<1> DEFINE X == s.x
           Y == s.y
<1>2. s = Rect(X, Y, w, h) /\ X \in Int /\ Y \in Int
  BY <1>1
<1> HIDE DEF X, Y
<1>3. [s EXCEPT !.x = v] = Rect(v, Y, w, h) /\ [s EXCEPT !.y = v] = Rect(X, v, w, h)
  BY <1>2 DEF Rect
<1> QED BY <1>2, <1>3 DEF Sized

\* A lone desk keeps its size, and is in the room if it fits.
LEMMA SnappedToWalls ==
    ASSUME TidyInv, TypeOK, NEW r, NEW w, NEW h, w = r.w, h = r.h, IsBox(r)
    PROVE  snapToWalls(r) \in Kept(w, h)
<1>0. r.x \in Int /\ r.y \in Int /\ w \in Int /\ h \in Int /\ SNAP_WALL_DIST \in Nat
  BY TidyAssumption DEF IsBox, OnPixels
<1> DEFINE D == SNAP_WALL_DIST
           L == Len(layout)
           Flush(v, len, low, high) ==
             CASE Dist(v, low) <= D -> low
               [] Dist(v, low) > D /\ Dist(v + len, high) <= D -> high - len
               [] OTHER -> v
           inRoom == Rect(Flush(r.x, r.w, room.x, room.x + room.w),
                          Flush(r.y, r.h, room.y, room.y + room.h), r.w, r.h)
           BesideX(s, c) == IF s.y < c.y + c.h /\ s.y + s.h > c.y
                            THEN [s EXCEPT !.x = Flush(s.x, s.w, c.x + c.w, c.x)] ELSE s
           BesideY(s, c) == IF s.x < c.x + c.w /\ s.x + s.w > c.x
                            THEN [s EXCEPT !.y = Flush(s.y, s.h, c.y + c.h, c.y)] ELSE s
           Pass(n, s) == IF n \in DOMAIN Cutouts THEN BesideY(BesideX(s, Cutouts[n]), Cutouts[n]) ELSE s
           past[n \in 0 .. L] == IF n = 0 THEN inRoom ELSE Pass(n, past[n - 1])
<1>1. snapToWalls(r) = clampInside(past[L])
  BY DEF snapToWalls, OverCutouts
<1> DEFINE S == Sized(w, h)
<1>2. /\ L \in Nat /\ IsBox(room) /\ \A n \in DOMAIN Cutouts : IsBox(Cutouts[n])
  BY Around
<1>3. \A v, len, low, high \in Int : Flush(v, len, low, high) \in Int
  <2> SUFFICES ASSUME NEW v \in Int, NEW len \in Int, NEW low \in Int, NEW high \in Int
               PROVE  Flush(v, len, low, high) \in Int
    OBVIOUS
  <2> DEFINE a == Dist(v, low)
             b == Dist(v + len, high)
  <2>1. a \in Nat /\ b \in Nat
    BY Distance
  <2> HIDE DEF a, b
  <2>2. (CASE a <= D -> low [] a > D /\ b <= D -> high - len [] OTHER -> v) \in Int
    BY <1>0, <2>1
  <2> QED BY <2>2 DEF a, b
<1> HIDE DEF Flush
<1>4. inRoom \in S
  <2>1. /\ room.x \in Int /\ room.x + room.w \in Int /\ room.y \in Int /\ room.y + room.h \in Int
    BY <1>2 DEF IsBox, OnPixels
  <2>2. /\ Flush(r.x, r.w, room.x, room.x + room.w) \in Int
        /\ Flush(r.y, r.h, room.y, room.y + room.h) \in Int
    <3> DEFINE a == r.x
               b == r.y
               p == room.x
               q == room.x + room.w
               t == room.y
               u == room.y + room.h
    <3>1. a \in Int /\ b \in Int /\ p \in Int /\ q \in Int /\ t \in Int /\ u \in Int
      BY <1>0, <2>1
    <3> HIDE DEF a, b, p, q, t, u
    <3>2. Flush(a, w, p, q) \in Int /\ Flush(b, h, t, u) \in Int
      BY <1>0, <1>3, <3>1
    <3> QED BY <3>2 DEF a, b, p, q, t, u
  <2> QED BY <1>0, <2>2 DEF Sized
<1>5. ASSUME NEW s \in S, NEW c, IsBox(c) PROVE BesideX(s, c) \in S /\ BesideY(s, c) \in S
  <2> DEFINE p == c.x + c.w
             q == c.y + c.h
             t == c.x
             u == c.y
             vx == Flush(s.x, s.w, p, t)
             vy == Flush(s.y, s.h, q, u)
  <2>1. p \in Int /\ q \in Int /\ t \in Int /\ u \in Int
    BY <1>5 DEF IsBox, OnPixels
  <2>2. s.x \in Int /\ s.y \in Int /\ s.w = w /\ s.h = h
    BY <1>0, SizedBox
  <2> HIDE DEF p, q, t, u
  <2>3. vx \in Int /\ vy \in Int
    <3> DEFINE a == s.x
               b == s.y
    <3>1. a \in Int /\ b \in Int
      BY <2>2
    <3> HIDE DEF a, b
    <3>2. Flush(a, w, p, t) \in Int /\ Flush(b, h, q, u) \in Int
      BY <1>0, <1>3, <2>1, <3>1
    <3> QED BY <2>2, <3>2 DEF a, b
  <2>4. BesideX(s, c) \in {s, [s EXCEPT !.x = vx]} /\ BesideY(s, c) \in {s, [s EXCEPT !.y = vy]}
    BY DEF p, q, t, u
  <2> HIDE DEF vx, vy, BesideX, BesideY
  <2>5. [s EXCEPT !.x = vx] \in S /\ [s EXCEPT !.y = vy] \in S
    BY <1>0, <2>3, FlushPlaced
  <2> HIDE DEF S
  <2> QED BY <2>4, <2>5
<1> HIDE DEF BesideX, BesideY
<1>6. \A n, s : s \in S => Pass(n, s) \in S
  BY <1>2, <1>5
<1> HIDE DEF Pass, inRoom, S, L
<1>7. past = [n \in 0 .. L |-> IF n = 0 THEN inRoom ELSE Pass(n, past[n - 1])]
  <2> DEFINE F == [p \in (1 .. L) \X S |-> Pass(p[1], p[2])]
  <2>1. F \in [(1 .. L) \X S -> S]
    BY <1>6
  <2>2. PICK g : Leads(g, F, L, S, inRoom)
    <3>1. IsStep(F, L, S)
      BY <2>1 DEF IsStep
    <3> HIDE DEF F
    <3> QED BY <1>2, <1>4, <3>1, StepsTaken
  <2>3. /\ g \in [0 .. L -> S] /\ g[0] = inRoom
        /\ \A n \in 1 .. L : g[n] = F[<<n, g[n - 1]>>]
    BY <2>2 DEF Leads
  <2>4. \A n \in 1 .. L : g[n - 1] \in S
    BY <1>2, <2>3
  <2>5. \A n \in 1 .. L : g[n] = Pass(n, g[n - 1])
    BY <2>3, <2>4
  <2>6. g = [n \in 0 .. L |-> IF n = 0 THEN inRoom ELSE Pass(n, g[n - 1])]
    BY <1>2, <2>3, <2>5
  <2> QED BY <2>6
<1> HIDE DEF past
<1>8. past[0] \in S /\ \A n \in 1 .. L : past[n - 1] \in S => past[n] \in S
  BY <1>2, <1>4, <1>6, <1>7
<1>9. past[L] \in S
  BY <1>2, <1>8, StepsKeep
<1> DEFINE box == past[L]
<1>10. box \in Sized(w, h)
  BY <1>9 DEF S
<1> HIDE DEF box
<1>11. clampInside(box) \in Kept(w, h)
  BY <1>0, <1>10, ClampedInside
<1> QED BY <1>1, <1>11 DEF box

\* A sum over some of the numbers from 1 to m, each between two bounds.
LEMMA SumBounds ==
    ASSUME NEW m \in Nat, NEW S \in SUBSET (1 .. m), NEW f, NEW lo \in Int, NEW hi \in Int,
           \A i \in S : f[i] \in Int /\ lo <= f[i] /\ f[i] <= hi
    PROVE  /\ SumTo(m, S, f) \in Int /\ Cardinality(S) \in Nat
           /\ lo * Cardinality(S) <= SumTo(m, S, f) /\ SumTo(m, S, f) <= hi * Cardinality(S)
<1> DEFINE Step(n, v) == IF n \in S THEN v + f[n] ELSE v
           up[n \in 0 .. m] == IF n = 0 THEN 0 ELSE IF n \in S THEN up[n - 1] + f[n] ELSE up[n - 1]
<1>1. SumTo(m, S, f) = up[m]
  BY DEF SumTo
<1>2. up = [n \in 0 .. m |-> IF n = 0 THEN 0 ELSE IF n \in S THEN up[n - 1] + f[n] ELSE up[n - 1]]
  <2> DEFINE F == [p \in (1 .. m) \X Int |-> Step(p[1], p[2])]
  <2>0. ASSUME NEW n, NEW v \in Int PROVE Step(n, v) \in Int
    <3>1. CASE n \in S
      <4>1. f[n] \in Int
        BY <3>1
      <4> QED BY <4>1
    <3>2. CASE n \notin S
      BY <3>2
    <3> QED BY <3>1, <3>2
  <2>1. F \in [(1 .. m) \X Int -> Int]
    <3> HIDE DEF Step
    <3> QED BY <2>0
  <2>2. PICK g : Leads(g, F, m, Int, 0)
    <3>1. IsStep(F, m, Int)
      BY <2>1 DEF IsStep
    <3> HIDE DEF F
    <3> QED BY <3>1, StepsTaken
  <2>3. /\ g \in [0 .. m -> Int] /\ g[0] = 0
        /\ \A n \in 1 .. m : g[n] = F[<<n, g[n - 1]>>]
    BY <2>2 DEF Leads
  <2>4. \A n \in 1 .. m : g[n - 1] \in Int
    BY <2>3
  <2>5. \A n \in 1 .. m : g[n] = Step(n, g[n - 1])
    <3> HIDE DEF Step
    <3> QED BY <2>3, <2>4
  <2>6. g = [n \in 0 .. m |-> IF n = 0 THEN 0 ELSE IF n \in S THEN g[n - 1] + f[n] ELSE g[n - 1]]
    BY <2>3, <2>5
  <2> QED BY <2>6
<1> HIDE DEF up
<1> DEFINE T(n) == S \cap (1 .. n)
           C == [n \in 0 .. m |-> Cardinality(T(n))]
           Bounded(p) == /\ lo * C[p[1]] <= p[2] /\ p[2] <= hi * C[p[1]]
           Set == {p \in (0 .. m) \X Int : Bounded(p)}
           g == [n \in 0 .. m |-> <<n, up[n]>>]
<1>3. \A n \in 0 .. m : IsFiniteSet(T(n)) /\ Cardinality(T(n)) \in Nat
  <2> SUFFICES ASSUME NEW n \in 0 .. m PROVE IsFiniteSet(T(n)) /\ Cardinality(T(n)) \in Nat
    OBVIOUS
  <2>1. IsFiniteSet(1 .. n) /\ T(n) \in SUBSET (1 .. n)
    BY FS_Interval
  <2> HIDE DEF T
  <2> QED BY <2>1, FS_Subset, FS_CardinalityType
<1>4. C[0] = 0
  <2>1. T(0) = {}
    OBVIOUS
  <2> QED BY <2>1, FS_EmptySet
<1>5. \A n \in 1 .. m : C[n] = IF n \in S THEN C[n - 1] + 1 ELSE C[n - 1]
  <2> SUFFICES ASSUME NEW n \in 1 .. m PROVE C[n] = IF n \in S THEN C[n - 1] + 1 ELSE C[n - 1]
    OBVIOUS
  <2>1. n - 1 \in 0 .. m /\ n \in 0 .. m /\ n \notin T(n - 1)
    OBVIOUS
  <2>2. T(n) = IF n \in S THEN T(n - 1) \cup {n} ELSE T(n - 1)
    OBVIOUS
  <2>3. IsFiniteSet(T(n - 1)) /\ Cardinality(T(n - 1)) \in Nat
    BY <1>3, <2>1
  <2> HIDE DEF T
  <2>4. Cardinality(T(n - 1) \cup {n}) = Cardinality(T(n - 1)) + 1
    BY <2>1, <2>3, FS_AddElement
  <2> QED BY <2>1, <2>2, <2>4
<1>6. \A n \in 0 .. m : C[n] \in Nat
  BY <1>3
<1>7. T(m) = S
  OBVIOUS
<1> HIDE DEF T, C
<1>8. g[0] \in Set
  <2>1. up[0] = 0
    BY <1>2
  <2> QED BY <1>4, <2>1
<1>9. \A n \in 1 .. m : g[n - 1] \in Set => g[n] \in Set
  <2> SUFFICES ASSUME NEW n \in 1 .. m, g[n - 1] \in Set PROVE g[n] \in Set
    OBVIOUS
  <2> DEFINE u == up[n - 1]
             k == C[n - 1]
  <2>1. n - 1 \in 0 .. m /\ n \in 0 .. m
    OBVIOUS
  <2>2. u \in Int /\ lo * k <= u /\ u <= hi * k /\ k \in Nat
    BY <1>6, <2>1
  <2>3. up[n] = (IF n \in S THEN u + f[n] ELSE u) /\ C[n] = (IF n \in S THEN k + 1 ELSE k)
    BY <1>2, <1>5, <2>1
  <2> HIDE DEF u, k
  <2>4. lo * (k + 1) = lo * k + lo /\ hi * (k + 1) = hi * k + hi
    BY <2>2
  <2>5. lo * k \in Int /\ hi * k \in Int
    BY <2>2
  <2>6. up[n] \in Int /\ lo * C[n] <= up[n] /\ up[n] <= hi * C[n]
    <3> DEFINE p == lo * k
               q == hi * k
    <3>1. CASE n \in S
      <4>1. f[n] \in Int /\ lo <= f[n] /\ f[n] <= hi
        BY <3>1
      <4>2. up[n] = u + f[n] /\ lo * C[n] = p + lo /\ hi * C[n] = q + hi
        BY <2>3, <2>4, <3>1
      <4>3. p \in Int /\ q \in Int /\ p <= u /\ u <= q
        BY <2>2, <2>5
      <4> HIDE DEF p, q
      <4> QED BY <2>2, <4>1, <4>2, <4>3
    <3>2. CASE n \notin S
      BY <2>2, <2>3, <3>2
    <3> QED BY <3>1, <3>2
  <2> QED BY <2>1, <2>6
<1>10. g[m] \in Set
  <2> HIDE DEF g, Set
  <2>1. \A n \in 0 .. m : g[n] \in Set
    BY <1>8, <1>9, StepsKeep
  <2> QED BY <2>1
<1>11. C[m] = Cardinality(S)
  BY <1>7 DEF C
<1> QED BY <1>1, <1>6, <1>10, <1>11

\* An average is between the bounds.
LEMMA Average ==
    ASSUME NEW n \in Nat, n > 0, NEW s \in Int, NEW lo \in Int, NEW hi \in Int,
           lo * n <= s, s <= hi * n
    PROVE  s \div n \in Int /\ lo <= s \div n /\ s \div n <= hi
<1> DEFINE q == s \div n
<1>1. q \in Int /\ n * q <= s /\ s < n * q + n
  OBVIOUS
<1> HIDE DEF q
<1>2. lo <= q
  <2> SUFFICES ASSUME q + 1 <= lo PROVE FALSE
    BY <1>1
  <2>1. n * (q + 1) <= n * lo
    BY <1>1
  <2>2. n * (q + 1) = n * q + n
    BY <1>1
  <2> QED BY <1>1, <2>1, <2>2
<1>3. q <= hi
  <2> SUFFICES ASSUME hi + 1 <= q PROVE FALSE
    BY <1>1
  <2>1. n * (hi + 1) <= n * q
    BY <1>1
  <2>2. n * (hi + 1) = n * hi + n
    OBVIOUS
  <2> QED BY <1>1, <2>1, <2>2
<1> QED BY <1>1, <1>2, <1>3 DEF q

\* Of finitely many numbers one is last by the first of two measures, then by the second,
\* then by the number.
LEMMA LastInOrder ==
    ASSUME NEW T \in SUBSET Int, IsFiniteSet(T), T # {}, NEW f \in [T -> Int], NEW g \in [T -> Int]
    PROVE  \E i \in T : \A j \in T \ {i} :
              f[j] < f[i] \/ (f[j] = f[i] /\ (g[j] < g[i] \/ (g[j] = g[i] /\ j < i)))
<1>1. ASSUME NEW U \in SUBSET T, U # {}, NEW e \in [T -> Int]
      PROVE  \E i \in U : \A j \in U : e[j] <= e[i]
  <2> DEFINE R == {e[i] : i \in U}
             k == [i \in U |-> e[i]]
  <2>1. IsFiniteSet(U)
    BY <1>1, FS_Subset
  <2>2. k \in Surjection(U, R)
    <3>1. k \in [U -> R] /\ \A r \in R : \E i \in U : k[i] = r
      OBVIOUS
    <3> HIDE DEF k, R
    <3> QED BY <3>1 DEF Surjection
  <2>3. R \in SUBSET Int /\ R # {}
    BY <1>1
  <2>4. \A i \in U : e[i] \in R
    OBVIOUS
  <2>5. \A r \in R : \E i \in U : e[i] = r
    OBVIOUS
  <2> HIDE DEF R, k
  <2>6. IsFiniteSet(R)
    BY <2>1, <2>2, FS_Surjection
  <2>7. Max(R) \in R /\ \A x \in R : x <= Max(R)
    BY <2>3, <2>6, FiniteEnds
  <2> QED BY <2>4, <2>5, <2>7
<1>2. PICK a \in T : \A j \in T : f[j] <= f[a]
  BY <1>1
<1> DEFINE A == {i \in T : f[i] = f[a]}
<1>3. PICK b \in A : \A j \in A : g[j] <= g[b]
  <2>1. A \in SUBSET T /\ A # {}
    OBVIOUS
  <2> HIDE DEF A
  <2> QED BY <1>1, <2>1
<1> DEFINE B == {i \in A : g[i] = g[b]}
           idle == [i \in T |-> i]
<1>4. PICK c \in B : \A j \in B : j <= c
  <2>1. B \in SUBSET T /\ B # {} /\ idle \in [T -> Int]
    OBVIOUS
  <2>2. \A i \in B : idle[i] = i
    OBVIOUS
  <2> HIDE DEF B, idle
  <2>3. PICK d \in B : \A j \in B : idle[j] <= idle[d]
    BY <1>1, <2>1
  <2> QED BY <2>2, <2>3
<1>5. c \in T /\ f[c] = f[a] /\ g[c] = g[b] /\ \A i \in T : f[i] \in Int /\ g[i] \in Int /\ i \in Int
  OBVIOUS
<1>6. ASSUME NEW j \in T \ {c}
      PROVE  f[j] < f[c] \/ (f[j] = f[c] /\ (g[j] < g[c] \/ (g[j] = g[c] /\ j < c)))
  <2>1. f[j] <= f[a] /\ (j \in A => g[j] <= g[b]) /\ (j \in B => j <= c)
    BY <1>2, <1>3, <1>4
  <2>2. f[j] = f[a] => j \in A
    OBVIOUS
  <2>3. j \in A /\ g[j] = g[b] => j \in B
    OBVIOUS
  <2> HIDE DEF A, B
  <2> QED BY <1>5, <2>1, <2>2, <2>3
<1> QED BY <1>5, <1>6

\* Finitely many pairs of numbers are finitely many numbers.
LEMMA PairsOfNumbers ==
    ASSUME NEW T, IsFiniteSet(T), NEW f, NEW g, \A t \in T : f[t] \in Int /\ g[t] \in Int
    PROVE  /\ IsFiniteSet(UNION {{f[t], g[t]} : t \in T})
           /\ UNION {{f[t], g[t]} : t \in T} \subseteq Int
<1> DEFINE P == [t \in T |-> {f[t], g[t]}]
           E == UNION {{f[t], g[t]} : t \in T}
<1>1. \A t \in T : IsFiniteSet(P[t])
  <2> SUFFICES ASSUME NEW t \in T PROVE IsFiniteSet({f[t], g[t]})
    OBVIOUS
  <2>1. IsFiniteSet({f[t]}) /\ IsFiniteSet({g[t]})
    BY FS_Singleton
  <2>2. {f[t], g[t]} = {f[t]} \cup {g[t]}
    OBVIOUS
  <2> QED BY <2>1, <2>2, FS_Union
<1>2. E = UNION {P[t] : t \in T}
  OBVIOUS
<1>3. DOMAIN P = T /\ P = [t \in T |-> P[t]]
  OBVIOUS
<1>4. E \subseteq Int
  BY DEF E
<1> HIDE DEF P, E
<1>5. IsFiniteSet(E)
  BY <1>1, <1>2, <1>3, FiniteTogether
<1> QED BY <1>4, <1>5 DEF E

\* Two numbers are a finite set of them.
LEMMA TwoNumbersFinite ==
    ASSUME NEW a \in Int, NEW b \in Int
    PROVE  IsFiniteSet({a, b}) /\ {a, b} \subseteq Int
<1>1. IsFiniteSet({a}) /\ IsFiniteSet({b})
  BY FS_Singleton
<1> DEFINE A == {a}
           B == {b}
<1>2. {a, b} = A \cup B
  OBVIOUS
<1> HIDE DEF A, B
<1>3. IsFiniteSet(A \cup B)
  BY <1>1, FS_Union DEF A, B
<1>4. IsFiniteSet({a, b})
  BY <1>2, <1>3
<1> QED BY <1>4

\* The faces of walls are numbers within the room.
LEMMA VerticalFaces ==
    ASSUME TidyInv, TypeOK, NEW top, NEW bottom
    PROVE  LET faces == verticalFaces(top, bottom)
           IN  /\ IsFiniteSet(faces) /\ faces \subseteq Int
               /\ \A v \in faces : room.x <= v /\ v <= room.x + room.w
               /\ room.x \in faces /\ room.x + room.w \in faces
<1> DEFINE faces == verticalFaces(top, bottom)
           f == [n \in DOMAIN Cutouts |-> Cutouts[n].x]
           g == [n \in DOMAIN Cutouts |-> Cutouts[n].x + Cutouts[n].w]
           all == {room.x, room.x + room.w} \cup (UNION {{f[n], g[n]} : n \in DOMAIN Cutouts})
<1>1. /\ IsFiniteSet(DOMAIN Cutouts) /\ IsBox(room) /\ HasSize(room.w, room.h)
      /\ \A n \in DOMAIN Cutouts : /\ IsBox(Cutouts[n]) /\ Inside(Cutouts[n], room)
                                   /\ HasSize(Cutouts[n].w, Cutouts[n].h)
  BY LayoutCutouts DEF TypeOK
<1>2. room.x \in Int /\ room.w \in Int /\ room.w > 0
  BY <1>1 DEF IsBox, OnPixels, HasSize
<1>3. ASSUME NEW n \in DOMAIN Cutouts
      PROVE  /\ f[n] \in Int /\ g[n] \in Int
             /\ room.x <= f[n] /\ f[n] <= g[n] /\ g[n] <= room.x + room.w
  <2>1. f[n] = Cutouts[n].x /\ g[n] = Cutouts[n].x + Cutouts[n].w
    OBVIOUS
  <2>2. Cutouts[n].x \in Int /\ Cutouts[n].w \in Int /\ Cutouts[n].w > 0
    BY <1>1 DEF IsBox, OnPixels, HasSize
  <2>3. room.x <= Cutouts[n].x /\ Cutouts[n].x + Cutouts[n].w <= room.x + room.w
    BY <1>1 DEF Inside
  <2> HIDE DEF f, g
  <2> QED BY <1>2, <2>1, <2>2, <2>3
<1>4. faces \subseteq all /\ room.x \in faces /\ room.x + room.w \in faces
  BY DEF verticalFaces, Range
<1> HIDE DEF f, g, faces
<1>5. /\ IsFiniteSet(UNION {{f[n], g[n]} : n \in DOMAIN Cutouts})
      /\ UNION {{f[n], g[n]} : n \in DOMAIN Cutouts} \subseteq Int
  BY <1>1, <1>3, PairsOfNumbers
<1>6. IsFiniteSet({room.x, room.x + room.w}) /\ {room.x, room.x + room.w} \subseteq Int
  <2> DEFINE near == room.x
             far == room.x + room.w
  <2>1. near \in Int /\ far \in Int
    BY <1>2
  <2> HIDE DEF near, far
  <2>2. IsFiniteSet({near, far}) /\ {near, far} \subseteq Int
    BY <2>1, TwoNumbersFinite
  <2> QED BY <2>2 DEF near, far
<1>7. \A v \in all : room.x <= v /\ v <= room.x + room.w
  BY <1>2, <1>3
<1>8. IsFiniteSet(all) /\ all \subseteq Int
  BY <1>5, <1>6, FS_Union
<1> HIDE DEF all
<1>9. IsFiniteSet(faces)
  BY <1>4, <1>8, FS_Subset
<1> QED BY <1>4, <1>7, <1>8, <1>9 DEF faces

\* The walls and cutouts above and below a span: finitely many, in the room.
LEMMA HorizontalFaces ==
    ASSUME TidyInv, TypeOK, NEW from, NEW upto
    PROVE  LET faces == horizontalFaces(from, upto)
           IN  /\ IsFiniteSet(faces) /\ faces \subseteq Int
               /\ \A v \in faces : room.y <= v /\ v <= room.y + room.h
               /\ room.y \in faces /\ room.y + room.h \in faces
<1> DEFINE faces == horizontalFaces(from, upto)
           f == [n \in DOMAIN Cutouts |-> Cutouts[n].y]
           g == [n \in DOMAIN Cutouts |-> Cutouts[n].y + Cutouts[n].h]
           all == {room.y, room.y + room.h} \cup (UNION {{f[n], g[n]} : n \in DOMAIN Cutouts})
<1>1. /\ IsFiniteSet(DOMAIN Cutouts) /\ IsBox(room) /\ HasSize(room.w, room.h)
      /\ \A n \in DOMAIN Cutouts : /\ IsBox(Cutouts[n]) /\ Inside(Cutouts[n], room)
                                   /\ HasSize(Cutouts[n].w, Cutouts[n].h)
  BY LayoutCutouts DEF TypeOK
<1>2. room.y \in Int /\ room.h \in Int /\ room.h > 0
  BY <1>1 DEF IsBox, OnPixels, HasSize
<1>3. ASSUME NEW n \in DOMAIN Cutouts
      PROVE  /\ f[n] \in Int /\ g[n] \in Int
             /\ room.y <= f[n] /\ f[n] <= g[n] /\ g[n] <= room.y + room.h
  <2>1. f[n] = Cutouts[n].y /\ g[n] = Cutouts[n].y + Cutouts[n].h
    OBVIOUS
  <2>2. Cutouts[n].y \in Int /\ Cutouts[n].h \in Int /\ Cutouts[n].h > 0
    BY <1>1 DEF IsBox, OnPixels, HasSize
  <2>3. room.y <= Cutouts[n].y /\ Cutouts[n].y + Cutouts[n].h <= room.y + room.h
    BY <1>1 DEF Inside
  <2> HIDE DEF f, g
  <2> QED BY <1>2, <2>1, <2>2, <2>3
<1>4. faces \subseteq all /\ room.y \in faces /\ room.y + room.h \in faces
  BY DEF horizontalFaces, Range
<1> HIDE DEF f, g, faces
<1>5. /\ IsFiniteSet(UNION {{f[n], g[n]} : n \in DOMAIN Cutouts})
      /\ UNION {{f[n], g[n]} : n \in DOMAIN Cutouts} \subseteq Int
  BY <1>1, <1>3, PairsOfNumbers
<1>6. IsFiniteSet({room.y, room.y + room.h}) /\ {room.y, room.y + room.h} \subseteq Int
  <2> DEFINE near == room.y
             far == room.y + room.h
  <2>1. near \in Int /\ far \in Int
    BY <1>2
  <2> HIDE DEF near, far
  <2>2. IsFiniteSet({near, far}) /\ {near, far} \subseteq Int
    BY <2>1, TwoNumbersFinite
  <2> QED BY <2>2 DEF near, far
<1>7. \A v \in all : room.y <= v /\ v <= room.y + room.h
  BY <1>2, <1>3
<1>8. IsFiniteSet(all) /\ all \subseteq Int
  BY <1>5, <1>6, FS_Union
<1> HIDE DEF all
<1>9. IsFiniteSet(faces)
  BY <1>4, <1>8, FS_Subset
<1> QED BY <1>4, <1>7, <1>8, <1>9 DEF faces

\* The wall before a place and the wall after it, of those between two numbers.
LEMMA NearestWalls ==
    ASSUME NEW faces, IsFiniteSet(faces), faces \subseteq Int, NEW lo \in Int, NEW hi \in Int, lo <= hi,
           \A v \in faces : lo <= v /\ v <= hi, NEW v \in Int
    PROVE  /\ nearestBelowOrEqual(faces, v, lo) \in Int
           /\ lo <= nearestBelowOrEqual(faces, v, lo) /\ nearestBelowOrEqual(faces, v, lo) <= hi
           /\ nearestAboveOrEqual(faces, v, hi) \in Int
           /\ lo <= nearestAboveOrEqual(faces, v, hi) /\ nearestAboveOrEqual(faces, v, hi) <= hi
<1> DEFINE below == {f \in faces : f <= v}
           above == {f \in faces : f >= v}
<1>1. /\ nearestBelowOrEqual(faces, v, lo) = IF below = {} THEN lo ELSE Max(below)
      /\ nearestAboveOrEqual(faces, v, hi) = IF above = {} THEN hi ELSE Min(above)
  BY DEF nearestBelowOrEqual, nearestAboveOrEqual
<1>2. /\ below \in SUBSET Int /\ IsFiniteSet(below) /\ above \in SUBSET Int /\ IsFiniteSet(above)
      /\ below \subseteq faces /\ above \subseteq faces
  BY FS_Subset
<1> HIDE DEF below, above
<1>3. below # {} => Max(below) \in faces
  BY <1>2, FiniteEnds
<1>4. above # {} => Min(above) \in faces
  BY <1>2, FiniteEnds
<1> DEFINE a == nearestBelowOrEqual(faces, v, lo)
           b == nearestAboveOrEqual(faces, v, hi)
<1>5. a = lo \/ a \in faces
  BY <1>1, <1>3
<1>6. b = hi \/ b \in faces
  BY <1>1, <1>4
<1> HIDE DEF a, b
<1>6a. \A e \in faces : e \in Int /\ lo <= e /\ e <= hi
  OBVIOUS
<1>7. a \in Int /\ lo <= a /\ a <= hi
  <2>1. CASE a = lo
    BY <2>1
  <2>2. CASE a \in faces
    BY <1>6a, <2>2
  <2> QED BY <1>5, <2>1, <2>2
<1>8. b \in Int /\ lo <= b /\ b <= hi
  <2>1. CASE b = hi
    BY <2>1
  <2>2. CASE b \in faces
    BY <1>6a, <2>2
  <2> QED BY <1>6, <2>1, <2>2
<1> QED BY <1>7, <1>8 DEF a, b

\* A run between two walls: where it starts, and a length that is no more than the walls
\* are apart, or the standard one, or the least.
LEMMA FitRun ==
    ASSUME NEW n \in Nat, n > 0, NEW std \in Int, std > 0, NEW lowWall \in Int, NEW highWall \in Int,
           NEW lowEdge \in Int, NEW highEdge \in Int
    PROVE  LET fit == fitRun(n, std, lowWall, highWall, lowEdge, highEdge)
           IN  /\ fit.start \in Int /\ fit.each \in Int /\ fit.each > 0
               /\ fit.each <= std \/ fit.each <= MIN_OBJECT_SIZE \/ fit.each <= highWall - lowWall
<1> DEFINE fit == fitRun(n, std, lowWall, highWall, lowEdge, highEdge)
           span == highWall - lowWall
           each == span \div n
           p == Max({MIN_OBJECT_SIZE, each})
           Reach(gap) == 0 <= gap /\ gap < GRID_CELL
           last == CASE lowEdge - lowWall <= SNAP_WALL_DIST -> lowWall
                     [] /\ lowEdge - lowWall > SNAP_WALL_DIST
                        /\ highWall - highEdge <= SNAP_WALL_DIST -> highWall - n * std
                     [] OTHER -> lowEdge
           close == Reach(lowEdge - lowWall) /\ Reach(highWall - highEdge)
<1>1. fit = CASE span <= n * std -> [start |-> lowWall, each |-> p]
              [] span > n * std /\ close -> [start |-> lowWall, each |-> each]
              [] OTHER -> [start |-> last, each |-> std]
  BY DEF fitRun
<1>2. MIN_OBJECT_SIZE \in Int /\ MIN_OBJECT_SIZE > 0 /\ SNAP_WALL_DIST \in Int
  BY GeometryAssumption, TidyAssumption
<1>3. span \in Int /\ n * std \in Int
  OBVIOUS
<1>4. last \in Int
  BY <1>2, <1>3
<1>5. each \in Int /\ n * each <= span /\ span < n * each + n
  BY <1>3
<1>6. p \in Int /\ p = (IF MIN_OBJECT_SIZE >= each THEN MIN_OBJECT_SIZE ELSE each)
  BY <1>2, <1>5, TwoNumbers
<1> HIDE DEF close, last, p, each
<1>7. span > n * std => each >= std
  <2> SUFFICES ASSUME span > n * std, each + 1 <= std PROVE FALSE
    BY <1>5
  <2> HIDE DEF span
  <2>1. n * (each + 1) <= n * std
    BY <1>5
  <2>2. n * (each + 1) = n * each + n
    BY <1>5
  <2> QED BY <1>3, <1>5, <2>1, <2>2
<1>8. each > 0 => each <= span
  <2> HIDE DEF span
  <2>1. each > 0 => each <= n * each
    BY <1>5
  <2> QED BY <1>3, <1>5, <2>1
<1> HIDE DEF span
<1>9. CASE span <= n * std
  <2>1. fit.start = lowWall /\ fit.each = p
    BY <1>1, <1>3, <1>9
  <2> HIDE DEF fit
  <2>2. fit.each \in Int /\ fit.each > 0 /\ (fit.each <= MIN_OBJECT_SIZE \/ fit.each <= span)
    BY <1>2, <1>3, <1>5, <1>6, <1>8, <2>1
  <2> QED BY <2>1, <2>2 DEF fit, span
<1>10. CASE span > n * std /\ close
  <2>1. fit.start = lowWall /\ fit.each = each
    BY <1>1, <1>3, <1>10
  <2> HIDE DEF fit
  <2>2. fit.each \in Int /\ fit.each > 0 /\ fit.each <= span
    BY <1>3, <1>5, <1>7, <1>8, <1>10, <2>1
  <2> QED BY <2>1, <2>2 DEF fit, span
<1>11. CASE ~(span <= n * std) /\ ~close
  <2>1. fit.start = last /\ fit.each = std
    BY <1>1, <1>3, <1>11
  <2> QED BY <1>4, <2>1 DEF fit
<1> QED BY <1>3, <1>9, <1>10, <1>11

\* The cross position of a run is a number.
LEMMA CrossNumber ==
    ASSUME NEW faces, IsFiniteSet(faces), faces \subseteq Int, NEW lo \in Int, NEW hi \in Int, lo <= hi,
           \A v \in faces : lo <= v /\ v <= hi, NEW at \in Int, NEW len \in Int
    PROVE  CrossFlush(at, len, faces, lo, hi) \in Int
<1> DEFINE e == at + len
           a == nearestBelowOrEqual(faces, at, lo)
           b == nearestAboveOrEqual(faces, e, hi)
<1>1. e \in Int /\ SNAP_WALL_DIST \in Int
  BY TidyAssumption
<1>2. CrossFlush(at, len, faces, lo, hi) =
        CASE at - a <= SNAP_WALL_DIST -> a
          [] at - a > SNAP_WALL_DIST /\ b - e <= SNAP_WALL_DIST -> b - len
          [] OTHER -> at
  BY DEF CrossFlush
<1>3. a \in Int
  BY NearestWalls
<1>4. b \in Int
  <2> HIDE DEF e
  <2> QED BY <1>1, NearestWalls
<1> HIDE DEF a, b
<1> QED BY <1>1, <1>2, <1>3, <1>4

\* The values of a function on a finite set.
LEMMA ValuesFinite ==
    ASSUME NEW T, IsFiniteSet(T), NEW f
    PROVE  IsFiniteSet({f[i] : i \in T})
<1> DEFINE k == [i \in T |-> f[i]]
           R == {f[i] : i \in T}
<1>1. k \in [T -> R] /\ \A r \in R : \E i \in T : k[i] = r
  OBVIOUS
<1> HIDE DEF k
<1>2. IsFiniteSet(R)
  <2> HIDE DEF R
  <2>1. k \in Surjection(T, R)
    BY <1>1 DEF Surjection
  <2> QED BY <2>1, FS_Surjection
<1> QED BY <1>2

\* The least and the greatest number a function takes.
LEMMA LeastValue ==
    ASSUME NEW T, IsFiniteSet(T), T # {}, NEW f, \A i \in T : f[i] \in Int
    PROVE  LET S == {f[i] : i \in T}
           IN  /\ Min(S) \in Int /\ Max(S) \in Int
               /\ \A i \in T : Min(S) <= f[i] /\ f[i] <= Max(S)
<1> DEFINE S == {f[i] : i \in T}
<1>1. IsFiniteSet(S)
  BY ValuesFinite
<1>2. S \in SUBSET Int /\ S # {} /\ \A i \in T : f[i] \in S
  OBVIOUS
<1> HIDE DEF S
<1>3. Max(S) \in S /\ (\A x \in S : x <= Max(S)) /\ Min(S) \in S /\ \A x \in S : Min(S) <= x
  BY <1>1, <1>2, FiniteEnds
<1>4. /\ Min(S) \in Int /\ Max(S) \in Int
      /\ \A i \in T : Min(S) <= f[i] /\ f[i] <= Max(S)
  BY <1>2, <1>3
<1> QED BY <1>4 DEF S

\* Some of the numbers from 1 to m are finitely many.
LEMMA NumbersFinite ==
    ASSUME NEW m \in Nat, NEW S \in SUBSET (1 .. m)
    PROVE  IsFiniteSet(S)
<1> DEFINE T == 1 .. m
<1>1. IsFiniteSet(T)
  BY FS_Interval
<1>2. S \in SUBSET T
  OBVIOUS
<1> HIDE DEF T
<1> QED BY <1>1, <1>2, FS_Subset

\* The sum of numbers is one.
LEMMA SumNumber ==
    ASSUME NEW m \in Nat, NEW S \in SUBSET (1 .. m), S # {}, NEW f, \A i \in S : f[i] \in Int
    PROVE  SumTo(m, S, f) \in Int
<1>1. IsFiniteSet(S)
  BY NumbersFinite
<1>2. PICK lo \in Int, hi \in Int : \A i \in S : lo <= f[i] /\ f[i] <= hi
  BY <1>1, LeastValue
<1> QED BY <1>2, SumBounds

\* A group of desks: numbers of footprints of some size, none above these bounds.
Group(c, W, H) ==
    /\ Len(rects) \in Nat /\ c \in SUBSET (1 .. Len(rects)) /\ c # {}
    /\ W \in Int /\ H \in Int
    /\ \A i \in c : /\ rects[i].x \in Int /\ rects[i].y \in Int
                    /\ rects[i].w \in Int /\ rects[i].h \in Int
                    /\ 1 <= rects[i].w /\ rects[i].w <= W
                    /\ 1 <= rects[i].h /\ rects[i].h <= H

\* A length of no more than the bound, unless it is the least or the room allows it.
Length(l, bound, across) == /\ l \in Int /\ l > 0
                            /\ l <= bound \/ l <= MIN_OBJECT_SIZE \/ l <= across

\* A box of such a size, in the room if it fits.
Fitted(b, W, H) ==
    \E w, h \in Int : Length(w, W, room.w) /\ Length(h, H, room.h) /\ b \in Kept(w, h)

\* A group has finitely many desks, and at least one.
LEMMA GroupFinite ==
    ASSUME NEW c, NEW W, NEW H, Group(c, W, H)
    PROVE  IsFiniteSet(c) /\ Cardinality(c) \in Nat /\ Cardinality(c) > 0
<1>1. IsFiniteSet(c)
  BY NumbersFinite DEF Group
<1>2. Cardinality(c) \in Nat /\ Cardinality(c) # 0
  BY <1>1, FS_CardinalityType, FS_EmptySet DEF Group
<1> QED BY <1>1, <1>2

\* The standard size of a group is between its desks' sizes.
LEMMA StandardSized ==
    ASSUME NEW c, NEW W, NEW H, Group(c, W, H)
    PROVE  LET std == standardSize(rects, c)
           IN  /\ std.w \in Int /\ 1 <= std.w /\ std.w <= W
               /\ std.h \in Int /\ 1 <= std.h /\ std.h <= H
<1> DEFINE m == Len(rects)
           n == Cardinality(c)
           f == [i \in c |-> rects[i].w]
           g == [i \in c |-> rects[i].h]
           a == SumTo(m, c, f)
           b == SumTo(m, c, g)
<1>1. n \in Nat /\ n > 0
  BY GroupFinite
<1>2. m \in Nat /\ c \in SUBSET (1 .. m) /\ W \in Int /\ H \in Int
  BY DEF Group
<1>3. \A i \in c : f[i] \in Int /\ 1 <= f[i] /\ f[i] <= W
  BY DEF Group
<1>4. \A i \in c : g[i] \in Int /\ 1 <= g[i] /\ g[i] <= H
  BY DEF Group
<1> HIDE DEF m, f, g
<1>5. a \in Int /\ 1 * n <= a /\ a <= W * n
  <2> DEFINE lo == 1
  <2>1. lo \in Int /\ \A i \in c : f[i] \in Int /\ lo <= f[i] /\ f[i] <= W
    BY <1>3
  <2> HIDE DEF lo
  <2>2. a \in Int /\ lo * Cardinality(c) <= a /\ a <= W * Cardinality(c)
    BY <1>2, <2>1, SumBounds
  <2> QED BY <2>2 DEF lo
<1>6. b \in Int /\ 1 * n <= b /\ b <= H * n
  <2> DEFINE lo == 1
  <2>1. lo \in Int /\ \A i \in c : g[i] \in Int /\ lo <= g[i] /\ g[i] <= H
    BY <1>4
  <2> HIDE DEF lo
  <2>2. b \in Int /\ lo * Cardinality(c) <= b /\ b <= H * Cardinality(c)
    BY <1>2, <2>1, SumBounds
  <2> QED BY <2>2 DEF lo
<1> HIDE DEF a, b, n
<1>7. a \div n \in Int /\ 1 <= a \div n /\ a \div n <= W
  BY <1>1, <1>2, <1>5, Average
<1>8. b \div n \in Int /\ 1 <= b \div n /\ b \div n <= H
  BY <1>1, <1>2, <1>6, Average
<1>9. standardSize(rects, c) = [w |-> a \div n, h |-> b \div n]
  BY DEF standardSize, SumOver, a, b, n, m, f, g
<1> QED BY <1>7, <1>8, <1>9

\* A desk of such a size is kept in the room.
LEMMA BoxFitted ==
    ASSUME TidyInv, TypeOK, NEW W, NEW H, NEW x \in Int, NEW y \in Int, NEW w, NEW h,
           Length(w, W, room.w), Length(h, H, room.h)
    PROVE  Fitted(clampInside(Rect(x, y, w, h)), W, H)
<1>1. w \in Int /\ h \in Int
  BY DEF Length
<1>2. Rect(x, y, w, h) \in Sized(w, h)
  BY <1>1 DEF Sized
<1>3. clampInside(Rect(x, y, w, h)) \in Kept(w, h)
  BY <1>1, <1>2, ClampedInside
<1> QED BY <1>1, <1>3 DEF Fitted

\* A place in a row is a number.
LEMMA PlaceNumber ==
    ASSUME NEW c, IsFiniteSet(c), NEW S, S \subseteq c
    PROVE  Cardinality(S) \in Nat /\ Cardinality(S) <= Cardinality(c)
BY FS_Subset, FS_CardinalityType

(***************************************************************************)
(* Rows, columns and grids                                                 *)
(***************************************************************************)
\* The last desk of a row, and of a column, is one of them.
LEMMA LastOfRow ==
    ASSUME NEW c, NEW W, NEW H, Group(c, W, H)
    PROVE  /\ \E i \in c : \A j \in c \ {i} : leftToRight(rects, j, i)
           /\ \E i \in c : \A j \in c \ {i} : topToBottom(rects, j, i)
<1> DEFINE f == [i \in c |-> rects[i].x]
           g == [i \in c |-> 2 * rects[i].y + rects[i].h]
           e == [i \in c |-> rects[i].y]
           z == [i \in c |-> 0]
<1>1. IsFiniteSet(c) /\ c # {} /\ c \in SUBSET Int
  <2>1. IsFiniteSet(c)
    BY GroupFinite
  <2>2. c # {} /\ c \in SUBSET Int
    BY DEF Group
  <2> QED BY <2>1, <2>2
<1>2. f \in [c -> Int] /\ g \in [c -> Int] /\ e \in [c -> Int] /\ z \in [c -> Int]
  BY DEF Group
<1>3. \A i \in c : f[i] = rects[i].x /\ g[i] = 2 * rects[i].y + rects[i].h
                   /\ e[i] = rects[i].y /\ z[i] = 0
  OBVIOUS
<1> HIDE DEF f, g, e, z
<1>4. PICK i \in c : \A j \in c \ {i} :
         f[j] < f[i] \/ (f[j] = f[i] /\ (g[j] < g[i] \/ (g[j] = g[i] /\ j < i)))
  BY <1>1, <1>2, LastInOrder
<1>5. PICK k \in c : \A j \in c \ {k} :
         e[j] < e[k] \/ (e[j] = e[k] /\ (z[j] < z[k] \/ (z[j] = z[k] /\ j < k)))
  BY <1>1, <1>2, LastInOrder
<1>6. \A j \in c \ {i} : leftToRight(rects, j, i)
  BY <1>3, <1>4 DEF leftToRight, byCentre
<1>7. \A j \in c \ {k} : topToBottom(rects, j, k)
  BY <1>3, <1>5 DEF topToBottom
<1> QED BY <1>6, <1>7

\* The middle of a run, from the centres of its desks, is a number.
LEMMA MiddleNumber ==
    ASSUME NEW c, NEW W, NEW H, Group(c, W, H), NEW f, \A i \in c : f[i] \in Int, NEW len \in Int
    PROVE  (SumOver(rects, c, f) - Cardinality(c) * len) \div (2 * Cardinality(c)) \in Int
<1> DEFINE n == Cardinality(c)
           s == SumOver(rects, c, f)
           p == n * len
<1>1. n \in Nat /\ n > 0
  BY GroupFinite
<1>2. s \in Int
  BY SumNumber DEF Group, SumOver
<1> HIDE DEF n, s
<1>3. p \in Int
  BY <1>1
<1> HIDE DEF p
<1>4. (s - p) \div (2 * n) \in Int
  BY <1>1, <1>2, <1>3
<1> QED BY <1>4 DEF n, s, p

\* A row of desks is placed in boxes of one size, kept in the room.
LEMMA RowFitted ==
    ASSUME TidyInv, TypeOK, NEW row, NEW W, NEW H, Group(row, W, H), NEW std,
           std.w \in Int, 1 <= std.w, std.w <= W, std.h \in Int, 1 <= std.h, std.h <= H
    PROVE  \A i \in row : Fitted(normalizeRow(rects, row, std)[i], W, H)
<1> DEFINE n == Cardinality(row)
           place == [i \in row |-> Cardinality({j \in row : leftToRight(rects, j, i)})]
           last == CHOOSE i \in row : \A j \in row \ {i} : leftToRight(rects, j, i)
           cross == (SumOver(rects, row, [i \in row |-> 2 * rects[i].y + rects[i].h]) - n * std.h)
                    \div (2 * n)
           minX == Min({rects[i].x : i \in row})
           maxX == rects[last].x + rects[last].w
           faces == verticalFaces(cross, cross + std.h)
           fit == fitRun(n, std.w, nearestBelowOrEqual(faces, minX, room.x),
                         nearestAboveOrEqual(faces, maxX, room.x + room.w), minX, maxX)
           top == CrossFlush(cross, std.h,
                             horizontalFaces(fit.start, fit.start + fit.each * n),
                             room.y, room.y + room.h)
<1>1. normalizeRow(rects, row, std) =
        [i \in row |-> clampInside(Rect(fit.start + place[i] * fit.each, top, fit.each, std.h))]
  BY DEF normalizeRow
<1>2. \A i \in row : place[i] \in Nat
  <2> SUFFICES ASSUME NEW i \in row PROVE Cardinality({j \in row : leftToRight(rects, j, i)}) \in Nat
    OBVIOUS
  <2> DEFINE S == {j \in row : leftToRight(rects, j, i)}
  <2>1. S \subseteq row
    OBVIOUS
  <2> HIDE DEF S
  <2>2. Cardinality(S) \in Nat
    BY <2>1, GroupFinite, PlaceNumber
  <2> QED BY <2>2 DEF S
<1>3. last \in row
  BY LastOfRow
<1>4. cross \in Int
  <2> DEFINE f == [i \in row |-> 2 * rects[i].y + rects[i].h]
  <2>1. \A i \in row : f[i] \in Int
    BY DEF Group
  <2> HIDE DEF f
  <2>2. (SumOver(rects, row, f) - Cardinality(row) * std.h) \div (2 * Cardinality(row)) \in Int
    BY <2>1, MiddleNumber
  <2> QED BY <2>2 DEF f
<1>5. minX \in Int
  <2> DEFINE f == [i \in row |-> rects[i].x]
             S == {f[i] : i \in row}
  <2>1. \A i \in row : f[i] \in Int /\ f[i] = rects[i].x
    BY DEF Group
  <2>2. S = {rects[i].x : i \in row}
    OBVIOUS
  <2> HIDE DEF f
  <2>3. Min(S) \in Int
    BY <2>1, GroupFinite, LeastValue DEF Group
  <2> QED BY <2>2, <2>3
<1>6. maxX \in Int
  <2> HIDE DEF last
  <2> QED BY <1>3 DEF Group
<1>7. /\ IsFiniteSet(faces) /\ faces \subseteq Int
      /\ \A v \in faces : room.x <= v /\ v <= room.x + room.w
  BY VerticalFaces
<1>8. /\ room.x \in Int /\ room.w \in Int /\ room.w > 0 /\ room.y \in Int /\ room.h \in Int /\ room.h > 0
  BY Around DEF IsBox, OnPixels, HasSize
<1>9. n \in Nat /\ n > 0
  BY GroupFinite
<1> HIDE DEF n, place, last, cross, minX, maxX, faces
<1> DEFINE lo == room.x
           hi == room.x + room.w
           low == nearestBelowOrEqual(faces, minX, lo)
           high == nearestAboveOrEqual(faces, maxX, hi)
<1>10. lo \in Int /\ hi \in Int /\ lo <= hi /\ hi - lo = room.w
  BY <1>8
<1>11. \A v \in faces : lo <= v /\ v <= hi
  BY <1>7
<1> HIDE DEF lo, hi
<1>12. low \in Int /\ lo <= low
  BY <1>5, <1>7, <1>10, <1>11, NearestWalls
<1>13. high \in Int /\ high <= hi
  BY <1>6, <1>7, <1>10, <1>11, NearestWalls
<1> HIDE DEF low, high
<1>14. fit = fitRun(n, std.w, low, high, minX, maxX)
  BY DEF low, high, lo, hi
<1> DEFINE sw == std.w
           sh == std.h
<1>15. sw \in Int /\ 1 <= sw /\ sw <= W /\ sh \in Int /\ 1 <= sh /\ sh <= H
  OBVIOUS
<1> HIDE DEF fit, sw, sh
<1>16. /\ fit.start \in Int /\ fit.each \in Int /\ fit.each > 0
       /\ fit.each <= sw \/ fit.each <= MIN_OBJECT_SIZE \/ fit.each <= high - low
  <2>1. sw > 0 /\ fit = fitRun(n, sw, low, high, minX, maxX)
    BY <1>14, <1>15 DEF sw
  <2> QED BY <1>5, <1>6, <1>9, <1>12, <1>13, <1>15, <2>1, FitRun
<1>17. top \in Int
  <2> DEFINE S == horizontalFaces(fit.start, fit.start + fit.each * n)
             near == room.y
             far == room.y + room.h
  <2>1. IsFiniteSet(S) /\ S \subseteq Int /\ \A v \in S : near <= v /\ v <= far
    BY HorizontalFaces
  <2>2. near \in Int /\ far \in Int /\ near <= far
    BY <1>8
  <2> HIDE DEF S, near, far
  <2>3. CrossFlush(cross, sh, S, near, far) \in Int
    BY <1>4, <1>15, <2>1, <2>2, CrossNumber
  <2> QED BY <2>3 DEF S, near, far, sh
<1> HIDE DEF top
<1>18. W \in Int /\ H \in Int /\ MIN_OBJECT_SIZE \in Int
  BY GeometryAssumption DEF Group
<1> DEFINE each == fit.each
           start == fit.start
<1>19. Length(each, W, room.w)
  BY <1>8, <1>10, <1>12, <1>13, <1>15, <1>16, <1>18 DEF Length
<1>20. Length(sh, H, room.h)
  BY <1>15, <1>18 DEF Length
<1>21. start \in Int /\ each \in Int
  BY <1>16
<1> HIDE DEF each, start
<1> SUFFICES ASSUME NEW i \in row
             PROVE  Fitted(clampInside(Rect(start + place[i] * each, top, each, sh)), W, H)
  BY <1>1 DEF each, start, sh
<1> DEFINE x == start + place[i] * each
<1>22. x \in Int
  BY <1>2, <1>21
<1> HIDE DEF x
<1>23. Fitted(clampInside(Rect(x, top, each, sh)), W, H)
  BY <1>17, <1>19, <1>20, <1>22, BoxFitted
<1> QED BY <1>23 DEF x

\* A column of desks is placed in boxes of one size, kept in the room.
LEMMA ColumnFitted ==
    ASSUME TidyInv, TypeOK, NEW col, NEW W, NEW H, Group(col, W, H), NEW std,
           std.h \in Int, 1 <= std.h, std.h <= H, std.w \in Int, 1 <= std.w, std.w <= W
    PROVE  \A i \in col : Fitted(normalizeColumn(rects, col, std)[i], W, H)
<1> DEFINE n == Cardinality(col)
           place == [i \in col |-> Cardinality({j \in col : topToBottom(rects, j, i)})]
           last == CHOOSE i \in col : \A j \in col \ {i} : topToBottom(rects, j, i)
           cross == (SumOver(rects, col, [i \in col |-> 2 * rects[i].x + rects[i].w]) - n * std.w)
                    \div (2 * n)
           minY == Min({rects[i].y : i \in col})
           maxY == rects[last].y + rects[last].h
           faces == horizontalFaces(cross, cross + std.w)
           fit == fitRun(n, std.h, nearestBelowOrEqual(faces, minY, room.y),
                         nearestAboveOrEqual(faces, maxY, room.y + room.h), minY, maxY)
           side == CrossFlush(cross, std.w,
                             verticalFaces(fit.start, fit.start + fit.each * n),
                             room.x, room.x + room.w)
<1>1. normalizeColumn(rects, col, std) =
        [i \in col |-> clampInside(Rect(side, fit.start + place[i] * fit.each, std.w, fit.each))]
  BY DEF normalizeColumn
<1>2. \A i \in col : place[i] \in Nat
  <2> SUFFICES ASSUME NEW i \in col PROVE Cardinality({j \in col : topToBottom(rects, j, i)}) \in Nat
    OBVIOUS
  <2> DEFINE S == {j \in col : topToBottom(rects, j, i)}
  <2>1. S \subseteq col
    OBVIOUS
  <2> HIDE DEF S
  <2>2. Cardinality(S) \in Nat
    BY <2>1, GroupFinite, PlaceNumber
  <2> QED BY <2>2 DEF S
<1>3. last \in col
  BY LastOfRow
<1>4. cross \in Int
  <2> DEFINE f == [i \in col |-> 2 * rects[i].x + rects[i].w]
  <2>1. \A i \in col : f[i] \in Int
    BY DEF Group
  <2> HIDE DEF f
  <2>2. (SumOver(rects, col, f) - Cardinality(col) * std.w) \div (2 * Cardinality(col)) \in Int
    BY <2>1, MiddleNumber
  <2> QED BY <2>2 DEF f
<1>5. minY \in Int
  <2> DEFINE f == [i \in col |-> rects[i].y]
             S == {f[i] : i \in col}
  <2>1. \A i \in col : f[i] \in Int /\ f[i] = rects[i].y
    BY DEF Group
  <2>2. S = {rects[i].y : i \in col}
    OBVIOUS
  <2> HIDE DEF f
  <2>3. Min(S) \in Int
    BY <2>1, GroupFinite, LeastValue DEF Group
  <2> QED BY <2>2, <2>3
<1>6. maxY \in Int
  <2> HIDE DEF last
  <2> QED BY <1>3 DEF Group
<1>7. /\ IsFiniteSet(faces) /\ faces \subseteq Int
      /\ \A v \in faces : room.y <= v /\ v <= room.y + room.h
  BY HorizontalFaces
<1>8. /\ room.y \in Int /\ room.h \in Int /\ room.h > 0 /\ room.x \in Int /\ room.w \in Int /\ room.w > 0
  BY Around DEF IsBox, OnPixels, HasSize
<1>9. n \in Nat /\ n > 0
  BY GroupFinite
<1> HIDE DEF n, place, last, cross, minY, maxY, faces
<1> DEFINE lo == room.y
           hi == room.y + room.h
           low == nearestBelowOrEqual(faces, minY, lo)
           high == nearestAboveOrEqual(faces, maxY, hi)
<1>10. lo \in Int /\ hi \in Int /\ lo <= hi /\ hi - lo = room.h
  BY <1>8
<1>11. \A v \in faces : lo <= v /\ v <= hi
  BY <1>7
<1> HIDE DEF lo, hi
<1>12. low \in Int /\ lo <= low
  BY <1>5, <1>7, <1>10, <1>11, NearestWalls
<1>13. high \in Int /\ high <= hi
  BY <1>6, <1>7, <1>10, <1>11, NearestWalls
<1> HIDE DEF low, high
<1>14. fit = fitRun(n, std.h, low, high, minY, maxY)
  BY DEF low, high, lo, hi
<1> DEFINE sw == std.h
           sh == std.w
<1>15. sw \in Int /\ 1 <= sw /\ sw <= H /\ sh \in Int /\ 1 <= sh /\ sh <= W
  OBVIOUS
<1> HIDE DEF fit, sw, sh
<1>16. /\ fit.start \in Int /\ fit.each \in Int /\ fit.each > 0
       /\ fit.each <= sw \/ fit.each <= MIN_OBJECT_SIZE \/ fit.each <= high - low
  <2>1. sw > 0 /\ fit = fitRun(n, sw, low, high, minY, maxY)
    BY <1>14, <1>15 DEF sw
  <2> QED BY <1>5, <1>6, <1>9, <1>12, <1>13, <1>15, <2>1, FitRun
<1>17. side \in Int
  <2> DEFINE S == verticalFaces(fit.start, fit.start + fit.each * n)
             near == room.x
             far == room.x + room.w
  <2>1. IsFiniteSet(S) /\ S \subseteq Int /\ \A v \in S : near <= v /\ v <= far
    BY VerticalFaces
  <2>2. near \in Int /\ far \in Int /\ near <= far
    BY <1>8
  <2> HIDE DEF S, near, far
  <2>3. CrossFlush(cross, sh, S, near, far) \in Int
    BY <1>4, <1>15, <2>1, <2>2, CrossNumber
  <2> QED BY <2>3 DEF S, near, far, sh
<1> HIDE DEF side
<1>18. W \in Int /\ H \in Int /\ MIN_OBJECT_SIZE \in Int
  BY GeometryAssumption DEF Group
<1> DEFINE each == fit.each
           start == fit.start
<1>19. Length(each, H, room.h)
  BY <1>8, <1>10, <1>12, <1>13, <1>15, <1>16, <1>18 DEF Length
<1>20. Length(sh, W, room.w)
  BY <1>15, <1>18 DEF Length
<1>21. start \in Int /\ each \in Int
  BY <1>16
<1> HIDE DEF each, start
<1> SUFFICES ASSUME NEW i \in col
             PROVE  Fitted(clampInside(Rect(side, start + place[i] * each, sh, each)), W, H)
  BY <1>1 DEF each, start, sh
<1> DEFINE y == start + place[i] * each
<1>22. y \in Int
  BY <1>2, <1>21
<1> HIDE DEF y
<1>23. Fitted(clampInside(Rect(side, y, sh, each)), W, H)
  BY <1>17, <1>19, <1>20, <1>22, BoxFitted
<1> QED BY <1>23 DEF y

\* A desk of a grid keeps the size of the group, and is in the room if it fits.
LEMMA InRowKept ==
    ASSUME TidyInv, TypeOK, NEW m \in Nat, NEW x \in Int, NEW y \in Int, NEW std,
           std.w \in Int, std.h \in Int
    PROVE  inGridRow(m, x, y, std) \in Kept(std.w, std.h)
<1> DEFINE w == std.w
           h == std.h
           Spot(v) == clampInside(Rect(v, y, w, h))
           spot[k \in 0 .. m] == clampInside(Rect(IF k = 0 THEN x ELSE spot[k - 1].x + std.w, y, std.w, std.h))
           S == Kept(w, h)
           start == Spot(x)
           Pass(s) == Spot(s.x + w)
<1>1. inGridRow(m, x, y, std) = spot[m]
  BY DEF inGridRow
<1>2. ASSUME NEW v \in Int PROVE Spot(v) \in S
  <2>1. w \in Int /\ h \in Int
    OBVIOUS
  <2> HIDE DEF w, h
  <2>2. Rect(v, y, w, h) \in Sized(w, h)
    BY <2>1 DEF Sized
  <2> QED BY <2>1, <2>2, ClampedInside
<1>3. start \in S
  <2> HIDE DEF Spot
  <2> QED BY <1>2
<1>4. \A s \in S : Pass(s) \in S
  <2> SUFFICES ASSUME NEW s \in S PROVE Spot(s.x + w) \in S
    OBVIOUS
  <2> DEFINE v == s.x + w
  <2>1. v \in Int
    BY SizedBox DEF Kept
  <2> HIDE DEF v, Spot
  <2>2. Spot(v) \in S
    BY <1>2, <2>1
  <2> QED BY <2>2 DEF v
<1>5. spot = [k \in 0 .. m |-> IF k = 0 THEN start ELSE Pass(spot[k - 1])]
  <2> DEFINE F == [p \in (1 .. m) \X S |-> Pass(p[2])]
  <2>1. F \in [(1 .. m) \X S -> S]
    <3> HIDE DEF Pass, S
    <3> QED BY <1>4
  <2>2. PICK g : Leads(g, F, m, S, start)
    <3>1. IsStep(F, m, S)
      BY <2>1 DEF IsStep
    <3> HIDE DEF F, S, start
    <3> QED BY <1>3, <3>1, StepsTaken
  <2>3. /\ g \in [0 .. m -> S] /\ g[0] = start
        /\ \A n \in 1 .. m : g[n] = F[<<n, g[n - 1]>>]
    BY <2>2 DEF Leads
  <2>4. \A n \in 1 .. m : g[n - 1] \in S
    <3> HIDE DEF S, start, F
    <3> QED BY <2>3
  <2>5. \A n \in 1 .. m : g[n] = Pass(g[n - 1])
    <3> HIDE DEF Pass, S, start
    <3> QED BY <2>3, <2>4
  <2>6. \A n \in 0 .. m : g[n] = clampInside(Rect(IF n = 0 THEN x ELSE g[n - 1].x + std.w, y, std.w, std.h))
    BY <2>3, <2>5
  <2>7. g = [k \in 0 .. m |-> clampInside(Rect(IF k = 0 THEN x ELSE g[k - 1].x + std.w, y, std.w, std.h))]
    <3> HIDE DEF S, start
    <3> QED BY <2>3, <2>6
  <2>8. spot = [k \in 0 .. m |-> clampInside(Rect(IF k = 0 THEN x ELSE spot[k - 1].x + std.w, y, std.w, std.h))]
    BY <2>7
  <2> HIDE DEF spot
  <2>9. \A k \in 0 .. m : spot[k] = IF k = 0 THEN start ELSE Pass(spot[k - 1])
    BY <2>8
  <2> HIDE DEF start, Pass
  <2> QED BY <2>8, <2>9
<1> HIDE DEF spot, Pass, start, S
<1>6. spot[0] \in S /\ \A n \in 1 .. m : spot[n - 1] \in S => spot[n] \in S
  BY <1>3, <1>4, <1>5
<1>7. spot[m] \in S
  BY <1>6, StepsKeep
<1> QED BY <1>1, <1>7 DEF S

\* The rows of a group share it out.
LEMMA RowsOfGroup ==
    ASSUME NEW c
    PROVE  /\ \A row \in groupRows(rects, c) : row \subseteq c /\ row # {}
           /\ UNION groupRows(rects, c) = c
<1> DEFINE leader[i \in c] ==
             LET above == {j \in c : byCentre(rects, j, i)}
                 rows == {leader[j] : j \in {k \in above : SameRow(rects[k], rects[i])}}
             IN  IF rows = {} THEN i
                 ELSE CHOOSE l \in rows : \A k \in rows \ {l} : byCentre(rects, l, k)
<1>1. groupRows(rects, c) = {{j \in c : leader[j] = leader[i]} : i \in c}
  BY DEF groupRows
<1> HIDE DEF leader
<1> QED BY <1>1

\* A group in several rows is placed in boxes of its standard size.
LEMMA GridFitted ==
    ASSUME TidyInv, TypeOK, NEW rows, NEW W, NEW H, Group(UNION rows, W, H), IsFiniteSet(rows),
           \A row \in rows : row # {}, NEW std,
           std.w \in Int, 1 <= std.w, std.w <= W, std.h \in Int, 1 <= std.h, std.h <= H
    PROVE  \A i \in UNION rows : Fitted(normalizeGrid(rects, rows, std)[i], W, H)
<1> DEFINE c == UNION rows
           lft == Min({rects[i].x : i \in c})
           top == Min({rects[i].y : i \in c})
           facesX == verticalFaces(top, Max({rects[i].y + rects[i].h : i \in c}))
           facesY == horizontalFaces(lft, Max({rects[i].x + rects[i].w : i \in c}))
           wallX == nearestBelowOrEqual(facesX, lft, room.x)
           wallY == nearestBelowOrEqual(facesY, top, room.y)
           leftX == IF lft - wallX > SNAP_WALL_DIST THEN lft ELSE wallX
           topY == IF top - wallY > SNAP_WALL_DIST THEN top ELSE wallY
           RowOf(i) == CHOOSE row \in rows : i \in row
           Above(row) == {r \in rows \ {row} : \E j \in r : \A k \in row : byCentre(rects, j, k)}
           Ahead(i) == {j \in RowOf(i) : leftToRight(rects, j, i)}
<1>1. \A i \in c : normalizeGrid(rects, rows, std)[i] =
         inGridRow(Cardinality(Ahead(i)), leftX, topY + Cardinality(Above(RowOf(i))) * std.h, std)
  BY DEF normalizeGrid
<1>2. IsFiniteSet(c) /\ c # {}
  BY GroupFinite DEF Group
<1>3. lft \in Int
  <2> DEFINE f == [i \in c |-> rects[i].x]
             S == {f[i] : i \in c}
  <2>1. \A i \in c : f[i] \in Int /\ f[i] = rects[i].x
    BY DEF Group
  <2>2. S = {rects[i].x : i \in c}
    OBVIOUS
  <2> HIDE DEF f, c
  <2>3. Min(S) \in Int
    BY <1>2, <2>1, LeastValue
  <2> QED BY <2>2, <2>3
<1>4. top \in Int
  <2> DEFINE f == [i \in c |-> rects[i].y]
             S == {f[i] : i \in c}
  <2>1. \A i \in c : f[i] \in Int /\ f[i] = rects[i].y
    BY DEF Group
  <2>2. S = {rects[i].y : i \in c}
    OBVIOUS
  <2> HIDE DEF f, c
  <2>3. Min(S) \in Int
    BY <1>2, <2>1, LeastValue
  <2> QED BY <2>2, <2>3
<1>5. /\ IsFiniteSet(facesX) /\ facesX \subseteq Int
      /\ \A v \in facesX : room.x <= v /\ v <= room.x + room.w
  BY VerticalFaces
<1>6. /\ IsFiniteSet(facesY) /\ facesY \subseteq Int
      /\ \A v \in facesY : room.y <= v /\ v <= room.y + room.h
  BY HorizontalFaces
<1>7. /\ room.x \in Int /\ room.w \in Int /\ room.w > 0 /\ room.y \in Int /\ room.h \in Int /\ room.h > 0
  BY Around DEF IsBox, OnPixels, HasSize
<1>8. \A i \in c : RowOf(i) \in rows /\ i \in RowOf(i)
  OBVIOUS
<1>9. \A i \in c : RowOf(i) \subseteq c
  BY <1>8
<1> HIDE DEF RowOf, c, lft, top, facesX, facesY
<1>10. wallX \in Int
  <2> DEFINE lo == room.x
             hi == room.x + room.w
  <2>0. lo \in Int /\ hi \in Int /\ lo <= hi
    BY <1>7
  <2>1. \A v \in facesX : lo <= v /\ v <= hi
    BY <1>5
  <2> HIDE DEF lo, hi
  <2>2. nearestBelowOrEqual(facesX, lft, lo) \in Int
    BY <1>3, <1>5, <2>0, <2>1, NearestWalls
  <2> QED BY <2>2 DEF lo
<1>11. wallY \in Int
  <2> DEFINE lo == room.y
             hi == room.y + room.h
  <2>0. lo \in Int /\ hi \in Int /\ lo <= hi
    BY <1>7
  <2>1. \A v \in facesY : lo <= v /\ v <= hi
    BY <1>6
  <2> HIDE DEF lo, hi
  <2>2. nearestBelowOrEqual(facesY, top, lo) \in Int
    BY <1>4, <1>6, <2>0, <2>1, NearestWalls
  <2> QED BY <2>2 DEF lo
<1> HIDE DEF wallX, wallY
<1>12. leftX \in Int /\ topY \in Int
  BY <1>3, <1>4, <1>10, <1>11
<1> HIDE DEF leftX, topY, Above, Ahead
<1> SUFFICES ASSUME NEW i \in c
             PROVE  Fitted(inGridRow(Cardinality(Ahead(i)), leftX,
                                     topY + Cardinality(Above(RowOf(i))) * std.h, std), W, H)
  BY <1>1 DEF c
<1> DEFINE m == Cardinality(Ahead(i))
           k == Cardinality(Above(RowOf(i)))
           y == topY + k * std.h
<1>13. m \in Nat
  <2>1. Ahead(i) \subseteq c
    BY <1>9 DEF Ahead
  <2> QED BY <1>2, <2>1, PlaceNumber
<1>14. k \in Nat
  <2>1. Above(RowOf(i)) \subseteq rows
    BY DEF Above
  <2> QED BY <2>1, PlaceNumber
<1> HIDE DEF m, k
<1>15. y \in Int
  BY <1>12, <1>14
<1> HIDE DEF y
<1>16. inGridRow(m, leftX, y, std) \in Kept(std.w, std.h)
  BY <1>12, <1>13, <1>15, InRowKept
<1>17. Length(std.w, W, room.w) /\ Length(std.h, H, room.h)
  BY DEF Length, Group
<1>18. Fitted(inGridRow(m, leftX, y, std), W, H)
  BY <1>16, <1>17 DEF Fitted
<1> QED BY <1>18 DEF m, y, k

\* However a group is arranged, every desk of it is placed in a box of some size, and the
\* box is in the room if it fits.
LEMMA ClusterFitted ==
    ASSUME TidyInv, TypeOK, NEW c, NEW W, NEW H, Group(c, W, H)
    PROVE  \A i \in c : Fitted(normalizeCluster(rects, c)[i], W, H)
<1> DEFINE rows == groupRows(rects, c)
           std == standardSize(rects, c)
<1>1. (\A row \in rows : row \subseteq c /\ row # {}) /\ UNION rows = c
  BY RowsOfGroup
<1>2. std.w \in Int /\ 1 <= std.w /\ std.w <= W /\ std.h \in Int /\ 1 <= std.h /\ std.h <= H
  BY StandardSized
<1>3. IsFiniteSet(rows)
  <2>1. IsFiniteSet(SUBSET c)
    BY GroupFinite, FS_SUBSET
  <2>2. rows \in SUBSET (SUBSET c)
    BY <1>1
  <2> HIDE DEF rows
  <2> QED BY <2>1, <2>2, FS_Subset
<1>4. normalizeCluster(rects, c) = Arranged(rects, c, rows, std)
  BY DEF normalizeCluster
<1> HIDE DEF rows, std
<1>5. Cardinality(rows) \in Nat
  BY <1>3, FS_CardinalityType
<1> DEFINE k == Cardinality(rows)
           single == \A row \in rows : Cardinality(row) = 1
<1>6. Arranged(rects, c, rows, std) =
        CASE k = 1 -> normalizeRow(rects, c, std)
          [] k > 1 /\ single -> normalizeColumn(rects, c, std)
          [] OTHER -> normalizeGrid(rects, rows, std)
  BY DEF Arranged
<1> HIDE DEF k, single
<1>7. \/ normalizeCluster(rects, c) = normalizeRow(rects, c, std)
      \/ normalizeCluster(rects, c) = normalizeColumn(rects, c, std)
      \/ normalizeCluster(rects, c) = normalizeGrid(rects, rows, std)
  BY <1>4, <1>5, <1>6 DEF k
<1>8. CASE normalizeCluster(rects, c) = normalizeRow(rects, c, std)
  BY <1>2, <1>8, RowFitted
<1>9. CASE normalizeCluster(rects, c) = normalizeColumn(rects, c, std)
  BY <1>2, <1>9, ColumnFitted
<1>10. CASE normalizeCluster(rects, c) = normalizeGrid(rects, rows, std)
  BY <1>1, <1>2, <1>3, <1>10, GridFitted
<1> QED BY <1>7, <1>8, <1>9, <1>10

(***************************************************************************)
(* The steps of the engine                                                 *)
(***************************************************************************)
\* The footprint of an object placed anew, field by field.
LEMMA PlacedFields ==
    ASSUME NEW r, NEW o, SameObject(r, o), NEW to
    PROVE  /\ Placed(r, to).x = to.x /\ Placed(r, to).y = to.y
           /\ Placed(r, to).w = to.w /\ Placed(r, to).h = to.h
           /\ Placed(r, to).type = r.type /\ Placed(r, to).id = r.id
<1>1. Placed(r, to) = [id |-> o.id, type |-> o.type, x |-> to.x, y |-> to.y, w |-> to.w, h |-> to.h,
                       rot |-> o.rot]
  BY PlacedRecord
<1>2. r.type = o.type /\ r.id = o.id
  BY DEF SameObject
<1> QED BY <1>1, <1>2

\* The rects of a layout in hand.
LEMMA EngineRects ==
    ASSUME Typing, TidyInv, HasPlan
    PROVE  /\ DOMAIN rects = 1 .. Len(layout) /\ Len(layout) \in Nat /\ Len(rects) = Len(layout)
           /\ rects = [i \in DOMAIN layout |-> rects[i]] /\ DOMAIN layout = DOMAIN rects
           /\ \A i \in DOMAIN rects : /\ SameObject(rects[i], Originals[i]) /\ RectTyped(rects[i])
                                      /\ RectTyped(Originals[i])
<1>1. RectsKept /\ DOMAIN layout = 1 .. Len(layout) /\ Len(layout) \in Nat
  BY Around, TypingShows DEF TidyInv
<1> DEFINE m == Len(layout)
<1>2. DOMAIN rects = 1 .. m /\ m \in Nat /\ rects = [i \in 1 .. m |-> rects[i]]
  BY <1>1 DEF RectsKept
<1> HIDE DEF m
<1>3. Len(rects) = m
  <2>1. rects \in Seq({rects[i] : i \in 1 .. m})
    BY <1>2
  <2> QED BY <1>2, <2>1
<1>4. \A i \in DOMAIN rects : SameObject(rects[i], Originals[i]) /\ RectTyped(rects[i])
  BY <1>1, <1>2 DEF RectsKept, Typing, RectsTyped, m
<1>5. \A i \in DOMAIN layout : Good(layout[i])
  BY DEF Typing, SeqTyped, Typed, ToSet
<1>6. \A i \in DOMAIN layout : RectTyped(Originals[i])
  BY <1>5, FootprintTyped DEF Originals, ScreenRects
<1> QED BY <1>1, <1>2, <1>3, <1>4, <1>6 DEF RectsKept, m

\* A desk is no opening, and has a size.
LEMMA DeskSized ==
    ASSUME NEW r, RectTyped(r), isPackableDesk(r) \/ isAxisAlignedWall(r)
    PROVE  /\ r.x \in Int /\ r.y \in Int /\ r.w \in Int /\ r.h \in Int /\ r.w > 0 /\ r.h > 0
<1>1. ~IsOpening(r.type)
  BY DEF isPackableDesk, isAxisAlignedWall, DESK_CAPABLE_TYPES, IsOpening
<1> QED BY <1>1 DEF RectTyped, OnPixels, HasSize

\* A group of desks to arrange, and bounds of its desks' sizes.
LEMMA DesksGrouped ==
    ASSUME Typing, TidyInv, HasPlan, NEW c, c \subseteq Desks, c # {}
    PROVE  \E W, H : Group(c, W, H)
<1> DEFINE f == [i \in c |-> rects[i].w]
           g == [i \in c |-> rects[i].h]
           S == {f[i] : i \in c}
           T == {g[i] : i \in c}
<1>1. c \in SUBSET (1 .. Len(rects)) /\ Len(rects) \in Nat
  BY EngineRects DEF Desks
<1>2. \A i \in c : /\ rects[i].x \in Int /\ rects[i].y \in Int /\ rects[i].w \in Int /\ rects[i].h \in Int
                   /\ rects[i].w > 0 /\ rects[i].h > 0
  BY EngineRects, DeskSized DEF Desks
<1>3. IsFiniteSet(c)
  BY <1>1, NumbersFinite
<1>4. /\ \A i \in c : f[i] \in Int /\ f[i] = rects[i].w
      /\ \A i \in c : g[i] \in Int /\ g[i] = rects[i].h
  BY <1>2
<1> HIDE DEF f, g
<1>5. Max(S) \in Int /\ \A i \in c : f[i] <= Max(S)
  <2>1. \A i \in c : f[i] \in Int
    BY <1>4
  <2> QED BY <1>3, <2>1, LeastValue
<1>6. Max(T) \in Int /\ \A i \in c : g[i] <= Max(T)
  <2>1. \A i \in c : g[i] \in Int
    BY <1>4
  <2> QED BY <1>3, <2>1, LeastValue
<1> HIDE DEF S, T
<1> DEFINE W == Max(S)
           H == Max(T)
<1>7. W \in Int /\ \A i \in c : rects[i].w <= W
  BY <1>4, <1>5
<1>8. H \in Int /\ \A i \in c : rects[i].h <= H
  BY <1>4, <1>6
<1> HIDE DEF W, H
<1>9. \A i \in c : 1 <= rects[i].w /\ 1 <= rects[i].h
  BY <1>2
<1>10. Group(c, W, H)
  BY <1>1, <1>2, <1>7, <1>8, <1>9 DEF Group
<1> QED BY <1>10

\* A footprint placed in a box of some size is typed.
LEMMA PlacedTyped ==
    ASSUME NEW r, NEW o, SameObject(r, o), NEW b, b.x \in Int, b.y \in Int, b.w \in Int, b.h \in Int,
           IsOpening(r.type) \/ (b.w > 0 /\ b.h > 0)
    PROVE  RectTyped(Placed(r, b))
<1> DEFINE p == Placed(r, b)
<1>1. p.x = b.x /\ p.y = b.y /\ p.w = b.w /\ p.h = b.h /\ p.type = r.type
  BY PlacedFields
<1> HIDE DEF p
<1>2. RectTyped(p)
  BY <1>1 DEF RectTyped, OnPixels, HasSize
<1> QED BY <1>2 DEF p

\* A box of a fitted size is on whole pixels and has a size.
LEMMA FittedNumbers ==
    ASSUME NEW b, NEW W, NEW H, Fitted(b, W, H)
    PROVE  /\ b.x \in Int /\ b.y \in Int /\ b.w \in Int /\ b.h \in Int /\ b.w > 0 /\ b.h > 0
<1>1. PICK w \in Int, h \in Int : Length(w, W, room.w) /\ Length(h, H, room.h) /\ b \in Kept(w, h)
  BY DEF Fitted
<1>2. b.x \in Int /\ b.y \in Int /\ b.w = w /\ b.h = h
  BY <1>1, SizedBox DEF Kept
<1> QED BY <1>1, <1>2 DEF Length

\* Desks placed in boxes of some size are typed.
LEMMA BoxesTyped ==
    ASSUME Typing, TidyInv, HasPlan, NEW c, NEW box,
           \A i \in c : /\ box[i].x \in Int /\ box[i].y \in Int /\ box[i].w \in Int /\ box[i].h \in Int
                        /\ box[i].w > 0 /\ box[i].h > 0,
           rects' = WithBoxes(c, box)
    PROVE  RectsTyped'
<1>1. \A i \in DOMAIN rects : RectTyped(IF i \in c THEN Placed(rects[i], box[i]) ELSE rects[i])
  BY EngineRects, PlacedTyped
<1> QED BY <1>1 DEF RectsTyped, WithBoxes

\* Arranging a group leaves every footprint typed.
LEMMA ArrangedTyped ==
    ASSUME Typing, TidyInv, NEW c \in pending, arrangeCluster(c)
    PROVE  RectsTyped'
<1>1. HasPlan /\ c \subseteq Desks /\ rects' = WithBoxes(c, normalizeCluster(rects, c))
  BY DEF arrangeCluster, TidyInv, HasPlan
<1>2. c # {}
  BY FS_EmptySet DEF arrangeCluster
<1>3. PICK W, H : Group(c, W, H)
  BY <1>1, <1>2, DesksGrouped
<1>4. \A i \in c : Fitted(normalizeCluster(rects, c)[i], W, H)
  BY <1>3, ClusterFitted, TypingShows
<1> DEFINE box == normalizeCluster(rects, c)
<1> HIDE DEF box
<1>5. \A i \in c : /\ box[i].x \in Int /\ box[i].y \in Int /\ box[i].w \in Int /\ box[i].h \in Int
                   /\ box[i].w > 0 /\ box[i].h > 0
  BY <1>4, FittedNumbers DEF box
<1>6. rects' = WithBoxes(c, box)
  BY <1>1 DEF box
<1> QED BY <1>1, <1>5, <1>6, BoxesTyped

\* Snapping a lone desk to the walls leaves every footprint typed.
LEMMA SnappedTyped ==
    ASSUME Typing, TidyInv, NEW c \in pending, snapLoneDesk(c)
    PROVE  RectsTyped'
<1> DEFINE box == [i \in c |-> snapToWalls(rects[i])]
<1>1. HasPlan /\ c \subseteq Desks /\ rects' = WithBoxes(c, box)
  BY DEF snapLoneDesk, TidyInv, HasPlan
<1>2. ASSUME NEW i \in c
      PROVE  /\ box[i].x \in Int /\ box[i].y \in Int /\ box[i].w \in Int /\ box[i].h \in Int
             /\ box[i].w > 0 /\ box[i].h > 0
  <2> DEFINE r == rects[i]
             w == r.w
             h == r.h
             b == snapToWalls(r)
  <2>1. r.x \in Int /\ r.y \in Int /\ r.w \in Int /\ r.h \in Int /\ r.w > 0 /\ r.h > 0
    BY <1>1, EngineRects, DeskSized DEF Desks
  <2>2. IsBox(r)
    BY <2>1 DEF IsBox, OnPixels
  <2>3. b \in Kept(w, h)
    BY <2>2, SnappedToWalls, TypingShows
  <2>4. b \in Sized(w, h) /\ w \in Int /\ h \in Int /\ w > 0 /\ h > 0
    BY <2>1, <2>3 DEF Kept
  <2> HIDE DEF b, w, h
  <2>5. b.x \in Int /\ b.y \in Int /\ b.w = w /\ b.h = h
    BY <2>4, SizedBox
  <2>6. box[i] = b
    BY DEF b
  <2> QED BY <2>4, <2>5, <2>6
<1> HIDE DEF box
<1> QED BY <1>1, <1>2, BoxesTyped

\* Putting a desk back leaves every footprint typed.
LEMMA RevertedTyped ==
    ASSUME Typing, TidyInv, NEW i \in DOMAIN rects, revertDesk(i)
    PROVE  RectsTyped'
<1>1. HasPlan /\ rects' = [rects EXCEPT ![i] = revertOverlap(rects, i)] /\ i \in Desks
  BY DEF revertDesk, HasPlan, ComesTo
<1>2. RectTyped(revertOverlap(rects, i))
  <2>1. RectTyped(rects[i]) /\ RectTyped(Originals[i]) /\ SameObject(rects[i], Originals[i])
    BY <1>1, EngineRects
  <2>2. RectTyped(Placed(rects[i], Originals[i]))
    <3>1. Placed(rects[i], Originals[i]) = Originals[i]
      BY <1>1, <2>1, PlacedSame, OriginalFields, EngineRects
    <3> QED BY <2>1, <3>1
  <2> QED BY <2>1, <2>2 DEF revertOverlap
<1> DEFINE r == revertOverlap(rects, i)
<1> HIDE DEF r
<1>3. \A j \in DOMAIN rects' : RectTyped(rects'[j])
  BY <1>1, <1>2 DEF Typing, RectsTyped, r
<1> QED BY <1>3 DEF RectsTyped

(***************************************************************************)
(* Walls around the floor, and the types in every state                    *)
(***************************************************************************)
\* A span only grows.
LEMMA SpanGrows ==
    ASSUME NEW lo \in Int, NEW len \in Int, len > 0, NEW faces, IsFiniteSet(faces), faces \subseteq Int
    PROVE  LET s == ExtendSpan(lo, len, faces)
           IN  s[1] \in Int /\ s[2] \in Int /\ s[2] > 0
<1> DEFINE Reachable(gap) == 0 < gap /\ gap < GRID_CELL
           low  == {f \in faces : Reachable(lo - f)}
           lo2  == IF low = {} THEN lo ELSE Max(low)
           high == {f \in faces : Reachable(f - (lo + len))}
           hi2  == IF high = {} THEN lo + len ELSE Min(high)
           s == ExtendSpan(lo, len, faces)
<1>1. s = <<lo2, hi2 - lo2>>
  BY DEF ExtendSpan
<1>2. /\ low \in SUBSET Int /\ IsFiniteSet(low) /\ \A f \in low : f < lo
      /\ high \in SUBSET Int /\ IsFiniteSet(high) /\ \A f \in high : f > lo + len
  <2>1. low \subseteq faces /\ high \subseteq faces
    OBVIOUS
  <2>2. low \in SUBSET Int /\ high \in SUBSET Int
    BY <2>1
  <2>3. (\A f \in low : f < lo) /\ \A f \in high : f > lo + len
    OBVIOUS
  <2> HIDE DEF low, high
  <2>4. IsFiniteSet(low) /\ IsFiniteSet(high)
    BY <2>1, FS_Subset
  <2> QED BY <2>2, <2>3, <2>4
<1> HIDE DEF low, high
<1>3. lo2 \in Int /\ lo2 <= lo
  <2>1. low # {} => Max(low) \in low
    BY <1>2, FiniteEnds
  <2>2. low # {} => Max(low) \in Int /\ Max(low) < lo
    BY <1>2, <2>1
  <2> QED BY <2>2
<1>4. hi2 \in Int /\ hi2 >= lo + len
  <2>1. high # {} => Min(high) \in high
    BY <1>2, FiniteEnds
  <2>2. high # {} => Min(high) \in Int /\ Min(high) > lo + len
    BY <1>2, <2>1
  <2> QED BY <2>2
<1> HIDE DEF lo2, hi2
<1>5. s[1] = lo2 /\ s[2] = hi2 - lo2
  BY <1>1
<1> HIDE DEF s
<1>6. s[1] \in Int /\ s[2] \in Int /\ s[2] > 0
  BY <1>3, <1>4, <1>5
<1> QED BY <1>6 DEF s

\* The edges of the walls across are numbers.
LEMMA EdgesFinite ==
    ASSUME Typing, TidyInv, HasPlan, NEW S, S \subseteq {rects[j] : j \in DOMAIN rects}
    PROVE  /\ IsFiniteSet(UNION {{o.x, o.x + o.w} : o \in S}) /\ UNION {{o.x, o.x + o.w} : o \in S} \subseteq Int
           /\ IsFiniteSet(UNION {{o.y, o.y + o.h} : o \in S}) /\ UNION {{o.y, o.y + o.h} : o \in S} \subseteq Int
<1> DEFINE D == DOMAIN rects
           a == [j \in D |-> rects[j].x]
           b == [j \in D |-> rects[j].x + rects[j].w]
           c == [j \in D |-> rects[j].y]
           d == [j \in D |-> rects[j].y + rects[j].h]
           X == UNION {{o.x, o.x + o.w} : o \in S}
           Y == UNION {{o.y, o.y + o.h} : o \in S}
<1>1. IsFiniteSet(D)
  <2>1. Len(layout) \in Nat /\ D \in SUBSET (1 .. Len(layout))
    BY EngineRects
  <2> HIDE DEF D
  <2> QED BY <2>1, NumbersFinite
<1>2. \A j \in D : /\ rects[j].x \in Int /\ rects[j].w \in Int /\ rects[j].y \in Int /\ rects[j].h \in Int
  BY DEF Typing, RectsTyped, RectTyped, OnPixels
<1>3. /\ \A j \in D : a[j] \in Int /\ b[j] \in Int
      /\ \A j \in D : c[j] \in Int /\ d[j] \in Int
  BY <1>2
<1>4. X \subseteq UNION {{a[j], b[j]} : j \in D} /\ Y \subseteq UNION {{c[j], d[j]} : j \in D}
  OBVIOUS
<1> DEFINE A == UNION {{a[j], b[j]} : j \in D}
           C == UNION {{c[j], d[j]} : j \in D}
<1> HIDE DEF a, b, c, d, D, X, Y
<1>5. IsFiniteSet(A) /\ A \subseteq Int
  <2>1. \A j \in D : a[j] \in Int /\ b[j] \in Int
    BY <1>3
  <2> QED BY <1>1, <2>1, PairsOfNumbers
<1>6. IsFiniteSet(C) /\ C \subseteq Int
  <2>1. \A j \in D : c[j] \in Int /\ d[j] \in Int
    BY <1>3
  <2> QED BY <1>1, <2>1, PairsOfNumbers
<1>7. X \subseteq A /\ Y \subseteq C
  BY <1>4
<1> HIDE DEF A, C
<1>8. IsFiniteSet(X) /\ X \subseteq Int /\ IsFiniteSet(Y) /\ Y \subseteq Int
  BY <1>5, <1>6, <1>7, FS_Subset
<1> QED BY <1>8 DEF X, Y

\* A wall that is joined to others is typed.
LEMMA JoinedTyped ==
    ASSUME Typing, TidyInv, NEW i \in DOMAIN rects, connectWall(i)
    PROVE  RectsTyped'
<1> DEFINE r == rects[i]
           walls == {rects[j] : j \in {k \in DOMAIN rects \ {i} : isAxisAlignedWall(rects[k])}}
           U == {k \in walls : k.w < k.h /\ k.y < r.y + r.h /\ k.y + k.h > r.y}
           V == {k \in walls : k.h < k.w /\ k.x < r.x + r.w /\ k.x + k.w > r.x}
           upright == UNION {{o.x, o.x + o.w} : o \in U}
           level == UNION {{o.y, o.y + o.h} : o \in V}
           facesX == verticalFaces(r.y, r.y + r.h) \cup upright
           facesY == horizontalFaces(r.x, r.x + r.w) \cup level
           across == ExtendSpan(r.x, r.w, facesX)
           down == ExtendSpan(r.y, r.h, facesY)
           e == extendWallEnds(rects, i)
<1>1. HasPlan /\ rects' = [rects EXCEPT ![i] = e] /\ isAxisAlignedWall(r)
  BY DEF connectWall, HasPlan, ComesTo, Walls
<1>2. e = IF r.w >= r.h THEN [r EXCEPT !.x = across[1], !.w = across[2]]
                        ELSE [r EXCEPT !.y = down[1], !.h = down[2]]
  BY DEF extendWallEnds
<1>3. SameObject(r, Originals[i]) /\ RectTyped(r)
  BY <1>1, EngineRects
<1>4. r.x \in Int /\ r.y \in Int /\ r.w \in Int /\ r.h \in Int /\ r.w > 0 /\ r.h > 0
  BY <1>1, <1>3, DeskSized
<1>5. IsFiniteSet(facesX) /\ facesX \subseteq Int
  <2> DEFINE F == verticalFaces(r.y, r.y + r.h)
  <2>1. IsFiniteSet(F) /\ F \subseteq Int
    BY VerticalFaces, TypingShows
  <2>2. U \subseteq {rects[j] : j \in DOMAIN rects}
    OBVIOUS
  <2> HIDE DEF F, U
  <2>3. IsFiniteSet(upright) /\ upright \subseteq Int
    BY <1>1, <2>2, EdgesFinite
  <2> HIDE DEF upright
  <2>4. IsFiniteSet(F \cup upright) /\ (F \cup upright) \subseteq Int
    BY <2>1, <2>3, FS_Union
  <2> QED BY <2>4 DEF F
<1>6. IsFiniteSet(facesY) /\ facesY \subseteq Int
  <2> DEFINE F == horizontalFaces(r.x, r.x + r.w)
  <2>1. IsFiniteSet(F) /\ F \subseteq Int
    BY HorizontalFaces, TypingShows
  <2>2. V \subseteq {rects[j] : j \in DOMAIN rects}
    OBVIOUS
  <2> HIDE DEF F, V
  <2>3. IsFiniteSet(level) /\ level \subseteq Int
    BY <1>1, <2>2, EdgesFinite
  <2> HIDE DEF level
  <2>4. IsFiniteSet(F \cup level) /\ (F \cup level) \subseteq Int
    BY <2>1, <2>3, FS_Union
  <2> QED BY <2>4 DEF F
<1> DEFINE x == r.x
           y == r.y
           w == r.w
           h == r.h
<1> HIDE DEF facesX, facesY
<1>7. across[1] \in Int /\ across[2] \in Int /\ across[2] > 0
  <2>1. x \in Int /\ w \in Int /\ w > 0 /\ across = ExtendSpan(x, w, facesX)
    BY <1>4
  <2> HIDE DEF x, w, across
  <2> QED BY <1>5, <2>1, SpanGrows
<1>8. down[1] \in Int /\ down[2] \in Int /\ down[2] > 0
  <2>1. y \in Int /\ h \in Int /\ h > 0 /\ down = ExtendSpan(y, h, facesY)
    BY <1>4
  <2> HIDE DEF y, h, down
  <2> QED BY <1>6, <2>1, SpanGrows
<1> HIDE DEF across, down
<1>9. RectTyped(e)
  <2> DEFINE a == across[1]
             b == across[2]
             c == down[1]
             d == down[2]
             o == Originals[i]
  <2>1. r = [id |-> o.id, type |-> o.type, x |-> x, y |-> y, w |-> w, h |-> h, rot |-> o.rot]
    BY <1>3 DEF SameObject
  <2>2. /\ x \in Int /\ y \in Int /\ w \in Int /\ h \in Int /\ w > 0 /\ h > 0
        /\ a \in Int /\ b \in Int /\ b > 0 /\ c \in Int /\ d \in Int /\ d > 0
    BY <1>4, <1>7, <1>8
  <2>3. e = (IF w >= h THEN [r EXCEPT !.x = a, !.w = b] ELSE [r EXCEPT !.y = c, !.h = d])
    BY <1>2
  <2> HIDE DEF r, e, a, b, c, d, o, x, y, w, h
  <2>4. [r EXCEPT !.x = a, !.w = b] = [id |-> o.id, type |-> o.type, x |-> a, y |-> y, w |-> b, h |-> h, rot |-> o.rot]
    <3> DEFINE q == [r EXCEPT !.x = a]
    <3>1. q = [id |-> o.id, type |-> o.type, x |-> a, y |-> y, w |-> w, h |-> h, rot |-> o.rot]
      BY <2>1
    <3> HIDE DEF q
    <3>2. [q EXCEPT !.w = b] = [id |-> o.id, type |-> o.type, x |-> a, y |-> y, w |-> b, h |-> h, rot |-> o.rot]
      BY <3>1
    <3> QED BY <3>2 DEF q
  <2>5. [r EXCEPT !.y = c, !.h = d] = [id |-> o.id, type |-> o.type, x |-> x, y |-> c, w |-> w, h |-> d, rot |-> o.rot]
    <3> DEFINE q == [r EXCEPT !.y = c]
    <3>1. q = [id |-> o.id, type |-> o.type, x |-> x, y |-> c, w |-> w, h |-> h, rot |-> o.rot]
      BY <2>1
    <3> HIDE DEF q
    <3>2. [q EXCEPT !.h = d] = [id |-> o.id, type |-> o.type, x |-> x, y |-> c, w |-> w, h |-> d, rot |-> o.rot]
      BY <3>1
    <3> QED BY <3>2 DEF q
  <2>6. e.x \in Int /\ e.y \in Int /\ e.w \in Int /\ e.h \in Int /\ e.w > 0 /\ e.h > 0
    <3>1. CASE w >= h
      BY <2>2, <2>3, <2>4, <3>1
    <3>2. CASE ~(w >= h)
      BY <2>2, <2>3, <2>5, <3>2
    <3> QED BY <3>1, <3>2
  <2> QED BY <2>6 DEF RectTyped, OnPixels, HasSize
<1> HIDE DEF e
<1>10. \A j \in DOMAIN rects' : RectTyped(rects'[j])
  BY <1>1, <1>9 DEF Typing, RectsTyped
<1> QED BY <1>10 DEF RectsTyped

\* No step of the engine leaves a footprint without a size.
LEMMA TidyTyped ==
    ASSUME Typing, TidyInv, Tidy
    PROVE  Typing'
<1>1. UNCHANGED <<objects, boundary, timer, runId, placing, ghost, requests, stored, runs>>
  BY DEF Tidy, pageVars, canvasVars, serverVars
<1>2. UNCHANGED <<layout, room>> /\ RectsTyped'
  <2>1. ASSUME NEW i \in DOMAIN rects, connectWall(i) PROVE UNCHANGED <<layout, room>> /\ RectsTyped'
    BY <2>1, JoinedTyped DEF connectWall
  <2>2. ASSUME NEW i \in DOMAIN rects, revertDesk(i) PROVE UNCHANGED <<layout, room>> /\ RectsTyped'
    BY <2>2, RevertedTyped DEF revertDesk
  <2>3. ASSUME groupDesks PROVE UNCHANGED <<layout, room>> /\ RectsTyped'
    BY <2>3 DEF groupDesks, Typing, RectsTyped
  <2>4. ASSUME NEW c \in pending, arrangeCluster(c) PROVE UNCHANGED <<layout, room>> /\ RectsTyped'
    BY <2>4, ArrangedTyped DEF arrangeCluster
  <2>5. ASSUME NEW c \in pending, snapLoneDesk(c) PROVE UNCHANGED <<layout, room>> /\ RectsTyped'
    BY <2>5, SnappedTyped DEF snapLoneDesk
  <2>6. ASSUME endPass PROVE UNCHANGED <<layout, room>> /\ RectsTyped'
    BY <2>6 DEF endPass, Typing, RectsTyped
  <2>7. TidyNext
    BY DEF Tidy
  <2> QED BY <2>1, <2>2, <2>3, <2>4, <2>5, <2>6, <2>7 DEF TidyNext
<1>3. RoomsTyped' /\ PlacesTyped'
  BY <1>1, <1>2 DEF Typing, RoomsTyped, PlacesTyped
<1>4. \A r \in requests' : RequestTyped(r, Kinds)
  BY <1>1 DEF Typing, RequestsTyped
<1> QED BY <1>1, <1>2, <1>3, <1>4, TypingKept DEF Typing

\* A page begins with what it was given.
LEMMA InitTyped ==
    ASSUME Init, Wholes
    PROVE  Typing
<1>1. /\ visit \in Visits /\ objects = visit.objects
      /\ boundary = makeFloorBoundary(visit.room.w, visit.room.h) /\ room = boundary
      /\ stored = [id \in IdsOf(objects) |-> [object |-> ObjectOf(id), active |-> TRUE]]
      /\ timer = {} /\ requests = {} /\ runs = {} /\ runId = {} /\ placing = {}
      /\ ghost = <<>> /\ layout = <<>> /\ rects = <<>>
  BY DEF Init
<1>2. RoomsTyped
  <2> DEFINE w == visit.room.w
             h == visit.room.h
  <2>1. w \in Int /\ h \in Int
    BY <1>1, InputsAssumption DEF OnPixels
  <2> HIDE DEF w, h
  <2>2. RoomSized(makeFloorBoundary(w, h))
    BY <2>1, FloorSized
  <2> QED BY <1>1, <2>2 DEF RoomsTyped, w, h
<1>3. \A i \in DOMAIN objects : Good(objects[i])
  <2>1. \A i \in DOMAIN objects : Whole(objects[i])
    BY DEF Wholes, Listed
  <2>2. \A i \in DOMAIN objects :
           /\ OnPixels({objects[i].x, objects[i].y, objects[i].width, objects[i].height})
           /\ IsOpening(objects[i].type) \/ HasSize(objects[i].width, objects[i].height)
    BY <1>1, InputsAssumption
  <2> QED BY <2>1, <2>2 DEF Good, OnPlane
<1>4. \A id \in DOMAIN stored : stored[id].object = ObjectOf(id) /\ id \in IdsOf(objects)
  BY <1>1
<1>5. \A id \in IdsOf(objects) : ObjectOf(id) \in ToSet(objects) /\ ObjectOf(id).id = id
  BY PageObject
<1>6. StoreTyped
  BY <1>3, <1>4, <1>5 DEF StoreTyped, ToSet
<1>7. ASSUME NEW i \in DOMAIN objects
      PROVE  Typed(objects[i], Kinds)
  <2> DEFINE o == objects[i]
  <2>1. o.id \in IdsOf(objects)
    BY DEF IdsOf
  <2>2. ObjectOf(o.id) = o
    <3>1. PICK j \in DOMAIN objects : ObjectOf(o.id) = objects[j]
      BY <1>5, <2>1 DEF ToSet
    <3>2. objects[j].id = objects[i].id
      BY <1>5, <2>1, <3>1
    <3>3. i = j
      BY <3>2 DEF Wholes, Listed
    <3> QED BY <3>1, <3>3
  <2>3. o.id \in DOMAIN stored /\ stored[o.id].object = o
    BY <1>1, <1>4, <2>1, <2>2
  <2> QED BY <1>3, <2>3 DEF Typed, Kinds
<1>8. SeqTyped(objects, Kinds) /\ SeqTyped(layout, Kinds)
  BY <1>1, <1>7 DEF SeqTyped, ToSet
<1>9. RunsTyped(Kinds) /\ RequestsTyped(Kinds) /\ PlacesTyped /\ RectsTyped
  BY <1>1 DEF RunsTyped, RequestsTyped, PlacesTyped, RectsTyped, ToSet
<1> QED BY <1>2, <1>6, <1>8, <1>9 DEF Typing

\* No step changes the type of anything.
LEMMA StepTyped ==
    ASSUME Wholes, RequestsWhole, TidyInv, Typing, [Next]_vars
    PROVE  Typing'
<1>1. CASE Edit
  BY <1>1, EditTyped
<1>2. CASE Page
  BY <1>2, PageTyped
<1>3. CASE Tidy
  BY <1>3, TidyTyped
<1>4. CASE Network
  <2>1. PICK r \in requests : (serverStep(r) /\ UNCHANGED_page) \/ lose(r) \/ answer(r)
    BY <1>4 DEF Network
  <2>2. UNCHANGED_page => ServerAside
    BY DEF UNCHANGED_page, ServerAside, tidyVars, pageVars, canvasVars
  <2> QED BY <2>1, <2>2, ServerTyped, LoseTyped, AnswerTyped
<1>5. CASE UNCHANGED vars
  <2>1. /\ UNCHANGED <<objects, stored, runs, requests, runId, placing, ghost, boundary, timer>>
        /\ UNCHANGED <<layout, room, rects>>
    BY <1>5 DEF vars, tidyVars, pageVars, canvasVars, serverVars
  <2>2. RoomsTyped' /\ PlacesTyped' /\ RectsTyped'
    BY <2>1 DEF Typing, RoomsTyped, PlacesTyped, RectsTyped
  <2>3. SeqTyped(objects', Kinds) /\ SeqTyped(layout', Kinds)
        /\ \A r \in requests' : RequestTyped(r, Kinds)
    BY <2>1 DEF Typing, RequestsTyped
  <2> QED BY <2>1, <2>2, <2>3, TypingKept
<1> QED BY <1>1, <1>2, <1>3, <1>4, <1>5 DEF Next

\* Typing is inductive.
LEMMA TypingHolds == Spec => []Typing
<1>1. Init /\ Wholes => Typing
  BY InitTyped
<1>2. Wholes /\ Inv /\ TidyInv /\ Typing /\ [Next]_vars => Typing'
  BY StepTyped DEF Inv
<1> QED BY <1>1, <1>2, WholesHold, InvHolds, EngineInvariant, PTL DEF Spec

\* Whatever the user draws, drags, resizes or types, and however requests and answers
\* interleave, the room, the objects of the page and of the layout a plan is made from,
\* and the footprints of the plan are on whole pixels, and all but doors and windows
\* have a size: the inspector's number fields, which may hold any number, save only
\* sizes above 0 (LayoutObjectInspector.tsx:76-84), and a handle makes nothing smaller
\* than the least size (coordinateHelpers.ts:221-235).
THEOREM TypeCorrect == Spec => []TypeOK
<1>1. Typing => TypeOK
  BY TypingShows
<1> QED BY <1>1, TypingHolds, PTL

\* For every room, and any number of cutouts of any sizes in any places, the walls
\* around the floor leave no gap, and cover no floor where its lines are a wall's
\* thickness apart (floorShape.ts:194-289).
THEOREM FloorsFramed == Spec => []FloorIsFramed
<1>1. TidyInv /\ TypeOK => FloorIsFramed
  BY Framed
<1> QED BY <1>1, EngineInvariant, TypeCorrect, PTL

(***************************************************************************)
(* Where the desks of a plan are                                           *)
(***************************************************************************)
\* No desk was given that is larger than the room.
AllFit == \A d \in Desks : Originals[d].w <= room.w /\ Originals[d].h <= room.h

\* The desk fits, and it is where it was given or in the room.
DeskIn(d) == /\ rects[d].w <= room.w /\ rects[d].h <= room.h
             /\ rects[d] = Originals[d] \/ Inside(rects[d], room)

InRoom == HasPlan /\ AllFit => \A d \in Desks : DeskIn(d)

\* The desks are the same ones while the layout is.
LEMMA SameDesks ==
    ASSUME RectsKept, RectsKept', layout' = layout
    PROVE  Desks' = Desks /\ Originals' = Originals
<1>1. Originals' = Originals
  BY DEF Originals
<1>2. \A i \in DOMAIN layout : isPackableDesk(rects'[i]) = isPackableDesk(rects[i])
  BY <1>1, StillDesk DEF RectsKept
<1>3. DOMAIN rects = DOMAIN layout /\ DOMAIN rects' = DOMAIN layout
  BY DEF RectsKept
<1> QED BY <1>1, <1>2, <1>3 DEF Desks

\* A length the room allows.
LEMMA LengthFits ==
    ASSUME Typing, NEW w, NEW h, Length(w, room.w, room.w), Length(h, room.h, room.h)
    PROVE  w <= room.w /\ h <= room.h
<1>1. /\ room.w \in Int /\ room.h \in Int /\ MIN_OBJECT_SIZE \in Int
      /\ MIN_OBJECT_SIZE <= room.w /\ MIN_OBJECT_SIZE <= room.h
  BY GeometryAssumption DEF Typing, RoomsTyped, RoomSized, IsBox, OnPixels
<1> QED BY <1>1 DEF Length

\* A desk put in a box that fits is in the room.
LEMMA PutIn ==
    ASSUME NEW r, NEW o, SameObject(r, o), NEW w \in Int, NEW h \in Int, NEW b \in Kept(w, h),
           w <= room.w, h <= room.h
    PROVE  /\ Placed(r, b).w <= room.w /\ Placed(r, b).h <= room.h
           /\ Inside(Placed(r, b), room)
<1> DEFINE p == Placed(r, b)
<1>1. p.x = b.x /\ p.y = b.y /\ p.w = b.w /\ p.h = b.h
  BY PlacedFields
<1>2. b.w = w /\ b.h = h /\ Inside(b, room)
  BY SizedBox DEF Kept
<1> HIDE DEF p
<1>3. p.w <= room.w /\ p.h <= room.h /\ Inside(p, room)
  BY <1>1, <1>2 DEF Inside
<1> QED BY <1>3 DEF p

\* A group of desks that fit is placed in the room.
LEMMA ArrangedIn ==
    ASSUME Typing, TidyInv, AllFit, InRoom, NEW c \in pending, arrangeCluster(c)
    PROVE  \A i \in c : /\ rects'[i].w <= room.w /\ rects'[i].h <= room.h
                        /\ Inside(rects'[i], room)
<1>1. HasPlan /\ c \subseteq Desks /\ rects' = WithBoxes(c, normalizeCluster(rects, c))
  BY DEF arrangeCluster, TidyInv, HasPlan
<1>2. c # {}
  BY FS_EmptySet DEF arrangeCluster
<1>3. Group(c, room.w, room.h)
  <2>1. PICK W, H : Group(c, W, H)
    BY <1>1, <1>2, DesksGrouped
  <2>2. \A i \in c : rects[i].w <= room.w /\ rects[i].h <= room.h
    BY <1>1 DEF InRoom, DeskIn
  <2>3. room.w \in Int /\ room.h \in Int
    BY DEF Typing, RoomsTyped, RoomSized, IsBox, OnPixels
  <2> QED BY <2>1, <2>2, <2>3 DEF Group
<1> DEFINE box == normalizeCluster(rects, c)
<1>4. \A i \in c : Fitted(box[i], room.w, room.h)
  BY <1>3, ClusterFitted, TypingShows
<1> HIDE DEF box
<1> SUFFICES ASSUME NEW i \in c
             PROVE  /\ rects'[i].w <= room.w /\ rects'[i].h <= room.h /\ Inside(rects'[i], room)
  OBVIOUS
<1>5. i \in DOMAIN rects /\ SameObject(rects[i], Originals[i])
  BY <1>1, EngineRects DEF Desks
<1>6. rects'[i] = Placed(rects[i], box[i])
  BY <1>1, <1>5 DEF WithBoxes, box
<1>7. PICK w \in Int, h \in Int : /\ Length(w, room.w, room.w) /\ Length(h, room.h, room.h)
                                  /\ box[i] \in Kept(w, h)
  BY <1>4 DEF Fitted
<1>8. w <= room.w /\ h <= room.h
  BY <1>7, LengthFits
<1> QED BY <1>5, <1>6, <1>7, <1>8, PutIn

\* So is a lone one.
LEMMA SnappedIn ==
    ASSUME Typing, TidyInv, AllFit, InRoom, NEW c \in pending, snapLoneDesk(c)
    PROVE  \A i \in c : /\ rects'[i].w <= room.w /\ rects'[i].h <= room.h
                        /\ Inside(rects'[i], room)
<1> DEFINE box == [i \in c |-> snapToWalls(rects[i])]
<1>1. HasPlan /\ c \subseteq Desks /\ rects' = WithBoxes(c, box)
  BY DEF snapLoneDesk, TidyInv, HasPlan
<1> SUFFICES ASSUME NEW i \in c
             PROVE  /\ rects'[i].w <= room.w /\ rects'[i].h <= room.h /\ Inside(rects'[i], room)
  OBVIOUS
<1> DEFINE r == rects[i]
           w == r.w
           h == r.h
<1>2. i \in DOMAIN rects /\ SameObject(r, Originals[i])
  BY <1>1, EngineRects DEF Desks
<1>3. r.x \in Int /\ r.y \in Int /\ r.w \in Int /\ r.h \in Int
  BY <1>1, EngineRects, DeskSized DEF Desks
<1>4. IsBox(r)
  BY <1>3 DEF IsBox, OnPixels
<1>5. snapToWalls(r) \in Kept(w, h)
  BY <1>4, SnappedToWalls, TypingShows
<1>6. w <= room.w /\ h <= room.h
  BY <1>1 DEF InRoom, DeskIn
<1>7. rects'[i] = Placed(r, snapToWalls(r))
  BY <1>1, <1>2 DEF WithBoxes
<1> HIDE DEF w, h
<1>8. w \in Int /\ h \in Int
  BY <1>3 DEF w, h
<1> QED BY <1>2, <1>5, <1>6, <1>7, <1>8, PutIn

\* The engine keeps the desks in the room.
LEMMA TidyIn ==
    ASSUME Typing, TidyInv, InRoom, Tidy, TidyInv'
    PROVE  InRoom'
<1>0. UNCHANGED <<layout, room>> /\ HasPlan
  BY DEF Tidy, TidyNext, HasPlan, connectWall, revertDesk, groupDesks, arrangeCluster, snapLoneDesk, endPass
<1> SUFFICES ASSUME HasPlan', AllFit', NEW d \in Desks' PROVE DeskIn(d)'
  BY DEF InRoom
<1>1. Desks' = Desks /\ Originals' = Originals /\ RectsKept
  BY <1>0, SameDesks DEF TidyInv
<1>2. AllFit
  BY <1>0, <1>1 DEF AllFit
<1>3. DeskIn(d) /\ d \in Desks /\ d \in DOMAIN rects
  BY <1>0, <1>1, <1>2 DEF InRoom, Desks
<1>4. rects'[d] = rects[d] => DeskIn(d)'
  BY <1>0, <1>1, <1>3 DEF DeskIn
<1>5. rects'[d] = Originals[d] => DeskIn(d)'
  BY <1>0, <1>1, <1>2, <1>3 DEF DeskIn, AllFit
<1>6. /\ rects'[d].w <= room.w /\ rects'[d].h <= room.h /\ Inside(rects'[d], room)
      => DeskIn(d)'
  BY <1>0 DEF DeskIn
<1>7. ASSUME NEW i \in DOMAIN rects, connectWall(i) PROVE DeskIn(d)'
  <2>1. i \in Walls /\ rects' = [rects EXCEPT ![i] = extendWallEnds(rects, i)]
    BY <1>7 DEF connectWall, ComesTo
  <2>2. i # d
    BY <1>3, <2>1 DEF Walls, Desks, isAxisAlignedWall, isPackableDesk, DESK_CAPABLE_TYPES
  <2> QED BY <1>3, <1>4, <2>1, <2>2
<1>8. ASSUME NEW i \in DOMAIN rects, revertDesk(i) PROVE DeskIn(d)'
  <2>1. rects' = [rects EXCEPT ![i] = revertOverlap(rects, i)]
    BY <1>8 DEF revertDesk
  <2>2. SameObject(rects[i], Originals[i]) /\ SameObject(Originals[i], Originals[i])
    BY <1>1, OriginalFields DEF RectsKept
  <2>3. revertOverlap(rects, i) = rects[i] \/ revertOverlap(rects, i) = Originals[i]
    BY <2>2, PlacedSame DEF revertOverlap
  <2> QED BY <1>3, <1>4, <1>5, <2>1, <2>3
<1>9. ASSUME groupDesks \/ endPass PROVE DeskIn(d)'
  BY <1>4, <1>9 DEF groupDesks, endPass
<1>10. ASSUME NEW c \in pending, NEW box, rects' = WithBoxes(c, box), d \notin c PROVE rects'[d] = rects[d]
  BY <1>3, <1>10 DEF WithBoxes
<1>11. ASSUME NEW c \in pending, arrangeCluster(c) PROVE DeskIn(d)'
  <2>1. d \notin c => rects'[d] = rects[d]
    BY <1>10, <1>11 DEF arrangeCluster
  <2> QED BY <1>2, <1>4, <1>6, <1>11, <2>1, ArrangedIn
<1>12. ASSUME NEW c \in pending, snapLoneDesk(c) PROVE DeskIn(d)'
  <2>1. d \notin c => rects'[d] = rects[d]
    BY <1>10, <1>12 DEF snapLoneDesk
  <2> QED BY <1>2, <1>4, <1>6, <1>12, <2>1, SnappedIn
<1> QED BY <1>7, <1>8, <1>9, <1>11, <1>12 DEF Tidy, TidyNext

\* Outside the engine a plan is begun, closed or left as it is.
LEMMA StillIn ==
    ASSUME InRoom, UNCHANGED <<layout, rects, room>>, phase' \in {phase, "result"}
    PROVE  InRoom'
BY DEF InRoom, HasPlan, AllFit, DeskIn, Originals, Desks

\* A plan begins with every desk where it was given.
LEMMA BeginIn ==
    ASSUME NEW size, Begin(objects, size)
    PROVE  InRoom'
<1>1. rects' = Originals'
  BY DEF Begin, Originals
<1> QED BY <1>1 DEF InRoom, AllFit, DeskIn

\* The page begins and closes plans and moves no desk of one.
LEMMA PageIn ==
    ASSUME InRoom, Page
    PROVE  InRoom'
<1>1. CASE UNCHANGED tidyVars
  BY <1>1, StillIn DEF tidyVars
<1>2. CASE \E size : Begin(objects, size)
  BY <1>2, BeginIn
<1>3. CASE reset
  BY <1>3 DEF reset, InRoom, HasPlan
<1>4. CASE goTo \/ toggleWizard
  BY <1>1, <1>2, <1>4 DEF goTo, toggleWizard, Shown
<1>5. CASE persistBoundary \/ handlePublish \/ requestEdit \/ cancelEdit \/ confirmEdit
           \/ apply \/ undo
  BY <1>1, <1>5 DEF persistBoundary, handlePublish, requestEdit, cancelEdit, confirmEdit, apply, undo
<1>6. CASE openPreview \/ cancel
  BY <1>2, <1>3, <1>6 DEF openPreview, cancel
<1> QED BY <1>4, <1>5, <1>6 DEF Page

\* An answer changes no plan but to show its result.
LEMMA NetworkIn ==
    ASSUME Network
    PROVE  UNCHANGED <<layout, rects, room>> /\ phase' \in {phase, "result"}
<1>1. PICK r \in requests : \/ serverStep(r) /\ UNCHANGED_page
                            \/ lose(r)
                            \/ answer(r)
  BY DEF Network
<1>2. CASE UNCHANGED_page \/ lose(r)
  BY <1>2 DEF UNCHANGED_page, lose, tidyVars
<1>3. CASE answer(r)
  BY <1>3 DEF answer, answerPatch, answerDelete, answerCreate, settleBoundary, answerRun, answerStatus, tidyVars
<1> QED BY <1>1, <1>2, <1>3

\* No step takes a desk of a plan out of the room.
LEMMA StepIn ==
    ASSUME Wholes, Typing, TidyInv, InRoom, [Next]_vars
    PROVE  InRoom'
<1>1. CASE Edit \/ UNCHANGED vars
  BY <1>1, EditTidy, StillIn DEF vars, tidyVars
<1>2. CASE Page
  BY <1>2, PageIn
<1>3. CASE Tidy
  BY <1>3, TidyIn, StepTidy
<1>4. CASE Network
  BY <1>4, NetworkIn, StillIn
<1> QED BY <1>1, <1>2, <1>3, <1>4 DEF Next

\* The desks a plan moves are off the cutouts that are not turned.
LEMMA OffCutouts ==
    ASSUME Typing, TidyInv, phase = "planned", NEW i \in Desks, rects[i] # Originals[i],
           NEW k \in DOMAIN Cutouts, ~IsQuarter(layout[k].rotation)
    PROVE  ~Overlap(Core(rects[i]), Cutouts[k])
<1> DEFINE r == rects[i]
           o == layout[k]
           c == Cutouts[k]
           s == Originals[k]
           e == Core(r)
<1>1. HasPlan /\ RectsKept /\ OthersStay /\ Settled(i) /\ Listed(layout, IdsOf(layout))
  BY DEF TidyInv, HasPlan
<1>2. /\ k \in DOMAIN layout /\ IsBox(c) /\ HasSize(c.w, c.h) /\ o.type = "cutout"
      /\ Inside(c, Rect(o.x, o.y, o.width, o.height))
  BY LayoutCutouts, TypingShows
<1>3. i \in DOMAIN layout /\ i \in DOMAIN rects /\ k \in DOMAIN rects
  BY <1>1, <1>2 DEF Desks, RectsKept
<1>4. s = [id |-> o.id, type |-> o.type, x |-> boxOf(o).x, y |-> boxOf(o).y, w |-> boxOf(o).w,
           h |-> boxOf(o).h, rot |-> o.rotation]
  BY <1>2 DEF Originals, ScreenRects, toScreenRect
<1>5. rects[k].type = "cutout"
  <2>1. SameObject(rects[k], s)
    BY <1>1, <1>2 DEF RectsKept
  <2> QED BY <1>2, <1>4, <2>1 DEF SameObject
<1>6. k \notin Desks /\ k \notin Walls /\ ~isPackableDesk(rects[k])
  BY <1>5 DEF Desks, Walls, isPackableDesk, isAxisAlignedWall, DESK_CAPABLE_TYPES
<1>7. rects[k] = s
  BY <1>1, <1>2, <1>6 DEF OthersStay
<1>8. r.id = layout[i].id /\ layout[i].id # o.id
  <2>1. SameObject(r, Originals[i]) /\ Originals[i].id = layout[i].id
    BY <1>1, <1>3 DEF RectsKept, Originals, ScreenRects, toScreenRect
  <2>2. i # k
    BY <1>6
  <2> QED BY <1>1, <1>2, <1>3, <2>1, <2>2 DEF SameObject, Listed
<1>9. ~Overlap(e, s)
  <2>1. ~Collides(r, rects[k])
    BY <1>1, <1>3, <1>6 DEF Settled
  <2>2. s.id # r.id /\ ~IsOpening(s.type)
    BY <1>2, <1>4, <1>8 DEF IsOpening
  <2> QED BY <1>7, <2>1, <2>2 DEF Collides
<1>10. s.x = o.x /\ s.y = o.y /\ s.w = o.width /\ s.h = o.height
  BY <1>4 DEF boxOf, rotatedRectExtent, Rect
<1>11. o.x \in Int /\ o.y \in Int /\ o.width \in Int /\ o.height \in Int
  BY <1>2 DEF Typing, SeqTyped, Typed, Good, OnPlane, OnPixels, ToSet
<1>12. e.x \in Int /\ e.y \in Int /\ e.w \in Int /\ e.h \in Int
  <2>1. r.x \in Int /\ r.y \in Int /\ r.w \in Int /\ r.h \in Int
    BY <1>1, EngineRects, DeskSized DEF Desks
  <2> QED BY <2>1, TidyAssumption DEF Core, Rect
<1>13. c.x \in Int /\ c.y \in Int /\ c.w \in Int /\ c.h \in Int
  BY <1>2 DEF IsBox, OnPixels
<1>14. /\ o.x <= c.x /\ c.x + c.w <= o.x + o.width
       /\ o.y <= c.y /\ c.y + c.h <= o.y + o.height
  BY <1>2 DEF Inside, Rect
<1> HIDE DEF e, s, c, o
<1>15. ~Overlap(e, c)
  BY <1>9, <1>10, <1>11, <1>12, <1>13, <1>14 DEF Overlap
<1> QED BY <1>15 DEF e, c

\* InRoom is inductive.
LEMMA InRoomHolds == Spec => []InRoom
<1>1. Init => InRoom
  BY DEF Init, InRoom, HasPlan
<1>2. Wholes /\ Typing /\ TidyInv /\ InRoom /\ [Next]_vars => InRoom'
  BY StepIn
<1> QED BY <1>1, <1>2, WholesHold, TypingHolds, EngineInvariant, PTL DEF Spec

\* For any layout and any number of passes, a desk that a plan moves or resizes is in
\* the room when every desk fits it, and off every cutout that is not turned: each place
\* is clamped to the room last (enhanceNormalize.ts:169-188), and a desk whose clamp
\* left it on another cutout is put back (enhanceNormalize.ts:571-584).
THEOREM DesksOnFloor == Spec => []DesksStayOnFloor
<1>1. Typing /\ TidyInv /\ InRoom => DesksStayOnFloor
  <2> SUFFICES ASSUME Typing, TidyInv, InRoom, phase = "planned",
                      NEW i \in Desks, rects[i] # Originals[i]
               PROVE  /\ AllFit => Inside(rects[i], room)
                      /\ \A k \in DOMAIN Cutouts :
                            ~IsQuarter(layout[k].rotation) => ~Overlap(Core(rects[i]), Cutouts[k])
    BY DEF DesksStayOnFloor, AllFit
  <2>1. AllFit => Inside(rects[i], room)
    BY DEF InRoom, HasPlan, DeskIn
  <2> QED BY <2>1, OffCutouts
<1> QED BY <1>1, TypingHolds, EngineInvariant, InRoomHolds, PTL

(***************************************************************************)
(* Places on a wall                                                        *)
(***************************************************************************)
\* A place on a wall's line has the coordinate it was made from, and lies on the line
\* where the wall is upright or level.
LEMMA BackOnWall ==
    ASSUME NEW w, HostOnPixels(w), NEW a \in Int
    PROVE  /\ projectAlong(w, pointOnWall(w, a)[1], pointOnWall(w, a)[2]) = a
           /\ Quarters(w.angle) =>
                 projectPerp(w, pointOnWall(w, a)[1], pointOnWall(w, a)[2]) = 0
<1> DEFINE p == pointOnWall(w, a)
           u == w.angle % 360
           X == w.cx + a
           Y == w.cy + a
           C == w.cx - a
           D == w.cy - a
<1>1. w.cx \in Int /\ w.cy \in Int
  BY DEF HostOnPixels, OnPixels
<1>2. X \in Int /\ Y \in Int /\ C \in Int /\ D \in Int
      /\ X - w.cx = a /\ Y - w.cy = a /\ w.cx - C = a /\ w.cy - D = a
  BY <1>1
<1>3. pointOnWall(w, a) = CASE u = 0   -> <<X, w.cy>>
                            [] u = 90  -> <<w.cx, Y>>
                            [] u = 180 -> <<C, w.cy>>
                            [] OTHER   -> <<w.cx, D>>
  BY DEF pointOnWall
<1>4. \A x, y : projectAlong(w, x, y) = CASE u = 0   -> x - w.cx
                                          [] u = 90  -> y - w.cy
                                          [] u = 180 -> w.cx - x
                                          [] OTHER   -> w.cy - y
  BY DEF projectAlong
<1>5. Quarters(w.angle) => /\ u \in {0, 90, 180, 270}
                           /\ IsQuarter(w.angle) <=> u \in {90, 270}
  BY DEF Quarters, IsQuarter
<1> HIDE DEF X, Y, C, D, u
<1>6. \/ u = 0 /\ p = <<X, w.cy>>
      \/ u = 90 /\ p = <<w.cx, Y>>
      \/ u = 180 /\ p = <<C, w.cy>>
      \/ u \notin {0, 90, 180} /\ p = <<w.cx, D>>
  <2>1. CASE u = 0
    BY <1>3, <2>1
  <2>2. CASE u = 90
    BY <1>3, <2>2
  <2>3. CASE u = 180
    BY <1>3, <2>3
  <2>4. CASE u \notin {0, 90, 180}
    BY <1>3, <2>4
  <2> QED BY <2>1, <2>2, <2>3, <2>4
<1> HIDE DEF p
<1>7. projectAlong(w, p[1], p[2]) = a
  <2>1. CASE u = 0 /\ p = <<X, w.cy>>
    BY <1>2, <1>4, <2>1
  <2>2. CASE u = 90 /\ p = <<w.cx, Y>>
    BY <1>2, <1>4, <2>2
  <2>3. CASE u = 180 /\ p = <<C, w.cy>>
    BY <1>2, <1>4, <2>3
  <2>4. CASE u \notin {0, 90, 180} /\ p = <<w.cx, D>>
    BY <1>2, <1>4, <2>4
  <2> QED BY <1>6, <2>1, <2>2, <2>3, <2>4
<1>8. ASSUME Quarters(w.angle) PROVE projectPerp(w, p[1], p[2]) = 0
  <2>1. IsQuarter(w.angle) => p[1] = w.cx
    BY <1>5, <1>6, <1>8
  <2>2. ~IsQuarter(w.angle) => p[2] = w.cy
    BY <1>5, <1>6, <1>8
  <2> QED BY <1>1, <2>1, <2>2 DEF projectPerp, Dist
<1> QED BY <1>7, <1>8 DEF p

\* The stretch of a wall something of this length covers.
LEMMA CoverEnds ==
    ASSUME NEW w, HostOnPixels(w), NEW o, OnPlane(o), o.width >= 0
    PROVE  /\ Max(Covers(w, o)) = 2 * Along(w, o) + o.width
           /\ Min(Covers(w, o)) = 2 * Along(w, o) - o.width
           /\ Along(w, o) \in Int /\ o.width \in Int
<1> DEFINE a == Along(w, o)
           s == 2 * a - o.width
           t == 2 * a + o.width
<1>1. o.width \in Int /\ CenterX(o) \in Int /\ CenterY(o) \in Int
  BY Centre
<1>2. a \in Int
  BY <1>1, WallCoordinates DEF Along
<1>3. Covers(w, o) = {s, t}
  BY DEF Covers
<1> HIDE DEF a
<1>4. s \in Int /\ t \in Int /\ s <= t
  BY <1>1, <1>2
<1> DEFINE c == Covers(w, o)
<1> HIDE DEF s, t, c
<1>5. Max({s, t}) = t /\ Min({s, t}) = s
  BY <1>4, TwoNumbers
<1>6. Max(c) = t /\ Min(c) = s
  BY <1>3, <1>5 DEF c
<1> QED BY <1>1, <1>2, <1>6 DEF a, c, s, t

\* The side a door or window is on is told by its middle and its length.
LEMMA SideTold ==
    ASSUME NEW w, HostOnPixels(w), NEW o, OnPlane(o), o.width >= 0,
           NEW p, OnPlane(p), p.width >= 0, NEW slack \in Int
    PROVE  LeftOf(w, o, p, slack)
              <=> 2 * Along(w, o) + o.width <= 2 * Along(w, p) - p.width + slack
BY CoverEnds DEF LeftOf

\* What is made from a place on a wall has it as its middle.
LEMMA MiddleMade ==
    ASSUME NEW x \in Int, NEW y \in Int, NEW o, o.width \in Int, o.height \in Int,
           o.x = x - o.width \div 2, o.y = y - o.height \div 2
    PROVE  CenterX(o) = x /\ CenterY(o) = y
<1> DEFINE u == o.width \div 2
           v == o.height \div 2
<1>1. u \in Int /\ v \in Int
  BY Half
<1>2. CenterX(o) = x - u + u /\ CenterY(o) = y - v + v
  BY DEF CenterX, CenterY
<1> HIDE DEF u, v
<1> QED BY <1>1, <1>2

\* What stays within a gap keeps the side of every stretch it is clear of.
LEMMA GapKeeps ==
    ASSUME NEW T, Spans(T), NEW along \in Int, NEW half \in Int, NEW wallHalf \in Int,
           NEW anchor \in Int, half <= wallHalf, NEW iv \in T
    PROVE  /\ iv[2] + half <= anchor =>
                 iv[2] + half <= clampAlongWithinGap(along, half, wallHalf, T, anchor)
           /\ iv[2] + half > anchor /\ iv[1] - half >= anchor =>
                 clampAlongWithinGap(along, half, wallHalf, T, anchor) <= iv[1] - half
<1> DEFINE A == {i \in T : i[2] + half <= anchor}
           B == {i \in T : i[2] + half > anchor /\ i[1] - half >= anchor}
           f == [i \in A |-> i[2] + half]
           g == [i \in B |-> i[1] - half]
           p == half - wallHalf
           q == wallHalf - half
           lo == Max({p} \cup {i[2] + half : i \in A})
           hi == Min({q} \cup {i[1] - half : i \in B})
           v == clampAlongWithinGap(along, half, wallHalf, T, anchor)
<1>1. v = IF lo > hi THEN anchor ELSE clamp(along, lo, hi)
  <2>1. v = CASE half > wallHalf -> 0
              [] half <= wallHalf /\ lo > hi -> anchor
              [] OTHER -> clamp(along, lo, hi)
    BY DEF clampAlongWithinGap
  <2>2. ~(half > wallHalf)
    OBVIOUS
  <2> HIDE DEF lo, hi, v
  <2> QED BY <2>1, <2>2
<1>2. IsFiniteSet(A) /\ IsFiniteSet(B) /\ \A i \in T : i[1] \in Int /\ i[2] \in Int
  BY FS_Subset DEF Spans
<1>3. f \in [A -> Int] /\ g \in [B -> Int] /\ p \in Int /\ q \in Int
  BY <1>2
<1>4. {i[2] + half : i \in A} = {f[i] : i \in A} /\ {i[1] - half : i \in B} = {g[i] : i \in B}
  OBVIOUS
<1>5. (iv \in A => f[iv] = iv[2] + half) /\ (iv \in B => g[iv] = iv[1] - half)
  OBVIOUS
<1>6. /\ iv \in A <=> iv[2] + half <= anchor
      /\ iv \in B <=> iv[2] + half > anchor /\ iv[1] - half >= anchor
  OBVIOUS
<1> HIDE DEF f, g, p, q, A, B, v
<1>7. lo = Max({p} \cup {f[i] : i \in A}) /\ hi = Min({q} \cup {g[i] : i \in B})
  BY <1>4
<1> HIDE DEF lo, hi
<1>8. lo \in Int /\ hi \in Int /\ (\A i \in A : f[i] <= lo) /\ (\A i \in B : hi <= g[i])
  <2>1. lo \in Int /\ \A i \in A : f[i] <= lo
    <3>1. IsFiniteSet(A) /\ f \in [A -> Int] /\ p \in Int
      BY <1>2, <1>3
    <3> QED BY <1>7, <3>1, EndOfNumbers
  <2>2. hi \in Int /\ \A i \in B : hi <= g[i]
    <3>1. IsFiniteSet(B) /\ g \in [B -> Int] /\ q \in Int
      BY <1>2, <1>3
    <3> QED BY <1>7, <3>1, EndOfNumbers
  <2> QED BY <2>1, <2>2
<1>9. lo <= hi => lo <= clamp(along, lo, hi) /\ clamp(along, lo, hi) <= hi
  BY <1>8, Clamped
<1>10. v \in Int
  BY GapNumber DEF v
<1>11. ASSUME iv[2] + half <= anchor PROVE iv[2] + half <= v
  <2>1. iv[2] + half <= lo
    BY <1>5, <1>6, <1>8, <1>11
  <2> QED BY <1>1, <1>2, <1>8, <1>9, <1>10, <1>11, <2>1
<1>12. ASSUME iv[2] + half > anchor, iv[1] - half >= anchor PROVE v <= iv[1] - half
  <2>1. hi <= iv[1] - half
    BY <1>5, <1>6, <1>8, <1>12
  <2> QED BY <1>1, <1>2, <1>8, <1>9, <1>10, <1>12, <2>1
<1> QED BY <1>11, <1>12 DEF v

(***************************************************************************)
(* Openings that slide and stretch                                         *)
(***************************************************************************)
\* What a neighbour takes of the wall is one of the stretches that are taken.
LEMMA NeighbourTaken ==
    ASSUME NEW wall, HostOnPixels(wall), NEW objs, Plane(objs), NEW id,
           NEW p \in Range(Others(objs, id)), IsOpening(p.type),
           OnWall(wall, CenterX(p), CenterY(p), 2)
    PROVE  /\ OnPlane(p)
           /\ \E iv \in openingsOnWall(wall, objs, id) :
                 /\ iv[1] = Along(wall, p) - p.width \div 2
                 /\ iv[2] = Along(wall, p) + p.width \div 2
<1> DEFINE a == projectAlong(wall, CenterX(p), CenterY(p))
           lo == a - p.width \div 2
           hi == a + p.width \div 2
<1>1. OnPlane(p)
  BY FewerInPlace DEF Range, Plane
<1>2. <<lo, hi>> \in openingsOnWall(wall, objs, id)
  BY DEF openingsOnWall
<1>3. lo = Along(wall, p) - p.width \div 2 /\ hi = Along(wall, p) + p.width \div 2
  BY DEF Along
<1> HIDE DEF lo, hi
<1>4. <<lo, hi>>[1] = lo /\ <<lo, hi>>[2] = hi
  OBVIOUS
<1> QED BY <1>1, <1>2, <1>3, <1>4

\* A length that is clear of a neighbour is clear of what is kept free for it.
LEMMA ClearOfNeighbour ==
    ASSUME NEW a \in Int, NEW w \in Int, w >= 1, NEW b \in Int, NEW v \in Int, v >= 0
    PROVE  /\ 2 * a + w <= 2 * b - v =>
                 /\ b - v \div 2 - w \div 2 >= a /\ b + v \div 2 + w \div 2 > a
                 /\ b - v \div 2 >= a /\ b + v \div 2 > a
           /\ 2 * b + v <= 2 * a - w => b + v \div 2 + w \div 2 <= a /\ b + v \div 2 <= a
           /\ \A c \in Int : /\ c <= b - v \div 2 - w \div 2 => 2 * c + w <= 2 * b - v + 2
                             /\ b + v \div 2 + w \div 2 <= c => 2 * b + v <= 2 * c - w + 2
<1> DEFINE h == w \div 2
           k == v \div 2
<1>1. h \in Int /\ k \in Int /\ 2 * h <= w /\ w <= 2 * h + 1 /\ 2 * k <= v /\ v <= 2 * k + 1
  OBVIOUS
<1> HIDE DEF h, k
<1>2. /\ 2 * a + w <= 2 * b - v => b - k - h >= a /\ b + k + h > a /\ b - k >= a /\ b + k > a
      /\ 2 * b + v <= 2 * a - w => b + k + h <= a /\ b + k <= a
      /\ \A c \in Int : /\ c <= b - k - h => 2 * c + w <= 2 * b - v + 2
                        /\ b + k + h <= c => 2 * b + v <= 2 * c - w + 2
  BY <1>1
<1> QED BY <1>2 DEF h, k

\* A door or window that slides along its host keeps its sides.
LEMMA SlidKeeps ==
    ASSUME NEW o, Whole(o), OnPlane(o), NEW x \in Int, NEW y \in Int, NEW objs, Plane(objs),
           NEW W, HostsInPlace(W), constrainWallObjectMove(o, x, y, objs, W) # <<>>
    PROVE  \E wall \in ToSet(nearestWall(W, CenterX(o), CenterY(o))) : \E s :
              /\ constrainWallObjectMove(o, x, y, objs, W) = <<s>> /\ MovedTo(o, s)
              /\ OnLine(wall, s) /\ KeepsSides(wall, o, s, objs)
<1> DEFINE host == nearestWall(W, CenterX(o), CenterY(o))
           wall == host[1]
           target == projectAlong(wall, x + o.width \div 2, y + o.height \div 2)
           anchor == projectAlong(wall, CenterX(o), CenterY(o))
           half == o.width \div 2
           wallHalf == wall.length \div 2
           T == openingsOnWall(wall, objs, o.id)
           along == clampAlongWithinGap(target, half, wallHalf, T, anchor)
           p == pointOnWall(wall, along)
           a == p[1] - o.width \div 2
           b == p[2] - o.height \div 2
           s == [o EXCEPT !.x = a, !.y = b]
<1>1. constrainWallObjectMove(o, x, y, objs, W) = IF host = <<>> THEN <<>> ELSE <<s>>
  BY DEF constrainWallObjectMove
<1>2. host # <<>>
  BY <1>1
<1>3. /\ CenterX(o) \in Int /\ CenterY(o) \in Int /\ o.width \in Int /\ o.height \in Int
      /\ half \in Int /\ o.height \div 2 \in Int
  BY Centre
<1>4. host = <<wall>> /\ HostOnPixels(wall)
  BY <1>2, <1>3, HostFound
<1>5. wall \in ToSet(host)
  <2> HIDE DEF wall, host
  <2>1. host[1] = wall /\ 1 \in DOMAIN host
    BY <1>4
  <2> QED BY <2>1 DEF ToSet
<1>6. wallHalf \in Int /\ wall.length \in Int
  BY <1>4, Half DEF HostOnPixels, OnPixels
<1> HIDE DEF host
<1>7. target \in Int /\ anchor \in Int
  <2> DEFINE u == x + o.width \div 2
             v == y + o.height \div 2
  <2>1. u \in Int /\ v \in Int
    BY <1>3
  <2> HIDE DEF u, v
  <2>2. projectAlong(wall, u, v) \in Int /\ anchor \in Int
    BY <1>3, <1>4, <2>1, WallCoordinates
  <2> QED BY <2>2 DEF u, v
<1>8. Spans(T)
  BY <1>4, TakenSpans
<1>20. anchor = Along(wall, o)
  BY DEF Along
<1> HIDE DEF target, anchor, T
<1>9. along \in Int
  <2> HIDE DEF half, wallHalf
  <2> QED BY <1>3, <1>6, <1>7, <1>8, GapNumber
<1> HIDE DEF along
<1>10. p[1] \in Int /\ p[2] \in Int
  BY <1>3, <1>4, <1>9, WallCoordinates
<1>11. projectAlong(wall, p[1], p[2]) = along
  BY <1>4, <1>9, BackOnWall
<1>12. Quarters(wall.angle) => projectPerp(wall, p[1], p[2]) = 0
  BY <1>4, <1>9, BackOnWall
<1> HIDE DEF p
<1>13. a \in Int /\ b \in Int
  BY <1>3, <1>10
<1>14. s.x = a /\ s.y = b /\ s.width = o.width /\ s.height = o.height
  <2> HIDE DEF a, b
  <2> QED BY DEF Whole, HasFields, ObjectFields, ShapeFields
<1>15. MovedTo(o, s)
  <2> HIDE DEF a, b
  <2> QED BY <1>13 DEF MovedTo
<1>16. OnPlane(s)
  <2> HIDE DEF a, b, s
  <2> QED BY <1>3, <1>13, <1>14 DEF OnPlane, OnPixels
<1>17. CenterX(s) = p[1] /\ CenterY(s) = p[2]
  <2>1. s.width \in Int /\ s.height \in Int
        /\ s.x = p[1] - s.width \div 2 /\ s.y = p[2] - s.height \div 2
    <3> HIDE DEF s
    <3> QED BY <1>3, <1>14
  <2> HIDE DEF s, a, b
  <2> QED BY <1>10, <2>1, MiddleMade
<1>18. Along(wall, s) = along /\ OnLine(wall, s)
  BY <1>11, <1>12, <1>17 DEF Along, OnLine
<1> HIDE DEF a, b, s, wall
<1>19. KeepsSides(wall, o, s, objs)
  <2> SUFFICES ASSUME NEW q \in Range(Others(objs, o.id)), IsOpening(q.type), q.width >= 0,
                      OnWall(wall, CenterX(q), CenterY(q), 2),
                      o.width \in 1 .. wall.length
               PROVE  /\ LeftOf(wall, o, q, 0) => LeftOf(wall, s, q, 2)
                      /\ LeftOf(wall, q, o, 0) => LeftOf(wall, q, s, 2)
    BY DEF KeepsSides
  <2> DEFINE c == Along(wall, q)
             v == q.width
             w == o.width
  <2>1. OnPlane(q)
    BY <1>4, NeighbourTaken
  <2>2. PICK iv \in T : iv[1] = c - v \div 2 /\ iv[2] = c + v \div 2
    BY <1>4, NeighbourTaken DEF T
  <2>3. c \in Int /\ v \in Int /\ w \in Int /\ w >= 1 /\ half <= wallHalf
    <3>1. c \in Int /\ v \in Int
      BY <1>4, <2>1, CoverEnds
    <3>2. w \in Int /\ w >= 1 /\ w <= wall.length
      BY <1>6
    <3>3. half <= wallHalf
      BY <1>6, <3>2
    <3> QED BY <3>1, <3>2, <3>3
  <2>4. /\ LeftOf(wall, o, q, 0) <=> 2 * anchor + w <= 2 * c - v
        /\ LeftOf(wall, q, o, 0) <=> 2 * c + v <= 2 * anchor - w
    <3>0. o.width >= 0 /\ q.width >= 0 /\ 0 \in Int
      BY <2>3
    <3>1. LeftOf(wall, o, q, 0) <=> 2 * Along(wall, o) + o.width <= 2 * Along(wall, q) - q.width + 0
      BY <1>4, <2>1, <3>0, SideTold
    <3>2. LeftOf(wall, q, o, 0) <=> 2 * Along(wall, q) + q.width <= 2 * Along(wall, o) - o.width + 0
      BY <1>4, <2>1, <3>0, SideTold
    <3>3. /\ LeftOf(wall, o, q, 0) <=> 2 * anchor + w <= 2 * c - v + 0
          /\ LeftOf(wall, q, o, 0) <=> 2 * c + v <= 2 * anchor - w + 0
      BY <1>20, <3>1, <3>2
    <3> HIDE DEF c, v, w
    <3> QED BY <1>7, <2>3, <3>3
  <2>5. /\ LeftOf(wall, s, q, 2) <=> 2 * along + w <= 2 * c - v + 2
        /\ LeftOf(wall, q, s, 2) <=> 2 * c + v <= 2 * along - w + 2
    <3>0. s.width >= 0 /\ q.width >= 0 /\ 2 \in Int
      BY <1>14, <2>3
    <3>1. LeftOf(wall, s, q, 2) <=> 2 * Along(wall, s) + s.width <= 2 * Along(wall, q) - q.width + 2
      BY <1>4, <1>16, <2>1, <3>0, SideTold
    <3>2. LeftOf(wall, q, s, 2) <=> 2 * Along(wall, q) + q.width <= 2 * Along(wall, s) - s.width + 2
      BY <1>4, <1>16, <2>1, <3>0, SideTold
    <3> QED BY <1>14, <1>18, <3>1, <3>2
  <2>6. /\ iv[2] + half <= anchor => iv[2] + half <= along
        /\ iv[2] + half > anchor /\ iv[1] - half >= anchor => along <= iv[1] - half
    <3> HIDE DEF half, wallHalf, c, v
    <3> QED BY <1>3, <1>6, <1>7, <1>8, <2>2, <2>3, GapKeeps DEF along
  <2> DEFINE k == v \div 2
             h == w \div 2
  <2>7. half = h /\ iv[1] = c - k /\ iv[2] = c + k /\ v >= 0
    BY <2>2
  <2>8. /\ 2 * anchor + w <= 2 * c - v => c - k - h >= anchor /\ c + k + h > anchor
        /\ 2 * c + v <= 2 * anchor - w => c + k + h <= anchor
        /\ along <= c - k - h => 2 * along + w <= 2 * c - v + 2
        /\ c + k + h <= along => 2 * c + v <= 2 * along - w + 2
    <3> HIDE DEF c, v, w
    <3> QED BY <1>7, <1>9, <2>3, <2>7, ClearOfNeighbour
  <2> HIDE DEF c, v, w, k, h, half
  <2> QED BY <2>4, <2>5, <2>6, <2>7, <2>8
<1> QED BY <1>1, <1>2, <1>5, <1>15, <1>18, <1>19 DEF host, wall

\* Of two numbers the larger and the smaller.
LEMMA EitherEnd ==
    ASSUME NEW a \in Int, NEW b \in Int
    PROVE  /\ Max({a, b}) \in {a, b} /\ a <= Max({a, b}) /\ b <= Max({a, b})
           /\ Min({a, b}) \in {a, b} /\ Min({a, b}) <= a /\ Min({a, b}) <= b
           /\ Max({a, b}) \in Int /\ Min({a, b}) \in Int
<1> DEFINE x == Max({a, b})
           y == Min({a, b})
<1>1. x = (IF a >= b THEN a ELSE b) /\ y = (IF a <= b THEN a ELSE b)
  BY TwoNumbers
<1> HIDE DEF x, y
<1>2. /\ x \in {a, b} /\ a <= x /\ b <= x
      /\ y \in {a, b} /\ y <= a /\ y <= b /\ x \in Int /\ y \in Int
  BY <1>1
<1> QED BY <1>2 DEF x, y

\* The end of some stretches is past each of them and no farther than all of them.
LEMMA EndOfTaken ==
    ASSUME NEW T, Spans(T), NEW A \in SUBSET T, NEW a \in Int, NEW c \in Int
    PROVE  /\ Max({a} \cup {iv[2] : iv \in A}) \in Int
           /\ a <= Max({a} \cup {iv[2] : iv \in A})
           /\ \A iv \in A : iv[2] <= Max({a} \cup {u[2] : u \in A})
           /\ a <= c /\ (\A iv \in A : iv[2] <= c) => Max({a} \cup {iv[2] : iv \in A}) <= c
           /\ Min({a} \cup {iv[1] : iv \in A}) \in Int
           /\ Min({a} \cup {iv[1] : iv \in A}) <= a
           /\ \A iv \in A : Min({a} \cup {u[1] : u \in A}) <= iv[1]
           /\ c <= a /\ (\A iv \in A : c <= iv[1]) => c <= Min({a} \cup {iv[1] : iv \in A})
<1>1. ASSUME NEW f, f \in [A -> Int]
      PROVE  /\ IsFiniteSet({a} \cup {f[iv] : iv \in A})
             /\ {a} \cup {f[iv] : iv \in A} \in SUBSET Int
             /\ {a} \cup {f[iv] : iv \in A} # {}
  <2> DEFINE R == {f[iv] : iv \in A}
  <2>1. IsFiniteSet(A)
    BY FS_Subset DEF Spans
  <2>2. f \in Surjection(A, Range(f))
    <3>1. f \in [A -> Range(f)]
      BY <1>1 DEF Range
    <3> QED BY <3>1, Fun_RangeProperties
  <2>3. R = Range(f)
    BY <1>1 DEF Range
  <2>4. IsFiniteSet(R)
    BY <2>1, <2>2, <2>3, FS_Surjection
  <2>5. {a} \cup R = R \cup {a} /\ R \in SUBSET Int
    BY <1>1
  <2> HIDE DEF R
  <2>6. IsFiniteSet(R \cup {a})
    BY <2>4, FS_AddElement
  <2>7. IsFiniteSet({a} \cup R) /\ {a} \cup R \in SUBSET Int /\ {a} \cup R # {}
    BY <2>5, <2>6
  <2> QED BY <2>7 DEF R
<1> DEFINE f == [iv \in A |-> iv[2]]
           g == [iv \in A |-> iv[1]]
           S == {a} \cup {f[iv] : iv \in A}
           R == {a} \cup {g[iv] : iv \in A}
<1>2. f \in [A -> Int] /\ g \in [A -> Int]
  BY DEF Spans
<1>3. \A iv \in A : f[iv] = iv[2] /\ g[iv] = iv[1]
  OBVIOUS
<1>4. {a} \cup {iv[2] : iv \in A} = S /\ {a} \cup {iv[1] : iv \in A} = R
  OBVIOUS
<1> HIDE DEF f, g
<1>5. IsFiniteSet(S) /\ S \in SUBSET Int /\ S # {}
  BY <1>1, <1>2
<1>6. IsFiniteSet(R) /\ R \in SUBSET Int /\ R # {}
  BY <1>1, <1>2
<1>7. /\ \A x : x \in S <=> x = a \/ \E iv \in A : x = iv[2]
      /\ \A x : x \in R <=> x = a \/ \E iv \in A : x = iv[1]
  BY <1>3
<1> HIDE DEF S, R
<1>8. Max(S) \in S /\ \A x \in S : x <= Max(S)
  BY <1>5, FiniteEnds
<1>9. Min(R) \in R /\ \A x \in R : Min(R) <= x
  BY <1>6, FiniteEnds
<1>10. /\ Max(S) \in Int /\ a <= Max(S) /\ \A iv \in A : iv[2] <= Max(S)
       /\ a <= c /\ (\A iv \in A : iv[2] <= c) => Max(S) <= c
  BY <1>5, <1>7, <1>8
<1>11. /\ Min(R) \in Int /\ Min(R) <= a /\ \A iv \in A : Min(R) <= iv[1]
       /\ c <= a /\ (\A iv \in A : c <= iv[1]) => c <= Min(R)
  BY <1>6, <1>7, <1>9
<1> QED BY <1>4, <1>10, <1>11

\* What is stretched between two ends stays between them, up to half a pixel.
LEMMA BetweenEnds ==
    ASSUME NEW segLo \in Int, NEW segHi \in Int, segLo <= segHi, NEW lo \in Int, NEW hi \in Int,
           segLo <= lo, hi <= segHi, NEW least \in Int, least >= 0,
           NEW len \in Int, NEW mid \in Int,
           \/ hi - lo >= least /\ len = hi - lo /\ mid = (lo + hi) \div 2
           \/ /\ hi - lo < least /\ len = Min({least, segHi - segLo})
              /\ mid = Max({segLo + len \div 2, Min({segHi - len \div 2, (lo + hi) \div 2})})
    PROVE  len >= 0 /\ 2 * mid + len <= 2 * segHi + 1 /\ 2 * segLo - 1 <= 2 * mid - len
<1>1. CASE hi - lo >= least /\ len = hi - lo /\ mid = (lo + hi) \div 2
  <2>1. 2 * mid <= lo + hi /\ lo + hi <= 2 * mid + 1
    BY <1>1
  <2> QED BY <1>1, <2>1
<1>2. CASE /\ len = Min({least, segHi - segLo})
           /\ mid = Max({segLo + len \div 2, Min({segHi - len \div 2, (lo + hi) \div 2})})
  <2> DEFINE d == segHi - segLo
             h == len \div 2
             c == (lo + hi) \div 2
             u == segHi - h
             v == segLo + h
             m == Min({u, c})
  <2>1. d \in Int /\ d >= 0 /\ len = Min({least, d})
    BY <1>2
  <2> HIDE DEF d
  <2>2. len >= 0 /\ len <= d
    <3>1. Min({least, d}) \in {least, d} /\ Min({least, d}) <= d
      BY <2>1, EitherEnd
    <3> QED BY <2>1, <3>1
  <2>3. h \in Int /\ 2 * h <= len /\ len <= 2 * h + 1 /\ c \in Int
    BY Half
  <2>4. mid = Max({v, m})
    BY <1>2
  <2> HIDE DEF h, c
  <2>5. u \in Int /\ v \in Int
    BY <2>3
  <2> HIDE DEF u, v
  <2>6. m \in Int /\ m <= u
    BY <2>3, <2>5, EitherEnd
  <2> HIDE DEF m
  <2>7. mid \in {v, m} /\ v <= mid
    BY <2>4, <2>5, <2>6, TwoNumbers
  <2> QED BY <2>1, <2>2, <2>3, <2>5, <2>6, <2>7 DEF d, u, v
<1> QED BY <1>1, <1>2

\* A door or window that is stretched on its wall keeps its sides.
LEMMA StretchedKeeps ==
    ASSUME NEW o, Whole(o), OnPlane(o), NEW wall, HostOnPixels(wall), NEW x \in Int, NEW y \in Int,
           NEW proposed \in Int, NEW objs, Plane(objs)
    PROVE  /\ OnLine(wall, resizeOpeningOnWall(o, wall, x, y, proposed, objs))
           /\ KeepsSides(wall, o, resizeOpeningOnWall(o, wall, x, y, proposed, objs), objs)
<1> DEFINE anchor == projectAlong(wall, CenterX(o), CenterY(o))
           taken == openingsOnWall(wall, objs, o.id)
           before == {i \in taken : i[2] <= anchor}
           after == {i \in taken : i[2] > anchor /\ i[1] >= anchor}
           half == wall.length \div 2
           back == -half
           segLo == Max({back} \cup {iv[2] : iv \in before})
           segHi == Min({half} \cup {iv[1] : iv \in after})
           along == projectAlong(wall, x, y)
           want == proposed \div 2
           from == along - want
           to == along + want
           lo == Max({segLo, from})
           hi == Min({segHi, to})
           least == MIN_OBJECT_SIZE
           len == IF hi - lo < least THEN Min({least, segHi - segLo}) ELSE hi - lo
           mid == IF hi - lo < least
                  THEN Max({segLo + len \div 2, Min({segHi - len \div 2, (lo + hi) \div 2})})
                  ELSE (lo + hi) \div 2
           p == pointOnWall(wall, mid)
           thick == wall.thickness
           turned == wall.angle
           a == p[1] - len \div 2
           b == p[2] - thick \div 2
           s == resizeOpeningOnWall(o, wall, x, y, proposed, objs)
<1>1. s = [o EXCEPT !.x = a, !.y = b, !.width = len, !.height = thick, !.rotation = turned]
  BY DEF resizeOpeningOnWall
<1>2. ReshapedTo(o, s)
  BY ResizedPlace
<1>3. CenterX(o) \in Int /\ CenterY(o) \in Int
  BY Centre
<1>4. anchor \in Int /\ along \in Int /\ anchor = Along(wall, o)
  BY <1>3, WallCoordinates DEF Along
<1>5. Spans(taken)
  BY TakenSpans
<1>6. wall.length \in Int /\ thick \in Int
  BY DEF HostOnPixels, OnPixels
<1>7. half \in Int /\ want \in Int /\ thick \div 2 \in Int
  BY <1>6, Half
<1>8. back \in Int /\ back = -half
  <2> HIDE DEF half
  <2> QED BY <1>7
<1>9. /\ before \in SUBSET taken /\ after \in SUBSET taken
      /\ \A iv \in before : iv[2] <= anchor
      /\ \A iv \in after : anchor <= iv[1]
      /\ \A iv \in taken : /\ iv[2] <= anchor => iv \in before
                           /\ iv[2] > anchor /\ iv[1] >= anchor => iv \in after
  OBVIOUS
<1> HIDE DEF anchor, along, taken, before, after, want, back, thick, turned, s
<1> HIDE DEF half
<1>10. /\ segLo \in Int /\ \A iv \in before : iv[2] <= segLo
       /\ back <= anchor /\ (\A iv \in before : iv[2] <= anchor) => segLo <= anchor
  BY <1>4, <1>5, <1>8, <1>9, EndOfTaken
<1>11. /\ segHi \in Int /\ \A iv \in after : segHi <= iv[1]
       /\ anchor <= half /\ (\A iv \in after : anchor <= iv[1]) => anchor <= segHi
  BY <1>4, <1>5, <1>7, <1>9, EndOfTaken
<1> HIDE DEF segLo, segHi
<1>12. from \in Int /\ to \in Int
  BY <1>4, <1>7
<1> HIDE DEF from, to
<1>13. lo \in Int /\ hi \in Int /\ segLo <= lo /\ hi <= segHi
  <2>1. lo \in Int /\ segLo <= lo
    BY <1>10, <1>12, EitherEnd
  <2>2. hi \in Int /\ hi <= segHi
    BY <1>11, <1>12, EitherEnd
  <2> QED BY <2>1, <2>2
<1> HIDE DEF lo, hi
<1>14. least \in Int /\ least >= 0
  BY GeometryAssumption
<1> HIDE DEF least
<1>15. len \in Int
  <2> DEFINE d == segHi - segLo
  <2>1. d \in Int
    BY <1>10, <1>11
  <2> HIDE DEF d
  <2>2. Min({least, d}) \in Int
    BY <1>14, <2>1, TwoNumbers
  <2> QED BY <1>13, <2>2 DEF d
<1>16. hi - lo < least => len = Min({least, segHi - segLo})
  OBVIOUS
<1>17. hi - lo >= least => len = hi - lo
  BY <1>13, <1>14
<1> HIDE DEF len
<1>18. mid \in Int
  <2> DEFINE h == len \div 2
             c == (lo + hi) \div 2
             u == segHi - h
             v == segLo + h
             m == Min({u, c})
             q == Max({v, m})
  <2>1. h \in Int /\ c \in Int
    BY <1>13, <1>15, Half
  <2>2. mid \in {q, c}
    OBVIOUS
  <2> HIDE DEF h, c, mid
  <2>3. u \in Int /\ v \in Int
    BY <1>10, <1>11, <2>1
  <2> HIDE DEF u, v
  <2>4. m \in Int
    BY <2>1, <2>3, TwoNumbers
  <2> HIDE DEF m
  <2>5. q \in Int
    BY <2>3, <2>4, TwoNumbers
  <2> HIDE DEF q
  <2> QED BY <2>1, <2>2, <2>5
<1>19. \/ hi - lo >= least /\ len = hi - lo /\ mid = (lo + hi) \div 2
       \/ /\ hi - lo < least /\ len = Min({least, segHi - segLo})
          /\ mid = Max({segLo + len \div 2, Min({segHi - len \div 2, (lo + hi) \div 2})})
  <2>1. hi - lo < least \/ hi - lo >= least
    BY <1>13, <1>14
  <2>2. hi - lo >= least => ~(hi - lo < least)
    BY <1>13, <1>14
  <2> QED BY <1>16, <1>17, <2>1, <2>2
<1> HIDE DEF mid
<1>20. p[1] \in Int /\ p[2] \in Int
  BY <1>3, <1>18, WallCoordinates
<1>21. projectAlong(wall, p[1], p[2]) = mid /\ (Quarters(wall.angle) => projectPerp(wall, p[1], p[2]) = 0)
  BY <1>18, BackOnWall
<1>22. len \div 2 \in Int
  BY <1>15, Half
<1> HIDE DEF p
<1>23. a \in Int /\ b \in Int
  BY <1>7, <1>20, <1>22
<1>24. s.x = p[1] - s.width \div 2 /\ s.y = p[2] - s.height \div 2 /\ s.width = len /\ s.height = thick
  <2>1. s.x = a /\ s.y = b /\ s.width = len /\ s.height = thick
    <3> HIDE DEF a, b
    <3> QED BY <1>1 DEF Whole, HasFields, ObjectFields, ShapeFields
  <2> QED BY <2>1
<1> HIDE DEF a, b
<1>25. CenterX(s) = p[1] /\ CenterY(s) = p[2]
  BY <1>6, <1>15, <1>20, <1>24, MiddleMade
<1>26. Along(wall, s) = mid /\ OnLine(wall, s)
  BY <1>21, <1>25 DEF Along, OnLine
<1>27. OnPlane(s)
  BY <1>2, ReshapedSame
<1>28. KeepsSides(wall, o, s, objs)
  <2> SUFFICES ASSUME NEW q \in Range(Others(objs, o.id)), IsOpening(q.type), q.width >= 0,
                      OnWall(wall, CenterX(q), CenterY(q), 2), o.width \in 1 .. wall.length,
                      Dist(Along(wall, o), 0) <= wall.length \div 2
               PROVE  /\ LeftOf(wall, o, q, 0) => LeftOf(wall, s, q, 2)
                      /\ LeftOf(wall, q, o, 0) => LeftOf(wall, q, s, 2)
    BY DEF KeepsSides
  <2> DEFINE c == Along(wall, q)
             v == q.width
             w == o.width
             k == v \div 2
  <2>1. OnPlane(q)
    BY NeighbourTaken
  <2>2. PICK iv \in taken : iv[1] = c - k /\ iv[2] = c + k
    BY NeighbourTaken DEF taken
  <2>3. c \in Int /\ v \in Int /\ w \in Int /\ w >= 1 /\ v >= 0
    <3>1. c \in Int /\ v \in Int
      BY <2>1, CoverEnds
    <3>2. w \in Int /\ w >= 1
      BY <1>6
    <3> QED BY <3>1, <3>2
  <2>4. back <= anchor /\ anchor <= half
    <3>1. Dist(anchor, 0) <= half
      BY <1>4 DEF half
    <3> QED BY <1>4, <1>7, <1>8, <3>1 DEF Dist
  <2>5. segLo <= segHi
    BY <1>4, <1>9, <1>10, <1>11, <2>4
  <2>6. len >= 0 /\ 2 * mid + len <= 2 * segHi + 1 /\ 2 * segLo - 1 <= 2 * mid - len
    BY <1>10, <1>11, <1>13, <1>14, <1>15, <1>18, <1>19, <2>5, BetweenEnds
  <2>7. /\ LeftOf(wall, o, q, 0) <=> 2 * anchor + w <= 2 * c - v
        /\ LeftOf(wall, q, o, 0) <=> 2 * c + v <= 2 * anchor - w
    <3>0. o.width >= 0 /\ q.width >= 0 /\ 0 \in Int
      BY <2>3
    <3>1. LeftOf(wall, o, q, 0) <=> 2 * Along(wall, o) + o.width <= 2 * Along(wall, q) - q.width + 0
      BY <2>1, <3>0, SideTold
    <3>2. LeftOf(wall, q, o, 0) <=> 2 * Along(wall, q) + q.width <= 2 * Along(wall, o) - o.width + 0
      BY <2>1, <3>0, SideTold
    <3>3. /\ LeftOf(wall, o, q, 0) <=> 2 * anchor + w <= 2 * c - v + 0
          /\ LeftOf(wall, q, o, 0) <=> 2 * c + v <= 2 * anchor - w + 0
      BY <1>4, <3>1, <3>2
    <3> HIDE DEF c, v, w
    <3> QED BY <1>4, <2>3, <3>3
  <2>8. /\ LeftOf(wall, s, q, 2) <=> 2 * mid + len <= 2 * c - v + 2
        /\ LeftOf(wall, q, s, 2) <=> 2 * c + v <= 2 * mid - len + 2
    <3>0. s.width >= 0 /\ q.width >= 0 /\ 2 \in Int
      BY <1>24, <2>3, <2>6
    <3>1. LeftOf(wall, s, q, 2) <=> 2 * Along(wall, s) + s.width <= 2 * Along(wall, q) - q.width + 2
      BY <1>27, <2>1, <3>0, SideTold
    <3>2. LeftOf(wall, q, s, 2) <=> 2 * Along(wall, q) + q.width <= 2 * Along(wall, s) - s.width + 2
      BY <1>27, <2>1, <3>0, SideTold
    <3> QED BY <1>24, <1>26, <3>1, <3>2
  <2>9. /\ 2 * anchor + w <= 2 * c - v => c - k >= anchor /\ c + k > anchor
        /\ 2 * c + v <= 2 * anchor - w => c + k <= anchor
    <3> HIDE DEF c, v, w
    <3> QED BY <1>4, <2>3, ClearOfNeighbour
  <2>10. k \in Int /\ 2 * k <= v /\ v <= 2 * k + 1
    <3> HIDE DEF v
    <3> QED BY <2>3
  <2> HIDE DEF c, v, w, k
  <2>11. ASSUME 2 * anchor + w <= 2 * c - v PROVE 2 * mid + len <= 2 * c - v + 2
    <3>1. segHi <= c - k
      BY <1>9, <1>11, <2>2, <2>9, <2>11
    <3> QED BY <1>11, <1>15, <1>18, <2>3, <2>6, <2>10, <3>1
  <2>12. ASSUME 2 * c + v <= 2 * anchor - w PROVE 2 * c + v <= 2 * mid - len + 2
    <3>1. c + k <= segLo
      BY <1>9, <1>10, <2>2, <2>9, <2>12
    <3> QED BY <1>10, <1>15, <1>18, <2>3, <2>6, <2>10, <3>1
  <2> QED BY <2>7, <2>8, <2>11, <2>12
<1> QED BY <1>26, <1>28 DEF s

(***************************************************************************)
(* Which handler sends which request                                       *)
(***************************************************************************)
\* The handlers that move, slide, resize or turn what is on the canvas say so.
Handles == {"slide", "drag", "key", "transform"}

\* The requests a step sends that one of those handlers sends.
Handling == {r \in NewRequests : r.op \in Handles}

\* Requests of other handlers are none of these.
LEMMA NoneHandled ==
    ASSUME NEW news, \A r \in news : r.op \notin Handles, requests' \subseteq requests \cup news
    PROVE  Handling = {}
BY DEF Handling, NewRequests

\* A request of another handler,
LEMMA OthersHandled ==
    ASSUME NEW kind, NEW op, op \notin Handles, NEW id, NEW body, NEW news,
           \A r \in news : r = Request(kind, op, id, body, Nothing), Send(news)
    PROVE  Handling = {}
<1>1. \A r \in news : r.op \notin Handles
  BY RequestFields
<1> QED BY <1>1, NoneHandled DEF Send

\* a save of another handler,
LEMMA SavesHandled ==
    ASSUME NEW moves, NEW guard, NEW op, op \notin Handles, persistObjectPatch(moves, guard, op)
    PROVE  Handling = {}
<1> DEFINE news == {SaveOf(m, op) : m \in Unguarded(moves, guard)}
<1>1. requests' = requests \cup news
  BY DEF persistObjectPatch, Send
<1>2. \A r \in news : r.op \notin Handles
  BY SaveFields
<1> HIDE DEF news
<1> QED BY <1>1, <1>2, NoneHandled

\* and a request that goes on to its next stage.
LEMMA StagesHandled ==
    ASSUME RequestsWhole, NEW r \in requests, NEW at, at # "sent", NEW copy, At_(r, at, copy)
    PROVE  Handling = {}
<1> DEFINE next == [r EXCEPT !.at = at, !.copy = copy]
<1>1. next.at = at
  BY DEF RequestsWhole, WholeRequest
<1>2. requests' = (requests \ {r}) \cup {next}
  BY DEF At_
<1> HIDE DEF next
<1> QED BY <1>1, <1>2 DEF Handling, NewRequests

\* Edits that are none of those handlers'.
LEMMA EditHandled ==
    ASSUME Edit, Handling # {}
    PROVE  handleObjectDragEnd \/ handleCanvasKeyDown \/ handleObjectTransform
<1>1. CASE InspectorEditor
  <2>1. \E moves : persistObjectPatch(moves, FALSE, "details")
    BY <1>1 DEF InspectorEditor, handleObjectDetailsSave
  <2> QED BY <2>1, SavesHandled DEF Handles
<1>2. CASE handleDeleteSelected
  <2>1. PICK o \in ToSet(objects) :
          Send({Request("delete", "delete", o.id, Nothing, Nothing)})
    BY <1>2 DEF handleDeleteSelected
  <2> QED BY <2>1, OthersHandled DEF Handles
<1>3. CASE handleLibrarySelect
  <2>1. \/ requests' = requests
        \/ \E o : Send({Request("create", "add", PlanObject, o, Nothing)})
    BY <1>3 DEF handleLibrarySelect, handleQuickAdd
  <2>2. requests' = requests => Handling = {}
    BY DEF Handling, NewRequests
  <2>3. (\E o : Send({Request("create", "add", PlanObject, o, Nothing)})) => Handling = {}
    BY OthersHandled DEF Handles
  <2> QED BY <2>1, <2>2, <2>3
<1>4. CASE handlePlacementMove
  <2>1. requests' = requests
    BY <1>4 DEF handlePlacementMove
  <2> QED BY <2>1 DEF Handling, NewRequests
<1>5. CASE handlePlacementClick
  <2>1. \E o : Send({Request("create", "place", PlanObject, o, Nothing)})
    BY <1>5 DEF handlePlacementClick
  <2> QED BY <2>1, OthersHandled DEF Handles
<1>6. ASSUME NEW new, NEW shift, handleBoundaryResize(new, shift)
      PROVE  FALSE
  <2>1. persistObjectPatch(resizeMoves(new, shift), TRUE, "resize")
    BY <1>6 DEF handleBoundaryResize
  <2> QED BY <2>1, SavesHandled DEF Handles
<1>7. CASE onRoomSizeChange
  BY <1>6, <1>7 DEF onRoomSizeChange
<1>8. CASE handleBoundaryTransformEnd
  BY <1>6, <1>8 DEF handleBoundaryTransformEnd
<1> QED BY <1>1, <1>2, <1>3, <1>4, <1>5, <1>7, <1>8 DEF Edit

\* The timer, the wizard, publishing and the tidy dialog.
LEMMA PageHandled ==
    ASSUME Page
    PROVE  Handling = {}
<1>1. CASE persistBoundary
  <2> DEFINE news == {Request("floor", "floor", PlanObject, new, Nothing) : new \in timer}
  <2>1. requests' = requests \cup news
    BY <1>1 DEF persistBoundary, Send
  <2>2. \A r \in news : r.op \notin Handles
    BY RequestFields DEF Handles
  <2> HIDE DEF news
  <2> QED BY <2>1, <2>2, NoneHandled
<1>2. CASE requests' = requests
  BY <1>2 DEF Handling, NewRequests
<1>3. CASE handlePublish
  <2>1. Send({Request("publish", "status", PlanObject, Nothing, Nothing)})
    BY <1>3 DEF handlePublish
  <2> QED BY <2>1, OthersHandled DEF Handles
<1>4. CASE confirmEdit
  <2>1. Send({Request("unpublish", "status", PlanObject, Nothing, Nothing)})
    BY <1>4 DEF confirmEdit
  <2> QED BY <2>1, OthersHandled DEF Handles
<1>5. CASE apply
  <2>1. \E chosen : Send({Request("tidy", "tidy", PlanObject, ChosenPlan(chosen), Nothing)})
    BY <1>5 DEF apply
  <2> QED BY <2>1, OthersHandled DEF Handles
<1>6. CASE undo
  <2>1. \E run : Send({Request("undo", "tidy", PlanObject, run, Nothing)})
    BY <1>6 DEF undo
  <2> QED BY <2>1, OthersHandled DEF Handles
<1>7. goTo \/ toggleWizard \/ requestEdit \/ cancelEdit \/ openPreview \/ cancel => requests' = requests
  BY DEF goTo, toggleWizard, UNCHANGED_step, requestEdit, cancelEdit, openPreview, cancel
<1> QED BY <1>1, <1>2, <1>3, <1>4, <1>5, <1>6, <1>7 DEF Page

\* The server, the connection and the answers.
LEMMA NetworkHandled ==
    ASSUME RequestsWhole, Network
    PROVE  Handling = {}
<1>1. PICK r \in requests : (serverStep(r) /\ UNCHANGED_page) \/ lose(r) \/ answer(r)
  BY DEF Network
<1>2. CASE serverStep(r)
  <2>1. \E copy : At_(r, "done", copy) \/ At_(r, "refused", copy) \/ At_(r, "read", copy)
    BY <1>2 DEF serverStep, handleAlone, readRow, saveRow, createRow, applyRun, undoRun, handleFloor
  <2> QED BY <2>1, StagesHandled
<1>3. CASE lose(r)
  <2>1. At_(r, "refused", Nothing)
    BY <1>3 DEF lose
  <2> QED BY <2>1, StagesHandled
<1>4. CASE answer(r)
  <2>1. CASE settleBoundary(r)
    <3> DEFINE news == {SaveOf(m, "reflow") : m \in Unguarded(reflowMoves(r.body), TRUE)}
    <3>1. requests' = (requests \ {r}) \cup news
      BY <2>1 DEF settleBoundary
    <3>2. \A q \in news : q.op \notin Handles
      <4>1. \A m : SaveOf(m, "reflow").op = "reflow"
        BY SaveFields
      <4> QED BY <4>1 DEF Handles
    <3> HIDE DEF news
    <3> QED BY <3>1, <3>2, NoneHandled
  <2>2. CASE requests' = requests \ {r}
    BY <2>2 DEF Handling, NewRequests
  <2>3. settleBoundary(r) \/ requests' = requests \ {r}
    BY <1>4 DEF answer, answerPatch, answerDelete, answerCreate, answerRun, answerStatus
  <2> QED BY <2>1, <2>2, <2>3
<1> QED BY <1>1, <1>2, <1>3, <1>4

\* A request of one of those handlers was sent by one of them.
LEMMA WhoSends ==
    ASSUME RequestsWhole, [Next]_vars, Handling # {}
    PROVE  handleObjectDragEnd \/ handleCanvasKeyDown \/ handleObjectTransform
<1>1. requests' = requests => Handling = {}
  BY DEF Handling, NewRequests
<1>2. Tidy \/ UNCHANGED vars => requests' = requests
  BY DEF Tidy, vars
<1> QED BY <1>1, <1>2, EditHandled, PageHandled, NetworkHandled DEF Next

(***************************************************************************)
(* The page after a handler                                                *)
(***************************************************************************)
\* What a handler saves is one of the changes it makes of an object of the page.
LEMMA SavedFrom ==
    ASSUME Wholes, NEW moves, NEW op, persistObjectPatch(moves, TRUE, op), NEW r \in NewRequests
    PROVE  /\ r.op = op
           /\ \E m \in moves : /\ m.id = r.id /\ m \in Unguarded(moves, TRUE)
                               /\ \E o \in ToSet(objects) : o.id = r.id
<1> DEFINE go == Unguarded(moves, TRUE)
<1>1. requests' = requests \cup {SaveOf(m, op) : m \in go}
  BY DEF persistObjectPatch, Send
<1>2. \A m \in go : m \in moves /\ m.id \in IdsOf(objects)
  BY DEF Unguarded
<1> HIDE DEF go
<1>3. PICK m \in go : r = SaveOf(m, op)
  BY <1>1 DEF NewRequests
<1>4. r.op = op /\ r.id = m.id
  BY <1>3, SaveFields
<1>5. ObjectOf(r.id) \in ToSet(objects) /\ ObjectOf(r.id).id = r.id
  BY <1>2, <1>3, <1>4, PageObject
<1> QED BY <1>2, <1>3, <1>4, <1>5 DEF go

\* An object of the page is the one its name stands for.
LEMMA NamedOnPage ==
    ASSUME Wholes, NEW o \in ToSet(objects)
    PROVE  ObjectOf(o.id) = o /\ o.id \in IdsOf(objects)
<1>1. o.id \in IdsOf(objects)
  BY PageObjects
<1>2. Of(objects, o.id) = {ObjectOf(o.id)}
  BY <1>1, PageObject
<1>3. o \in Of(objects, o.id)
  BY DEF Of
<1> QED BY <1>1, <1>2, <1>3

\* After the step an object has the fields of one of its changes, or is as it was.
LEMMA ChangedAfter ==
    ASSUME Wholes, NEW moves, \A m \in moves : MoveWhole(m, Len(objects)), NEW op,
           persistObjectPatch(moves, TRUE, op), NEW o \in ToSet(objects)
    PROVE  \/ (\A m \in moves : m.id # o.id \/ o.id \in saving) /\ After(o.id) = o
           \/ \E m \in moves : m.id = o.id /\ After(o.id) = With(o, m.patch)
<1> DEFINE go == Unguarded(moves, TRUE)
           new == Patched(objects, go)
<1>1. objects' = new
  BY DEF persistObjectPatch
<1>2. /\ \A m \in go : m \in moves /\ MoveWhole(m, Len(objects))
      /\ o.id \in IdsOf(objects) => \A m \in moves : m.id = o.id => m \in go \/ o.id \in saving
  BY DEF Unguarded
<1>3. Len(objects) \in Nat /\ o.id \in IdsOf(objects) /\ Listed(objects, DOMAIN stored)
  BY PageObjects DEF Wholes
<1> HIDE DEF go
<1>4. PICK i \in DOMAIN objects : objects[i] = o
  BY DEF ToSet
<1>5. DOMAIN new = DOMAIN objects
  BY DEF Patched
<1>6. \A j \in DOMAIN objects : new[j].id = objects[j].id
  <2> SUFFICES ASSUME NEW j \in DOMAIN objects PROVE new[j].id = objects[j].id
    OBVIOUS
  <2>1. new[j] = objects[j] \/ \E m \in go : new[j] = With(objects[j], m.patch)
    BY <1>2, <1>3, PatchedPlace
  <2>2. Whole(objects[j]) /\ \A m \in go : DOMAIN m.patch \subseteq ShapeFields
    BY <1>2, <1>3 DEF Listed, MoveWhole
  <2> HIDE DEF new
  <2> QED BY <2>1, <2>2, PatchKeeps
<1>7. \/ (\A m \in go : m.id # o.id) /\ new[i] = o
      \/ \E m \in go : m.id = o.id /\ new[i] = With(o, m.patch)
  BY <1>2, <1>3, <1>4, PatchedPlace
<1> HIDE DEF new
<1>8. Of(new, o.id) = {new[i]}
  BY <1>3, <1>4, <1>5, <1>6, SamePlace
<1>9. After(o.id) = new[i]
  <2>1. After(o.id) = CHOOSE p \in ToSet(new) : p.id = o.id
    BY <1>1 DEF After
  <2>2. \A p : p \in ToSet(new) /\ p.id = o.id <=> p = new[i]
    BY <1>8 DEF Of
  <2> QED BY <2>1, <2>2
<1> QED BY <1>2, <1>3, <1>7, <1>9

(***************************************************************************)
(* Doors and windows keep their sides                                      *)
(***************************************************************************)
\* A handler that makes one change leaves its object with it.
LEMMA OneChange ==
    ASSUME Wholes, NEW o \in ToSet(objects), NEW m, m.id = o.id, MoveWhole(m, Len(objects)), NEW op,
           persistObjectPatch({m}, TRUE, op), NEW r \in NewRequests
    PROVE  r.op = op /\ r.id = o.id /\ ObjectOf(r.id) = o /\ After(r.id) = With(o, m.patch)
<1> DEFINE moves == {m}
<1>1. /\ \A k \in moves : k = m
      /\ \A k \in moves : MoveWhole(k, Len(objects))
      /\ persistObjectPatch(moves, TRUE, op)
  OBVIOUS
<1> HIDE DEF moves
<1>2. PICK k \in moves : k.id = r.id /\ k \in Unguarded(moves, TRUE)
  BY <1>1, SavedFrom
<1>3. r.op = op /\ r.id = o.id /\ o.id \notin saving
  BY <1>1, <1>2, SavedFrom DEF Unguarded
<1>4. ObjectOf(o.id) = o
  BY NamedOnPage
<1>5. \/ (\A j \in moves : j.id # o.id \/ o.id \in saving) /\ After(o.id) = o
      \/ \E j \in moves : j.id = o.id /\ After(o.id) = With(o, j.patch)
  BY <1>1, ChangedAfter
<1>6. After(o.id) = With(o, m.patch)
  BY <1>1, <1>2, <1>3, <1>5
<1> QED BY <1>3, <1>4, <1>6

\* An object with the place of a moved one is the moved one.
LEMMA MoveShown ==
    ASSUME NEW o, Whole(o), OnPlane(o), NEW s, MovedTo(o, s)
    PROVE  With(o, Move(o.id, s.x, s.y).patch) = s
<1>1. PICK x \in Int, y \in Int : s = [o EXCEPT !.x = x, !.y = y]
  BY DEF MovedTo
<1>2. /\ DOMAIN o = ObjectFields /\ DOMAIN s = ObjectFields /\ s = [f \in ObjectFields |-> s[f]]
      /\ \A f \in ObjectFields : f \notin {"x", "y"} => s[f] = o[f]
  BY <1>1, WholeDomain
<1> DEFINE patch == [x |-> s.x, y |-> s.y]
<1>3. DOMAIN patch = {"x", "y"} /\ patch["x"] = s["x"] /\ patch["y"] = s["y"]
  OBVIOUS
<1>4. Move(o.id, s.x, s.y).patch = patch
  BY DEF Move, Change
<1> HIDE DEF patch
<1>5. (DOMAIN patch) \cup (DOMAIN o) = ObjectFields
  BY <1>2, <1>3 DEF ObjectFields, ShapeFields
<1>6. With(o, patch) = [f \in ObjectFields |-> IF f \in DOMAIN patch THEN patch[f] ELSE o[f]]
  BY <1>5 DEF With
<1>7. With(o, patch) = [f \in ObjectFields |-> s[f]]
  BY <1>2, <1>3, <1>6
<1> QED BY <1>2, <1>4, <1>7

\* An object with the geometry of a remade one is the remade one.
LEMMA ShapeShown ==
    ASSUME NEW o, Whole(o), NEW s, Whole(s), s.id = o.id, s.type = o.type
    PROVE  With(o, Shape(s)) = s
<1> DEFINE patch == Shape(s)
<1>1. DOMAIN o = ObjectFields /\ s = [f \in ObjectFields |-> s[f]]
  BY WholeDomain DEF Whole, HasFields
<1>2. DOMAIN patch = ShapeFields /\ \A f \in ShapeFields : patch[f] = s[f]
  BY DEF Shape
<1>3. s["id"] = o["id"] /\ s["type"] = o["type"]
  OBVIOUS
<1> HIDE DEF patch
<1>4. (DOMAIN patch) \cup (DOMAIN o) = ObjectFields
  BY <1>1, <1>2 DEF ObjectFields
<1>5. With(o, patch) = [f \in ObjectFields |-> IF f \in DOMAIN patch THEN patch[f] ELSE o[f]]
  BY <1>4 DEF With
<1>6. \A f \in ObjectFields : f \in ShapeFields \/ f = "id" \/ f = "type"
  BY DEF ObjectFields
<1>7. With(o, patch) = [f \in ObjectFields |-> s[f]]
  BY <1>2, <1>3, <1>5, <1>6
<1> QED BY <1>1, <1>7 DEF patch

\* An opening that is slid to the place its wall gives it.
LEMMA SlidSettled ==
    ASSUME Wholes, Typing, NEW o \in ToSet(objects), NEW x \in Int, NEW y \in Int,
           NEW carved \in visit.carved, NEW s, NEW op,
           constrainWallObjectMove(o, x, y, objects, HostWalls(carved)) = <<s>>,
           persistObjectPatch({Move(o.id, s.x, s.y)}, TRUE, op), NEW r \in NewRequests
    PROVE  StaysApart(r)
<1> DEFINE W == HostWalls(carved)
           m == Move(o.id, s.x, s.y)
<1>1. PageInPlace /\ Len(objects) \in Nat /\ Whole(o) /\ OnPlane(o)
  BY PageHere DEF Good
<1>2. HostsInPlace(W)
  BY <1>1, HostsHere
<1> HIDE DEF W
<1>3. constrainWallObjectMove(o, x, y, objects, W) = <<s>> /\ <<s>> # <<>>
  BY DEF W
<1>4. PICK wall \in ToSet(nearestWall(W, CenterX(o), CenterY(o))) : \E t :
        /\ constrainWallObjectMove(o, x, y, objects, W) = <<t>> /\ MovedTo(o, t)
        /\ OnLine(wall, t) /\ KeepsSides(wall, o, t, objects)
  BY <1>1, <1>2, <1>3, SlidKeeps DEF PageInPlace
<1>5. MovedTo(o, s) /\ OnLine(wall, s) /\ KeepsSides(wall, o, s, objects)
  <2>1. PICK t : /\ constrainWallObjectMove(o, x, y, objects, W) = <<t>> /\ MovedTo(o, t)
                 /\ OnLine(wall, t) /\ KeepsSides(wall, o, t, objects)
    BY <1>4
  <2>2. <<s>> = <<t>>
    BY <1>3, <2>1
  <2>3. s = t
    <3>1. <<s>>[1] = <<t>>[1]
      BY <2>2
    <3> QED BY <3>1
  <2> QED BY <2>1, <2>3
<1>6. m.id = o.id /\ MoveWhole(m, Len(objects)) /\ m.patch = Move(o.id, s.x, s.y).patch
  BY <1>1 DEF Move, Change, MoveWhole, ShapeFields
<1>7. With(o, m.patch) = s
  BY <1>1, <1>5, <1>6, MoveShown
<1>8. persistObjectPatch({m}, TRUE, op)
  OBVIOUS
<1> HIDE DEF m
<1>9. ObjectOf(r.id) = o /\ After(r.id) = s
  BY <1>6, <1>7, <1>8, OneChange
<1> QED BY <1>4, <1>5, <1>9 DEF StaysApart, W

\* The mouse,
LEMMA DragSettled ==
    ASSUME Wholes, Typing, handleObjectDragEnd, NEW r \in NewRequests, r.op = "slide"
    PROVE  StaysApart(r)
<1>1. PICK o \in ToSet(objects), at \in visit.drops, view \in Views :
        \E to \in {Pulled(o, at[1], at[2], view.carved)} :
           \/ dragOpening(o, to.x, to.y, view.carved)
           \/ dragCutout(o, to.x, to.y)
           \/ dragFurniture(o, to.x, to.y, view.grid)
  BY DEF handleObjectDragEnd
<1> DEFINE px == at[1]
           py == at[2]
           carved == view.carved
           x == Pulled(o, px, py, carved).x
           y == Pulled(o, px, py, carved).y
<1>2. px \in Int /\ py \in Int /\ carved \in visit.carved
  BY Inputs DEF Views
<1>3. \/ dragOpening(o, x, y, carved)
      \/ dragCutout(o, x, y)
      \/ dragFurniture(o, x, y, view.grid)
  BY <1>1
<1> HIDE DEF px, py, carved
<1>4. x \in Int /\ y \in Int
  BY <1>2, PageHere, PulledNumbers
<1> HIDE DEF x, y
<1>5. ASSUME NEW moves, NEW op, op # "slide", persistObjectPatch(moves, TRUE, op) PROVE FALSE
  BY <1>5, SavedFrom
<1>6. ~dragCutout(o, x, y)
  BY <1>5 DEF dragCutout
<1>7. ~dragFurniture(o, x, y, view.grid)
  BY <1>5 DEF dragFurniture
<1> DEFINE to == constrainWallObjectMove(o, x, y, objects, HostWalls(carved))
<1>8. IF to = <<>> THEN persistObjectPatch({Move(o.id, x, y)}, TRUE, "loose")
      ELSE persistObjectPatch({Move(o.id, to[1].x, to[1].y)}, TRUE, "slide")
  BY <1>3, <1>6, <1>7 DEF dragOpening
<1>9. to = <<>> \/ \E s : to = <<s>>
  BY <1>4, PageHere, HostsHere, SlidMoves DEF PageInPlace, Good
<1> HIDE DEF to
<1>10. to # <<>>
  BY <1>5, <1>8
<1>11. PICK s : to = <<s>>
  BY <1>9, <1>10
<1>12. persistObjectPatch({Move(o.id, s.x, s.y)}, TRUE, "slide")
  BY <1>8, <1>10, <1>11
<1> QED BY <1>2, <1>4, <1>11, <1>12, SlidSettled DEF to

\* the arrow keys,
LEMMA KeySettled ==
    ASSUME Wholes, Typing, handleCanvasKeyDown, NEW r \in NewRequests, r.op = "slide"
    PROVE  StaysApart(r)
<1>1. PICK o \in ToSet(objects), d \in {<<-1, 0>>, <<1, 0>>, <<0, -1>>, <<0, 1>>},
           step \in visit.keys, view \in Views :
        persistObjectPatch(keyMoves(o, keyTarget(o, d[1], d[2], step, view.grid), view.carved),
                           TRUE, IF IsOpening(o.type) THEN "slide" ELSE "key")
  BY DEF handleCanvasKeyDown
<1> DEFINE dx == d[1]
           dy == d[2]
           carved == view.carved
           grid == view.grid
           raw == keyTarget(o, dx, dy, step, grid)
           moves == keyMoves(o, raw, carved)
           op == IF IsOpening(o.type) THEN "slide" ELSE "key"
<1>2. dx \in Int /\ dy \in Int /\ grid \in Nat /\ step \in Int /\ carved \in visit.carved
  BY Inputs DEF Views, OnPixels
<1>3. persistObjectPatch(moves, TRUE, op)
  BY <1>1
<1> HIDE DEF dx, dy, carved, grid
<1>4. PageInPlace /\ Len(objects) \in Nat /\ Whole(o) /\ OnPlane(o) /\ MovedTo(o, raw)
  BY <1>2, PageHere, KeyTargetMoves DEF Good
<1> HIDE DEF raw
<1> DEFINE x == raw.x
           y == raw.y
           slid == constrainWallObjectMove(o, x, y, objects, HostWalls(carved))
<1>5. x \in Int /\ y \in Int
  BY <1>4, MovedNumbers
<1>6. op = "slide" /\ \E m \in moves : m.id = r.id
  <2> HIDE DEF moves, op
  <2> QED BY <1>3, SavedFrom
<1>7. IsOpening(o.type)
  BY <1>6
<1>8. moves = {Move(o.id, s.x, s.y) : s \in ToSet(slid)}
  BY <1>7 DEF keyMoves, IsOpening
<1> HIDE DEF x, y, op, moves
<1>9. slid = <<>> \/ \E s : slid = <<s>>
  BY <1>4, <1>5, HostsHere, SlidMoves DEF PageInPlace
<1> HIDE DEF slid
<1>10. slid # <<>>
  BY <1>6, <1>8 DEF ToSet
<1>11. PICK s : slid = <<s>>
  BY <1>9, <1>10
<1>12. moves = {Move(o.id, s.x, s.y)}
  BY <1>8, <1>11 DEF ToSet
<1>13. persistObjectPatch({Move(o.id, s.x, s.y)}, TRUE, op)
  BY <1>3, <1>12
<1> QED BY <1>2, <1>5, <1>11, <1>13, SlidSettled DEF slid

\* and the handles.
LEMMA StretchSettled ==
    ASSUME Wholes, Typing, handleObjectTransform, NEW r \in NewRequests, r.op = "slide"
    PROVE  StaysApart(r)
<1>1. PICK o \in ToSet(objects), box \in visit.boxes, view \in Views :
        persistObjectPatch({Change(t.id, Shape(t)) :
                              t \in transformed(o, box, view.grid, view.carved)},
                           TRUE, IF Hosted(o, view.carved) THEN "slide" ELSE "transform")
  BY DEF handleObjectTransform
<1> DEFINE carved == view.carved
           grid == view.grid
           S == transformed(o, box, grid, carved)
           moves == {Change(t.id, Shape(t)) : t \in S}
           op == IF Hosted(o, carved) THEN "slide" ELSE "transform"
           raw == With(o, Handled(o, box))
           W == HostWalls(carved)
           host == nearestWall(W, CenterX(o), CenterY(o))
           wall == host[1]
           x == CenterX(raw)
           y == CenterY(raw)
           len == raw.width
           s == resizeOpeningOnWall(o, wall, x, y, len, objects)
<1>2. carved \in visit.carved /\ BoxInput(box)
  BY Inputs DEF Views
<1>3. persistObjectPatch(moves, TRUE, op)
  BY <1>1
<1> HIDE DEF carved, grid
<1>4. PageInPlace /\ Len(objects) \in Nat /\ Good(o)
  BY PageHere
<1>5. Remade(o, raw)
  BY <1>2, <1>4, RawGood
<1>6. op = "slide"
  <2> HIDE DEF moves, op
  <2> QED BY <1>3, SavedFrom
<1>7. IsOpening(o.type) /\ host # <<>>
  BY <1>6 DEF Hosted
<1>8. S = {s}
  BY <1>7 DEF transformed, IsOpening
<1>9. moves = {Change(s.id, Shape(s))}
  BY <1>8
<1> HIDE DEF moves, S, op, s
<1>10. x \in Int /\ y \in Int /\ len \in Int
  <2> HIDE DEF raw
  <2> QED BY <1>5, Centre DEF Remade, Good
<1> HIDE DEF x, y, len, raw
<1>11. HostsInPlace(W)
  BY <1>4, HostsHere
<1> HIDE DEF W
<1>12. HostOnPixels(wall) /\ host = <<wall>>
  <2> DEFINE cx == CenterX(o)
             cy == CenterY(o)
  <2>1. cx \in Int /\ cy \in Int /\ host = nearestWall(W, cx, cy)
    BY <1>4, Centre DEF Good
  <2> HIDE DEF cx, cy
  <2>2. nearestWall(W, cx, cy) # <<>>
    BY <1>7, <2>1
  <2> QED BY <1>11, <2>1, <2>2, HostFound
<1>13. wall \in ToSet(host)
  <2> HIDE DEF wall, host
  <2>1. host[1] = wall /\ 1 \in DOMAIN host
    BY <1>12
  <2> QED BY <2>1 DEF ToSet
<1> HIDE DEF wall, host
<1>14. s = resizeOpeningOnWall(o, wall, x, y, len, objects)
  BY DEF s
<1>15. ReshapedTo(o, s)
  BY <1>4, <1>10, <1>12, <1>14, ResizedPlace DEF Good, PageInPlace
<1>16. Whole(s) /\ s.id = o.id /\ s.type = o.type
  BY <1>4, <1>15, ReshapedSame DEF Good
<1>17. OnLine(wall, s) /\ KeepsSides(wall, o, s, objects)
  BY <1>4, <1>10, <1>12, <1>14, StretchedKeeps DEF Good, PageInPlace
<1> DEFINE m == Change(s.id, Shape(s))
<1>18. m.id = o.id /\ MoveWhole(m, Len(objects)) /\ m.patch = Shape(s)
  BY <1>4, <1>16 DEF Change, MoveWhole, Shape
<1>19. persistObjectPatch({m}, TRUE, op)
  BY <1>3, <1>9
<1> HIDE DEF m
<1>20. ObjectOf(r.id) = o /\ After(r.id) = With(o, Shape(s))
  <2>1. ObjectOf(r.id) = o /\ After(r.id) = With(o, m.patch)
    BY <1>18, <1>19, OneChange
  <2> QED BY <1>18, <2>1
<1>21. With(o, Shape(s)) = s
  BY <1>4, <1>16, ShapeShown DEF Good
<1> QED BY <1>2, <1>13, <1>17, <1>20, <1>21 DEF StaysApart, host, W

\* However far a door or window is pulled, pushed with the keys or stretched, and in
\* whatever layout, what is next to it on its wall stays on its side, up to the pixel
\* that odd lengths are rounded by, and it ends on the line of the wall
\* (constrainWallObjectMove, resizeOpeningOnWall: wallPlacement.ts:362-459).
THEOREM SlidesKeepApart == Spec => SlideKeepsApart
<1>1. ASSUME Wholes, Inv, Typing, [Next]_vars, NEW r \in NewRequests, r.op = "slide"
      PROVE  StaysApart(r)
  <2>1. r \in Handling
    BY <1>1 DEF Handling, Handles
  <2>2. handleObjectDragEnd \/ handleCanvasKeyDown \/ handleObjectTransform
    BY <1>1, <2>1, WhoSends DEF Inv
  <2> QED BY <1>1, <2>2, DragSettled, KeySettled, StretchSettled
<1>2. Wholes /\ Inv /\ Typing /\ [Next]_vars => \A r \in NewRequests : r.op = "slide" => StaysApart(r)
  BY <1>1
<1> QED BY <1>2, WholesHold, InvHolds, TypingHolds, PTL DEF Spec, SlideKeepsApart

(***************************************************************************)
(* Walls take their doors and windows along                                *)
(***************************************************************************)
\* A place as it is seen from an object before that is turned.
LocalX(w, x, y) == IF IsQuarter(w.rotation) THEN y - CenterY(w) ELSE x - CenterX(w)
LocalY(w, x, y) == IF IsQuarter(w.rotation) THEN CenterX(w) - x ELSE y - CenterY(w)

\* Turns of an upright or level wall.
LEMMA Turned ==
    ASSUME NEW a, Quarters(a)
    PROVE  /\ a % 360 \in {0, 90, 180, 270} /\ (a + 90) % 360 \in {0, 90, 180, 270}
           /\ IsQuarter(a) <=> a % 360 \in {90, 270}
           /\ IsQuarter(a + 90) <=> ~IsQuarter(a)
           /\ (a + 90) % 360 \in {90, 270} <=> ~IsQuarter(a)
<1>1. a \in Int /\ a % 90 = 0
  BY DEF Quarters
<1>2. a % 360 \in {0, 90, 180, 270} /\ (a + 90) % 360 \in {0, 90, 180, 270}
  BY <1>1
<1>3. a % 180 = 90 <=> a % 360 \in {90, 270}
  BY <1>1
<1>4. (a + 90) % 180 = 90 <=> a % 180 # 90
  BY <1>1
<1>5. (a + 90) % 360 \in {90, 270} <=> a % 180 # 90
  BY <1>1
<1> QED BY <1>2, <1>3, <1>4, <1>5 DEF IsQuarter

\* A wall's band across and along, for a wall that is upright or level.
LEMMA Straight ==
    ASSUME NEW w, HostOnPixels(w), w.angle % 360 \in {0, 90, 180, 270},
           IsQuarter(w.angle) <=> w.angle % 360 \in {90, 270}, NEW x \in Int, NEW y \in Int
    PROVE  /\ IsQuarter(w.angle) => /\ projectPerp(w, x, y) = Dist(x, w.cx)
                                    /\ Dist(projectAlong(w, x, y), 0) = Dist(y, w.cy)
           /\ ~IsQuarter(w.angle) => /\ projectPerp(w, x, y) = Dist(y, w.cy)
                                     /\ Dist(projectAlong(w, x, y), 0) = Dist(x, w.cx)
<1> DEFINE u == w.angle % 360
<1>1. w.cx \in Int /\ w.cy \in Int
  BY DEF HostOnPixels, OnPixels
<1>2. projectAlong(w, x, y) = CASE u = 0   -> x - w.cx
                                [] u = 90  -> y - w.cy
                                [] u = 180 -> w.cx - x
                                [] OTHER   -> w.cy - y
  BY DEF projectAlong
<1>3. projectPerp(w, x, y) = IF IsQuarter(w.angle) THEN Dist(x, w.cx) ELSE Dist(y, w.cy)
  BY DEF projectPerp
<1>4. u \in {0, 90, 180, 270} /\ (IsQuarter(w.angle) <=> u \in {90, 270})
  OBVIOUS
<1> DEFINE a == projectAlong(w, x, y)
<1>5. /\ u \in {90, 270} => a = y - w.cy \/ a = w.cy - y
      /\ u \in {0, 180} => a = x - w.cx \/ a = w.cx - x
  <2> HIDE DEF u
  <2> QED BY <1>2
<1> HIDE DEF a, u
<1>6. /\ u \in {90, 270} => Dist(a, 0) = Dist(y, w.cy)
      /\ u \in {0, 180} => Dist(a, 0) = Dist(x, w.cx)
  BY <1>1, <1>5 DEF Dist
<1> QED BY <1>3, <1>4, <1>6 DEF a

\* What is on a user's wall, seen from the wall.
LEMMA InBand ==
    ASSUME NEW w, OnPlane(w), Quarters(w.rotation), NEW x \in Int, NEW y \in Int, NEW slack \in Int
    PROVE  OnWall(userWallToSnapWall(w), x, y, slack)
             <=> /\ Dist(LocalX(w, x, y), 0) <= w.width \div 2 + slack
                 /\ Dist(LocalY(w, x, y), 0) <= w.height \div 2 + slack
<1> DEFINE s == userWallToSnapWall(w)
           cx == CenterX(w)
           cy == CenterY(w)
           r == w.rotation
           q == w.rotation + 90
           p == LocalX(w, x, y)
           l == LocalY(w, x, y)
<1>1. cx \in Int /\ cy \in Int /\ w.width \in Int /\ w.height \in Int
      /\ w.width \div 2 \in Int /\ w.height \div 2 \in Int
  BY Centre
<1>2. HostOnPixels(s)
  BY UserHost
<1>3. /\ p = IF IsQuarter(r) THEN y - cy ELSE x - cx
      /\ l = IF IsQuarter(r) THEN cx - x ELSE y - cy
  BY DEF LocalX, LocalY
<1>4. /\ IsQuarter(r) => Dist(p, 0) = Dist(y, cy) /\ Dist(l, 0) = Dist(x, cx)
      /\ ~IsQuarter(r) => Dist(p, 0) = Dist(x, cx) /\ Dist(l, 0) = Dist(y, cy)
  <2> HIDE DEF p, l, cx, cy
  <2> QED BY <1>1, <1>3 DEF Dist
<1>5. s = IF w.width >= w.height THEN SnapWall(cx, cy, w.width, w.height, r)
          ELSE SnapWall(cx, cy, w.height, w.width, q)
  BY DEF userWallToSnapWall
<1>6. OnWall(s, x, y, slack) <=> /\ projectPerp(s, x, y) <= s.thickness \div 2 + slack
                                 /\ Dist(projectAlong(s, x, y), 0) <= s.length \div 2 + slack
  BY DEF OnWall
<1>7. /\ r % 360 \in {0, 90, 180, 270} /\ q % 360 \in {0, 90, 180, 270}
      /\ IsQuarter(r) <=> r % 360 \in {90, 270}
      /\ IsQuarter(q) <=> ~IsQuarter(r)
      /\ q % 360 \in {90, 270} <=> ~IsQuarter(r)
  BY Turned
<1> HIDE DEF s, cx, cy, r, q, p, l
<1>8. CASE w.width >= w.height
  <2>1. s.cx = cx /\ s.cy = cy /\ s.length = w.width /\ s.thickness = w.height /\ s.angle = r
    BY <1>5, <1>8 DEF SnapWall
  <2>2. /\ IsQuarter(r) => /\ projectPerp(s, x, y) = Dist(x, cx)
                           /\ Dist(projectAlong(s, x, y), 0) = Dist(y, cy)
        /\ ~IsQuarter(r) => /\ projectPerp(s, x, y) = Dist(y, cy)
                            /\ Dist(projectAlong(s, x, y), 0) = Dist(x, cx)
    BY <1>2, <1>7, <2>1, Straight
  <2> QED BY <1>4, <1>6, <2>1, <2>2 DEF s, p, l
<1>9. CASE ~(w.width >= w.height)
  <2>1. s.cx = cx /\ s.cy = cy /\ s.length = w.height /\ s.thickness = w.width /\ s.angle = q
    BY <1>5, <1>9 DEF SnapWall
  <2>2. /\ IsQuarter(q) => /\ projectPerp(s, x, y) = Dist(x, cx)
                           /\ Dist(projectAlong(s, x, y), 0) = Dist(y, cy)
        /\ ~IsQuarter(q) => /\ projectPerp(s, x, y) = Dist(y, cy)
                            /\ Dist(projectAlong(s, x, y), 0) = Dist(x, cx)
    BY <1>2, <1>7, <2>1, Straight
  <2> QED BY <1>4, <1>6, <1>7, <2>1, <2>2 DEF s, p, l
<1> QED BY <1>8, <1>9

\* A share of a place stays within the same share of the length, up to the pixel it is
\* rounded down by.
LEMMA ShareWithin ==
    ASSUME NEW l \in Int, NEW L \in Int, L > 0, NEW N \in Int, N > 0, Dist(l, 0) <= L \div 2
    PROVE  Dist((l * N) \div L, 0) <= N \div 2 + 1
<1> DEFINE p == l * N
           q == p \div L
           R == L * N
           S == L * q
<1>1. 2 * l <= L /\ -L <= 2 * l
  BY DEF Dist
<1>2. p \in Int /\ R \in Int /\ R > 0
  OBVIOUS
<1>3. 2 * p <= R
  <2>1. (L - 2 * l) * N >= 0
    <3> DEFINE d == L - 2 * l
    <3>1. d \in Int /\ d >= 0
      BY <1>1
    <3> HIDE DEF d
    <3>2. d * N >= 0
      BY <3>1
    <3> QED BY <3>2 DEF d
  <2>2. (L - 2 * l) * N = R - 2 * p
    OBVIOUS
  <2> QED BY <1>2, <2>1, <2>2
<1>4. -R <= 2 * p
  <2>1. (L + 2 * l) * N >= 0
    <3> DEFINE d == L + 2 * l
    <3>1. d \in Int /\ d >= 0
      BY <1>1
    <3> HIDE DEF d
    <3>2. d * N >= 0
      BY <3>1
    <3> QED BY <3>2 DEF d
  <2>2. (L + 2 * l) * N = R + 2 * p
    OBVIOUS
  <2> QED BY <1>2, <2>1, <2>2
<1> HIDE DEF p
<1>5. q \in Int /\ S \in Int /\ S <= p /\ p < S + L
  BY <1>2
<1> HIDE DEF q
<1>6. 2 * q <= N
  <2> SUFFICES ASSUME 2 * q > N PROVE FALSE
    BY <1>5
  <2> DEFINE d == 2 * q - N
  <2>1. d \in Int /\ d >= 1
    BY <1>5
  <2>2. L * d = 2 * S - R
    BY <1>5
  <2> HIDE DEF d
  <2>3. L * d >= L
    BY <2>1
  <2> HIDE DEF R, S
  <2> QED BY <1>2, <1>3, <1>5, <2>2, <2>3
<1>7. -N - 2 < 2 * q
  <2> SUFFICES ASSUME 2 * q <= -N - 2 PROVE FALSE
    BY <1>5
  <2> DEFINE d == -N - 2 - 2 * q
  <2>1. d \in Int /\ d >= 0
    BY <1>5
  <2>2. L * d = -R - 2 * L - 2 * S
    BY <1>5
  <2> HIDE DEF d
  <2>3. L * d >= 0
    BY <2>1
  <2> HIDE DEF R, S
  <2> QED BY <1>2, <1>4, <1>5, <2>2, <2>3
<1> DEFINE h == N \div 2
<1>8. h \in Int /\ 2 * h <= N /\ N <= 2 * h + 1
  OBVIOUS
<1> HIDE DEF h
<1>9. Dist(q, 0) <= h + 1
  BY <1>5, <1>6, <1>7, <1>8 DEF Dist
<1> QED BY <1>9 DEF q, p, h

\* Turned by quarters, a vector reaches as far as before, across instead of along or not.
Reach(v, a, b) == Dist(v[1], 0) = Dist(a, 0) /\ Dist(v[2], 0) = Dist(b, 0)

LEMMA RotatedReach ==
    ASSUME NEW x \in Int, NEW y \in Int, NEW r, Quarters(r)
    PROVE  /\ IsQuarter(r) => Reach(Rotated(x, y, r), y, x)
           /\ ~IsQuarter(r) => Reach(Rotated(x, y, r), x, y)
<1> DEFINE mx == -x
           my == -y
           u == r % 360
           v == Rotated(x, y, r)
<1>1. mx \in Int /\ my \in Int /\ Dist(mx, 0) = Dist(x, 0) /\ Dist(my, 0) = Dist(y, 0)
  BY DEF Dist
<1>2. /\ u = 90 => v = <<my, x>>
      /\ u = 180 => v = <<mx, my>>
      /\ u = 270 => v = <<y, mx>>
      /\ u \notin {90, 180, 270} => v = <<x, y>>
  BY DEF Rotated
<1>3. u \in {0, 90, 180, 270} /\ (IsQuarter(r) <=> u \in {90, 270})
  BY Turned
<1> HIDE DEF mx, my, u, v
<1>4. /\ u = 90 => Reach(v, y, x)
      /\ u = 180 => Reach(v, x, y)
      /\ u = 270 => Reach(v, y, x)
      /\ u = 0 => Reach(v, x, y)
  BY <1>1, <1>2 DEF Reach
<1> QED BY <1>3, <1>4 DEF v

\* Back by as many quarters.
LEMMA BackTurned ==
    ASSUME NEW r, Quarters(r)
    PROVE  Quarters(-r) /\ (IsQuarter(-r) <=> IsQuarter(r))
<1>1. r \in Int /\ r % 90 = 0
  BY DEF Quarters
<1>2. -r \in Int /\ (-r) % 90 = 0
  BY <1>1
<1>3. (-r) % 180 = 90 <=> r % 180 = 90
  BY <1>1
<1> QED BY <1>2, <1>3 DEF Quarters, IsQuarter

\* What has its middle on a wall has it on the wall that is made of it.
LEMMA MountedStays ==
    ASSUME NEW o, Whole(o), OnPlane(o),
           NEW old, OnPlane(old), HasSize(old.width, old.height), Quarters(old.rotation),
           NEW new, OnPlane(new), HasSize(new.width, new.height), Quarters(new.rotation),
           OnWall(userWallToSnapWall(old), CenterX(o), CenterY(o), 0)
    PROVE  OnWall(userWallToSnapWall(new), CenterX(transformOpeningWithWall(old, o, new)),
                  CenterY(transformOpeningWithWall(old, o, new)), 1)
<1> DEFINE x == CenterX(o)
           y == CenterY(o)
           dx == CenterX(o) - CenterX(old)
           dy == CenterY(o) - CenterY(old)
           local == Rotated(dx, dy, -old.rotation)
           lx == (local[1] * new.width) \div old.width
           ly == (local[2] * new.height) \div old.height
           offset == Rotated(lx, ly, new.rotation)
           w == (o.width * new.width) \div old.width
           h == (o.height * new.height) \div old.height
           X == CenterX(new) + offset[1]
           Y == CenterY(new) + offset[2]
           a == CenterX(new) + offset[1] - w \div 2
           b == CenterY(new) + offset[2] - h \div 2
           d == o.rotation + new.rotation - old.rotation
           s == transformOpeningWithWall(old, o, new)
<1>1. s = [o EXCEPT !.x = a, !.y = b, !.width = w, !.height = h, !.rotation = d]
  <2>1. s = [o EXCEPT !.x = a, !.y = b, !.width = w, !.height = h,
                      !.rotation = @ + new.rotation - old.rotation]
    BY DEF transformOpeningWithWall
  <2> HIDE DEF a, b, w, h, s
  <2> QED BY <2>1
<1>2. /\ x \in Int /\ y \in Int /\ CenterX(old) \in Int /\ CenterY(old) \in Int
      /\ CenterX(new) \in Int /\ CenterY(new) \in Int /\ new.width \in Int /\ new.height \in Int
      /\ o.width \in Int /\ o.height \in Int /\ old.width \in Int /\ old.height \in Int
      /\ old.width > 0 /\ old.height > 0 /\ new.width > 0 /\ new.height > 0
  BY Centre DEF HasSize
<1>0. dx = x - CenterX(old) /\ dy = y - CenterY(old)
  OBVIOUS
<1> HIDE DEF x, y
<1>3. dx \in Int /\ dy \in Int
  BY <1>0, <1>2
<1>4. Reach(local, LocalX(old, x, y), LocalY(old, x, y))
  <2>1. /\ IsQuarter(old.rotation) => Reach(local, dy, dx)
        /\ ~IsQuarter(old.rotation) => Reach(local, dx, dy)
    <3> HIDE DEF dx, dy
    <3> QED BY <1>3, BackTurned, RotatedReach
  <2>2. Dist(CenterX(old) - x, 0) = Dist(x - CenterX(old), 0)
    BY <1>2 DEF Dist
  <2> HIDE DEF local, dx, dy
  <2> QED BY <1>0, <2>1, <2>2 DEF LocalX, LocalY, Reach
<1>5. Dist(local[1], 0) <= old.width \div 2 /\ Dist(local[2], 0) <= old.height \div 2
  <2>1. OnWall(userWallToSnapWall(old), x, y, 0)
    BY DEF x, y
  <2>4. 0 \in Int
    OBVIOUS
  <2>5. OnWall(userWallToSnapWall(old), x, y, 0)
          <=> /\ Dist(LocalX(old, x, y), 0) <= old.width \div 2 + 0
              /\ Dist(LocalY(old, x, y), 0) <= old.height \div 2 + 0
    BY <1>2, <2>4, InBand, Zenon
  <2>2. /\ Dist(LocalX(old, x, y), 0) <= old.width \div 2 + 0
        /\ Dist(LocalY(old, x, y), 0) <= old.height \div 2 + 0
    BY <2>1, <2>5, Zenon
  <2> HIDE DEF local
  <2>3. old.width \div 2 \in Int /\ old.height \div 2 \in Int
    BY <1>2, Half
  <2> QED BY <1>4, <2>2, <2>3 DEF Reach
<1>6. local[1] \in Int /\ local[2] \in Int
  <2> HIDE DEF dx, dy
  <2> QED BY <1>3, RotatedTyped
<1> HIDE DEF local, dx, dy
<1>7. lx \in Int /\ ly \in Int /\ w \in Int /\ h \in Int
  BY <1>2, <1>6, Share
<1>8. Dist(lx, 0) <= new.width \div 2 + 1 /\ Dist(ly, 0) <= new.height \div 2 + 1
  <2> DEFINE l1 == local[1]
             l2 == local[2]
  <2>1. l1 \in Int /\ l2 \in Int /\ Dist(l1, 0) <= old.width \div 2 /\ Dist(l2, 0) <= old.height \div 2
    BY <1>5, <1>6
  <2> HIDE DEF l1, l2
  <2>2. Dist((l1 * new.width) \div old.width, 0) <= new.width \div 2 + 1
    BY <1>2, <2>1, ShareWithin
  <2>3. Dist((l2 * new.height) \div old.height, 0) <= new.height \div 2 + 1
    BY <1>2, <2>1, ShareWithin
  <2> QED BY <2>2, <2>3 DEF l1, l2
<1> HIDE DEF lx, ly, w, h
<1>10. /\ IsQuarter(new.rotation) => Reach(offset, ly, lx)
       /\ ~IsQuarter(new.rotation) => Reach(offset, lx, ly)
  BY <1>7, RotatedReach
<1>11. offset[1] \in Int /\ offset[2] \in Int
  BY <1>7, RotatedTyped
<1> HIDE DEF offset
<1>12. X \in Int /\ Y \in Int /\ X - CenterX(new) = offset[1] /\ Y - CenterY(new) = offset[2]
       /\ CenterX(new) - X = -offset[1]
  BY <1>2, <1>11
<1> HIDE DEF X, Y
<1>13. Dist(LocalX(new, X, Y), 0) = Dist(lx, 0) /\ Dist(LocalY(new, X, Y), 0) = Dist(ly, 0)
  <2>1. Dist(-offset[1], 0) = Dist(offset[1], 0)
    BY <1>11 DEF Dist
  <2>2. CASE IsQuarter(new.rotation)
    BY <1>10, <1>12, <2>1, <2>2 DEF LocalX, LocalY, Reach
  <2>3. CASE ~IsQuarter(new.rotation)
    BY <1>10, <1>12, <2>3 DEF LocalX, LocalY, Reach
  <2> QED BY <2>2, <2>3
<1>17. a = X - w \div 2 /\ b = Y - h \div 2
  <2>1. w \div 2 \in Int /\ h \div 2 \in Int
    BY <1>7, Half
  <2> QED BY <1>2, <1>11, <2>1 DEF X, Y
<1>14. s.x = X - s.width \div 2 /\ s.y = Y - s.height \div 2 /\ s.width = w /\ s.height = h
  <2>1. s.x = a /\ s.y = b /\ s.width = w /\ s.height = h
    <3> HIDE DEF a, b, d, s
    <3> QED BY <1>1 DEF Whole, HasFields, ObjectFields, ShapeFields
  <2> HIDE DEF s, a, b
  <2> QED BY <1>17, <2>1
<1> HIDE DEF s, a, b, d
<1>15. CenterX(s) = X /\ CenterY(s) = Y
  BY <1>7, <1>12, <1>14, MiddleMade
<1>16. OnWall(userWallToSnapWall(new), X, Y, 1)
  <2>1. 1 \in Int
    OBVIOUS
  <2>2. OnWall(userWallToSnapWall(new), X, Y, 1)
          <=> /\ Dist(LocalX(new, X, Y), 0) <= new.width \div 2 + 1
              /\ Dist(LocalY(new, X, Y), 0) <= new.height \div 2 + 1
    BY <1>12, <2>1, InBand, Zenon
  <2> QED BY <1>8, <1>13, <2>2, Zenon
<1> QED BY <1>15, <1>16 DEF s

\* A wall and what is on it, moved together.
LEMMA MovedTogether ==
    ASSUME NEW w, OnPlane(w), NEW v, v.width = w.width, v.height = w.height,
           v.rotation = w.rotation, NEW o, OnPlane(o), NEW s, s.width = o.width, s.height = o.height,
           NEW dx \in Int, NEW dy \in Int, v.x = w.x + dx, v.y = w.y + dy,
           s.x = o.x + dx, s.y = o.y + dy,
           NEW slack, OnWall(userWallToSnapWall(w), CenterX(o), CenterY(o), slack)
    PROVE  OnWall(userWallToSnapWall(v), CenterX(s), CenterY(s), slack)
<1> DEFINE a == userWallToSnapWall(w)
           b == userWallToSnapWall(v)
           x == CenterX(o)
           y == CenterY(o)
           X == CenterX(s)
           Y == CenterY(s)
<1>1. x \in Int /\ y \in Int /\ CenterX(w) \in Int /\ CenterY(w) \in Int
      /\ w.width \in Int /\ w.height \in Int /\ HostOnPixels(a)
  BY Centre, UserHost
<1>2. X = x + dx /\ Y = y + dy
  <2>1. o.width \div 2 \in Int /\ o.height \div 2 \in Int /\ o.x \in Int /\ o.y \in Int
    BY Centre
  <2> QED BY <2>1 DEF CenterX, CenterY
<1>3. CenterX(v) = CenterX(w) + dx /\ CenterY(v) = CenterY(w) + dy
  <2>1. w.width \div 2 \in Int /\ w.height \div 2 \in Int /\ w.x \in Int /\ w.y \in Int
    BY Centre
  <2> QED BY <2>1 DEF CenterX, CenterY
<1>4. /\ b.cx = a.cx + dx /\ b.cy = a.cy + dy
      /\ b.length = a.length /\ b.thickness = a.thickness /\ b.angle = a.angle
  BY <1>1, <1>3 DEF userWallToSnapWall, SnapWall
<1>5. a.cx \in Int /\ a.cy \in Int
  BY <1>1 DEF HostOnPixels, OnPixels
<1> HIDE DEF a, b, x, y, X, Y
<1> DEFINE u == a.angle % 360
<1>6. projectAlong(b, X, Y) = projectAlong(a, x, y)
  <2>1. projectAlong(a, x, y) = CASE u = 0   -> x - a.cx
                                  [] u = 90  -> y - a.cy
                                  [] u = 180 -> a.cx - x
                                  [] OTHER   -> a.cy - y
    BY DEF projectAlong
  <2>2. projectAlong(b, X, Y) = CASE u = 0   -> X - b.cx
                                  [] u = 90  -> Y - b.cy
                                  [] u = 180 -> b.cx - X
                                  [] OTHER   -> b.cy - Y
    BY <1>4 DEF projectAlong
  <2>3. X - b.cx = x - a.cx /\ Y - b.cy = y - a.cy /\ b.cx - X = a.cx - x /\ b.cy - Y = a.cy - y
    BY <1>1, <1>2, <1>4, <1>5
  <2> HIDE DEF u
  <2> QED BY <2>1, <2>2, <2>3
<1>7. projectPerp(b, X, Y) = projectPerp(a, x, y)
  <2>1. Dist(X, b.cx) = Dist(x, a.cx) /\ Dist(Y, b.cy) = Dist(y, a.cy)
    BY <1>1, <1>2, <1>4, <1>5 DEF Dist
  <2> QED BY <1>4, <2>1 DEF projectPerp
<1>8. OnWall(a, x, y, slack)
  BY DEF a, x, y
<1>9. OnWall(b, X, Y, slack)
  BY <1>4, <1>6, <1>7, <1>8 DEF OnWall
<1> QED BY <1>9 DEF b, X, Y

\* An object of the page with another place.
LEMMA PlaceShown ==
    ASSUME NEW o, Whole(o), NEW id, NEW x, NEW y, NEW s, s = With(o, Move(id, x, y).patch)
    PROVE  /\ s.x = x /\ s.y = y /\ s.width = o.width /\ s.height = o.height
           /\ s.rotation = o.rotation
<1> DEFINE patch == [x |-> x, y |-> y]
<1>1. Move(id, x, y).patch = patch /\ DOMAIN patch = {"x", "y"} /\ patch["x"] = x /\ patch["y"] = y
  BY DEF Move, Change
<1>2. DOMAIN o = ObjectFields
  BY WholeDomain
<1> HIDE DEF patch
<1>3. s = [f \in DOMAIN patch \cup ObjectFields |-> IF f \in DOMAIN patch THEN patch[f] ELSE o[f]]
  BY <1>1, <1>2 DEF With
<1> QED BY <1>1, <1>3 DEF ObjectFields, ShapeFields

\* A wall that is moved, and none of what is on it being saved.
LEMMA WallGoes ==
    ASSUME Wholes, Typing, saving = {}, NEW w \in ToSet(objects), w.type = "wall",
           NEW x \in Int, NEW y \in Int, NEW op,
           persistObjectPatch(moveWallAndOpenings(w, x, y), TRUE, op),
           NEW p \in attachedOpenings(w, objects)
    PROVE  OnWallAfter(w, p, 4)
<1> DEFINE mounted == IF x = w.x /\ y = w.y THEN {} ELSE attachedOpenings(w, objects)
           moves == {Move(w.id, x, y)}
                    \cup {Move(o.id, o.x + x - w.x, o.y + y - w.y) : o \in mounted}
           dx == x - w.x
           dy == y - w.y
           v == After(w.id)
           s == After(p.id)
<1>1. persistObjectPatch(moves, TRUE, op)
  BY DEF moveWallAndOpenings
<1>2. p \in ToSet(objects) /\ IsOpening(p.type)
      /\ OnWall(userWallToSnapWall(w), CenterX(p), CenterY(p), 4)
  BY DEF attachedOpenings
<1>3. Whole(w) /\ OnPlane(w) /\ Whole(p) /\ OnPlane(p) /\ Len(objects) \in Nat
  BY <1>2, PageHere DEF Good
<1>4. w.id # p.id
  BY <1>2, NamedOnPage DEF IsOpening
<1>5. \A m \in moves : MoveWhole(m, Len(objects))
  <2>1. IsMoves(moves)
    BY DEF IsMoves
  <2> HIDE DEF moves
  <2> QED BY <1>3, <2>1, MovesAreWhole
<1>6. w.x \in Int /\ w.y \in Int /\ p.x \in Int /\ p.y \in Int
  BY <1>3, Centre
<1>7. dx \in Int /\ dy \in Int /\ w.x + dx = x /\ w.y + dy = y
      /\ p.x + x - w.x = p.x + dx /\ p.y + y - w.y = p.y + dy
  BY <1>6
<1>8. \A o \in mounted : o \in ToSet(objects) /\ IsOpening(o.type)
  BY DEF attachedOpenings
<1>9. /\ Move(w.id, x, y) \in moves /\ Move(w.id, x, y).id = w.id
      /\ p \in mounted => Move(p.id, p.x + x - w.x, p.y + y - w.y) \in moves
      /\ Move(p.id, p.x + x - w.x, p.y + y - w.y).id = p.id
  BY DEF Move, Change
<1>10. \A m \in moves : \/ m = Move(w.id, x, y) /\ m.id = w.id
                        \/ \E o \in mounted : m = Move(o.id, o.x + x - w.x, o.y + y - w.y) /\ m.id = o.id
  BY DEF Move, Change
<1>11. p \in mounted \/ (mounted = {} /\ x = w.x /\ y = w.y)
  OBVIOUS
<1> HIDE DEF moves, mounted, dx, dy, v, s
<1>12. \A o \in mounted : (o.id = p.id => o = p) /\ o.id # w.id
  BY <1>2, <1>8, NamedOnPage DEF IsOpening
<1>13. v = With(w, Move(w.id, x, y).patch)
  <2>1. \/ (\A m \in moves : m.id # w.id \/ w.id \in saving) /\ v = w
        \/ \E m \in moves : m.id = w.id /\ v = With(w, m.patch)
    BY <1>1, <1>5, ChangedAfter DEF v
  <2> QED BY <1>9, <1>10, <1>12, <2>1
<1>14. /\ v.x = x /\ v.y = y /\ v.width = w.width /\ v.height = w.height /\ v.rotation = w.rotation
  BY <1>3, <1>13, PlaceShown
<1>15. \/ (\A m \in moves : m.id # p.id \/ p.id \in saving) /\ s = p
       \/ \E m \in moves : m.id = p.id /\ s = With(p, m.patch)
  BY <1>1, <1>2, <1>5, ChangedAfter DEF s
<1>16. CASE p \in mounted
  <2>1. s = With(p, Move(p.id, p.x + x - w.x, p.y + y - w.y).patch)
    BY <1>4, <1>9, <1>10, <1>12, <1>15, <1>16
  <2>2. /\ s.x = p.x + dx /\ s.y = p.y + dy
        /\ s.width = p.width /\ s.height = p.height
    BY <1>3, <1>7, <2>1, PlaceShown
  <2>3. v.x = w.x + dx /\ v.y = w.y + dy
    BY <1>7, <1>14
  <2>4. OnWall(userWallToSnapWall(v), CenterX(s), CenterY(s), 4)
    BY <1>2, <1>3, <1>7, <1>14, <2>2, <2>3, MovedTogether
  <2> QED BY <2>4 DEF OnWallAfter, v, s
<1>17. CASE mounted = {} /\ x = w.x /\ y = w.y
  <2>1. s = p
    BY <1>4, <1>10, <1>15, <1>17
  <2>2. userWallToSnapWall(v) = userWallToSnapWall(w)
    BY <1>14, <1>17 DEF userWallToSnapWall, CenterX, CenterY
  <2> QED BY <1>2, <2>1, <2>2 DEF OnWallAfter, v, s
<1> QED BY <1>11, <1>16, <1>17

\* A wall that is resized or turned, and none of what is on it being saved.
LEMMA WallTurns ==
    ASSUME Wholes, Typing, saving = {}, NEW w \in ToSet(objects), w.type = "wall",
           NEW new, Remade(w, new), NEW op,
           persistObjectPatch({Change(t.id, Shape(t)) :
                                 t \in {new} \cup {transformOpeningWithWall(w, o, new) :
                                                     o \in attachedOpenings(w, objects)}}, TRUE, op),
           NEW p \in attachedOpenings(w, objects),
           Quarters(w.rotation), Quarters(After(w.id).rotation),
           OnWall(userWallToSnapWall(w), CenterX(p), CenterY(p), 0)
    PROVE  OnWallAfter(w, p, 1)
<1> DEFINE mounted == attachedOpenings(w, objects)
           S == {new} \cup {transformOpeningWithWall(w, o, new) : o \in mounted}
           moves == {Change(t.id, Shape(t)) : t \in S}
           v == After(w.id)
           s == After(p.id)
           q == transformOpeningWithWall(w, p, new)
<1>1. persistObjectPatch(moves, TRUE, op)
  OBVIOUS
<1>2. \A o \in mounted : o \in ToSet(objects) /\ IsOpening(o.type) /\ Good(o)
  BY PageHere DEF attachedOpenings
<1>3. Good(w) /\ Good(new) /\ new.id = w.id /\ new.type = w.type /\ Len(objects) \in Nat
      /\ HasSize(w.width, w.height) /\ HasSize(new.width, new.height)
  BY PageHere DEF Remade, Good, IsOpening
<1>4. ASSUME NEW o \in mounted
      PROVE  /\ Whole(transformOpeningWithWall(w, o, new)) /\ transformOpeningWithWall(w, o, new).id = o.id
             /\ transformOpeningWithWall(w, o, new).type = o.type
  BY <1>2, <1>3, <1>4, MountedPlace, ReshapedSame DEF Good
<1>5. \A t \in S : Whole(t) /\ (t = new \/ \E o \in mounted : t = transformOpeningWithWall(w, o, new))
  BY <1>3, <1>4 DEF Good
<1>6. new \in S /\ (p \in mounted) /\ q \in S
  OBVIOUS
<1> HIDE DEF S, v, s, mounted
<1>7. \A m \in moves : \E t \in S : m = Change(t.id, Shape(t)) /\ m.id = t.id /\ m.patch = Shape(t)
                                    /\ MoveWhole(m, Len(objects))
  <2> SUFFICES ASSUME NEW t \in S
               PROVE  LET m == Change(t.id, Shape(t))
                      IN  m.id = t.id /\ m.patch = Shape(t) /\ MoveWhole(m, Len(objects))
    OBVIOUS
  <2> QED BY <1>3 DEF Change, Shape, MoveWhole
<1>8. \A t \in S : \E m \in moves : m.id = t.id
  <2> SUFFICES ASSUME NEW t \in S PROVE \E m \in moves : m.id = t.id
    OBVIOUS
  <2>1. Change(t.id, Shape(t)) \in moves /\ Change(t.id, Shape(t)).id = t.id
    BY DEF Change
  <2> QED BY <2>1
<1> HIDE DEF moves, q
<1>9. w.id # p.id /\ \A o \in mounted : (o.id = p.id => o = p) /\ o.id # w.id
  BY <1>2, <1>6, NamedOnPage DEF IsOpening
<1>10. v = new
  <2>1. \/ (\A m \in moves : m.id # w.id \/ w.id \in saving) /\ v = w
        \/ \E m \in moves : m.id = w.id /\ v = With(w, m.patch)
    BY <1>1, <1>7, ChangedAfter DEF v
  <2>2. PICK t \in S : t.id = w.id /\ v = With(w, Shape(t))
    BY <1>3, <1>6, <1>7, <1>8, <2>1
  <2>3. t = new
    BY <1>4, <1>5, <1>9, <2>2
  <2> QED BY <1>3, <2>2, <2>3, ShapeShown DEF Good
<1>11. s = q
  <2>1. q.id = p.id /\ q.type = p.type /\ Whole(q) /\ Whole(p) /\ p \in ToSet(objects)
    BY <1>2, <1>4, <1>6 DEF q, Good
  <2>2. \/ (\A m \in moves : m.id # p.id \/ p.id \in saving) /\ s = p
        \/ \E m \in moves : m.id = p.id /\ s = With(p, m.patch)
    BY <1>1, <1>7, <2>1, ChangedAfter DEF s
  <2>3. PICK t \in S : t.id = p.id /\ s = With(p, Shape(t))
    BY <1>6, <1>7, <1>8, <2>1, <2>2
  <2>4. t = q
    BY <1>3, <1>4, <1>5, <1>9, <2>3 DEF q
  <2> QED BY <2>1, <2>3, <2>4, ShapeShown
<1>12. Quarters(new.rotation)
  BY <1>10 DEF v
<1>13. OnWall(userWallToSnapWall(new), CenterX(q), CenterY(q), 1)
  BY <1>2, <1>3, <1>6, <1>12, MountedStays DEF Good, q
<1> QED BY <1>10, <1>11, <1>13 DEF OnWallAfter, v, s

\* A wall that goes somewhere, by the mouse or the keys.
LEMMA WallMoved ==
    ASSUME Wholes, Typing, saving = {}, NEW o \in ToSet(objects), NEW x \in Int, NEW y \in Int,
           NEW op, op # "transform", persistObjectPatch(MoveTo(o, x, y), TRUE, op),
           NEW r \in NewRequests, ObjectOf(r.id).type = "wall"
    PROVE  TakesAlong(r)
<1> DEFINE moves == MoveTo(o, x, y)
<1>1. persistObjectPatch(moves, TRUE, op)
  OBVIOUS
<1>2. \A m \in moves : \/ m.id = o.id
                       \/ o.type = "wall" /\ \E q \in attachedOpenings(o, objects) : m.id = q.id
  BY DEF MoveTo, moveWallAndOpenings, Move, Change
<1> HIDE DEF moves
<1>3. r.op = op /\ \E m \in moves : m.id = r.id
  BY <1>1, SavedFrom
<1>4. \A q \in attachedOpenings(o, objects) : ObjectOf(q.id).type # "wall"
  BY NamedOnPage DEF attachedOpenings, IsOpening
<1>5. r.id = o.id
  BY <1>2, <1>3, <1>4
<1>6. ObjectOf(r.id) = o /\ o.type = "wall"
  BY <1>5, NamedOnPage
<1>7. persistObjectPatch(moveWallAndOpenings(o, x, y), TRUE, op)
  BY <1>1, <1>6 DEF moves, MoveTo
<1>8. \A p \in attachedOpenings(o, objects) : OnWallAfter(o, p, 4)
  BY <1>6, <1>7, WallGoes
<1> QED BY <1>3, <1>6, <1>8 DEF TakesAlong

\* A change of one object that is not a wall is none of a wall.
LEMMA NoWallChanged ==
    ASSUME Wholes, NEW o \in ToSet(objects), o.type # "wall", NEW moves, \A m \in moves : m.id = o.id,
           NEW op, persistObjectPatch(moves, TRUE, op), NEW r \in NewRequests
    PROVE  ObjectOf(r.id).type # "wall"
<1>1. \E m \in moves : m.id = r.id
  BY SavedFrom
<1>2. r.id = o.id
  BY <1>1
<1> QED BY <1>2, NamedOnPage

\* The mouse moves walls,
LEMMA DragCarries ==
    ASSUME Wholes, Typing, saving = {}, handleObjectDragEnd, NEW r \in NewRequests,
           r.op \in {"drag", "key", "transform"}, ObjectOf(r.id).type = "wall"
    PROVE  TakesAlong(r)
<1>1. PICK o \in ToSet(objects), at \in visit.drops, view \in Views :
        \E to \in {Pulled(o, at[1], at[2], view.carved)} :
           \/ dragOpening(o, to.x, to.y, view.carved)
           \/ dragCutout(o, to.x, to.y)
           \/ dragFurniture(o, to.x, to.y, view.grid)
  BY DEF handleObjectDragEnd
<1> DEFINE px == at[1]
           py == at[2]
           carved == view.carved
           grid == view.grid
           x == Pulled(o, px, py, carved).x
           y == Pulled(o, px, py, carved).y
<1>2. px \in Int /\ py \in Int /\ grid \in Nat
  BY Inputs DEF Views
<1>3. \/ dragOpening(o, x, y, carved)
      \/ dragCutout(o, x, y)
      \/ dragFurniture(o, x, y, grid)
  BY <1>1
<1> HIDE DEF px, py, carved, grid
<1>4. x \in Int /\ y \in Int
  BY <1>2, PageHere, PulledNumbers
<1> HIDE DEF x, y
<1>5. ASSUME NEW moves, NEW op, op # "drag", op # "key", op # "transform",
             persistObjectPatch(moves, TRUE, op)
      PROVE FALSE
  BY <1>5, SavedFrom
<1>6. ~dragOpening(o, x, y, carved)
  BY <1>5 DEF dragOpening
<1>7. ASSUME NEW u, NEW v, persistObjectPatch({Move(o.id, u, v)}, TRUE, "drag"), o.type = "cutout"
      PROVE FALSE
  <2> DEFINE moves == {Move(o.id, u, v)}
             op == "drag"
  <2>1. persistObjectPatch(moves, TRUE, op)
    BY <1>7
  <2>2. \A m \in moves : m.id = o.id
    BY DEF Move, Change
  <2> HIDE DEF moves, op
  <2> QED BY <1>7, <2>1, <2>2, NoWallChanged
<1>8. ~dragCutout(o, x, y)
  BY <1>7 DEF dragCutout
<1>9. dragFurniture(o, x, y, grid)
  BY <1>3, <1>6, <1>8
<1>10. PICK a \in Int, b \in Int : persistObjectPatch(MoveTo(o, a, b), TRUE, "drag")
  BY <1>2, <1>4, <1>9, PageHere, FurnitureGoes
<1> QED BY <1>10, WallMoved

\* so do the arrow keys,
LEMMA KeyCarries ==
    ASSUME Wholes, Typing, saving = {}, handleCanvasKeyDown, NEW r \in NewRequests,
           r.op \in {"drag", "key", "transform"}, ObjectOf(r.id).type = "wall"
    PROVE  TakesAlong(r)
<1>1. PICK o \in ToSet(objects), d \in {<<-1, 0>>, <<1, 0>>, <<0, -1>>, <<0, 1>>},
           step \in visit.keys, view \in Views :
        persistObjectPatch(keyMoves(o, keyTarget(o, d[1], d[2], step, view.grid), view.carved),
                           TRUE, IF IsOpening(o.type) THEN "slide" ELSE "key")
  BY DEF handleCanvasKeyDown
<1> DEFINE dx == d[1]
           dy == d[2]
           carved == view.carved
           grid == view.grid
           raw == keyTarget(o, dx, dy, step, grid)
           moves == keyMoves(o, raw, carved)
           op == IF IsOpening(o.type) THEN "slide" ELSE "key"
           flush == snapCutoutToBoundary(raw, boundary)
           at == clampObjectToBoundary(raw, boundary)
           x == at.x
           y == at.y
<1>2. dx \in Int /\ dy \in Int /\ grid \in Nat /\ step \in Int
  BY Inputs DEF Views, OnPixels
<1>3. persistObjectPatch(moves, TRUE, op)
  BY <1>1
<1> HIDE DEF dx, dy, carved, grid
<1>4. PageInPlace /\ Whole(o) /\ OnPlane(o) /\ MovedTo(o, raw)
  BY <1>2, PageHere, KeyTargetMoves DEF Good
<1> HIDE DEF raw
<1>5. Whole(raw) /\ OnPlane(raw)
  BY <1>4, MovedSame
<1>6. x \in Int /\ y \in Int
  <2>1. MovedTo(raw, at)
    BY <1>4, <1>5, ClampMoves DEF PageInPlace, RoomSized
  <2> HIDE DEF at
  <2> QED BY <1>5, <2>1, MovedNumbers
<1>7. op = r.op /\ \E m \in moves : m.id = r.id
  <2> HIDE DEF moves, op
  <2> QED BY <1>3, SavedFrom
<1>8. ~IsOpening(o.type) /\ op = "key"
  BY <1>7
<1>9. moves = IF o.type = "cutout" THEN {Move(o.id, flush.x, flush.y)}
              ELSE IF overlapsBlockingObject(at, objects) THEN {} ELSE MoveTo(o, x, y)
  <2>1. moves = CASE IsOpening(o.type) ->
                       {Move(o.id, s.x, s.y) :
                          s \in ToSet(constrainWallObjectMove(o, raw.x, raw.y, objects, HostWalls(carved)))}
                  [] o.type = "cutout" -> {Move(o.id, flush.x, flush.y)}
                  [] OTHER -> IF overlapsBlockingObject(at, objects) THEN {} ELSE MoveTo(o, x, y)
    BY DEF keyMoves
  <2> HIDE DEF moves, x, y, at, flush
  <2> QED BY <1>8, <2>1
<1> HIDE DEF moves, x, y, at, op
<1>10. o.type # "cutout"
  <2> SUFFICES ASSUME o.type = "cutout" PROVE FALSE
    OBVIOUS
  <2>1. moves = {Move(o.id, flush.x, flush.y)}
    BY <1>9
  <2>2. r.id = o.id
    BY <1>7, <2>1 DEF Move, Change
  <2> QED BY <2>2, NamedOnPage
<1>11. moves = MoveTo(o, x, y)
  BY <1>7, <1>9, <1>10
<1> QED BY <1>3, <1>6, <1>8, <1>11, WallMoved

\* and the handles resize and turn them.
LEMMA TransformCarries ==
    ASSUME Wholes, Typing, saving = {}, handleObjectTransform, NEW r \in NewRequests,
           r.op \in {"drag", "key", "transform"}, ObjectOf(r.id).type = "wall"
    PROVE  TakesAlong(r)
<1>1. PICK o \in ToSet(objects), box \in visit.boxes, view \in Views :
        persistObjectPatch({Change(t.id, Shape(t)) :
                              t \in transformed(o, box, view.grid, view.carved)},
                           TRUE, IF Hosted(o, view.carved) THEN "slide" ELSE "transform")
  BY DEF handleObjectTransform
<1> DEFINE carved == view.carved
           grid == view.grid
           S == transformed(o, box, grid, carved)
           moves == {Change(t.id, Shape(t)) : t \in S}
           op == IF Hosted(o, carved) THEN "slide" ELSE "transform"
<1>2. grid \in Nat /\ BoxInput(box)
  BY Inputs DEF Views
<1>3. persistObjectPatch(moves, TRUE, op)
  BY <1>1
<1> HIDE DEF carved, grid
<1>4. PageInPlace /\ Good(o) /\ \A p \in ToSet(objects) : Good(p)
  BY PageHere
<1>5. r.op = op /\ op = "transform"
  <2>1. r.op = op
    <3> HIDE DEF moves, op
    <3> QED BY <1>3, SavedFrom
  <2> QED BY <2>1
<1> HIDE DEF op
<1>6. o.type = "wall"
  <2> SUFFICES ASSUME o.type # "wall" PROVE FALSE
    OBVIOUS
  <2>1. \A t \in S : Remade(o, t)
    BY <1>2, <1>4, TransformedAlone
  <2> HIDE DEF S
  <2>2. \A m \in moves : m.id = o.id
    BY <2>1 DEF Change, Remade
  <2> HIDE DEF moves
  <2> QED BY <1>3, <2>2, NoWallChanged
<1>7. PICK wall : /\ Remade(o, wall)
                  /\ S = {wall} \cup {transformOpeningWithWall(o, p, wall) :
                                        p \in attachedOpenings(o, objects)}
  BY <1>2, <1>4, <1>6, TransformedWall
<1>8. persistObjectPatch({Change(t.id, Shape(t)) :
                            t \in {wall} \cup {transformOpeningWithWall(o, p, wall) :
                                                 p \in attachedOpenings(o, objects)}}, TRUE, op)
  BY <1>3, <1>7
<1>9. r.id = o.id
  <2>1. \A m \in moves : \E t \in S : m.id = t.id
    BY DEF Change
  <2>2. \A t \in S : t.id = o.id \/ \E p \in attachedOpenings(o, objects) : t.id = p.id
    <3>1. \A p \in attachedOpenings(o, objects) : transformOpeningWithWall(o, p, wall).id = p.id
      <4> SUFFICES ASSUME NEW p \in attachedOpenings(o, objects)
                   PROVE  transformOpeningWithWall(o, p, wall).id = p.id
        OBVIOUS
      <4>1. p \in ToSet(objects) /\ ~IsOpening(o.type)
        BY <1>6 DEF attachedOpenings, IsOpening
      <4>2. ReshapedTo(p, transformOpeningWithWall(o, p, wall))
        BY <1>4, <1>7, <4>1, MountedPlace DEF Remade, Good
      <4> QED BY <1>4, <4>1, <4>2, ReshapedSame DEF Good
    <3> HIDE DEF S
    <3> QED BY <1>7, <3>1 DEF Remade
  <2> HIDE DEF moves, S
  <2>3. \E m \in moves : m.id = r.id
    BY <1>3, SavedFrom
  <2>4. \A p \in attachedOpenings(o, objects) : ObjectOf(p.id).type # "wall"
    BY NamedOnPage DEF attachedOpenings, IsOpening
  <2> QED BY <2>1, <2>2, <2>3, <2>4
<1> HIDE DEF S, moves
<1>10. ObjectOf(r.id) = o
  BY <1>9, NamedOnPage
<1>11. ASSUME NEW p \in attachedOpenings(o, objects),
              Quarters(o.rotation), Quarters(After(o.id).rotation),
              OnWall(userWallToSnapWall(o), CenterX(p), CenterY(p), 0)
       PROVE  OnWallAfter(o, p, 1)
  BY <1>6, <1>7, <1>8, <1>11, WallTurns
<1> QED BY <1>5, <1>9, <1>10, <1>11 DEF TakesAlong

\* Every door and window that sits on a wall sits on it after the wall was dragged, pushed
\* with the keys, resized or turned, in whatever layout and with whatever else sits there,
\* when nothing was being saved (useCanvasInteractions.ts:212-226, 481-508).
THEOREM WallsKeepOpenings == Spec => WallKeepsOpenings
<1> DEFINE Asks(r) == /\ r.op \in {"drag", "key", "transform"}
                      /\ ObjectOf(r.id).type = "wall"
                      /\ saving = {}
<1>1. ASSUME Wholes, Inv, Typing, [Next]_vars, NEW r \in NewRequests, Asks(r)
      PROVE  TakesAlong(r)
  <2>1. r \in Handling
    BY <1>1 DEF Handling, Handles
  <2>2. handleObjectDragEnd \/ handleCanvasKeyDown \/ handleObjectTransform
    BY <1>1, <2>1, WhoSends DEF Inv
  <2> QED BY <1>1, <2>2, DragCarries, KeyCarries, TransformCarries
<1>2. Wholes /\ Inv /\ Typing /\ [Next]_vars =>
        \A r \in NewRequests :
           /\ r.op \in {"drag", "key", "transform"}
           /\ ObjectOf(r.id).type = "wall"
           /\ saving = {}
           => TakesAlong(r)
  BY <1>1
<1> QED BY <1>2, WholesHold, InvHolds, TypingHolds, PTL DEF Spec, WallKeepsOpenings

(***************************************************************************)
(* Rooms take their doors and windows along                                *)
(***************************************************************************)
\* Products of numbers, for the prover keeps no more of them.
LEMMA TimesMore ==
    ASSUME NEW a \in Int, NEW b \in Int, a <= b, NEW n \in Nat
    PROVE  a * n <= b * n /\ a * n \in Int /\ b * n \in Int
<1> DEFINE d == b - a
<1>1. d \in Int /\ d >= 0 /\ b = a + d
  OBVIOUS
<1> HIDE DEF d
<1>2. d * n >= 0
  BY <1>1
<1>3. b * n = a * n + d * n
  BY <1>1
<1> QED BY <1>2, <1>3

\* A share of a length, when the length grows from L to k.
LEMMA ShareGrows ==
    ASSUME NEW L \in Nat, L > 0, NEW k \in Nat, k >= L, NEW m \in Nat, NEW a \in Int
    PROVE  /\ (a * k) \div L \in Int
           /\ m - L <= 2 * a => m - k - 1 <= 2 * ((a * k) \div L)
           /\ 2 * a <= L - m => 2 * ((a * k) \div L) <= k - m
<1> DEFINE p == a * k
           q == p \div L
           S == q * L
<1>1. p \in Int /\ q \in Int /\ S \in Int /\ S <= p /\ p < S + L
  <2>1. p \in Int
    OBVIOUS
  <2> HIDE DEF p
  <2> QED BY <2>1
<1>2. (m * L <= m * k) /\ m * L \in Int /\ m * k \in Int /\ L * k \in Int
  OBVIOUS
<1>3. ASSUME m - L <= 2 * a PROVE m - k - 1 <= 2 * q
  <2>1. (m - L) * k <= (2 * a) * k
    BY <1>3, TimesMore
  <2>2. (m - L) * k = m * k - L * k /\ (2 * a) * k = 2 * p
    OBVIOUS
  <2> HIDE DEF p
  <2> SUFFICES ASSUME 2 * q <= m - k - 2 PROVE FALSE
    BY <1>1
  <2>3. (2 * q) * L <= (m - k - 2) * L
    BY <1>1, TimesMore
  <2>4. (2 * q) * L = 2 * S /\ (m - k - 2) * L = m * L - L * k - 2 * L
    BY <1>1
  <2> HIDE DEF q, S
  <2> QED BY <1>1, <1>2, <2>1, <2>2, <2>3, <2>4
<1>4. ASSUME 2 * a <= L - m PROVE 2 * q <= k - m
  <2>1. (2 * a) * k <= (L - m) * k
    BY <1>4, TimesMore
  <2>2. (L - m) * k = L * k - m * k /\ (2 * a) * k = 2 * p
    OBVIOUS
  <2> HIDE DEF p
  <2> SUFFICES ASSUME k - m + 1 <= 2 * q PROVE FALSE
    BY <1>1
  <2>3. (k - m + 1) * L <= (2 * q) * L
    BY <1>1, TimesMore
  <2>4. (2 * q) * L = 2 * S /\ (k - m + 1) * L = L * k - m * L + L
    BY <1>1
  <2> HIDE DEF q, S
  <2> QED BY <1>1, <1>2, <2>1, <2>2, <2>3, <2>4
<1> QED BY <1>1, <1>3, <1>4

\* Two shares keep their distance, up to the rounding of each.
LEMMA SharesApart ==
    ASSUME NEW L \in Nat, L > 0, NEW k \in Nat, k >= L, NEW d \in Nat,
           NEW a \in Int, NEW b \in Int, 2 * a + d <= 2 * b
    PROVE  2 * ((a * k) \div L) + d - 1 <= 2 * ((b * k) \div L)
<1> DEFINE p == a * k
           q == p \div L
           S == q * L
           P == b * k
           Q == P \div L
           T == Q * L
<1>1. p \in Int /\ q \in Int /\ S \in Int /\ S <= p /\ p < S + L
  <2>1. p \in Int
    OBVIOUS
  <2> HIDE DEF p
  <2> QED BY <2>1
<1>2. P \in Int /\ Q \in Int /\ T \in Int /\ T <= P /\ P < T + L
  <2>1. P \in Int
    OBVIOUS
  <2> HIDE DEF P
  <2> QED BY <2>1
<1>3. d * L <= d * k /\ d * L \in Int /\ d * k \in Int
  OBVIOUS
<1>4. 2 * p + d * k <= 2 * P
  <2>1. (2 * a + d) * k <= (2 * b) * k
    BY TimesMore
  <2>2. (2 * a + d) * k = 2 * p + d * k /\ (2 * b) * k = 2 * P
    OBVIOUS
  <2> QED BY <2>1, <2>2
<1> HIDE DEF p, P
<1> SUFFICES ASSUME 2 * Q <= 2 * q + d - 2 PROVE FALSE
  BY <1>1, <1>2 DEF p, P
<1>5. (2 * Q) * L <= (2 * q + d - 2) * L
  BY <1>1, <1>2, TimesMore
<1>6. (2 * Q) * L = 2 * T /\ (2 * q + d - 2) * L = 2 * S + d * L - 2 * L
  BY <1>1, <1>2
<1> HIDE DEF q, S, Q, T
<1> QED BY <1>1, <1>2, <1>3, <1>4, <1>5, <1>6

\* The four walls of a room, by their fields.
LEMMA RoomSides ==
    ASSUME NEW r, IsBox(r)
    PROVE  LET w == getBoundaryWalls(r)
               T == BOUNDARY_WALL_THICKNESS \div 2
               X == r.x + r.w \div 2
               Y == r.y + r.h \div 2
           IN  /\ T \in Int /\ T >= 1 /\ X \in Int /\ Y \in Int
               /\ w[1] = SnapWall(X, r.y - T, r.w, BOUNDARY_WALL_THICKNESS, 0)
               /\ w[2] = SnapWall(X, r.y + r.h + T, r.w, BOUNDARY_WALL_THICKNESS, 0)
               /\ w[3] = SnapWall(r.x - T, Y, r.h, BOUNDARY_WALL_THICKNESS, 90)
               /\ w[4] = SnapWall(r.x + r.w + T, Y, r.h, BOUNDARY_WALL_THICKNESS, 90)
<1>1. BOUNDARY_WALL_THICKNESS \in Int /\ BOUNDARY_WALL_THICKNESS >= 2
  BY GeometryAssumption
<1>2. BOUNDARY_WALL_THICKNESS \div 2 \in Int /\ BOUNDARY_WALL_THICKNESS \div 2 >= 1
  BY <1>1
<1>3. r.x + r.w \div 2 \in Int /\ r.y + r.h \div 2 \in Int
  BY Half DEF IsBox, OnPixels
<1> QED BY <1>2, <1>3 DEF getBoundaryWalls

\* Level or upright, and as thick as all of them.
LEMMA SideShape ==
    ASSUME NEW r, IsBox(r), NEW i \in 1 .. 4
    PROVE  LET w == getBoundaryWalls(r)[i]
           IN  w.angle \in {0, 90} /\ w.thickness = BOUNDARY_WALL_THICKNESS
<1> DEFINE w == getBoundaryWalls(r)
           t == BOUNDARY_WALL_THICKNESS
<1>1. \A k \in 1 .. 4 : \E x, y, l : \E a \in {0, 90} : w[k] = SnapWall(x, y, l, t, a)
  <2>1. /\ \E x, y, l : w[1] = SnapWall(x, y, l, t, 0)
        /\ \E x, y, l : w[2] = SnapWall(x, y, l, t, 0)
        /\ \E x, y, l : w[3] = SnapWall(x, y, l, t, 90)
        /\ \E x, y, l : w[4] = SnapWall(x, y, l, t, 90)
    BY RoomSides
  <2> HIDE DEF w, t
  <2>2. \A k \in 1 .. 4 : k = 1 \/ k = 2 \/ k = 3 \/ k = 4
    OBVIOUS
  <2> QED BY <2>1, <2>2
<1> HIDE DEF w, t
<1>2. PICK x, y, l : \E a \in {0, 90} : w[i] = SnapWall(x, y, l, t, a)
  BY <1>1
<1>3. w[i].angle \in {0, 90} /\ w[i].thickness = t
  BY <1>2 DEF SnapWall
<1> QED BY <1>3 DEF w, t

\* What is across and along a level and an upright wall.
LEMMA LevelWall ==
    ASSUME NEW x, NEW y, NEW l, NEW t, NEW u, NEW v
    PROVE  /\ projectAlong(SnapWall(x, y, l, t, 0), u, v) = u - x
           /\ projectPerp(SnapWall(x, y, l, t, 0), u, v) = Dist(v, y)
BY DEF projectAlong, projectPerp, SnapWall, IsQuarter

LEMMA UprightWall ==
    ASSUME NEW x, NEW y, NEW l, NEW t, NEW u, NEW v
    PROVE  /\ projectAlong(SnapWall(x, y, l, t, 90), u, v) = v - y
           /\ projectPerp(SnapWall(x, y, l, t, 90), u, v) = Dist(u, x)
BY DEF projectAlong, projectPerp, SnapWall, IsQuarter

\* What fits a wall, in numbers.
LEMMA FitsBetween ==
    ASSUME NEW w, HostOnPixels(w), NEW o, OnPlane(o), o.width > 0
    PROVE  Fits(w, o) <=> /\ projectPerp(w, CenterX(o), CenterY(o)) <= w.thickness \div 2
                          /\ Dist(Along(w, o), 0) <= w.length \div 2
                          /\ o.width - w.length <= 2 * Along(w, o)
                          /\ 2 * Along(w, o) <= w.length - o.width
<1> DEFINE a == Along(w, o)
           l == w.length
           n == o.width
           lo == 2 * a - n
           hi == 2 * a + n
<1>1. a \in Int /\ l \in Int /\ n \in Int /\ n > 0
  <2>1. n \in Int /\ n > 0 /\ CenterX(o) \in Int /\ CenterY(o) \in Int
    BY Centre
  <2> QED BY <2>1, WallCoordinates DEF Along, HostOnPixels, OnPixels
<1>2. projectPerp(w, CenterX(o), CenterY(o)) \in Int /\ w.thickness \div 2 \in Int /\ l \div 2 \in Int
  BY Centre, WallCoordinates, Half DEF HostOnPixels, OnPixels
<1>3. Fits(w, o) <=> /\ projectPerp(w, CenterX(o), CenterY(o)) <= w.thickness \div 2 + 0
                     /\ Dist(a, 0) <= l \div 2 + 0
                     /\ Dist(lo, 0) <= l /\ Dist(hi, 0) <= l
  BY DEF Fits, OnWall, Along, Covers
<1> HIDE DEF a, l, n
<1>4. (Dist(lo, 0) <= l /\ Dist(hi, 0) <= l) <=> (n - l <= 2 * a /\ 2 * a <= l - n)
  BY <1>1 DEF Dist
<1>5. projectPerp(w, CenterX(o), CenterY(o)) <= w.thickness \div 2 + 0
        <=> projectPerp(w, CenterX(o), CenterY(o)) <= w.thickness \div 2
  BY <1>2
<1>6. Dist(a, 0) <= l \div 2 + 0 <=> Dist(a, 0) <= l \div 2
  BY <1>2
<1> HIDE DEF lo, hi
<1>7. Fits(w, o) <=> /\ projectPerp(w, CenterX(o), CenterY(o)) <= w.thickness \div 2
                     /\ Dist(a, 0) <= l \div 2
                     /\ n - l <= 2 * a /\ 2 * a <= l - n
  BY <1>3, <1>4, <1>5, <1>6
<1> QED BY <1>7 DEF a, l, n

\* What fits one of the room's walls is nearer to it than to the three others.
LEMMA NearestSide ==
    ASSUME NEW r, IsBox(r), HasSize(r.w, r.h), NEW o, OnPlane(o), o.width > 1, NEW i \in 1 .. 4,
           Fits(getBoundaryWalls(r)[i], o), NEW j \in 1 .. 4, j # i
    PROVE  projectPerp(getBoundaryWalls(r)[i], CenterX(o), CenterY(o))
             < projectPerp(getBoundaryWalls(r)[j], CenterX(o), CenterY(o))
<1> DEFINE w == getBoundaryWalls(r)
           t == BOUNDARY_WALL_THICKNESS
           T == t \div 2
           a == r.w \div 2
           b == r.h \div 2
           X == r.x + a
           Y == r.y + b
           x == CenterX(o)
           y == CenterY(o)
           n == o.width
           y1 == r.y - T
           y2 == r.y + r.h + T
           x3 == r.x - T
           x4 == r.x + r.w + T
<1>1. /\ w[1] = SnapWall(X, y1, r.w, t, 0) /\ w[2] = SnapWall(X, y2, r.w, t, 0)
      /\ w[3] = SnapWall(x3, Y, r.h, t, 90) /\ w[4] = SnapWall(x4, Y, r.h, t, 90)
      /\ T \in Int /\ T >= 1
  BY RoomSides
<1>2. /\ r.x \in Int /\ r.y \in Int /\ r.w \in Int /\ r.h \in Int /\ r.w > 0 /\ r.h > 0
      /\ a \in Int /\ b \in Int /\ r.w - 1 <= 2 * a /\ 2 * a <= r.w /\ r.h - 1 <= 2 * b /\ 2 * b <= r.h
  <2>1. r.x \in Int /\ r.y \in Int /\ r.w \in Int /\ r.h \in Int /\ r.w > 0 /\ r.h > 0
    BY DEF IsBox, OnPixels, HasSize
  <2> QED BY <2>1
<1>3. x \in Int /\ y \in Int /\ n \in Int /\ n > 1
  BY Centre
<1>4. HostOnPixels(w[i])
  BY RoomHosts
<1>5. /\ projectPerp(w[i], x, y) <= w[i].thickness \div 2
      /\ n - w[i].length <= 2 * Along(w[i], o) /\ 2 * Along(w[i], o) <= w[i].length - n
  <2>1. n > 0
    BY <1>3
  <2> QED BY <1>4, <2>1, FitsBetween
<1>6. /\ projectPerp(w[1], x, y) = Dist(y, y1) /\ projectPerp(w[2], x, y) = Dist(y, y2)
      /\ projectPerp(w[3], x, y) = Dist(x, x3) /\ projectPerp(w[4], x, y) = Dist(x, x4)
      /\ Along(w[1], o) = x - X /\ Along(w[2], o) = x - X
      /\ Along(w[3], o) = y - Y /\ Along(w[4], o) = y - Y
      /\ w[1].thickness = t /\ w[2].thickness = t /\ w[3].thickness = t /\ w[4].thickness = t
      /\ w[1].length = r.w /\ w[2].length = r.w /\ w[3].length = r.h /\ w[4].length = r.h
  <2> HIDE DEF w, X, Y, y1, y2, x3, x4, t
  <2>1. \A c, d, l, u, v : /\ projectAlong(SnapWall(c, d, l, t, 0), u, v) = u - c
                           /\ projectPerp(SnapWall(c, d, l, t, 0), u, v) = Dist(v, d)
                           /\ SnapWall(c, d, l, t, 0).thickness = t /\ SnapWall(c, d, l, t, 0).length = l
    BY LevelWall DEF SnapWall
  <2>2. \A c, d, l, u, v : /\ projectAlong(SnapWall(c, d, l, t, 90), u, v) = v - d
                           /\ projectPerp(SnapWall(c, d, l, t, 90), u, v) = Dist(u, c)
                           /\ SnapWall(c, d, l, t, 90).thickness = t /\ SnapWall(c, d, l, t, 90).length = l
    BY UprightWall DEF SnapWall
  <2> QED BY <1>1, <2>1, <2>2 DEF Along
<1> HIDE DEF w, t, T, a, b, x, y, n
<1>7. i = 1 => /\ Dist(y, y1) <= T /\ n - r.w <= 2 * (x - X) /\ 2 * (x - X) <= r.w - n
  BY <1>5, <1>6 DEF T
<1>8. i = 2 => /\ Dist(y, y2) <= T /\ n - r.w <= 2 * (x - X) /\ 2 * (x - X) <= r.w - n
  BY <1>5, <1>6 DEF T
<1>9. i = 3 => /\ Dist(x, x3) <= T /\ n - r.h <= 2 * (y - Y) /\ 2 * (y - Y) <= r.h - n
  BY <1>5, <1>6 DEF T
<1>10. i = 4 => /\ Dist(x, x4) <= T /\ n - r.h <= 2 * (y - Y) /\ 2 * (y - Y) <= r.h - n
  BY <1>5, <1>6 DEF T
<1>11. T \in Int /\ T >= 1
  BY <1>1
<1>12. CASE i = 1
  <2>1. Dist(y, y1) < Dist(y, y2) /\ Dist(y, y1) < Dist(x, x3) /\ Dist(y, y1) < Dist(x, x4)
    BY <1>2, <1>3, <1>7, <1>11, <1>12 DEF Dist
  <2> QED BY <1>6, <1>12, <2>1 DEF w, x, y
<1>13. CASE i = 2
  <2>1. Dist(y, y2) < Dist(y, y1) /\ Dist(y, y2) < Dist(x, x3) /\ Dist(y, y2) < Dist(x, x4)
    BY <1>2, <1>3, <1>8, <1>11, <1>13 DEF Dist
  <2> QED BY <1>6, <1>13, <2>1 DEF w, x, y
<1>14. CASE i = 3
  <2>1. Dist(x, x3) < Dist(x, x4) /\ Dist(x, x3) < Dist(y, y1) /\ Dist(x, x3) < Dist(y, y2)
    BY <1>2, <1>3, <1>9, <1>11, <1>14 DEF Dist
  <2> QED BY <1>6, <1>14, <2>1 DEF w, x, y
<1>15. CASE i = 4
  <2>1. Dist(x, x4) < Dist(x, x3) /\ Dist(x, x4) < Dist(y, y1) /\ Dist(x, x4) < Dist(y, y2)
    BY <1>2, <1>3, <1>10, <1>11, <1>15 DEF Dist
  <2> QED BY <1>6, <1>15, <2>1 DEF w, x, y
<1> QED BY <1>12, <1>13, <1>14, <1>15

\* Where the resize puts what fits the i-th wall: its share of the new length, kept on it.
CarriedTo(old, new, i, o) ==
    LET from == getBoundaryWalls(old)[i]
        to == getBoundaryWalls(new)[i]
        free == Max({0, (to.length - o.width) \div 2})
    IN  WithinWall((projectAlong(from, CenterX(o), CenterY(o)) * to.length) \div from.length, free)

\* The door or window o is among those that are carried, to b on the i-th wall.
CarriedSo(old, new, objs, i, o, b) ==
    LET p == pointOnWall(getBoundaryWalls(new)[i], b)
        c == [o EXCEPT !.x = p[1] - o.width \div 2, !.y = p[2] - o.height \div 2]
    IN  /\ c \in carryBoundaryOpeningsOnResize(old, new, objs)
        /\ \A d \in carryBoundaryOpeningsOnResize(old, new, objs) :
              d = c \/ \E q \in ToSet(objs) : q # o /\ d.id = q.id

\* A door or window that fits the i-th wall is carried, by that wall.
LEMMA CarriedOnSide ==
    ASSUME NEW old, IsBox(old), HasSize(old.w, old.h), NEW new, IsBox(new),
           NEW objs, \A o \in ToSet(objs) : OnPlane(o), NEW i \in 1 .. 4,
           NEW o \in ToSet(objs), IsOpening(o.type), o.width > 1, Fits(getBoundaryWalls(old)[i], o),
           NEW b, b = CarriedTo(old, new, i, o)
    PROVE  CarriedSo(old, new, objs, i, o, b)
<1> DEFINE oldWalls == getBoundaryWalls(old)
           Hosts(q) == {k \in 1 .. 4 : OnWall(oldWalls[k], CenterX(q), CenterY(q), 4)}
           Across(q, k) == projectPerp(oldWalls[k], CenterX(q), CenterY(q))
           Host(q) == CHOOSE k \in Hosts(q) :
                        \A j \in Hosts(q) :
                          Across(q, k) < Across(q, j) \/ (Across(q, k) = Across(q, j) /\ k <= j)
           From(q) == oldWalls[Host(q)]
           To(q) == getBoundaryWalls(new)[Host(q)]
           Scaled(q) == (projectAlong(From(q), CenterX(q), CenterY(q)) * To(q).length) \div From(q).length
           Free(q) == Max({0, (To(q).length - q.width) \div 2})
           P(q) == pointOnWall(To(q), WithinWall(Scaled(q), Free(q)))
           Carried(q) == [q EXCEPT !.x = P(q)[1] - q.width \div 2, !.y = P(q)[2] - q.height \div 2]
           p == pointOnWall(getBoundaryWalls(new)[i], b)
           c == [o EXCEPT !.x = p[1] - o.width \div 2, !.y = p[2] - o.height \div 2]
<1>1. carryBoundaryOpeningsOnResize(old, new, objs)
        = {Carried(q) : q \in {z \in ToSet(objs) : IsOpening(z.type) /\ Hosts(z) # {}}}
  BY DEF carryBoundaryOpeningsOnResize
<1>2. /\ \A k \in 1 .. 4 : Across(o, k) \in Nat
      /\ \A j \in 1 .. 4 : j # i => Across(o, i) < Across(o, j)
  BY NearestSide, Centre, RoomHosts, WallCoordinates
<1>3. i \in Hosts(o)
  <2>1. /\ HostOnPixels(oldWalls[i]) /\ CenterX(o) \in Int /\ CenterY(o) \in Int
    BY RoomHosts, Centre
  <2>2. /\ projectPerp(oldWalls[i], CenterX(o), CenterY(o)) \in Int
        /\ projectAlong(oldWalls[i], CenterX(o), CenterY(o)) \in Int
        /\ oldWalls[i].thickness \div 2 \in Int /\ oldWalls[i].length \div 2 \in Int
    <3> DEFINE wl == oldWalls[i]
               cx == CenterX(o)
               cy == CenterY(o)
    <3>1. HostOnPixels(wl) /\ cx \in Int /\ cy \in Int
      BY <2>1
    <3> HIDE DEF wl, cx, cy
    <3>2. projectPerp(wl, cx, cy) \in Int /\ projectAlong(wl, cx, cy) \in Int
      BY <3>1, WallCoordinates
    <3>3. wl.thickness \div 2 \in Int /\ wl.length \div 2 \in Int
      BY <3>1, Half DEF HostOnPixels, OnPixels
    <3> QED BY <3>2, <3>3 DEF wl, cx, cy
  <2>3. OnWall(oldWalls[i], CenterX(o), CenterY(o), 0)
    BY DEF Fits
  <2> DEFINE u == projectPerp(oldWalls[i], CenterX(o), CenterY(o))
             v == Dist(projectAlong(oldWalls[i], CenterX(o), CenterY(o)), 0)
             e == oldWalls[i].thickness \div 2
             f == oldWalls[i].length \div 2
  <2>4. u <= e + 0 /\ v <= f + 0
    BY <2>3 DEF OnWall
  <2>5. u \in Int /\ v \in Int /\ e \in Int /\ f \in Int
    BY <2>2 DEF Dist
  <2> HIDE DEF u, v, e, f
  <2>6. u <= e + 4 /\ v <= f + 4
    BY <2>4, <2>5
  <2> QED BY <2>6 DEF OnWall, u, v, e, f
<1>4. Host(o) = i
  <2> HIDE DEF Across
  <2>1. \A j \in Hosts(o) : j \in 1 .. 4 /\ j \in Int
    OBVIOUS
  <2>2. \A j \in Hosts(o) : Across(o, i) < Across(o, j) \/ (Across(o, i) = Across(o, j) /\ i <= j)
    BY <1>2, <2>1
  <2>3. ASSUME NEW k \in Hosts(o), Across(o, k) < Across(o, i) \/ (Across(o, k) = Across(o, i) /\ k <= i)
        PROVE  k = i
    BY <1>2, <2>1, <2>3
  <2> HIDE DEF Hosts
  <2> QED BY <1>3, <2>2, <2>3
<1>5. Carried(o) = c
  <2>1. From(o) = getBoundaryWalls(old)[i] /\ To(o) = getBoundaryWalls(new)[i]
    BY <1>4
  <2> HIDE DEF Host, From, To
  <2> QED BY <2>1 DEF CarriedTo
<1>6. \A q \in ToSet(objs) : Carried(q).id = q.id
  OBVIOUS
<1> HIDE DEF Carried, Hosts, c
<1>7. c \in carryBoundaryOpeningsOnResize(old, new, objs)
  BY <1>1, <1>3, <1>5
<1>8. \A d \in carryBoundaryOpeningsOnResize(old, new, objs) :
         d = c \/ \E q \in ToSet(objs) : q # o /\ d.id = q.id
  BY <1>1, <1>5, <1>6
<1> QED BY <1>7, <1>8 DEF c, CarriedSo

\* The place it gets: of whole pixels, and on the new wall.
LEMMA CarriedWithin ==
    ASSUME NEW L \in Nat, L > 0, NEW k \in Nat, NEW n \in Nat, n > 0, NEW a \in Int,
           NEW b, b = WithinWall((a * k) \div L, Max({0, (k - n) \div 2}))
    PROVE  /\ b \in Int
           /\ n <= k => n - k <= 2 * b /\ 2 * b <= k - n
<1> DEFINE q == (a * k) \div L
           h == (k - n) \div 2
           f == Max({0, h})
           g == -f
<1>1. q \in Int
  <2> DEFINE p == a * k
  <2>1. p \in Int
    OBVIOUS
  <2> HIDE DEF p
  <2> QED BY <2>1 DEF p
<1>2. h \in Int /\ 2 * h <= k - n /\ k - n - 1 <= 2 * h
  OBVIOUS
<1> HIDE DEF q, h
<1>3. f = IF h >= 0 THEN h ELSE 0
  BY <1>2, TwoNumbers
<1>4. b = Min({Max({q, g}), f})
  BY DEF WithinWall, clamp, q, h
<1> HIDE DEF f
<1>5. f \in Int /\ g \in Int /\ g <= f /\ -f <= f
  BY <1>2, <1>3
<1> HIDE DEF g
<1> DEFINE m == Max({q, g})
<1>6. m = IF q >= g THEN q ELSE g
  BY <1>1, <1>5, TwoNumbers
<1>7. m \in Int
  BY <1>1, <1>5, <1>6
<1> HIDE DEF m
<1>8. b = IF m <= f THEN m ELSE f
  BY <1>4, <1>5, <1>7, TwoNumbers DEF m
<1>9. b \in Int /\ g <= b /\ b <= f
  BY <1>1, <1>5, <1>6, <1>7, <1>8
<1>10. g = -f
  BY DEF g
<1> QED BY <1>2, <1>3, <1>9, <1>10

\* When the wall gets no shorter nothing is pushed towards its far end, and towards the
\* near one by what rounding took.
LEMMA CarriedFrom ==
    ASSUME NEW L \in Nat, L > 0, NEW k \in Nat, k >= L, NEW n \in Nat, n > 0, NEW a \in Int,
           n - L <= 2 * a, 2 * a <= L - n,
           NEW q, q = (a * k) \div L,
           NEW b, b = WithinWall(q, Max({0, (k - n) \div 2}))
    PROVE  /\ q \in Int /\ b \in Int /\ q <= b
           /\ b = q \/ (2 * b <= n - k + 1 /\ n - k - 1 <= 2 * q)
<1> DEFINE h == (k - n) \div 2
           f == Max({0, h})
           g == -f
<1>1. q \in Int /\ n - k - 1 <= 2 * q /\ 2 * q <= k - n
  BY ShareGrows
<1>2. h \in Int /\ 2 * h <= k - n /\ k - n - 1 <= 2 * h
  OBVIOUS
<1>3. n <= L
  OBVIOUS
<1>4. b = Min({Max({q, g}), f})
  BY DEF WithinWall, clamp
<1> HIDE DEF h
<1>5. f = h
  <2>1. h >= 0
    BY <1>2, <1>3
  <2> QED BY <1>2, <2>1, TwoNumbers
<1> HIDE DEF f
<1>6. f \in Int /\ g \in Int /\ g = -h /\ g <= f
  BY <1>2, <1>3, <1>5
<1> HIDE DEF g
<1> DEFINE m == Max({q, g})
<1>7. m = IF q >= g THEN q ELSE g
  BY <1>1, <1>6, TwoNumbers
<1>8. m \in Int /\ m <= f
  BY <1>1, <1>2, <1>5, <1>6, <1>7
<1> HIDE DEF m
<1>9. b = m
  BY <1>4, <1>6, <1>8, TwoNumbers DEF m
<1> QED BY <1>1, <1>2, <1>6, <1>7, <1>9

\* Two of them keep their order, up to a pixel.
LEMMA CarriedApart ==
    ASSUME NEW L \in Nat, L > 0, NEW k \in Nat, k >= L,
           NEW n \in Nat, n > 0, NEW a \in Int, n - L <= 2 * a, 2 * a <= L - n,
           NEW m \in Nat, m > 0, NEW c \in Int, m - L <= 2 * c, 2 * c <= L - m,
           2 * a + n <= 2 * c - m,
           NEW b, b = WithinWall((a * k) \div L, Max({0, (k - n) \div 2})),
           NEW d, d = WithinWall((c * k) \div L, Max({0, (k - m) \div 2}))
    PROVE  b \in Int /\ d \in Int /\ 2 * b + n <= 2 * d - m + 2
<1> DEFINE q == (a * k) \div L
           s == (c * k) \div L
           e == n + m
           z == 2 * n + m
<1>1. /\ q \in Int /\ b \in Int /\ q <= b
      /\ b = q \/ (2 * b <= n - k + 1 /\ n - k - 1 <= 2 * q)
  BY CarriedFrom
<1>2. s \in Int /\ d \in Int /\ s <= d
  BY CarriedFrom
<1>3. 2 * q + e - 1 <= 2 * s
  <2>1. e \in Nat /\ 2 * a + e <= 2 * c
    OBVIOUS
  <2> HIDE DEF e
  <2> QED BY <2>1, SharesApart
<1>4. z - k - 1 <= 2 * s
  <2>1. z \in Nat /\ z - L <= 2 * c
    OBVIOUS
  <2> HIDE DEF z
  <2> QED BY <2>1, ShareGrows
<1> HIDE DEF q, s
<1> QED BY <1>1, <1>2, <1>3, <1>4

\* Only the two handlers of the room change it.
LEMMA WhoResizes ==
    ASSUME [Next]_vars, boundary' # boundary
    PROVE  \E new, shift : handleBoundaryResize(new, shift)
<1>1. UNCHANGED pageVars \/ UNCHANGED vars \/ UNCHANGED_besides \/ UNCHANGED_step \/ UNCHANGED_page
        \/ UNCHANGED_answer => boundary' = boundary
  BY DEF pageVars, vars, UNCHANGED_besides, UNCHANGED_step, UNCHANGED_page, UNCHANGED_answer
<1>2. CASE Edit
  <2>1. handleObjectDragEnd \/ handleCanvasKeyDown \/ handleObjectTransform \/ InspectorEditor
          \/ handleDeleteSelected \/ handleLibrarySelect \/ handlePlacementMove \/ handlePlacementClick
          => boundary' = boundary
    BY <1>1 DEF handleObjectDragEnd, handleCanvasKeyDown, handleObjectTransform, InspectorEditor,
                handleDeleteSelected, handleLibrarySelect, handlePlacementMove, handlePlacementClick,
                UNCHANGED_rest
  <2>2. onRoomSizeChange \/ handleBoundaryTransformEnd
    BY <1>2, <2>1 DEF Edit
  <2>3. onRoomSizeChange => \E new, shift : handleBoundaryResize(new, shift)
    BY DEF onRoomSizeChange
  <2>4. handleBoundaryTransformEnd => \E new, shift : handleBoundaryResize(new, shift)
    BY DEF handleBoundaryTransformEnd
  <2> QED BY <2>2, <2>3, <2>4
<1>3. Page => boundary' = boundary
  BY <1>1 DEF Page, persistBoundary, goTo, toggleWizard, handlePublish, requestEdit, cancelEdit,
              confirmEdit, openPreview, cancel, apply, undo
<1>4. Tidy => boundary' = boundary
  BY <1>1 DEF Tidy
<1>5. Network => boundary' = boundary
  BY <1>1 DEF Network, lose, answer
<1>6. UNCHANGED vars => boundary' = boundary
  BY <1>1
<1> QED BY <1>2, <1>3, <1>4, <1>5, <1>6 DEF Next

\* What fits a wall of the room, after the room was resized and nothing being saved.
LEMMA ResizeShown ==
    ASSUME Wholes, Typing, saving = {}, NEW new, IsBox(new), NEW shift, NEW op,
           persistObjectPatch(resizeMoves(new, shift), TRUE, op), NEW i \in 1 .. 4,
           NEW o \in ToSet(objects), IsOpening(o.type), o.width > 1,
           Fits(getBoundaryWalls(boundary)[i], o),
           NEW b, b = CarriedTo(boundary, new, i, o), b \in Int
    PROVE  LET s == After(o.id)
               w == getBoundaryWalls(new)[i]
           IN  OnPlane(s) /\ s.width = o.width /\ Along(w, s) = b
               /\ projectPerp(w, CenterX(s), CenterY(s)) = 0
<1> DEFINE w == getBoundaryWalls(new)[i]
           p == pointOnWall(w, b)
           x == p[1] - o.width \div 2
           y == p[2] - o.height \div 2
           c == [o EXCEPT !.x = x, !.y = y]
           carried == carryBoundaryOpeningsOnResize(boundary, new, objects)
           rest == {q \in ToSet(objects) : \A d \in carried : d.id # q.id}
           moves == resizeMoves(new, shift)
           s == After(o.id)
<1>1. Whole(o) /\ OnPlane(o) /\ Len(objects) \in Nat /\ IsBox(boundary) /\ HasSize(boundary.w, boundary.h)
      /\ \A q \in ToSet(objects) : OnPlane(q)
  BY PageHere DEF Good, PageInPlace, RoomSized
<1>2. c \in carried /\ \A d \in carried : d = c \/ \E q \in ToSet(objects) : q # o /\ d.id = q.id
  <2>1. CarriedSo(boundary, new, objects, i, o, b)
    BY <1>1, CarriedOnSide
  <2> QED BY <2>1 DEF CarriedSo
<1>3. c.id = o.id /\ c.x = x /\ c.y = y
  <2>1. DOMAIN o = ObjectFields
    BY <1>1, WholeDomain
  <2> HIDE DEF x, y
  <2> QED BY <2>1 DEF ObjectFields, ShapeFields
<1>4. \A m \in moves : \/ \E d \in carried : m = Move(d.id, d.x, d.y) /\ m.id = d.id
                       \/ \E q \in rest : m.id = q.id
  BY DEF resizeMoves, Move, Change
<1>5. Move(o.id, x, y) \in moves /\ Move(o.id, x, y).id = o.id
  <2>1. Move(c.id, c.x, c.y) \in moves
    BY <1>2 DEF resizeMoves
  <2> HIDE DEF moves, c, x, y
  <2> QED BY <1>3, <2>1 DEF Move, Change
<1>6. \A m \in moves : MoveWhole(m, Len(objects))
  BY <1>1, ResizeMoves, MovesAreWhole
<1>7. \A q \in rest : q.id # o.id
  BY <1>2, <1>3
<1> HIDE DEF moves, rest, carried, c, x, y, s
<1>8. \A q \in ToSet(objects) : q # o => q.id # o.id
  BY NamedOnPage
<1>9. \A m \in moves : m.id = o.id => m = Move(o.id, x, y)
  BY <1>2, <1>3, <1>4, <1>7, <1>8
<1>10. s = With(o, Move(o.id, x, y).patch)
  <2>1. \/ (\A m \in moves : m.id # o.id \/ o.id \in saving) /\ s = o
        \/ \E m \in moves : m.id = o.id /\ s = With(o, m.patch)
    BY <1>6, ChangedAfter DEF s, moves
  <2> QED BY <1>5, <1>9, <2>1
<1>11. s.x = x /\ s.y = y /\ s.width = o.width /\ s.height = o.height
  BY <1>1, <1>10, PlaceShown
<1>12. HostOnPixels(w) /\ Quarters(w.angle)
  <2>1. w.angle \in {0, 90}
    BY SideShape
  <2>2. HostOnPixels(w)
    BY RoomHosts
  <2> HIDE DEF w
  <2> QED BY <2>1, <2>2 DEF Quarters
<1>13. p[1] \in Int /\ p[2] \in Int
  <2>1. HostOnPixels(w) /\ b \in Int
    BY <1>12
  <2> HIDE DEF w
  <2> QED BY <2>1, WallCoordinates
<1>14. o.width \in Int /\ o.height \in Int /\ o.width \div 2 \in Int /\ o.height \div 2 \in Int
  BY <1>1, Centre
<1>15. projectAlong(w, p[1], p[2]) = b /\ projectPerp(w, p[1], p[2]) = 0
  BY <1>12, BackOnWall
<1> HIDE DEF p, w
<1>16. x \in Int /\ y \in Int /\ x + o.width \div 2 = p[1] /\ y + o.height \div 2 = p[2]
  BY <1>13, <1>14 DEF x, y
<1>17. CenterX(s) = p[1] /\ CenterY(s) = p[2] /\ OnPlane(s)
  BY <1>11, <1>14, <1>16 DEF CenterX, CenterY, OnPlane, OnPixels
<1> QED BY <1>11, <1>15, <1>17 DEF Along, s, w

\* The i-th wall of the room after a resize.
LEMMA RoomCarries ==
    ASSUME Wholes, Typing, saving = {}, NEW new, IsBox(new), HasSize(new.w, new.h), boundary' = new,
           NEW shift, NEW op, persistObjectPatch(resizeMoves(new, shift), TRUE, op), NEW i \in 1 .. 4
    PROVE  StaysOnSide(i)
<1> DEFINE from == getBoundaryWalls(boundary)[i]
           to == getBoundaryWalls(new)[i]
           L == from.length
           k == to.length
           mine == {o \in ToSet(objects) : IsOpening(o.type) /\ o.width > 1 /\ Fits(from, o)}
           Mid(o) == CarriedTo(boundary, new, i, o)
<1>1. /\ IsBox(boundary) /\ HasSize(boundary.w, boundary.h) /\ \A o \in ToSet(objects) : OnPlane(o)
  BY PageHere DEF Good, PageInPlace, RoomSized
<1>2. /\ HostOnPixels(from) /\ HostOnPixels(to)
      /\ L \in Nat /\ L > 0 /\ k \in Nat /\ k > 0
  <2>1. /\ HostOnPixels(from) /\ HostOnPixels(to)
        /\ L \in {boundary.w, boundary.h} /\ k \in {new.w, new.h}
    BY <1>1, RoomHosts
  <2> HIDE DEF from, to, L, k
  <2> QED BY <1>1, <2>1 DEF IsBox, OnPixels, HasSize
<1>3. to.thickness \div 2 \in Int /\ to.thickness \div 2 >= 0
  <2>1. to.thickness = BOUNDARY_WALL_THICKNESS
    BY SideShape
  <2>2. BOUNDARY_WALL_THICKNESS \in Int /\ BOUNDARY_WALL_THICKNESS >= 2
    BY GeometryAssumption
  <2> HIDE DEF to
  <2> QED BY <2>1, <2>2
<1>4. ASSUME NEW o \in mine
      PROVE  /\ o.width \in Nat /\ o.width > 0 /\ Along(from, o) \in Int
             /\ o.width - L <= 2 * Along(from, o) /\ 2 * Along(from, o) <= L - o.width
             /\ Mid(o) = WithinWall((Along(from, o) * k) \div L, Max({0, (k - o.width) \div 2}))
             /\ Mid(o) \in Int
             /\ o.width <= k => o.width - k <= 2 * Mid(o) /\ 2 * Mid(o) <= k - o.width
  <2>1. o \in ToSet(objects) /\ OnPlane(o) /\ o.width > 1 /\ Fits(from, o)
    BY <1>1, <1>4
  <2>2. o.width \in Int /\ CenterX(o) \in Int /\ CenterY(o) \in Int
    BY <2>1, Centre
  <2>3. o.width \in Nat /\ o.width > 0
    BY <2>1, <2>2
  <2>4. Along(from, o) \in Int
    <3> HIDE DEF from
    <3> QED BY <1>2, <2>2, WallCoordinates DEF Along
  <2>5. o.width - L <= 2 * Along(from, o) /\ 2 * Along(from, o) <= L - o.width
    <3> HIDE DEF from
    <3> QED BY <1>2, <2>1, <2>3, FitsBetween
  <2>6. Mid(o) = WithinWall((Along(from, o) * k) \div L, Max({0, (k - o.width) \div 2}))
    BY DEF CarriedTo, Along
  <2> DEFINE n == o.width
             a == Along(from, o)
             b == Mid(o)
  <2> HIDE DEF Mid, from, k, L
  <2>7. n \in Nat /\ n > 0 /\ a \in Int /\ b = WithinWall((a * k) \div L, Max({0, (k - n) \div 2}))
    BY <2>3, <2>4, <2>6
  <2> HIDE DEF n, a, b
  <2>8. b \in Int /\ (n <= k => n - k <= 2 * b /\ 2 * b <= k - n)
    BY <1>2, <2>7, CarriedWithin
  <2> QED BY <2>3, <2>4, <2>5, <2>6, <2>8 DEF n, b
<1>5. ASSUME NEW o \in mine
      PROVE  /\ OnPlane(After(o.id)) /\ After(o.id).width = o.width /\ Along(to, After(o.id)) = Mid(o)
             /\ projectPerp(to, CenterX(After(o.id)), CenterY(After(o.id))) = 0
  <2>1. o \in ToSet(objects) /\ IsOpening(o.type) /\ o.width > 1 /\ Fits(from, o)
    BY <1>5
  <2>2. Mid(o) \in Int
    BY <1>4, <1>5
  <2> DEFINE b == Mid(o)
  <2>3. b = CarriedTo(boundary, new, i, o) /\ b \in Int
    BY <2>2
  <2> HIDE DEF b
  <2>4. /\ OnPlane(After(o.id)) /\ After(o.id).width = o.width /\ Along(to, After(o.id)) = b
        /\ projectPerp(to, CenterX(After(o.id)), CenterY(After(o.id))) = 0
    BY <2>1, <2>3, ResizeShown
  <2> QED BY <2>4 DEF b
<1> HIDE DEF Mid
<1>6. ASSUME NEW o \in mine, o.width <= to.length PROVE Fits(to, After(o.id))
  <2> DEFINE s == After(o.id)
             a == Along(to, s)
             n == s.width
             u == projectPerp(to, CenterX(s), CenterY(s))
             h == to.thickness \div 2
  <2>1. OnPlane(s) /\ n \in Nat /\ n > 0 /\ a \in Int /\ n - k <= 2 * a /\ 2 * a <= k - n /\ u = 0
    BY <1>4, <1>5, <1>6
  <2>2. u <= h
    BY <1>3, <2>1
  <2> HIDE DEF a, n, u, h, k
  <2>3. Dist(a, 0) <= k \div 2
    BY <1>2, <2>1 DEF Dist
  <2>4. /\ OnPlane(s) /\ s.width > 0
        /\ projectPerp(to, CenterX(s), CenterY(s)) <= to.thickness \div 2
        /\ Dist(Along(to, s), 0) <= to.length \div 2
        /\ s.width - to.length <= 2 * Along(to, s) /\ 2 * Along(to, s) <= to.length - s.width
    <3>1. OnPlane(s) /\ n > 0
      BY <2>1
    <3> QED BY <2>1, <2>2, <2>3, <3>1 DEF a, n, u, h, k
  <2> HIDE DEF s, to
  <2>5. Fits(to, s)
    BY <1>2, <2>4, FitsBetween
  <2> QED BY <2>5 DEF s
<1>7. ASSUME NEW o \in mine, NEW p \in mine, to.length >= from.length, LeftOf(from, o, p, 0)
      PROVE  LeftOf(to, After(o.id), After(p.id), 2)
  <2> DEFINE n == o.width
             m == p.width
             a == Along(from, o)
             c == Along(from, p)
             b == Mid(o)
             d == Mid(p)
             s == After(o.id)
             t == After(p.id)
  <2>1. /\ n \in Nat /\ n > 0 /\ a \in Int /\ n - L <= 2 * a /\ 2 * a <= L - n
        /\ b = WithinWall((a * k) \div L, Max({0, (k - n) \div 2}))
    BY <1>4
  <2>2. /\ m \in Nat /\ m > 0 /\ c \in Int /\ m - L <= 2 * c /\ 2 * c <= L - m
        /\ d = WithinWall((c * k) \div L, Max({0, (k - m) \div 2}))
    BY <1>4
  <2>3. Max(Covers(from, o)) = 2 * a + n /\ Min(Covers(from, p)) = 2 * c - m
    <3>1. OnPlane(o) /\ OnPlane(p) /\ o.width >= 0 /\ p.width >= 0
      BY <1>1, <2>1, <2>2
    <3> HIDE DEF from, mine
    <3> QED BY <1>2, <3>1, CoverEnds
  <2>4. 2 * a + n <= 2 * c - m
    <3>1. 2 * a + n <= (2 * c - m) + 0
      BY <1>7, <2>3 DEF LeftOf
    <3> HIDE DEF a, n, c, m
    <3> QED BY <2>1, <2>2, <3>1
  <2>5. /\ OnPlane(s) /\ s.width = n /\ Along(to, s) = b
        /\ OnPlane(t) /\ t.width = m /\ Along(to, t) = d
    BY <1>5
  <2>6. k >= L
    BY <1>7
  <2> HIDE DEF n, m, a, b, c, d, s, t, L, k
  <2>7. b \in Int /\ d \in Int /\ 2 * b + n <= 2 * d - m + 2
    BY <1>2, <2>1, <2>2, <2>4, <2>6, CarriedApart
  <2>8. Max(Covers(to, s)) = 2 * b + n /\ Min(Covers(to, t)) = 2 * d - m
    <3>1. s.width >= 0 /\ t.width >= 0
      BY <2>1, <2>2, <2>5
    <3> HIDE DEF to
    <3> QED BY <1>2, <2>5, <3>1, CoverEnds
  <2>9. LeftOf(to, s, t, 2)
    <3>1. 2 * b + n <= (2 * d - m) + 2
      BY <2>1, <2>2, <2>7
    <3> QED BY <2>8, <3>1 DEF LeftOf
  <2> QED BY <2>9 DEF s, t
<1> QED BY <1>6, <1>7 DEF StaysOnSide

\* Whatever the layout and the sizes of the room before and after, what is on one of the
\* room's walls is on it when the room was resized, and two doors keep their sides when
\* the wall did not get shorter, though each is scaled and kept on the wall by itself
\* (carryBoundaryOpeningsOnResize: wallPlacement.ts:533-575).
THEOREM RoomsKeepOpenings == Spec => RoomKeepsOpenings
<1>1. ASSUME Wholes, Typing, Typing', [Next]_vars, boundary' # boundary, saving = {}, NEW i \in 1 .. 4
      PROVE  StaysOnSide(i)
  <2>1. PICK new, shift : handleBoundaryResize(new, shift)
    BY <1>1, WhoResizes
  <2> DEFINE op == "resize"
  <2>2. persistObjectPatch(resizeMoves(new, shift), TRUE, op) /\ boundary' = new
    BY <2>1 DEF handleBoundaryResize
  <2> HIDE DEF op
  <2>3. IsBox(new) /\ HasSize(new.w, new.h)
    BY <1>1, <2>2 DEF Typing, RoomsTyped, RoomSized
  <2> QED BY <1>1, <2>2, <2>3, RoomCarries
<1>2. Wholes /\ Typing /\ Typing' /\ [Next]_vars =>
        (boundary' # boundary /\ saving = {} => \A i \in 1 .. 4 : StaysOnSide(i))
  BY <1>1
<1> QED BY <1>2, WholesHold, TypingHolds, PTL DEF Spec, RoomKeepsOpenings

=============================================================================
