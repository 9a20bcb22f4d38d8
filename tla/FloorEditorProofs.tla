------------------------- MODULE FloorEditorProofs -------------------------
(***************************************************************************)
(* The saving flags of FloorEditor, and that its page shows what is        *)
(* stored.  A flag says that a save of its object is on its way.  What     *)
(* makes it go with the right answer is that, of an object whose answers   *)
(* can be told apart, only one save is in flight: the second conjunct of   *)
(* Inv, kept by the guard of persistObjectPatch.  The second half of the   *)
(* module shows that every refusal then takes back what it should.         *)
(***************************************************************************)
EXTENDS FloorEditor, SequenceTheorems, FiniteSetTheorems, WellFoundedInduction, TLAPS

\* A request has the fields of Request and no others.
WholeRequest(r) ==
    DOMAIN r = {"kind", "op", "id", "body", "prev", "at", "copy", "turn", "no"}

RequestsWhole == \A r \in requests : WholeRequest(r)

\* At most one save of an object is on its way, but for the objects that unguarded
\* saves, deletions and tidies touch, or that one handler moved twice.
SavesAlone ==
    \A r, q \in requests :
       r.kind = "patch" /\ q.kind = "patch" /\ r.id = q.id /\ r.id \notin blurred => r = q

Inv == RequestsWhole /\ SavesAlone /\ SavingIsTold

(***************************************************************************)
(* Requests                                                                *)
(***************************************************************************)
\* A new request is whole and has the kind, the object and the handler it was made of.
LEMMA RequestFields ==
    ASSUME NEW kind, NEW op, NEW id, NEW body, NEW prev
    PROVE  LET r == Request(kind, op, id, body, prev)
           IN  /\ WholeRequest(r) /\ r.kind = kind /\ r.op = op /\ r.id = id /\ r.at = "sent"
               /\ r.body = body /\ r.prev = prev
<1> DEFINE n == 1 + Max({0} \cup {r.no : r \in {q \in requests : q.kind = kind /\ q.id = id}})
<1> HIDE DEF n
<1>1. Request(kind, op, id, body, prev)
        = [kind |-> kind, op |-> op, id |-> id, body |-> body, prev |-> prev,
           at |-> "sent", copy |-> Nothing, turn |-> 0, no |-> n]
  BY DEF Request, n
<1> QED BY <1>1 DEF WholeRequest

\* A save is a request about the object it changes.
LEMMA SaveFields ==
    ASSUME NEW m, NEW op
    PROVE  LET r == SaveOf(m, op)
           IN  /\ WholeRequest(r) /\ r.kind = "patch" /\ r.op = op /\ r.id = m.id
               /\ r.at = "sent" /\ r.body = m.patch /\ r.prev = Before(m.id, m.patch)
<1> DEFINE made == Request("patch", op, m.id, m.patch, Before(m.id, m.patch))
           save == [made EXCEPT !.turn = m.turn]
<1>1. /\ WholeRequest(made) /\ made.kind = "patch" /\ made.op = op /\ made.id = m.id
      /\ made.at = "sent" /\ made.body = m.patch /\ made.prev = Before(m.id, m.patch)
  BY RequestFields
<1>2. SaveOf(m, op) = save
  BY DEF SaveOf
<1> HIDE DEF made
<1> QED BY <1>1, <1>2 DEF WholeRequest

\* What a save touches is its object.
LEMMA PatchTouches ==
    ASSUME NEW r, r.kind = "patch"
    PROVE  Touched(r) = {r.id}
BY DEF Touched

(***************************************************************************)
(* What a step does to flags and requests                                  *)
(***************************************************************************)
\* The changes go of the handler op are saved, ids are their objects and news the
\* requests; the requests gone are done with.
SavesSent(go, op, gone, ids, news) ==
    /\ (\A m \in go : m.id \notin saving) \/ op = "details"
    /\ \A id \in ids : \E m \in go : id = m.id
    /\ \A m \in go : m.id \in ids /\ SaveOf(m, op) \in news
    /\ \A r \in news : \E m \in go : r = SaveOf(m, op)
    /\ \A r \in gone : r.kind # "patch"
    /\ saving' = saving \cup ids
    /\ requests' = (requests \ gone) \cup news
    /\ blurred' = blurred \cup Beside(news)

\* Saves are sent: those of a guarded handler only for objects that have no flag,
\* those of the inspector for any.  A request that is no save may go.
LEMMA SavesAreTold ==
    ASSUME Inv, NEW go, NEW op, NEW gone, NEW ids, NEW news,
           SavesSent(go, op, gone, ids, news)
    PROVE  Inv'
<1> USE DEF SavesSent
<1>1. \A r \in news : /\ WholeRequest(r) /\ r.kind = "patch" /\ r.op = op
                      /\ \E m \in go : r.id = m.id
  BY SaveFields
<1>2. \A m \in go : \E r \in news : r.kind = "patch" /\ r.id = m.id
  BY SaveFields
<1>3. RequestsWhole'
  BY <1>1 DEF Inv, RequestsWhole
<1>4. SavesAlone'
  <2> SUFFICES ASSUME NEW r \in requests', NEW q \in requests',
                      r.kind = "patch", q.kind = "patch", r.id = q.id, r.id \notin blurred'
               PROVE  r = q
    BY DEF SavesAlone
  <2>0. Touched(r) = {r.id} /\ Touched(q) = {r.id}
    BY PatchTouches
  <2>1. r.id \notin blurred /\ r.id \notin Beside(news)
    OBVIOUS
  <2>2. CASE r \in requests /\ q \in requests
    BY <2>1, <2>2 DEF Inv, SavesAlone
  <2>3. CASE r \in news /\ q \in news
    BY <2>0, <2>1, <2>3 DEF Beside
  <2>4. ASSUME NEW old \in requests, NEW new \in news, old.kind = "patch", old.id = r.id,
               new.id = r.id
        PROVE  FALSE
    <3>1. old.id \in saving
      BY <2>1, <2>4 DEF Inv, SavingIsTold
    <3>2. op = "details"
      BY <1>1, <2>4, <3>1
    <3>3. new.op = "details" /\ Touched(new) = {r.id} /\ Touched(old) = {r.id}
      BY <1>1, <2>4, <3>2, PatchTouches
    <3>4. r.id \in Beside(news)
      BY <2>4, <3>3 DEF Beside, InFlight
    <3> QED BY <2>1, <3>4
  <2> QED BY <2>2, <2>3, <2>4
<1>5. SavingIsTold'
  <2>1. ASSUME NEW id \in saving' PROVE (PatchesOf(id) # {})'
    <3>1. CASE id \in saving
      <4>1. PICK r \in requests : r.kind = "patch" /\ r.id = id
        BY <3>1 DEF Inv, SavingIsTold, PatchesOf
      <4> QED BY <4>1 DEF PatchesOf
    <3>2. CASE \E m \in go : id = m.id
      BY <1>2, <3>2 DEF PatchesOf
    <3> QED BY <2>1, <3>1, <3>2
  <2>2. ASSUME NEW r \in requests', r.kind = "patch", r.id \notin blurred'
        PROVE  r.id \in saving'
    BY <1>1, <2>2 DEF Inv, SavingIsTold
  <2> QED BY <2>1, <2>2 DEF SavingIsTold
<1> QED BY <1>3, <1>4, <1>5 DEF Inv

\* Requests that are no saves are sent and answered.
LEMMA OthersAreQuiet ==
    ASSUME Inv, NEW news, NEW gone, NEW more,
           \A r \in news : WholeRequest(r) /\ r.kind # "patch",
           \A r \in gone : r.kind # "patch",
           saving' = saving, requests' = (requests \ gone) \cup news, blurred' = blurred \cup more
    PROVE  Inv'
<1>1. RequestsWhole'
  BY DEF Inv, RequestsWhole
<1>2. SavesAlone'
  BY DEF Inv, SavesAlone
<1>3. \A id : (PatchesOf(id))' = PatchesOf(id)
  BY DEF PatchesOf
<1>4. SavingIsTold'
  BY <1>3 DEF Inv, SavingIsTold
<1> QED BY <1>1, <1>2, <1>4 DEF Inv

\* A request goes from one stage to the next.
LEMMA StagesAreQuiet ==
    ASSUME Inv, NEW r \in requests, NEW at, NEW copy, NEW more, At_(r, at, copy),
           saving' = saving, blurred' = blurred \cup more
    PROVE  Inv'
<1> DEFINE next == [r EXCEPT !.at = at, !.copy = copy]
<1>1. WholeRequest(next) /\ next.kind = r.kind /\ next.id = r.id
  BY DEF Inv, RequestsWhole, WholeRequest
<1>2. requests' = (requests \ {r}) \cup {next}
  BY DEF At_
<1> HIDE DEF next
<1>3. RequestsWhole'
  BY <1>1, <1>2 DEF Inv, RequestsWhole
<1>4. SavesAlone'
  BY <1>1, <1>2 DEF Inv, SavesAlone
<1>5. SavingIsTold'
  <2>1. ASSUME NEW id \in saving' PROVE (PatchesOf(id) # {})'
    <3>1. PICK q \in requests : q.kind = "patch" /\ q.id = id
      BY <2>1 DEF Inv, SavingIsTold, PatchesOf
    <3> QED BY <1>1, <1>2, <3>1 DEF PatchesOf
  <2>2. ASSUME NEW q \in requests', q.kind = "patch", q.id \notin blurred'
        PROVE  q.id \in saving'
    BY <1>1, <1>2, <2>2 DEF Inv, SavingIsTold
  <2> QED BY <2>1, <2>2 DEF SavingIsTold
<1> QED BY <1>3, <1>4, <1>5 DEF Inv

(***************************************************************************)
(* The steps                                                               *)
(***************************************************************************)
\* A handler that asks the flag saves what has none; the inspector asks no flag.
LEMMA HandlersSave ==
    ASSUME Inv, NEW moves, NEW guard \in BOOLEAN, NEW op,
           guard \/ op = "details", persistObjectPatch(moves, guard, op)
    PROVE  Inv'
<1> DEFINE go == Unguarded(moves, guard)
           ids == {m.id : m \in go}
           news == {SaveOf(m, op) : m \in go}
<1>1. (\A m \in go : m.id \notin saving) \/ op = "details"
  BY DEF Unguarded
<1>2. saving' = saving \cup ids /\ requests' = (requests \ {}) \cup news
      /\ blurred' = blurred \cup Beside(news)
  BY DEF persistObjectPatch, Send
<1> HIDE DEF go
<1>3. /\ \A id \in ids : \E m \in go : id = m.id
      /\ \A m \in go : m.id \in ids /\ SaveOf(m, op) \in news
      /\ \A r \in news : \E m \in go : r = SaveOf(m, op)
  OBVIOUS
<1> HIDE DEF ids, news
<1>4. SavesSent(go, op, {}, ids, news)
  BY <1>1, <1>2, <1>3 DEF SavesSent
<1> QED BY <1>4, SavesAreTold

\* One request that is no save is sent.
LEMMA OthersSent ==
    ASSUME Inv, NEW news, Send(news), saving' = saving,
           \A r \in news : WholeRequest(r) /\ r.kind # "patch"
    PROVE  Inv'
<1>1. requests' = (requests \ {}) \cup news /\ blurred' = blurred \cup Beside(news)
  BY DEF Send
<1> QED BY <1>1, OthersAreQuiet

\* Nothing that flags or requests are about changes.
LEMMA NoRequests ==
    ASSUME Inv, UNCHANGED <<saving, requests, blurred>>
    PROVE  Inv'
BY DEF Inv, RequestsWhole, WholeRequest, SavesAlone, SavingIsTold, PatchesOf

\* Every handler of the canvas, the inspector, the library and the toolbar.
LEMMA EditStep ==
    ASSUME Inv, Edit
    PROVE  Inv'
<1>1. CASE handleObjectDragEnd
  <2>1. \E moves, op : persistObjectPatch(moves, TRUE, op)
    BY <1>1 DEF handleObjectDragEnd, dragOpening, dragCutout, dragFurniture
  <2> QED BY <2>1, HandlersSave
<1>2. CASE handleCanvasKeyDown
  <2>1. \E moves, op : persistObjectPatch(moves, TRUE, op)
    BY <1>2 DEF handleCanvasKeyDown
  <2> QED BY <2>1, HandlersSave
<1>3. CASE handleObjectTransform
  <2>1. \E moves, op : persistObjectPatch(moves, TRUE, op)
    BY <1>3 DEF handleObjectTransform
  <2> QED BY <2>1, HandlersSave
<1>4. CASE InspectorEditor
  <2>1. \E moves : persistObjectPatch(moves, FALSE, "details")
    BY <1>4 DEF InspectorEditor, handleObjectDetailsSave
  <2> QED BY <2>1, HandlersSave
<1>5. CASE handleDeleteSelected
  <2>1. PICK o \in ToSet(objects) :
          Send({Request("delete", "delete", o.id, Nothing, Nothing)})
    BY <1>5 DEF handleDeleteSelected
  <2> QED BY <1>5, <2>1, RequestFields, OthersSent DEF handleDeleteSelected
<1>6. CASE handleLibrarySelect
  <2>1. PICK size \in visit.adds :
          \/ UNCHANGED <<requests, blurred>>
          \/ handleQuickAdd(size)
    BY <1>6 DEF handleLibrarySelect
  <2>2. saving' = saving
    BY <1>6 DEF handleLibrarySelect
  <2>3. CASE UNCHANGED <<requests, blurred>>
    BY <2>2, <2>3, NoRequests
  <2>4. CASE handleQuickAdd(size)
    <3>1. \E o : Send({Request("create", "add", PlanObject, o, Nothing)})
      BY <2>4 DEF handleQuickAdd
    <3> QED BY <2>2, <3>1, RequestFields, OthersSent
  <2> QED BY <2>1, <2>3, <2>4
<1>7. CASE handlePlacementMove
  BY <1>7, NoRequests DEF handlePlacementMove
<1>8. CASE handlePlacementClick
  <2>1. \E o : Send({Request("create", "place", PlanObject, o, Nothing)})
    BY <1>8 DEF handlePlacementClick
  <2>2. saving' = saving
    BY <1>8 DEF handlePlacementClick
  <2> QED BY <2>1, <2>2, RequestFields, OthersSent
<1>9. ASSUME NEW new, NEW shift, handleBoundaryResize(new, shift)
      PROVE  Inv'
  <2>1. persistObjectPatch(resizeMoves(new, shift), TRUE, "resize")
    BY <1>9 DEF handleBoundaryResize
  <2> QED BY <2>1, HandlersSave
<1>10. CASE onRoomSizeChange
  BY <1>9, <1>10 DEF onRoomSizeChange
<1>11. CASE handleBoundaryTransformEnd
  BY <1>9, <1>11 DEF handleBoundaryTransformEnd
<1> QED BY <1>1, <1>2, <1>3, <1>4, <1>5, <1>6, <1>7, <1>8, <1>10, <1>11 DEF Edit

\* The timer, the wizard, publishing and the tidy dialog send no saves.
LEMMA PageStep ==
    ASSUME Inv, Page
    PROVE  Inv'
<1>1. CASE persistBoundary
  <2>1. Send({Request("floor", "floor", PlanObject, new, Nothing) : new \in timer})
    BY <1>1 DEF persistBoundary
  <2>2. saving' = saving
    BY <1>1 DEF persistBoundary
  <2> QED BY <2>1, <2>2, RequestFields, OthersSent
<1>2. CASE goTo
  BY <1>2, NoRequests DEF goTo, UNCHANGED_step
<1>3. CASE toggleWizard
  BY <1>3, NoRequests DEF toggleWizard, UNCHANGED_step
<1>4. CASE handlePublish
  <2>1. Send({Request("publish", "status", PlanObject, Nothing, Nothing)})
    BY <1>4 DEF handlePublish
  <2>2. saving' = saving
    BY <1>4 DEF handlePublish, pageVars
  <2> QED BY <2>1, <2>2, RequestFields, OthersSent
<1>5. CASE requestEdit
  BY <1>5, NoRequests DEF requestEdit
<1>6. CASE cancelEdit
  BY <1>6, NoRequests DEF cancelEdit
<1>7. CASE confirmEdit
  <2>1. Send({Request("unpublish", "status", PlanObject, Nothing, Nothing)})
    BY <1>7 DEF confirmEdit
  <2>2. saving' = saving
    BY <1>7 DEF confirmEdit, pageVars
  <2> QED BY <2>1, <2>2, RequestFields, OthersSent
<1>8. CASE openPreview
  BY <1>8, NoRequests DEF openPreview, pageVars
<1>9. CASE cancel
  BY <1>9, NoRequests DEF cancel
<1>10. CASE apply
  <2>1. \E chosen : Send({Request("tidy", "tidy", PlanObject, ChosenPlan(chosen), Nothing)})
    BY <1>10 DEF apply
  <2>2. saving' = saving
    BY <1>10 DEF apply, pageVars
  <2> QED BY <2>1, <2>2, RequestFields, OthersSent
<1>11. CASE undo
  <2>1. \E run : Send({Request("undo", "tidy", PlanObject, run, Nothing)})
    BY <1>11 DEF undo
  <2>2. saving' = saving
    BY <1>11 DEF undo, pageVars
  <2> QED BY <2>1, <2>2, RequestFields, OthersSent
<1> QED BY <1>1, <1>2, <1>3, <1>4, <1>5, <1>6, <1>7, <1>8, <1>9, <1>10, <1>11 DEF Page

\* The server takes a request one stage further and leaves the page alone.
LEMMA ServerStep ==
    ASSUME Inv, NEW r \in requests, serverStep(r), UNCHANGED_page
    PROVE  Inv'
<1>1. \E at, copy : At_(r, at, copy)
  BY DEF serverStep, handleAlone, readRow, saveRow, createRow, applyRun, undoRun, handleFloor
<1>2. saving' = saving /\ blurred' = blurred \cup {}
  BY DEF UNCHANGED_page, pageVars
<1> QED BY <1>1, <1>2, StagesAreQuiet

\* A lost answer may leave an object of which the page cannot tell what is stored.
LEMMA LoseStep ==
    ASSUME Inv, NEW r \in requests, lose(r)
    PROVE  Inv'
<1>1. At_(r, "refused", Nothing)
  BY DEF lose
<1>2. saving' = saving
  BY DEF lose, pageVars
<1>3. \E more : blurred' = blurred \cup more
  <2>1. blurred' = blurred \cup (IF r.at = "done" THEN Touched(r) ELSE {})
    BY DEF lose
  <2> QED BY <2>1
<1> QED BY <1>1, <1>2, <1>3, StagesAreQuiet

\* The answer to the one save of an object ends its flag, and no other does.
LEMMA PatchAnswered ==
    ASSUME Inv, NEW r \in requests, answerPatch(r)
    PROVE  Inv'
<1>1. /\ r.kind = "patch" /\ saving' = saving \ {r.id}
      /\ requests' = requests \ {r} /\ blurred' = blurred
  BY DEF answerPatch, SavingAfter
<1>2. RequestsWhole' /\ SavesAlone'
  BY <1>1 DEF Inv, RequestsWhole, SavesAlone
<1>3. ASSUME NEW id \in saving' PROVE (PatchesOf(id) # {})'
  <2>1. PICK q \in requests : q.kind = "patch" /\ q.id = id
    BY <1>1, <1>3 DEF Inv, SavingIsTold, PatchesOf
  <2> QED BY <1>1, <1>3, <2>1 DEF PatchesOf
<1>4. ASSUME NEW q \in requests', q.kind = "patch", q.id \notin blurred'
      PROVE  q.id \in saving'
  <2>1. q.id # r.id
    BY <1>1, <1>4 DEF Inv, SavesAlone
  <2> QED BY <1>1, <1>4, <2>1 DEF Inv, SavingIsTold
<1>5. SavingIsTold'
  BY <1>3, <1>4 DEF SavingIsTold
<1> QED BY <1>2, <1>5 DEF Inv

\* The answer to the room's size sends the saves of what is pulled into the room.
LEMMA RoomAnswered ==
    ASSUME Inv, NEW r \in requests, settleBoundary(r)
    PROVE  Inv'
<1> DEFINE go == Unguarded(reflowMoves(r.body), TRUE)
           ids == {m.id : m \in go}
           news == {SaveOf(m, "reflow") : m \in go}
           gone == {r}
<1>1. \A m \in go : m.id \notin saving
  BY DEF Unguarded
<1>2. \A q \in gone : q.kind # "patch"
  BY DEF settleBoundary
<1>3. saving' = saving \cup ids /\ requests' = (requests \ gone) \cup news
      /\ blurred' = blurred \cup Beside(news)
  BY DEF settleBoundary
<1> HIDE DEF go
<1>4. /\ \A id \in ids : \E m \in go : id = m.id
      /\ \A m \in go : m.id \in ids /\ SaveOf(m, "reflow") \in news
      /\ \A q \in news : \E m \in go : q = SaveOf(m, "reflow")
  OBVIOUS
<1> HIDE DEF ids, news, gone
<1>5. SavesSent(go, "reflow", gone, ids, news)
  BY <1>1, <1>2, <1>3, <1>4 DEF SavesSent
<1> QED BY <1>5, SavesAreTold

\* Every other answer takes its request away.
LEMMA AnswerStep ==
    ASSUME Inv, NEW r \in requests, answer(r)
    PROVE  Inv'
<1>1. CASE r.kind # "patch" /\ saving' = saving /\ requests' = requests \ {r}
           /\ blurred' = blurred
  <2> DEFINE gone == {r}
             none == {}
  <2>1. /\ saving' = saving /\ requests' = (requests \ gone) \cup none
        /\ blurred' = blurred \cup none
    BY <1>1
  <2>2. /\ \A q \in gone : q.kind # "patch"
        /\ \A q \in none : WholeRequest(q) /\ q.kind # "patch"
    BY <1>1
  <2> HIDE DEF gone, none
  <2> QED BY <2>1, <2>2, OthersAreQuiet
<1>2. \/ answerPatch(r)
      \/ settleBoundary(r)
      \/ r.kind # "patch" /\ saving' = saving /\ requests' = requests \ {r}
         /\ blurred' = blurred
  BY DEF answer, answerDelete, answerCreate, answerRun, answerStatus
<1> QED BY <1>1, <1>2, PatchAnswered, RoomAnswered

(***************************************************************************)
(* The flags                                                               *)
(***************************************************************************)
\* Inv is inductive.
LEMMA InvHolds == Spec => []Inv
<1>1. Init => Inv
  BY DEF Init, Inv, RequestsWhole, SavesAlone, SavingIsTold
<1>2. Inv /\ [Next]_vars => Inv'
  <2> SUFFICES ASSUME Inv, [Next]_vars PROVE Inv'
    OBVIOUS
  <2>1. CASE Edit
    BY <2>1, EditStep
  <2>2. CASE Page
    BY <2>2, PageStep
  <2>3. CASE Tidy
    BY <2>3, NoRequests DEF Tidy, pageVars
  <2>4. CASE Network
    BY <2>4, ServerStep, LoseStep, AnswerStep DEF Network
  <2>5. CASE UNCHANGED vars
    BY <2>5, NoRequests DEF vars, pageVars
  <2> QED BY <2>1, <2>2, <2>3, <2>4, <2>5 DEF Next
<1> QED BY <1>1, <1>2, PTL DEF Spec

\* An object's flag is up exactly while a save of it is on its way: no flag is left
\* behind by an answer, a rollback or a lost connection, and none is missing while
\* the save of an object that is not blurred runs (persistObjectPatch).
THEOREM FlagsTellSaves == Spec => []SavingIsTold
<1>1. Inv => SavingIsTold
  BY DEF Inv
<1> QED BY <1>1, InvHolds, PTL

(***************************************************************************)
(* What the page shows and what the server stores                          *)
(*                                                                         *)
(* Of an object whose answers can be told apart at most one request is on  *)
(* its way, and how far it has come says how the page's object, the row,   *)
(* and what the request carries are related (Held).  That rests on three   *)
(* things apart from it: every object, row and request has its fields and  *)
(* names objects that exist (Wholes); the key of a run is sent again only  *)
(* after its answer was lost (Keys); and the flags (Inv).                  *)
(***************************************************************************)
Whole(o) == HasFields(o, ObjectFields)

\* A row of the server for an object.
RowFor(row, id) == /\ DOMAIN row = {"object", "active"} /\ row.active \in BOOLEAN
                   /\ Whole(row.object) /\ row.object.id = id

\* A list of objects that the server knows, each once.
Listed(seq, known) ==
    /\ seq \in Seq(ToSet(seq))
    /\ \A i \in DOMAIN seq : Whole(seq[i]) /\ seq[i].id \in known
    /\ \A i, j \in DOMAIN seq : seq[i].id = seq[j].id => i = j

\* The server's objects are numbered.
StoreWhole == /\ DOMAIN stored = 1 .. Cardinality(DOMAIN stored)
              /\ IsFiniteSet(DOMAIN stored)
              /\ \A id \in DOMAIN stored : RowFor(stored[id], id)

ShapeWhole(s, known) == DOMAIN s = {"id"} \cup ShapeFields /\ s.id \in known
RunWhole(run, known) == \A s \in run.before \cup run.after : ShapeWhole(s, known)
OpWhole(c, known)    == DOMAIN c.before = ShapeFields /\ DOMAIN c.after = ShapeFields /\ c.id \in known

IsRun(r) == r.kind \in {"tidy", "undo"}
IsNew(r) == r.kind = "create" /\ r.at = "done"

\* What a request names exists; what it carries has its fields; a new object is not yet
\* among those of the page.
RequestGood(r, known, page) ==
    /\ r.kind \in {"patch", "delete"} => r.id \in known
    /\ r.kind = "patch" => DOMAIN r.body \subseteq ShapeFields /\ DOMAIN r.prev = DOMAIN r.body
    /\ r.kind = "delete" => r.op = "delete"
    /\ IsRun(r) => r.op = "tidy"
    /\ r.at = "read" => r.kind \in {"patch", "delete"} /\ RowFor(r.copy, r.id)
    /\ r.kind = "create" => Whole(r.body)
    /\ IsNew(r) => Whole(r.copy) /\ r.copy.id \in known /\ r.copy.id \notin page
    /\ r.kind = "tidy" => \A c \in r.body.plan : OpWhole(c, known)
    /\ r.kind = "undo" => RunWhole(r.body, known)
    /\ IsRun(r) /\ r.at = "done" => \A o \in r.copy.rows : Whole(o)
    /\ r.kind = "tidy" /\ r.at = "done" => RunWhole(r.copy.run, known)

Wholes ==
    /\ visit \in Visits
    /\ DOMAIN left = {"edits", "steps", "tidies", "faults"} /\ left.tidies \in Int
    /\ StoreWhole
    /\ Listed(objects, DOMAIN stored)
    /\ \A i \in DOMAIN ghost : Whole(ghost[i])
    /\ \A i \in DOMAIN layout : layout[i].id \in DOMAIN stored
    /\ \A run \in runs \cup runId : RunWhole(run, DOMAIN stored)
    /\ \A r \in requests : RequestGood(r, DOMAIN stored, IdsOf(objects))
    /\ \A r, q \in requests : IsNew(r) /\ IsNew(q) /\ r.copy.id = q.copy.id => r = q

(***************************************************************************)
(* Objects and their fields                                                *)
(***************************************************************************)
\* A whole object has the fields of an object.
LEMMA WholeDomain == ASSUME NEW o, Whole(o) PROVE DOMAIN o = ObjectFields
BY DEF Whole, HasFields

\* The geometry of an object does not name it.
LEMMA FieldsDiffer ==
    ShapeFields \subseteq ObjectFields /\ "id" \in ObjectFields /\ "id" \notin ShapeFields
BY DEF ObjectFields, ShapeFields

\* Patching keeps the fields and the name.
LEMMA PatchKeeps ==
    ASSUME NEW o, Whole(o), NEW patch, DOMAIN patch \subseteq ShapeFields
    PROVE  Whole(With(o, patch)) /\ With(o, patch).id = o.id
<1>1. DOMAIN o = ObjectFields
  BY WholeDomain
<1>2. (DOMAIN patch) \cup (DOMAIN o) = ObjectFields
  BY <1>1, FieldsDiffer
<1>3. With(o, patch) = [f \in ObjectFields |-> IF f \in DOMAIN patch THEN patch[f] ELSE o[f]]
  BY <1>2 DEF With
<1>4. QED
  BY <1>3, FieldsDiffer DEF Whole, HasFields

\* A shape of the object keeps them too.
LEMMA ShapeKeeps ==
    ASSUME NEW o, Whole(o), NEW s, DOMAIN s = {"id"} \cup ShapeFields, s.id = o.id
    PROVE  Whole(With(o, s)) /\ With(o, s).id = o.id
<1>1. DOMAIN o = ObjectFields
  BY WholeDomain
<1>2. (DOMAIN s) \cup (DOMAIN o) = ObjectFields
  BY <1>1, FieldsDiffer
<1>3. With(o, s) = [f \in ObjectFields |-> IF f \in DOMAIN s THEN s[f] ELSE o[f]]
  BY <1>2 DEF With
<1>4. QED
  BY <1>3, FieldsDiffer DEF Whole, HasFields

\* Putting the fields back that a patch changed undoes it.
LEMMA PatchUndone ==
    ASSUME NEW o, Whole(o), NEW patch, DOMAIN patch \subseteq ShapeFields,
           NEW prev, prev = [f \in DOMAIN patch |-> o[f]]
    PROVE  With(With(o, patch), prev) = o
<1>1. DOMAIN o = ObjectFields
  BY WholeDomain
<1>2. (DOMAIN patch) \cup (DOMAIN o) = ObjectFields
  BY <1>1, FieldsDiffer
<1>3. With(o, patch) = [f \in ObjectFields |-> IF f \in DOMAIN patch THEN patch[f] ELSE o[f]]
  BY <1>2 DEF With
<1> DEFINE p == With(o, patch)
<1>4. /\ DOMAIN p = ObjectFields
      /\ \A f \in ObjectFields : p[f] = IF f \in DOMAIN patch THEN patch[f] ELSE o[f]
  BY <1>3
<1> HIDE DEF p
<1>5. DOMAIN prev = DOMAIN patch /\ \A f \in DOMAIN patch : prev[f] = o[f]
  OBVIOUS
<1>6. (DOMAIN prev) \cup (DOMAIN p) = ObjectFields
  BY <1>4, <1>5, FieldsDiffer
<1>7. With(p, prev) = [f \in ObjectFields |-> IF f \in DOMAIN prev THEN prev[f] ELSE p[f]]
  BY <1>6 DEF With
<1>8. With(p, prev) = [f \in ObjectFields |-> o[f]]
  BY <1>4, <1>5, <1>7
<1>9. QED
  BY <1>8 DEF p, Whole, HasFields

(***************************************************************************)
(* Lists of objects                                                        *)
(***************************************************************************)
\* The objects of a list that have this id.
Of(seq, id) == {o \in ToSet(seq) : o.id = id}

\* A listed object is at one place.
LEMMA OnePlace ==
    ASSUME NEW seq, NEW known, Listed(seq, known), NEW id, Of(seq, id) # {}
    PROVE  \E i \in DOMAIN seq : /\ seq[i].id = id /\ Of(seq, id) = {seq[i]}
                                 /\ \A j \in DOMAIN seq : seq[j].id = id => j = i
BY DEF Listed, Of, ToSet

\* A list that changes place by place, and keeps the names.
LEMMA SamePlaces ==
    ASSUME NEW seq, NEW known, Listed(seq, known), NEW new, DOMAIN new = DOMAIN seq,
           new = [i \in DOMAIN new |-> new[i]],
           \A i \in DOMAIN seq : Whole(new[i]) /\ new[i].id = seq[i].id
    PROVE  Listed(new, known) /\ IdsOf(new) = IdsOf(seq)
<1>1. seq \in Seq(ToSet(seq))
  BY DEF Listed
<1>2. DOMAIN seq = 1 .. Len(seq) /\ Len(seq) \in Nat
  BY <1>1
<1>3. new \in [1 .. Len(seq) -> ToSet(new)]
  BY <1>2 DEF ToSet
<1>4. new \in Seq(ToSet(new))
  BY <1>2, <1>3
<1>5. IdsOf(new) = IdsOf(seq)
  BY DEF IdsOf
<1>6. QED
  BY <1>4, <1>5 DEF Listed

\* A list that changes place by place shows at each name what is at its place.
LEMMA SamePlace ==
    ASSUME NEW seq, NEW known, Listed(seq, known), NEW new, DOMAIN new = DOMAIN seq,
           \A i \in DOMAIN seq : new[i].id = seq[i].id,
           NEW i \in DOMAIN seq
    PROVE  Of(new, seq[i].id) = {new[i]} /\ Of(seq, seq[i].id) = {seq[i]}
BY DEF Listed, Of, ToSet

\* What is not changed is shown as before.
LEMMA OthersShown ==
    ASSUME NEW seq, NEW new, DOMAIN new = DOMAIN seq, NEW id,
           \A i \in DOMAIN seq : new[i].id = seq[i].id /\ (seq[i].id = id => new[i] = seq[i])
    PROVE  Of(new, id) = Of(seq, id)
BY DEF Of, ToSet

(***************************************************************************)
(* The changes of a handler                                                *)
(***************************************************************************)
\* A change is of an object's geometry; n is the last turn.
MoveWhole(m, n) == DOMAIN m.patch \subseteq ShapeFields /\ m.turn \in 0 .. n

\* Among changes there is a last.
LEMMA LastChange ==
    ASSUME NEW n \in Nat, NEW S, S # {}, \A m \in S : m.turn \in 0 .. n
    PROVE  \E m \in S : \A k \in S : k.turn <= m.turn
<1> DEFINE T == {n - m.turn : m \in S}
           R == OpToRel(<, Nat)
<1>1. T \in SUBSET Nat /\ T # {}
  OBVIOUS
<1>2. \E t \in T : \A p \in T : <<p, t>> \notin R
  <2>1. IsWellFoundedOn(R, Nat)
    BY NatLessThanWellFounded, Zenon DEF R
  <2> HIDE DEF R, T
  <2> QED BY <1>1, <2>1, WFMin
<1>3. PICK t \in T : \A p \in T : <<p, t>> \notin R
  BY <1>2
<1>4. \A p \in T : ~(p < t)
  BY <1>1, <1>3, Zenon DEF OpToRel
<1>5. PICK m \in S : t = n - m.turn
  BY <1>3
<1>6. \A k \in S : ~(n - k.turn < n - m.turn)
  BY <1>4, <1>5
<1> QED BY <1>6

\* The list after some changes: each object that is changed has the fields of one of
\* its changes, everything else is as it was.
LEMMA PatchedPlace ==
    ASSUME NEW seq, NEW n \in Nat, NEW go, \A m \in go : MoveWhole(m, n), NEW i \in DOMAIN seq
    PROVE  \/ /\ \A m \in go : m.id # seq[i].id
              /\ Patched(seq, go)[i] = seq[i]
           \/ \E m \in go : m.id = seq[i].id /\ Patched(seq, go)[i] = With(seq[i], m.patch)
<1> DEFINE mine == {m \in go : m.id = seq[i].id}
           last == CHOOSE m \in mine : \A k \in mine : k.turn <= m.turn
<1>1. Patched(seq, go)[i] = IF mine = {} THEN seq[i] ELSE With(seq[i], last.patch)
  BY DEF Patched
<1>2. CASE mine = {}
  BY <1>1, <1>2
<1>3. CASE mine # {}
  <2>1. \E m \in mine : \A k \in mine : k.turn <= m.turn
    <3>1. \A m \in mine : m.turn \in 0 .. n
      BY DEF MoveWhole
    <3> HIDE DEF mine
    <3> QED BY <1>3, <3>1, LastChange
  <2>2. last \in mine
    BY <2>1
  <2>3. last \in go /\ last.id = seq[i].id
    BY <2>2
  <2> HIDE DEF last, mine
  <2> QED BY <1>1, <1>3, <2>3
<1> QED BY <1>2, <1>3

\* Changes keep the list.
LEMMA PatchedListed ==
    ASSUME NEW seq, NEW known, Listed(seq, known), NEW n \in Nat, NEW go,
           \A m \in go : MoveWhole(m, n)
    PROVE  Listed(Patched(seq, go), known) /\ IdsOf(Patched(seq, go)) = IdsOf(seq)
<1> DEFINE new == Patched(seq, go)
<1>1. DOMAIN new = DOMAIN seq /\ new = [i \in DOMAIN new |-> new[i]]
  BY DEF Patched
<1>2. ASSUME NEW i \in DOMAIN seq PROVE Whole(new[i]) /\ new[i].id = seq[i].id
  <2>1. \/ new[i] = seq[i]
        \/ \E m \in go : new[i] = With(seq[i], m.patch)
    BY PatchedPlace
  <2>2. Whole(seq[i])
    BY DEF Listed
  <2>3. \A m \in go : DOMAIN m.patch \subseteq ShapeFields
    BY DEF MoveWhole
  <2> HIDE DEF new
  <2> QED BY <2>1, <2>2, <2>3, PatchKeeps
<1> HIDE DEF new
<1> QED BY <1>1, <1>2, SamePlaces DEF new

\* What a handler may send along a wall and what follows the room are moves.
IsMoves(moves) == \A m \in moves : \E id, x, y : m = Move(id, x, y)

\* A move changes two fields of the geometry.
LEMMA MovesAreWhole ==
    ASSUME NEW moves, IsMoves(moves), NEW n \in Nat
    PROVE  \A m \in moves : MoveWhole(m, n)
BY DEF IsMoves, Move, Change, MoveWhole, ShapeFields

\* MoveTo makes moves.
LEMMA MoveToMoves ==
    ASSUME NEW o, NEW x, NEW y
    PROVE  IsMoves(MoveTo(o, x, y))
BY DEF IsMoves, MoveTo, moveWallAndOpenings

\* resizeMoves makes moves.
LEMMA ResizeMoves ==
    ASSUME NEW new, NEW shift
    PROVE  IsMoves(resizeMoves(new, shift))
BY DEF IsMoves, resizeMoves

\* keyMoves makes moves.
LEMMA KeyMoves ==
    ASSUME NEW o, NEW raw, NEW carved
    PROVE  IsMoves(keyMoves(o, raw, carved))
<1>1. \A x, y : IsMoves(MoveTo(o, x, y))
  BY MoveToMoves
<1> DEFINE at == clampObjectToBoundary(raw, boundary)
           flush == snapCutoutToBoundary(raw, boundary)
           slid == constrainWallObjectMove(o, raw.x, raw.y, objects, HostWalls(carved))
<1>2. keyMoves(o, raw, carved) =
        CASE IsOpening(o.type) -> {Move(o.id, s.x, s.y) : s \in ToSet(slid)}
          [] o.type = "cutout" -> {Move(o.id, flush.x, flush.y)}
          [] OTHER -> IF overlapsBlockingObject(at, objects) THEN {}
                      ELSE MoveTo(o, at.x, at.y)
  BY DEF keyMoves
<1> HIDE DEF at, flush, slid
<1>3. CASE IsOpening(o.type)
  BY <1>2, <1>3 DEF IsMoves
<1>4. CASE ~IsOpening(o.type) /\ o.type = "cutout"
  BY <1>2, <1>4 DEF IsMoves
<1>5. CASE ~IsOpening(o.type) /\ o.type # "cutout"
  <2>1. keyMoves(o, raw, carved) = {} \/ keyMoves(o, raw, carved) = MoveTo(o, at.x, at.y)
    BY <1>2, <1>5
  <2> QED BY <1>1, <2>1 DEF IsMoves
<1> QED BY <1>3, <1>4, <1>5

\* What is pulled into the room changes geometry, each change with its turn.
LEMMA ReflowMoves ==
    ASSUME NEW new, Len(objects) \in Nat, DOMAIN objects = 1 .. Len(objects)
    PROVE  \A m \in reflowMoves(new) : MoveWhole(m, Len(objects))
<1> SUFFICES ASSUME NEW m \in reflowMoves(new) PROVE MoveWhole(m, Len(objects))
  OBVIOUS
<1>1. \E i \in DOMAIN objects : \E x, y : \E k \in MoveTo(objects[i], x, y) : m = [k EXCEPT !.turn = i]
  <2> DEFINE Inward(o) == clampObjectToBoundary(o, new)
             Pull(i) == {[k EXCEPT !.turn = i] :
                           k \in MoveTo(objects[i], Inward(objects[i]).x, Inward(objects[i]).y)}
             out == {j \in DOMAIN objects :
                       LET o == objects[j] IN /\ ~IsOpening(o.type)
                                              /\ <<Inward(o).x, Inward(o).y>> # <<o.x, o.y>>}
  <2>1. reflowMoves(new) = UNION {Pull(i) : i \in out}
    BY DEF reflowMoves
  <2>2. out \subseteq DOMAIN objects
    OBVIOUS
  <2> HIDE DEF out
  <2>3. PICK i \in out : m \in Pull(i)
    <3> HIDE DEF Pull
    <3> QED BY <2>1
  <2> HIDE DEF Inward
  <2> QED BY <2>2, <2>3
<1>2. PICK i \in DOMAIN objects :
        \E x, y : \E k \in MoveTo(objects[i], x, y) : m = [k EXCEPT !.turn = i]
  BY <1>1
<1>3. PICK x, y : \E k \in MoveTo(objects[i], x, y) : m = [k EXCEPT !.turn = i]
  BY <1>2
<1>4. PICK k \in MoveTo(objects[i], x, y) : m = [k EXCEPT !.turn = i]
  BY <1>3
<1>5. \E id, a, b : k = Move(id, a, b)
  BY <1>4, MoveToMoves DEF IsMoves
<1>6. m.turn = i /\ DOMAIN m.patch = {"x", "y"}
  BY <1>4, <1>5 DEF Move, Change
<1> QED BY <1>6 DEF MoveWhole, ShapeFields

(***************************************************************************)
(* New objects                                                             *)
(***************************************************************************)
\* An object that is put elsewhere keeps its fields.
LEMMA Relocated ==
    ASSUME NEW o, Whole(o), NEW x, NEW y
    PROVE  Whole([o EXCEPT !.x = x, !.y = y])
BY DEF Whole, HasFields, ObjectFields, ShapeFields

\* So does one that is stored by the corner of its box,
LEMMA StoredWhole ==
    ASSUME NEW o, Whole(o), NEW x, NEW y
    PROVE  Whole(StoredAt(o, x, y))
<1> DEFINE a == o.x + x - boxOf(o).x
           b == o.y + y - boxOf(o).y
<1>1. StoredAt(o, x, y) = [o EXCEPT !.x = a, !.y = b]
  BY DEF StoredAt
<1> HIDE DEF a, b
<1>2. Whole([o EXCEPT !.x = a, !.y = b])
  BY Relocated
<1> QED BY <1>1, <1>2

\* and one that is clamped into a room.
LEMMA ClampedWhole ==
    ASSUME NEW o, Whole(o), NEW r
    PROVE  Whole(clampObjectToBoundary(o, r))
<1>1. \A x, y : Whole(StoredAt(o, x, y))
  BY StoredWhole
<1> QED BY <1>1 DEF clampObjectToBoundary

\* What is shown where a door or window would go, and what is made of it.
LEMMA GhostFields ==
    ASSUME NEW size, NEW at, NEW carved
    PROVE  \A i \in DOMAIN computeGhost(size, at, carved) :
              Whole(computeGhost(size, at, carved)[i])
<1> DEFINE w == getMountDimensions(size).length
           h == getMountDimensions(size).thickness
           mount == [id |-> PlanObject, type |-> size.type, x |-> 0, y |-> 0, rotation |-> 0,
                     width |-> w, height |-> h]
           walls == HostWalls(carved)
           snapped == snapToWall(mount, at[1], at[2], walls)
<1>1. computeGhost(size, at, carved) \in {<<>>, snapped}
  BY DEF computeGhost
<1>2. Whole(mount)
  <2> HIDE DEF w, h
  <2> QED BY DEF Whole, HasFields, ObjectFields, ShapeFields
<1> HIDE DEF mount, walls
<1>3. \/ snapped = <<>>
      \/ \E a, b, c, d :
            snapped = <<[mount EXCEPT !.x = a, !.y = b, !.height = c, !.rotation = d]>>
  <2> DEFINE wall == nearestWall(walls, at[1], at[2])[1]
             free == Max({0, (wall.length - mount.width) \div 2})
             p == pointOnWall(wall, clamp(projectAlong(wall, at[1], at[2]), -free, free))
             a == p[1] - mount.width \div 2
             b == p[2] - wall.thickness \div 2
             c == wall.thickness
             d == wall.angle
  <2>1. snapped = IF nearestWall(walls, at[1], at[2]) = <<>> THEN <<>>
                  ELSE <<[mount EXCEPT !.x = a, !.y = b, !.height = c, !.rotation = d]>>
    BY DEF snapToWall
  <2> HIDE DEF a, b, c, d, snapped
  <2> QED BY <2>1
<1>4. ASSUME NEW a, NEW b, NEW c, NEW d
      PROVE  Whole([mount EXCEPT !.x = a, !.y = b, !.height = c, !.rotation = d])
  BY <1>2 DEF Whole, HasFields, ObjectFields, ShapeFields
<1>5. \A i \in DOMAIN snapped : Whole(snapped[i])
  <2> HIDE DEF snapped
  <2>1. CASE snapped = <<>>
    BY <2>1
  <2>2. ASSUME NEW o, Whole(o), snapped = <<o>>
        PROVE  \A i \in DOMAIN snapped : Whole(snapped[i])
    BY <2>2
  <2> QED BY <1>3, <1>4, <2>1, <2>2
<1> HIDE DEF snapped
<1> QED BY <1>1, <1>5

\* A door or window that is placed has the fields of an object.
LEMMA PlacedWhole ==
    ASSUME NEW place, Whole(place), NEW size
    PROVE  Whole(placementToObjectFields(place, size))
<1> DEFINE a == CenterX(place) - getMountDimensions(size).length \div 2
           b == getMountDimensions(size).length
<1>1. placementToObjectFields(place, size)
        = [place EXCEPT !.type = size.type, !.x = a, !.width = b]
  BY DEF placementToObjectFields
<1> HIDE DEF a, b
<1> QED BY <1>1 DEF Whole, HasFields, ObjectFields, ShapeFields

(***************************************************************************)
(* The kinds of steps                                                      *)
(***************************************************************************)
\* What edits leave alone.
Still == /\ UNCHANGED <<stored, runs, runId, layout, phase, visit>>
         /\ DOMAIN left' = DOMAIN left /\ left'.tidies = left.tidies

GhostWhole == \A i \in DOMAIN ghost : Whole(ghost[i])

\* A handler saves the changes go: of objects on the page, and without a flag, but
\* for the inspector's.
SavesMade(go, op, gone) ==
    /\ \A m \in go : /\ MoveWhole(m, Len(objects)) /\ m.id \in IdsOf(objects)
                     /\ m.id \in saving => op = "details"
    /\ \A r \in gone : r.kind \in {"floor", "publish", "unpublish"}
    /\ objects' = Patched(objects, go)
    /\ requests' = (requests \ gone) \cup {SaveOf(m, op) : m \in go}
    /\ blurred' = blurred \cup Beside({SaveOf(m, op) : m \in go})
    /\ ghost' = ghost
    /\ Still

\* Requests are sent that are no saves, a run's only when none is in flight.
Sends(news) ==
    /\ \A r \in news : /\ WholeRequest(r) /\ r.at = "sent" /\ r.kind # "patch"
                       /\ RequestGood(r, DOMAIN stored, IdsOf(objects))
                       /\ IsRun(r) => ~tidyBusy /\ news = {r}
                       /\ r.kind = "tidy" => phase = "planned" /\ r.body.key[1] = left.tidies
    /\ Send(news)
    /\ objects' = objects
    /\ GhostWhole'
    /\ Still

\* Nothing of the page's objects, the requests or the server changes.
Quiet ==
    /\ UNCHANGED <<objects, stored, runs, requests, blurred, visit>>
    /\ runId' \in {runId, {}}
    /\ layout' \in {layout, objects, <<>>}
    /\ DOMAIN left' = DOMAIN left
    /\ GhostWhole'
    /\ \/ phase' = phase /\ left'.tidies = left.tidies
       \/ (phase = "idle" \/ ~tidyBusy) /\ phase' = "walls" /\ left'.tidies = left.tidies - 1
       \/ EngineRuns /\ phase' \in {"walls", "arrange", "planned"} /\ left'.tidies = left.tidies
       \/ ~tidyBusy /\ phase' = "idle" /\ left'.tidies = left.tidies

\* persistObjectPatch saves the changes Unguarded lets through.
LEMMA PersistMakes ==
    ASSUME NEW moves, \A m \in moves : MoveWhole(m, Len(objects)), NEW guard \in BOOLEAN, NEW op,
           guard \/ op = "details", persistObjectPatch(moves, guard, op), ghost' = ghost, Still
    PROVE  SavesMade(Unguarded(moves, guard), op, {})
<1> DEFINE go == Unguarded(moves, guard)
<1>1. /\ go \subseteq moves
      /\ \A m \in go : m.id \in IdsOf(objects) /\ (m.id \in saving => op = "details")
  BY DEF Unguarded
<1>2. /\ objects' = Patched(objects, go)
      /\ requests' = (requests \ {}) \cup {SaveOf(m, op) : m \in go}
      /\ blurred' = blurred \cup Beside({SaveOf(m, op) : m \in go})
  BY DEF persistObjectPatch, Send
<1> HIDE DEF go
<1>3. SavesMade(go, op, {})
  BY <1>1, <1>2 DEF SavesMade
<1> QED BY <1>3 DEF go

\* An edit leaves the count of tidies alone.
LEMMA LeftSpent ==
    ASSUME Wholes, SpendEdit
    PROVE  DOMAIN left' = DOMAIN left /\ left'.tidies = left.tidies
BY DEF Wholes, SpendEdit

\* What the page lists.
LEMMA PageObjects ==
    ASSUME Wholes
    PROVE  /\ Len(objects) \in Nat /\ DOMAIN objects = 1 .. Len(objects)
           /\ \A o \in ToSet(objects) : Whole(o) /\ o.id \in DOMAIN stored /\ o.id \in IdsOf(objects)
BY DEF Wholes, Listed, ToSet, IdsOf

\* A step that leaves the ghost keeps it whole.
LEMMA GhostKept ==
    ASSUME Wholes, ghost' = ghost
    PROVE  GhostWhole'
BY DEF Wholes, GhostWhole

\* A request that is about no object yet, or deletes one of the page's.
LEMMA PlainSent ==
    ASSUME NEW kind, NEW op, NEW id, NEW body,
           \/ kind = "delete" /\ op = "delete" /\ id \in DOMAIN stored
           \/ kind = "create" /\ Whole(body)
           \/ kind \in {"floor", "publish", "unpublish"},
           NEW news, \A r \in news : r = Request(kind, op, id, body, Nothing),
           Send(news), objects' = objects, GhostWhole', Still
    PROVE  Sends(news)
<1> SUFFICES ASSUME NEW r \in news
             PROVE  /\ WholeRequest(r) /\ r.at = "sent" /\ r.kind # "patch"
                    /\ RequestGood(r, DOMAIN stored, IdsOf(objects))
                    /\ ~IsRun(r) /\ r.kind # "tidy"
  BY DEF Sends
<1>1. WholeRequest(r) /\ r.kind = kind /\ r.op = op /\ r.id = id /\ r.at = "sent" /\ r.body = body
  BY RequestFields
<1> QED BY <1>1 DEF RequestGood, IsRun, IsNew

\* A resize of the room saves moves.
LEMMA ResizeKind ==
    ASSUME Wholes, NEW new, NEW shift, handleBoundaryResize(new, shift)
    PROVE  \E go, op : SavesMade(go, op, {})
<1>1. \A m \in resizeMoves(new, shift) : MoveWhole(m, Len(objects))
  BY ResizeMoves, MovesAreWhole, PageObjects
<1>2. /\ persistObjectPatch(resizeMoves(new, shift), TRUE, "resize") /\ ghost' = ghost
      /\ UNCHANGED <<stored, runs, runId, layout, phase, visit>>
      /\ SpendEdit
  BY DEF handleBoundaryResize, canvasVars, serverVars, tidyVars
<1>3. Still
  BY <1>2, LeftSpent DEF Still
<1> QED BY <1>1, <1>2, <1>3, PersistMakes

\* An edit saves changes of the page's objects, sends one other request, or moves what
\* is shown under the pointer.
LEMMA EditKinds ==
    ASSUME Wholes, Edit
    PROVE  (\E go, op : SavesMade(go, op, {})) \/ (\E news : Sends(news)) \/ Quiet
<1> DEFINE Saves == \E moves, op : /\ \A m \in moves : MoveWhole(m, Len(objects))
                                   /\ persistObjectPatch(moves, TRUE, op)
<1>0. ASSUME Saves, SpendEdit, UNCHANGED_rest
      PROVE  \E go, op : SavesMade(go, op, {})
  <2>1. UNCHANGED <<stored, runs, runId, layout, phase, visit, ghost>>
    BY <1>0 DEF UNCHANGED_rest, UNCHANGED_besides, canvasVars, serverVars, tidyVars
  <2>2. Still
    BY <1>0, <2>1, LeftSpent DEF Still
  <2> QED BY <1>0, <2>1, <2>2, PersistMakes
<1>00. \A moves : IsMoves(moves) => \A m \in moves : MoveWhole(m, Len(objects))
  BY MovesAreWhole, PageObjects
<1>1. CASE handleObjectDragEnd
  <2>1. \E moves, op : IsMoves(moves) /\ persistObjectPatch(moves, TRUE, op)
    <3>1. \A o, x, y : IsMoves({Move(o, x, y)})
      BY DEF IsMoves
    <3>2. PICK o, x, y, view : \/ dragOpening(o, x, y, view.carved)
                               \/ dragCutout(o, x, y)
                               \/ dragFurniture(o, x, y, view.grid)
      BY <1>1 DEF handleObjectDragEnd
    <3>3. CASE dragOpening(o, x, y, view.carved)
      BY <3>1, <3>3 DEF dragOpening
    <3>4. CASE dragCutout(o, x, y)
      BY <3>1, <3>4 DEF dragCutout
    <3>5. CASE dragFurniture(o, x, y, view.grid)
      BY <3>5, MoveToMoves DEF dragFurniture
    <3> QED BY <3>2, <3>3, <3>4, <3>5
  <2>2. Saves
    BY <1>00, <2>1
  <2>3. SpendEdit /\ UNCHANGED_rest
    BY <1>1 DEF handleObjectDragEnd
  <2> QED BY <1>0, <2>2, <2>3
<1>2. CASE handleCanvasKeyDown
  <2>1. \E moves, op : IsMoves(moves) /\ persistObjectPatch(moves, TRUE, op)
    BY <1>2, KeyMoves DEF handleCanvasKeyDown
  <2>2. Saves
    BY <1>00, <2>1
  <2>3. SpendEdit /\ UNCHANGED_rest
    BY <1>2 DEF handleCanvasKeyDown
  <2> QED BY <1>0, <2>2, <2>3
<1>3. CASE handleObjectTransform
  <2>1. \E S, op : persistObjectPatch({Change(t.id, Shape(t)) : t \in S}, TRUE, op)
    BY <1>3 DEF handleObjectTransform
  <2>2. \A S : \A m \in {Change(t.id, Shape(t)) : t \in S} : MoveWhole(m, Len(objects))
    BY PageObjects DEF Change, Shape, MoveWhole
  <2>3. SpendEdit /\ UNCHANGED_rest
    BY <1>3 DEF handleObjectTransform
  <2>4. Saves
    BY <2>1, <2>2
  <2> QED BY <1>0, <2>3, <2>4
<1>4. CASE InspectorEditor
  <2>1. PICK o \in ToSet(objects), detail \in visit.details :
          persistObjectPatch({Change(o.id, detail)}, FALSE, "details")
    BY <1>4 DEF InspectorEditor, handleObjectDetailsSave
  <2>2. HasFields(detail, {"width", "height", "rotation"})
    BY VisitsAssumption DEF Wholes
  <2>3. \A m \in {Change(o.id, detail)} : MoveWhole(m, Len(objects))
    BY <2>2, PageObjects DEF Change, MoveWhole, HasFields, ShapeFields
  <2>4. UNCHANGED <<stored, runs, runId, layout, phase, visit, ghost>> /\ SpendEdit
    BY <1>4 DEF InspectorEditor, UNCHANGED_rest, UNCHANGED_besides, canvasVars, serverVars, tidyVars
  <2>5. Still
    BY <2>4, LeftSpent DEF Still
  <2> QED BY <2>1, <2>3, <2>4, <2>5, PersistMakes
<1>5. CASE handleDeleteSelected
  <2>1. PICK o \in ToSet(objects) :
          Send({Request("delete", "delete", o.id, Nothing, Nothing)})
    BY <1>5 DEF handleDeleteSelected
  <2>2. /\ UNCHANGED <<objects, stored, runs, runId, layout, phase, visit, ghost>> /\ SpendEdit
    BY <1>5 DEF handleDeleteSelected, UNCHANGED_rest, UNCHANGED_besides, canvasVars, serverVars, tidyVars
  <2>3. Still /\ GhostWhole' /\ o.id \in DOMAIN stored
    BY <2>2, LeftSpent, GhostKept, PageObjects DEF Still
  <2> QED BY <2>1, <2>2, <2>3, PlainSent
<1>6. CASE handleLibrarySelect
  <2>1. /\ UNCHANGED <<objects, stored, runs, runId, layout, phase, visit, ghost>>
    BY <1>6 DEF handleLibrarySelect, UNCHANGED_besides, serverVars, tidyVars
  <2>2. GhostWhole'
    BY <2>1, GhostKept
  <2>3. PICK size : UNCHANGED <<requests, left, blurred>> \/ (SpendEdit /\ handleQuickAdd(size))
    BY <1>6 DEF handleLibrarySelect
  <2>4. CASE UNCHANGED <<requests, left, blurred>>
    BY <2>1, <2>2, <2>4 DEF Quiet
  <2>5. CASE SpendEdit /\ handleQuickAdd(size)
    <3> DEFINE cascade == (Len(objects) % 6) * 16
               a == boundary.x + boundary.w \div 2 - size.width \div 2 + cascade
               b == boundary.y + boundary.h \div 2 - size.height \div 2 + cascade
               first == [id |-> PlanObject, type |-> size.type, rotation |-> 0,
                         width |-> size.width, height |-> size.height, x |-> a, y |-> b]
               o == clampObjectToBoundary(first, boundary)
    <3>1. Send({Request("create", "add", PlanObject, o, Nothing)})
      BY <2>5 DEF handleQuickAdd
    <3>2. Whole(first)
      <4> HIDE DEF a, b
      <4> QED BY DEF Whole, HasFields, ObjectFields, ShapeFields
    <3> HIDE DEF first
    <3>3. Whole(o)
      BY <3>2, ClampedWhole
    <3> HIDE DEF o
    <3>4. Still
      BY <2>1, <2>5, LeftSpent DEF Still
    <3> QED BY <2>1, <2>2, <3>1, <3>3, <3>4, PlainSent
  <2> QED BY <2>3, <2>4, <2>5
<1>7. CASE handlePlacementMove
  <2>1. UNCHANGED <<objects, stored, runs, requests, blurred, visit, left, runId, layout, phase>>
    BY <1>7 DEF handlePlacementMove, UNCHANGED_besides, serverVars, tidyVars
  <2>2. \E size, at, carved : ghost' = computeGhost(size, at, carved) \/ ghost' = <<>>
    BY <1>7 DEF handlePlacementMove
  <2>3. GhostWhole'
    BY <2>2, GhostFields DEF GhostWhole
  <2> QED BY <2>1, <2>3 DEF Quiet
<1>8. CASE handlePlacementClick
  <2>1. /\ UNCHANGED <<objects, stored, runs, runId, layout, phase, visit, ghost>> /\ SpendEdit
    BY <1>8 DEF handlePlacementClick, UNCHANGED_besides, serverVars, tidyVars
  <2>2. PICK size, at, carved :
          \E place \in ToSet(IF computeGhost(size, at, carved) = <<>> THEN ghost
                             ELSE computeGhost(size, at, carved)) :
             Send({Request("create", "place", PlanObject,
                           placementToObjectFields(place, size), Nothing)})
    BY <1>8 DEF handlePlacementClick
  <2>3. PICK place \in ToSet(IF computeGhost(size, at, carved) = <<>> THEN ghost
                             ELSE computeGhost(size, at, carved)) :
             Send({Request("create", "place", PlanObject,
                           placementToObjectFields(place, size), Nothing)})
    BY <2>2
  <2>4. Whole(place)
    BY <2>3, GhostFields DEF ToSet, Wholes
  <2>5. Whole(placementToObjectFields(place, size))
    BY <2>4, PlacedWhole
  <2>6. Still /\ GhostWhole'
    BY <2>1, LeftSpent, GhostKept DEF Still
  <2> QED BY <2>1, <2>3, <2>5, <2>6, PlainSent
<1>9. CASE onRoomSizeChange
  BY <1>9, ResizeKind DEF onRoomSizeChange
<1>10. CASE handleBoundaryTransformEnd
  BY <1>10, ResizeKind DEF handleBoundaryTransformEnd
<1> QED BY <1>1, <1>2, <1>3, <1>4, <1>5, <1>6, <1>7, <1>8, <1>9, <1>10 DEF Edit

\* A step of the wizard leaves alone what edits do.
LEMMA StepStill ==
    ASSUME Wholes, left' = [left EXCEPT !.steps = @ - 1],
           UNCHANGED <<stored, runs, runId, layout, phase, visit>>
    PROVE  Still
BY DEF Wholes, Still

\* The page shown in this mode and step.
LEMMA ShownKind ==
    ASSUME Wholes, NEW mode, NEW step, Shown(mode, step), UNCHANGED_step
    PROVE  Quiet
<1>1. UNCHANGED <<objects, stored, runs, requests, blurred, visit, runId, ghost>>
  BY DEF UNCHANGED_step, canvasVars, serverVars
<1>2. GhostWhole'
  BY <1>1, GhostKept
<1>3. CASE /\ phase = "idle" /\ left' = [left EXCEPT !.steps = @ - 1, !.tidies = @ - 1]
           /\ Begin(objects, boundary)
  BY <1>1, <1>2, <1>3 DEF Quiet, Begin, Wholes
<1>4. CASE left' = [left EXCEPT !.steps = @ - 1] /\ UNCHANGED tidyVars
  BY <1>1, <1>2, <1>4 DEF Quiet, tidyVars, Wholes
<1> QED BY <1>3, <1>4 DEF Shown

\* The operations of a plan are about stored objects.
LEMMA OperationsWhole ==
    ASSUME Wholes
    PROVE  \A c \in Operations : OpWhole(c, DOMAIN stored)
BY DEF Wholes, Operations, OpWhole, Shape, ToSet

\* The timer, the wizard, publishing and the dialog send requests or change nothing.
LEMMA PageKinds ==
    ASSUME Wholes, Page
    PROVE  (\E news : Sends(news)) \/ Quiet
<1>1. CASE persistBoundary
  <2>1. UNCHANGED <<objects, stored, runs, runId, layout, phase, visit, ghost, left>>
    BY <1>1 DEF persistBoundary, canvasVars, serverVars, tidyVars
  <2>2. Still /\ GhostWhole'
    BY <2>1, GhostKept DEF Still
  <2> DEFINE news == {Request("floor", "floor", PlanObject, new, Nothing) : new \in timer}
  <2>3. Send(news)
    BY <1>1 DEF persistBoundary
  <2>4. \A r \in news : \E new : r = Request("floor", "floor", PlanObject, new, Nothing)
    OBVIOUS
  <2> HIDE DEF news
  <2>5. ASSUME NEW r \in news
        PROVE  /\ WholeRequest(r) /\ r.at = "sent" /\ r.kind # "patch"
               /\ RequestGood(r, DOMAIN stored, IdsOf(objects))
               /\ ~IsRun(r) /\ r.kind # "tidy"
    <3>1. WholeRequest(r) /\ r.at = "sent" /\ r.kind = "floor"
      BY <2>4, <2>5, RequestFields
    <3> QED BY <3>1 DEF RequestGood, IsRun, IsNew
  <2> QED BY <2>1, <2>2, <2>3, <2>5 DEF Sends
<1>2. CASE goTo
  BY <1>2, ShownKind DEF goTo
<1>3. CASE toggleWizard
  BY <1>3, ShownKind DEF toggleWizard
<1>4. CASE handlePublish
  <2>1. /\ UNCHANGED <<objects, stored, runs, runId, layout, phase, visit, ghost>>
        /\ left' = [left EXCEPT !.steps = @ - 1]
        /\ Send({Request("publish", "status", PlanObject, Nothing, Nothing)})
    BY <1>4 DEF handlePublish, pageVars, canvasVars, serverVars, tidyVars
  <2>2. Still /\ GhostWhole'
    BY <2>1, GhostKept, StepStill
  <2> QED BY <2>1, <2>2, PlainSent
<1>5. CASE requestEdit
  BY <1>5, GhostKept DEF requestEdit, Quiet, canvasVars, serverVars, tidyVars
<1>6. CASE cancelEdit
  BY <1>6, GhostKept DEF cancelEdit, Quiet, canvasVars, serverVars, tidyVars
<1>7. CASE confirmEdit
  <2>1. /\ UNCHANGED <<objects, stored, runs, runId, layout, phase, visit, ghost>>
        /\ left' = [left EXCEPT !.steps = @ - 1]
        /\ Send({Request("unpublish", "status", PlanObject, Nothing, Nothing)})
    BY <1>7 DEF confirmEdit, pageVars, canvasVars, serverVars, tidyVars
  <2>2. Still /\ GhostWhole'
    BY <2>1, GhostKept, StepStill
  <2> QED BY <2>1, <2>2, PlainSent
<1>8. CASE openPreview
  <2>1. UNCHANGED <<objects, stored, runs, requests, blurred, visit, runId, ghost>>
    BY <1>8 DEF openPreview, pageVars, canvasVars, serverVars
  <2>2. ~tidyBusy /\ left' = [left EXCEPT !.tidies = @ - 1] /\ Begin(objects, boundary)
    BY <1>8 DEF openPreview
  <2>3. GhostWhole'
    BY <2>1, GhostKept
  <2> QED BY <2>1, <2>2, <2>3 DEF Quiet, Begin, Wholes
<1>9. CASE cancel
  <2>1. UNCHANGED <<objects, stored, runs, requests, blurred, visit, left, ghost>> /\ runId' = {}
    BY <1>9 DEF cancel, canvasVars, serverVars
  <2>2. ~tidyBusy /\ reset
    BY <1>9 DEF cancel, DialogShows
  <2>3. GhostWhole'
    BY <2>1, GhostKept
  <2> QED BY <2>1, <2>2, <2>3 DEF Quiet, reset
<1>10. CASE apply
  <2>1. UNCHANGED <<objects, stored, runs, runId, layout, phase, visit, ghost, left>>
    BY <1>10 DEF apply, pageVars, canvasVars, serverVars, tidyVars
  <2>2. Still /\ GhostWhole'
    BY <2>1, GhostKept DEF Still
  <2>3. ~tidyBusy /\ phase = "planned"
    BY <1>10 DEF apply, DialogShows, PanelShows
  <2>4. PICK chosen : Send({Request("tidy", "tidy", PlanObject, ChosenPlan(chosen), Nothing)})
    BY <1>10 DEF apply
  <2> DEFINE r == Request("tidy", "tidy", PlanObject, ChosenPlan(chosen), Nothing)
  <2>5. /\ WholeRequest(r) /\ r.kind = "tidy" /\ r.op = "tidy" /\ r.at = "sent"
        /\ r.body = ChosenPlan(chosen)
    BY RequestFields
  <2>6. ChosenPlan(chosen).key[1] = left.tidies /\ ChosenPlan(chosen).plan \subseteq Operations
    BY DEF ChosenPlan
  <2>7. \A c \in r.body.plan : OpWhole(c, DOMAIN stored)
    BY <2>5, <2>6, OperationsWhole
  <2> HIDE DEF r
  <2>8. RequestGood(r, DOMAIN stored, IdsOf(objects))
    BY <2>5, <2>7 DEF RequestGood, IsRun, IsNew
  <2>9. r.body.key[1] = left.tidies
    BY <2>5, <2>6
  <2>10. Send({r})
    BY <2>4 DEF r
  <2>11. Sends({r})
    BY <2>1, <2>2, <2>3, <2>5, <2>8, <2>9, <2>10 DEF Sends
  <2> QED BY <2>11
<1>11. CASE undo
  <2>1. UNCHANGED <<objects, stored, runs, runId, layout, phase, visit, ghost, left>>
    BY <1>11 DEF undo, pageVars, canvasVars, serverVars, tidyVars
  <2>2. Still /\ GhostWhole'
    BY <2>1, GhostKept DEF Still
  <2>3. ~tidyBusy
    BY <1>11 DEF undo, DialogShows, PanelShows
  <2>4. PICK run \in runId : Send({Request("undo", "tidy", PlanObject, run, Nothing)})
    BY <1>11 DEF undo
  <2> DEFINE r == Request("undo", "tidy", PlanObject, run, Nothing)
  <2>5. WholeRequest(r) /\ r.kind = "undo" /\ r.op = "tidy" /\ r.at = "sent" /\ r.body = run
    BY RequestFields
  <2>6. RunWhole(run, DOMAIN stored)
    BY DEF Wholes
  <2> HIDE DEF r
  <2>7. RequestGood(r, DOMAIN stored, IdsOf(objects))
    BY <2>5, <2>6 DEF RequestGood, IsRun, IsNew
  <2>8. Send({r})
    BY <2>4 DEF r
  <2>9. Sends({r})
    BY <2>1, <2>2, <2>3, <2>5, <2>7, <2>8 DEF Sends
  <2> QED BY <2>9
<1> QED BY <1>1, <1>2, <1>3, <1>4, <1>5, <1>6, <1>7, <1>8, <1>9, <1>10, <1>11 DEF Page

\* The engine's passes change nothing outside the dialog.
LEMMA TidyKind ==
    ASSUME Wholes, Tidy
    PROVE  Quiet
<1>1. UNCHANGED <<objects, stored, runs, requests, blurred, visit, runId, ghost, left>> /\ TidyNext
  BY DEF Tidy, pageVars, canvasVars, serverVars
<1>2. layout' = layout /\ EngineRuns /\ phase' \in {"walls", "arrange", "planned"}
  BY <1>1 DEF TidyNext, connectWall, revertDesk, groupDesks, arrangeCluster, snapLoneDesk, endPass,
             EngineRuns
<1>3. GhostWhole'
  BY <1>1, GhostKept
<1> QED BY <1>1, <1>2, <1>3 DEF Quiet

\* The answers about the room and the status.
LEMMA AnswerKinds ==
    ASSUME Wholes, NEW r, settleBoundary(r) \/ answerStatus(r), UNCHANGED_answer
    PROVE  \E go, op, gone : SavesMade(go, op, gone)
<1>1. UNCHANGED <<stored, runs, visit, left>>
  BY DEF UNCHANGED_answer, serverVars
<1>2. CASE settleBoundary(r)
  <2> DEFINE go == Unguarded(reflowMoves(r.body), TRUE)
  <2>1. \A m \in go : m \in reflowMoves(r.body) /\ m.id \in IdsOf(objects) /\ m.id \notin saving
    BY DEF Unguarded
  <2>2. \A m \in reflowMoves(r.body) : MoveWhole(m, Len(objects))
    BY ReflowMoves, PageObjects
  <2>3. /\ objects' = Patched(objects, go)
        /\ requests' = (requests \ {r}) \cup {SaveOf(m, "reflow") : m \in go}
        /\ blurred' = blurred \cup Beside({SaveOf(m, "reflow") : m \in go})
        /\ ghost' = ghost /\ UNCHANGED <<runId, layout, phase>> /\ r.kind = "floor"
    BY <1>2 DEF settleBoundary, canvasVars, tidyVars
  <2> HIDE DEF go
  <2>4. SavesMade(go, "reflow", {r})
    BY <1>1, <2>1, <2>2, <2>3 DEF SavesMade, Still
  <2> QED BY <2>4
<1>3. CASE answerStatus(r)
  <2>1. /\ objects' = objects /\ requests' = requests \ {r} /\ blurred' = blurred
        /\ ghost' = ghost /\ UNCHANGED <<runId, layout, phase>>
        /\ r.kind \in {"publish", "unpublish"}
    BY <1>3 DEF answerStatus, canvasVars, tidyVars
  <2> DEFINE none == {}
             news == {SaveOf(m, "reflow") : m \in none}
  <2>2. news = {}
    OBVIOUS
  <2>3. Patched(objects, none) = objects
    <3>1. objects = [i \in DOMAIN objects |-> objects[i]]
      BY DEF Wholes, Listed
    <3> QED BY <3>1 DEF Patched
  <2>4. Beside(news) = {}
    BY <2>2 DEF Beside
  <2>5. none = {}
    OBVIOUS
  <2>6. /\ objects' = Patched(objects, none)
        /\ requests' = (requests \ {r}) \cup news
        /\ blurred' = blurred \cup Beside(news)
    <3> HIDE DEF news, none
    <3> QED BY <2>1, <2>2, <2>3, <2>4
  <2>7. SavesMade(none, "reflow", {r})
    <3>1. requests' = (requests \ {r}) \cup {SaveOf(m, "reflow") : m \in none}
          /\ blurred' = blurred \cup Beside({SaveOf(m, "reflow") : m \in none})
      BY <2>6
    <3> HIDE DEF none, news
    <3> QED BY <1>1, <2>1, <2>5, <2>6, <3>1 DEF SavesMade, Still
  <2> QED BY <2>7
<1> QED BY <1>2, <1>3

(***************************************************************************)
(* Everything has its fields                                               *)
(***************************************************************************)
\* The object of a change, as it is.
LEMMA PageObject ==
    ASSUME Wholes, NEW id \in IdsOf(objects)
    PROVE  ObjectOf(id) \in ToSet(objects) /\ ObjectOf(id).id = id /\ id \in DOMAIN stored
           /\ Of(objects, id) = {ObjectOf(id)}
<1>1. PICK i \in DOMAIN objects : objects[i].id = id
  BY DEF IdsOf
<1>2. objects[i] \in ToSet(objects) /\ objects[i].id = id
  BY <1>1 DEF ToSet
<1>3. ObjectOf(id) \in ToSet(objects) /\ ObjectOf(id).id = id
  BY <1>2 DEF ObjectOf
<1>4. Listed(objects, DOMAIN stored)
  BY DEF Wholes
<1>5. Of(objects, id) = {objects[i]}
  BY <1>1, <1>4, SamePlace
<1>6. ObjectOf(id) \in Of(objects, id)
  BY <1>3 DEF Of
<1>7. id \in DOMAIN stored
  BY <1>2, PageObjects
<1> QED BY <1>3, <1>5, <1>6, <1>7

\* Saves keep everything whole.
LEMMA SavesWhole ==
    ASSUME Wholes, NEW go, NEW op, NEW gone, SavesMade(go, op, gone)
    PROVE  Wholes'
<1>1. \A m \in go : MoveWhole(m, Len(objects)) /\ m.id \in IdsOf(objects)
  BY DEF SavesMade
<1>2. Listed(objects, DOMAIN stored) /\ Len(objects) \in Nat
  BY PageObjects DEF Wholes
<1>3. objects' = Patched(objects, go)
  BY DEF SavesMade
<1>4. Listed(objects', DOMAIN stored) /\ IdsOf(objects') = IdsOf(objects)
  BY <1>1, <1>2, <1>3, PatchedListed
<1>5. UNCHANGED <<stored, runs, runId, layout, phase, visit, ghost>>
      /\ DOMAIN left' = DOMAIN left /\ left'.tidies = left.tidies
  BY DEF SavesMade, Still
<1>6. StoreWhole'
  BY <1>5 DEF StoreWhole, Wholes
<1> DEFINE news == {SaveOf(m, op) : m \in go}
<1>7. ASSUME NEW r \in news
      PROVE  RequestGood(r, DOMAIN stored, IdsOf(objects)) /\ ~IsNew(r)
  <2>1. PICK m \in go : r = SaveOf(m, op)
    OBVIOUS
  <2>2. /\ r.kind = "patch" /\ r.id = m.id /\ r.at = "sent"
        /\ r.body = m.patch /\ r.prev = Before(m.id, m.patch)
    BY <2>1, SaveFields
  <2>3. DOMAIN r.body \subseteq ShapeFields
    BY <1>1, <2>2 DEF MoveWhole
  <2>4. DOMAIN r.prev = DOMAIN r.body
    BY <2>2 DEF Before
  <2>5. r.id \in DOMAIN stored
    BY <1>1, <2>2, PageObject
  <2> QED BY <2>2, <2>3, <2>4, <2>5 DEF RequestGood, IsNew, IsRun
<1>8. requests' = (requests \ gone) \cup news
  BY DEF SavesMade
<1> HIDE DEF news
<1>9. \A r \in requests' : RequestGood(r, DOMAIN stored', IdsOf(objects'))
  BY <1>4, <1>5, <1>7, <1>8 DEF Wholes
<1>10. \A r, q \in requests' : IsNew(r) /\ IsNew(q) /\ r.copy.id = q.copy.id => r = q
  BY <1>7, <1>8 DEF Wholes
<1> QED BY <1>4, <1>5, <1>6, <1>9, <1>10 DEF Wholes

\* So do other requests,
LEMMA SendsWhole ==
    ASSUME Wholes, NEW news, Sends(news)
    PROVE  Wholes'
<1>1. UNCHANGED <<objects, stored, runs, runId, layout, phase, visit>>
      /\ DOMAIN left' = DOMAIN left /\ left'.tidies = left.tidies
  BY DEF Sends, Still
<1>2. StoreWhole'
  BY <1>1 DEF StoreWhole, Wholes
<1>3. requests' = requests \cup news
  BY DEF Sends, Send
<1>4. \A r \in news : RequestGood(r, DOMAIN stored, IdsOf(objects)) /\ ~IsNew(r)
  BY DEF Sends, IsNew
<1>5. \A r \in requests' : RequestGood(r, DOMAIN stored', IdsOf(objects'))
  BY <1>1, <1>3, <1>4 DEF Wholes
<1>6. \A r, q \in requests' : IsNew(r) /\ IsNew(q) /\ r.copy.id = q.copy.id => r = q
  BY <1>3, <1>4 DEF Wholes
<1>7. GhostWhole'
  BY DEF Sends
<1> QED BY <1>1, <1>2, <1>5, <1>6, <1>7 DEF Wholes, GhostWhole

\* and steps that change nothing.
LEMMA QuietWhole ==
    ASSUME Wholes, Quiet
    PROVE  Wholes'
<1>1. UNCHANGED <<objects, stored, runs, requests, visit>> /\ GhostWhole'
      /\ DOMAIN left' = DOMAIN left
  BY DEF Quiet
<1>2. left'.tidies \in Int
  BY DEF Quiet, Wholes
<1>3. StoreWhole'
  BY <1>1 DEF StoreWhole, Wholes
<1>4. \A i \in DOMAIN layout' : layout'[i].id \in DOMAIN stored
  BY DEF Quiet, Wholes, Listed
<1>5. \A run \in runs' \cup runId' : RunWhole(run, DOMAIN stored)
  BY DEF Quiet, Wholes
<1> QED BY <1>1, <1>2, <1>3, <1>4, <1>5 DEF Wholes, GhostWhole

\* What exists goes on existing.
LEMMA StillKnown ==
    ASSUME NEW known, NEW more, known \subseteq more
    PROVE  /\ \A seq : Listed(seq, known) => Listed(seq, more)
           /\ \A run : RunWhole(run, known) => RunWhole(run, more)
           /\ \A r, page : RequestGood(r, known, page) => RequestGood(r, more, page)
<1>1. \A seq : Listed(seq, known) => Listed(seq, more)
  BY DEF Listed
<1>2. \A run : RunWhole(run, known) => RunWhole(run, more)
  BY DEF RunWhole, ShapeWhole
<1>3. \A c : OpWhole(c, known) => OpWhole(c, more)
  BY DEF OpWhole
<1>4. \A r, page : RequestGood(r, known, page) => RequestGood(r, more, page)
  BY <1>2, <1>3 DEF RequestGood
<1> QED BY <1>1, <1>2, <1>4

\* A request that goes on is the same request.
LEMMA NextStage ==
    ASSUME RequestsWhole, NEW r \in requests, NEW at, NEW copy,
           NEW next, next = [r EXCEPT !.at = at, !.copy = copy]
    PROVE  /\ WholeRequest(next) /\ next.at = at /\ next.copy = copy
           /\ next.kind = r.kind /\ next.op = r.op /\ next.id = r.id
           /\ next.body = r.body /\ next.prev = r.prev
BY DEF RequestsWhole, WholeRequest

\* The page while the server works.
PageStill == /\ UNCHANGED <<objects, runId, layout, phase, visit, ghost>>
             /\ DOMAIN left' = DOMAIN left /\ left'.tidies = left.tidies

\* A request that goes on keeps everything whole, if it stays good itself.
LEMMA StagesWhole ==
    ASSUME Wholes, RequestsWhole, NEW r \in requests, NEW at, NEW copy, At_(r, at, copy), PageStill,
           StoreWhole', DOMAIN stored \subseteq DOMAIN stored',
           \A run \in runs' : RunWhole(run, DOMAIN stored'),
           \A next : /\ next.kind = r.kind /\ next.id = r.id /\ next.op = r.op
                     /\ next.at = at /\ next.copy = copy
                     /\ next.body = r.body /\ next.prev = r.prev
                     => /\ RequestGood(next, DOMAIN stored', IdsOf(objects))
                        /\ IsNew(next) => next.copy.id \notin DOMAIN stored
    PROVE  Wholes'
<1> DEFINE next == [r EXCEPT !.at = at, !.copy = copy]
<1>2. requests' = (requests \ {r}) \cup {next} /\ next = [r EXCEPT !.at = at, !.copy = copy]
  BY DEF At_
<1> HIDE DEF next
<1>0. /\ next.kind = r.kind /\ next.id = r.id /\ next.op = r.op
      /\ next.at = at /\ next.copy = copy /\ next.body = r.body /\ next.prev = r.prev
  BY <1>2, NextStage
<1>1. /\ RequestGood(next, DOMAIN stored', IdsOf(objects))
      /\ IsNew(next) => next.copy.id \notin DOMAIN stored
  BY <1>0
<1>3. UNCHANGED <<objects, runId, layout, visit, ghost>>
      /\ DOMAIN left' = DOMAIN left /\ left'.tidies = left.tidies
  BY DEF PageStill
<1>4. \A q \in requests : RequestGood(q, DOMAIN stored', IdsOf(objects))
  BY StillKnown DEF Wholes
<1>5. \A q \in requests' : RequestGood(q, DOMAIN stored', IdsOf(objects'))
  BY <1>1, <1>2, <1>3, <1>4
<1>6. \A q \in requests : IsNew(q) => q.copy.id \in DOMAIN stored
  BY DEF Wholes, RequestGood
<1>7. \A p, q \in requests' : IsNew(p) /\ IsNew(q) /\ p.copy.id = q.copy.id => p = q
  BY <1>1, <1>2, <1>6 DEF Wholes
<1>8. Listed(objects', DOMAIN stored') /\ \A run \in runId' : RunWhole(run, DOMAIN stored')
  BY <1>3, StillKnown DEF Wholes
<1> QED BY <1>3, <1>5, <1>7, <1>8 DEF Wholes

\* The rows the views write.
LEMMA SavedRow ==
    ASSUME NEW row, NEW r, NEW id, RowFor(row, id),
           r.kind = "patch" => DOMAIN r.body \subseteq ShapeFields
    PROVE  RowFor(Saved(r, row), id)
BY PatchKeeps DEF RowFor, Saved

\* A named shape.
LEMMA NamedFields ==
    ASSUME NEW shape, DOMAIN shape = ShapeFields, NEW id
    PROVE  /\ DOMAIN Named(id, shape) = {"id"} \cup ShapeFields
           /\ Named(id, shape).id = id
BY FieldsDiffer DEF Named, With

\* Writing shapes keeps the rows, which of them are active, and all rows it is not about.
LEMMA ShapesRows ==
    ASSUME StoreWhole, NEW S, \A s \in S : ShapeWhole(s, DOMAIN stored)
    PROVE  /\ DOMAIN WithShapes(S) = DOMAIN stored
           /\ \A id \in DOMAIN stored :
                 /\ RowFor(WithShapes(S)[id], id)
                 /\ WithShapes(S)[id].active = stored[id].active
                 /\ id \notin Ids(S) => WithShapes(S)[id] = stored[id]
<1>1. DOMAIN WithShapes(S) = DOMAIN stored
  BY DEF WithShapes
<1>2. ASSUME NEW id \in DOMAIN stored
      PROVE  /\ RowFor(WithShapes(S)[id], id)
             /\ WithShapes(S)[id].active = stored[id].active
             /\ id \notin Ids(S) => WithShapes(S)[id] = stored[id]
  <2> DEFINE mine == {s \in S : s.id = id}
             s == CHOOSE t \in mine : TRUE
  <2>1. WithShapes(S)[id] = IF mine = {} THEN stored[id]
                            ELSE [stored[id] EXCEPT !.object = With(@, s)]
    BY DEF WithShapes
  <2>2. RowFor(stored[id], id)
    BY DEF StoreWhole
  <2>3. CASE mine = {}
    BY <2>1, <2>2, <2>3
  <2>4. CASE mine # {}
    <3>1. s \in S /\ s.id = id
      BY <2>4
    <3>2. id \in Ids(S) /\ ShapeWhole(s, DOMAIN stored)
      BY <3>1 DEF Ids
    <3> HIDE DEF s, mine
    <3>3. Whole(With(stored[id].object, s)) /\ With(stored[id].object, s).id = id
      BY <2>2, <3>1, <3>2, ShapeKeeps DEF RowFor, ShapeWhole
    <3> QED BY <2>1, <2>2, <2>4, <3>2, <3>3 DEF RowFor
  <2> QED BY <2>3, <2>4
<1> QED BY <1>1, <1>2

\* A run is made of shapes of stored objects, under the key of its plan.
LEMMA RunShapes ==
    ASSUME NEW r, NEW known, \A c \in r.body.plan : OpWhole(c, known)
    PROVE  RunWhole(RunOf(r), known) /\ RunOf(r).key = r.body.key
<1> DEFINE fresh == {c \in r.body.plan : StillAs(Named(c.id, c.before))}
<1>1. /\ RunOf(r).before = {Named(c.id, c.before) : c \in fresh}
      /\ RunOf(r).after = {Named(c.id, c.after) : c \in fresh}
      /\ RunOf(r).key = r.body.key
  BY DEF RunOf
<1>2. \A c \in fresh : OpWhole(c, known)
  OBVIOUS
<1> HIDE DEF fresh
<1>3. ASSUME NEW c \in fresh
      PROVE  ShapeWhole(Named(c.id, c.before), known) /\ ShapeWhole(Named(c.id, c.after), known)
  BY <1>2, NamedFields DEF OpWhole, ShapeWhole
<1> QED BY <1>1, <1>3 DEF RunWhole

\* A new row.
LEMMA NewRow ==
    ASSUME StoreWhole, NEW o, Whole(o), o.id = 1 + Cardinality(DOMAIN stored),
           stored' = [id \in {o.id} \cup DOMAIN stored |->
                        IF id = o.id THEN [object |-> o, active |-> TRUE] ELSE stored[id]]
    PROVE  StoreWhole' /\ o.id \notin DOMAIN stored
<1> DEFINE n == Cardinality(DOMAIN stored)
<1>1. n \in Nat /\ DOMAIN stored = 1 .. n
  BY FS_CardinalityType DEF StoreWhole
<1> HIDE DEF n
<1>2. o.id = 1 + n
  BY DEF n
<1>3. o.id \notin DOMAIN stored
  BY <1>1, <1>2
<1>4. DOMAIN stored' = DOMAIN stored \cup {o.id}
  OBVIOUS
<1>5. IsFiniteSet(DOMAIN stored') /\ Cardinality(DOMAIN stored') = n + 1
  BY <1>3, <1>4, FS_AddElement DEF StoreWhole, n
<1>6. DOMAIN stored' = 1 .. (n + 1)
  BY <1>1, <1>2, <1>4
<1>7. \A id \in DOMAIN stored' : RowFor(stored'[id], id)
  BY <1>3, <1>4 DEF StoreWhole, RowFor
<1> QED BY <1>3, <1>5, <1>6, <1>7 DEF StoreWhole

(***************************************************************************)
(* The server's steps and the answers keep the fields                      *)
(***************************************************************************)
\* While the server works the page stands still.
LEMMA PageUntouched ==
    ASSUME UNCHANGED_page
    PROVE  PageStill /\ blurred' = blurred /\ phase' = phase
BY DEF UNCHANGED_page, PageStill, pageVars, canvasVars, tidyVars

\* A view that saves its row, or a copy of it, keeps the server's rows.
LEMMA SavedWhole ==
    ASSUME Wholes, NEW r \in requests, r.kind \in {"patch", "delete"},
           NEW copy, RowFor(copy, r.id), stored' = [stored EXCEPT ![r.id] = Saved(r, copy)]
    PROVE  StoreWhole' /\ DOMAIN stored' = DOMAIN stored
<1>1. DOMAIN stored' = DOMAIN stored
  OBVIOUS
<1>2. r.id \in DOMAIN stored /\ (r.kind = "patch" => DOMAIN r.body \subseteq ShapeFields)
  BY DEF Wholes, RequestGood
<1>3. RowFor(Saved(r, copy), r.id)
  BY <1>2, SavedRow
<1>4. \A id \in DOMAIN stored : RowFor(stored'[id], id)
  BY <1>2, <1>3 DEF Wholes, StoreWhole
<1> QED BY <1>1, <1>4 DEF Wholes, StoreWhole

\* A stage of a request that is no new object and carries no rows.
LEMMA PlainStage ==
    ASSUME NEW r, NEW next, NEW known, NEW page, RequestGood(r, known, page),
           next.kind = r.kind, next.id = r.id, next.op = r.op, next.body = r.body, next.prev = r.prev,
           \/ next.at = "refused"
           \/ next.at = "done" /\ r.kind \notin {"create", "tidy", "undo"}
           \/ next.at = "read" /\ r.kind \in {"patch", "delete"} /\ RowFor(next.copy, r.id)
    PROVE  RequestGood(next, known, page) /\ ~IsNew(next)
BY DEF RequestGood, IsNew, IsRun

\* A stage that brings no new object and no rows keeps everything whole.
LEMMA PlainWhole ==
    ASSUME Wholes, RequestsWhole, NEW r \in requests, NEW at, NEW copy, At_(r, at, copy), PageStill,
           StoreWhole', DOMAIN stored' = DOMAIN stored, runs' = runs,
           \/ at = "refused"
           \/ at = "done" /\ r.kind \notin {"create", "tidy", "undo"}
           \/ at = "read" /\ r.kind \in {"patch", "delete"} /\ RowFor(copy, r.id)
    PROVE  Wholes'
<1>1. RequestGood(r, DOMAIN stored', IdsOf(objects))
  BY DEF Wholes
<1>2. \A run \in runs' : RunWhole(run, DOMAIN stored')
  BY DEF Wholes
<1>3. ASSUME NEW next, next.kind = r.kind, next.id = r.id, next.op = r.op, next.at = at,
             next.copy = copy, next.body = r.body, next.prev = r.prev
      PROVE  RequestGood(next, DOMAIN stored', IdsOf(objects)) /\ ~IsNew(next)
  BY <1>1, <1>3, PlainStage
<1> QED BY <1>2, <1>3, StagesWhole

\* Rows that stay are rows.
LEMMA StoreSame ==
    ASSUME Wholes, stored' = stored
    PROVE  StoreWhole' /\ DOMAIN stored' = DOMAIN stored
BY DEF Wholes, StoreWhole

\* createRow keeps everything whole: the new row is numbered next.
LEMMA CreateWhole ==
    ASSUME Wholes, RequestsWhole, NEW r \in requests, createRow(r), PageStill
    PROVE  Wholes'
<1> DEFINE new == [r.body EXCEPT !.id = 1 + Cardinality(DOMAIN stored)]
<1>1. Whole(r.body) /\ r.kind = "create"
  BY DEF createRow, Wholes, RequestGood
<1>2. Whole(new) /\ new.id = 1 + Cardinality(DOMAIN stored)
  <2> DEFINE n == 1 + Cardinality(DOMAIN stored)
  <2> HIDE DEF n
  <2>1. Whole([r.body EXCEPT !.id = n]) /\ [r.body EXCEPT !.id = n].id = n
    BY <1>1 DEF Whole, HasFields, ObjectFields, ShapeFields
  <2> QED BY <2>1 DEF n
<1>3. /\ stored' = [id \in {new.id} \cup DOMAIN stored |->
                      IF id = new.id THEN [object |-> new, active |-> TRUE] ELSE stored[id]]
      /\ At_(r, "done", new) /\ runs' = runs
  BY DEF createRow
<1> HIDE DEF new
<1>4. StoreWhole' /\ new.id \notin DOMAIN stored
  BY <1>2, <1>3, NewRow DEF Wholes
<1>5. DOMAIN stored' = {new.id} \cup DOMAIN stored
  BY <1>3
<1>6. \A run \in runs' : RunWhole(run, DOMAIN stored')
  BY <1>3, <1>5, StillKnown DEF Wholes
<1>7. new.id \notin IdsOf(objects)
  BY <1>4, PageObject
<1>8. ASSUME NEW next, next.kind = r.kind, next.at = "done",
             next.copy = new, next.body = r.body
      PROVE  RequestGood(next, DOMAIN stored', IdsOf(objects))
  BY <1>1, <1>2, <1>5, <1>7, <1>8 DEF RequestGood, IsNew, IsRun
<1> QED BY <1>3, <1>4, <1>5, <1>6, <1>8, StagesWhole

\* The rows of an answer are objects it is about.
LEMMA RowsWhole ==
    ASSUME NEW rows, NEW ids, \A id \in ids : RowFor(rows[id], id)
    PROVE  \A o \in Rows(rows, ids) : Whole(o) /\ o.id \in ids
BY DEF Rows, RowFor

\* Shapes of stored objects name stored objects.
LEMMA IdsKnown ==
    ASSUME NEW S, NEW known, \A s \in S : ShapeWhole(s, known)
    PROVE  Ids(S) \subseteq known
BY DEF Ids, ShapeWhole

\* A stage that brings a run's rows.
LEMMA RunWholeStage ==
    ASSUME Wholes, RequestsWhole, NEW r \in requests, IsRun(r), NEW copy,
           At_(r, "done", copy), PageStill, StoreWhole', DOMAIN stored' = DOMAIN stored,
           \A run \in runs' : RunWhole(run, DOMAIN stored),
           \A o \in copy.rows : Whole(o),
           r.kind = "tidy" => RunWhole(copy.run, DOMAIN stored)
    PROVE  Wholes'
<1>1. RequestGood(r, DOMAIN stored', IdsOf(objects))
  BY DEF Wholes
<1>2. ASSUME NEW next, next.kind = r.kind, next.id = r.id, next.op = r.op, next.at = "done",
             next.copy = copy, next.body = r.body, next.prev = r.prev
      PROVE  RequestGood(next, DOMAIN stored', IdsOf(objects)) /\ ~IsNew(next)
  BY <1>1, <1>2 DEF RequestGood, IsNew, IsRun
<1> QED BY <1>2, StagesWhole

\* applyRun keeps everything whole,
LEMMA ApplyWhole ==
    ASSUME Wholes, RequestsWhole, NEW r \in requests, applyRun(r), PageStill
    PROVE  Wholes'
<1>1. r.kind = "tidy" /\ IsRun(r)
  BY DEF applyRun, IsRun
<1>2. \A c \in r.body.plan : OpWhole(c, DOMAIN stored)
  BY <1>1 DEF Wholes, RequestGood
<1> DEFINE run == RunOf(r)
           prior == {p \in runs : p.key = r.body.key}
<1>3. RunWhole(run, DOMAIN stored)
  BY <1>2, RunShapes
<1>4. StoreWhole
  BY DEF Wholes
<1>5. \A p \in runs : RunWhole(p, DOMAIN stored)
  BY DEF Wholes
<1>6. CASE prior = {}
  <2> DEFINE rows == Rows(stored', Ids(run.after))
  <2>1. /\ runs' = runs \cup {run} /\ stored' = WithShapes(run.after)
        /\ At_(r, "done", [run |-> run, rows |-> rows])
    BY <1>6 DEF applyRun
  <2> HIDE DEF run
  <2>2. \A s \in run.after : ShapeWhole(s, DOMAIN stored)
    BY <1>3 DEF RunWhole
  <2>3. DOMAIN stored' = DOMAIN stored /\ \A id \in DOMAIN stored : RowFor(stored'[id], id)
    BY <1>4, <2>1, <2>2, ShapesRows
  <2>4. StoreWhole'
    BY <1>4, <2>3 DEF StoreWhole
  <2>5. Ids(run.after) \subseteq DOMAIN stored
    BY <2>2, IdsKnown
  <2>6. \A o \in rows : Whole(o)
    <3>1. \A id \in Ids(run.after) : RowFor(stored'[id], id)
      BY <2>3, <2>5
    <3> QED BY <3>1, RowsWhole
  <2>7. \A p \in runs' : RunWhole(p, DOMAIN stored)
    BY <1>3, <1>5, <2>1
  <2> HIDE DEF rows
  <2> DEFINE copy == [run |-> run, rows |-> rows]
  <2>8. copy.run = run /\ copy.rows = rows
    OBVIOUS
  <2>9. At_(r, "done", copy)
    BY <2>1
  <2> HIDE DEF copy
  <2> QED BY <1>1, <1>3, <2>3, <2>4, <2>6, <2>7, <2>8, <2>9, RunWholeStage
<1>7. CASE prior # {}
  <2> DEFINE first == CHOOSE p \in prior : TRUE
             rows == UNION {Rows(stored, Ids(p.after)) : p \in prior}
             copy == [run |-> first, rows |-> rows]
  <2>1. At_(r, "done", copy) /\ UNCHANGED <<stored, runs>>
    BY <1>7 DEF applyRun
  <2>2. first \in prior
    BY <1>7
  <2>3. prior \subseteq runs
    OBVIOUS
  <2>4. copy.run = first /\ copy.rows = rows
    OBVIOUS
  <2> HIDE DEF copy, first, prior
  <2>5. ASSUME NEW p \in prior, NEW o \in Rows(stored, Ids(p.after)) PROVE Whole(o)
    <3>1. \A s \in p.after : ShapeWhole(s, DOMAIN stored)
      BY <1>5, <2>3 DEF RunWhole
    <3>2. \A id \in Ids(p.after) : RowFor(stored[id], id)
      BY <1>4, <3>1, IdsKnown DEF StoreWhole
    <3> QED BY <3>2, RowsWhole
  <2>6. \A o \in rows : Whole(o)
    BY <2>5
  <2> HIDE DEF rows
  <2>7. StoreWhole' /\ DOMAIN stored' = DOMAIN stored
    BY <2>1, StoreSame
  <2> QED BY <1>1, <1>5, <2>1, <2>2, <2>3, <2>4, <2>6, <2>7, RunWholeStage
<1> QED BY <1>6, <1>7

\* and undoRun,
LEMMA UndoWhole ==
    ASSUME Wholes, RequestsWhole, NEW r \in requests, undoRun(r), PageStill
    PROVE  Wholes'
<1> DEFINE back == {b \in r.body.before : \E a \in r.body.after : a.id = b.id /\ StillAs(a)}
           rows == Rows(stored', Ids(back))
           copy == [rows |-> rows]
<1>1. /\ r.kind = "undo" /\ IsRun(r) /\ runs' = runs
      /\ stored' = WithShapes(back) /\ At_(r, "done", copy)
  BY DEF undoRun, IsRun
<1>2. back \subseteq r.body.before /\ copy.rows = rows
  OBVIOUS
<1> HIDE DEF back, copy
<1>3. StoreWhole /\ \A s \in back : ShapeWhole(s, DOMAIN stored)
  BY <1>1, <1>2 DEF Wholes, RequestGood, RunWhole
<1>4. DOMAIN stored' = DOMAIN stored /\ \A id \in DOMAIN stored : RowFor(stored'[id], id)
  BY <1>1, <1>3, ShapesRows
<1>5. StoreWhole'
  BY <1>3, <1>4 DEF StoreWhole
<1>6. \A o \in rows : Whole(o)
  <2>1. \A id \in Ids(back) : RowFor(stored'[id], id)
    BY <1>3, <1>4, IdsKnown
  <2> QED BY <2>1, RowsWhole
<1> HIDE DEF rows
<1>7. \A p \in runs' : RunWhole(p, DOMAIN stored)
  BY <1>1 DEF Wholes
<1> QED BY <1>1, <1>2, <1>4, <1>5, <1>6, <1>7, RunWholeStage

\* and every step of the server.
LEMMA ServerWhole ==
    ASSUME Wholes, RequestsWhole, NEW r \in requests, serverStep(r), PageStill
    PROVE  Wholes'
<1>1. CASE handleAlone(r)
  <2>1. r.kind \in {"patch", "delete"} /\ runs' = runs /\ r.id \in DOMAIN stored
    BY <1>1 DEF handleAlone, Wholes, RequestGood
  <2>2. RowFor(stored[r.id], r.id)
    BY <2>1 DEF Wholes, StoreWhole
  <2>3. \/ stored' = [stored EXCEPT ![r.id] = Saved(r, stored[r.id])] /\ At_(r, "done", Nothing)
        \/ At_(r, "refused", Nothing) /\ stored' = stored
    BY <1>1 DEF handleAlone
  <2>4. StoreWhole' /\ DOMAIN stored' = DOMAIN stored
    BY <2>1, <2>2, <2>3, SavedWhole, StoreSame
  <2>5. \E at, copy :
          /\ At_(r, at, copy)
          /\ (at = "refused" \/ (at = "done" /\ r.kind \notin {"create", "tidy", "undo"}))
    BY <2>1, <2>3
  <2> QED BY <2>1, <2>4, <2>5, PlainWhole
<1>2. CASE readRow(r)
  <2>1. r.kind \in {"patch", "delete"} /\ runs' = runs /\ stored' = stored /\ r.id \in DOMAIN stored
    BY <1>2 DEF readRow, serverVars, Wholes, RequestGood
  <2>2. RowFor(stored[r.id], r.id)
    BY <2>1 DEF Wholes, StoreWhole
  <2>3. At_(r, "read", stored[r.id]) \/ At_(r, "refused", Nothing)
    BY <1>2 DEF readRow
  <2>4. StoreWhole' /\ DOMAIN stored' = DOMAIN stored
    BY <2>1, StoreSame
  <2> QED BY <2>1, <2>2, <2>3, <2>4, PlainWhole
<1>3. CASE saveRow(r)
  <2>1. /\ r.kind \in {"patch", "delete"} /\ RowFor(r.copy, r.id) /\ runs' = runs
        /\ stored' = [stored EXCEPT ![r.id] = Saved(r, r.copy)] /\ At_(r, "done", Nothing)
    BY <1>3 DEF saveRow, Wholes, RequestGood
  <2>2. StoreWhole' /\ DOMAIN stored' = DOMAIN stored
    BY <2>1, SavedWhole
  <2> QED BY <2>1, <2>2, PlainWhole
<1>4. CASE createRow(r)
  BY <1>4, CreateWhole
<1>5. CASE applyRun(r)
  BY <1>5, ApplyWhole
<1>6. CASE undoRun(r)
  BY <1>6, UndoWhole
<1>7. CASE handleFloor(r)
  <2>1. /\ r.kind \in {"floor", "publish", "unpublish"} /\ runs' = runs /\ stored' = stored
        /\ At_(r, "done", Nothing)
    BY <1>7 DEF handleFloor
  <2>2. StoreWhole' /\ DOMAIN stored' = DOMAIN stored
    BY <2>1, StoreSame
  <2> QED BY <2>1, <2>2, PlainWhole
<1> QED BY <1>1, <1>2, <1>3, <1>4, <1>5, <1>6, <1>7 DEF serverStep

\* A lost connection keeps everything whole.
LEMMA LoseWhole ==
    ASSUME Wholes, RequestsWhole, NEW r \in requests, lose(r)
    PROVE  Wholes'
<1>1. /\ At_(r, "refused", Nothing) /\ runs' = runs /\ stored' = stored
      /\ UNCHANGED <<objects, runId, layout, phase, visit, ghost>>
      /\ left' = [left EXCEPT !.faults = @ - 1]
  BY DEF lose, pageVars, serverVars, canvasVars, tidyVars
<1>2. PageStill
  BY <1>1 DEF PageStill, Wholes
<1>3. StoreWhole' /\ DOMAIN stored' = DOMAIN stored
  BY <1>1, StoreSame
<1> QED BY <1>1, <1>2, <1>3, PlainWhole

\* An answer is taken: the page's list keeps its objects' fields, and the new object of
\* a creation may join it.
LEMMA AnswersWhole ==
    ASSUME Wholes, NEW r \in requests, requests' = requests \ {r},
           UNCHANGED <<stored, runs, visit, left, ghost, layout>>,
           Listed(objects', DOMAIN stored),
           \A id \in IdsOf(objects') : id \in IdsOf(objects) \/ (IsNew(r) /\ id = r.copy.id),
           \A run \in runId' : RunWhole(run, DOMAIN stored)
    PROVE  Wholes'
<1>1. StoreWhole'
  BY StoreSame
<1>2. \A q \in requests' : RequestGood(q, DOMAIN stored', IdsOf(objects'))
  <2>1. ASSUME NEW q \in requests' PROVE RequestGood(q, DOMAIN stored', IdsOf(objects'))
    <3>1. RequestGood(q, DOMAIN stored, IdsOf(objects)) /\ stored' = stored
      BY DEF Wholes
    <3>2. IsNew(q) => q.copy.id \notin IdsOf(objects')
      <4>1. IsNew(q) => q.copy.id \notin IdsOf(objects)
        BY <3>1 DEF RequestGood
      <4>2. IsNew(q) /\ IsNew(r) => q.copy.id # r.copy.id
        BY DEF Wholes
      <4> QED BY <4>1, <4>2
    <3> QED BY <3>1, <3>2 DEF RequestGood
  <2> QED BY <2>1
<1>3. \A p, q \in requests' : IsNew(p) /\ IsNew(q) /\ p.copy.id = q.copy.id => p = q
  BY DEF Wholes
<1> QED BY <1>1, <1>2, <1>3 DEF Wholes

\* The list without the object at a place.
LEMMA RemovedPlaces ==
    ASSUME NEW seq, NEW known, Listed(seq, known), NEW i \in DOMAIN seq
    PROVE  /\ Listed(RemoveAt(seq, i), known)
           /\ IdsOf(RemoveAt(seq, i)) \subseteq IdsOf(seq)
           /\ Of(RemoveAt(seq, i), seq[i].id) = {}
           /\ \A id : id # seq[i].id => Of(RemoveAt(seq, i), id) = Of(seq, id)
<1> DEFINE n == Len(seq)
           new == RemoveAt(seq, i)
<1>1. seq \in Seq(ToSet(seq)) /\ n \in Nat /\ DOMAIN seq = 1 .. n /\ i \in 1 .. n
  BY DEF Listed
<1>2. /\ \A j \in 1 .. n : Whole(seq[j]) /\ seq[j].id \in known
      /\ \A j, k \in 1 .. n : seq[j].id = seq[k].id => j = k
  BY <1>1 DEF Listed
<1>3. /\ new \in Seq(ToSet(seq)) /\ DOMAIN new = 1 .. (n - 1)
      /\ \A j \in 1 .. (n - 1) : new[j] = IF j < i THEN seq[j] ELSE seq[j + 1]
  <2>1. /\ SubSeq(seq, 1, i - 1) \in Seq(ToSet(seq)) /\ Len(SubSeq(seq, 1, i - 1)) = i - 1
        /\ \A j \in 1 .. (i - 1) : SubSeq(seq, 1, i - 1)[j] = seq[j]
    BY <1>1
  <2>2. /\ SubSeq(seq, i + 1, n) \in Seq(ToSet(seq)) /\ Len(SubSeq(seq, i + 1, n)) = n - i
        /\ \A j \in 1 .. (n - i) : SubSeq(seq, i + 1, n)[j] = seq[i + j]
    BY <1>1
  <2> DEFINE a == SubSeq(seq, 1, i - 1)
             b == SubSeq(seq, i + 1, n)
  <2>3. new = a \o b
    BY DEF RemoveAt
  <2> HIDE DEF a, b, new
  <2>4. /\ a \in Seq(ToSet(seq)) /\ b \in Seq(ToSet(seq)) /\ Len(a) = i - 1 /\ Len(b) = n - i
        /\ \A j \in 1 .. (i - 1) : a[j] = seq[j]
        /\ \A j \in 1 .. (n - i) : b[j] = seq[i + j]
    BY <2>1, <2>2 DEF a, b
  <2>5. /\ new \in Seq(ToSet(seq)) /\ Len(new) = n - 1
        /\ \A j \in 1 .. (i - 1) : new[j] = a[j]
        /\ \A j \in i .. (n - 1) : new[j] = b[j - (i - 1)]
    <3>1. /\ a \o b \in Seq(ToSet(seq)) /\ Len(a \o b) = Len(a) + Len(b)
          /\ \A j \in 1 .. (Len(a) + Len(b)) : (a \o b)[j] = IF j <= Len(a) THEN a[j] ELSE b[j - Len(a)]
      BY <2>4, ConcatProperties
    <3>2. Len(a) + Len(b) = n - 1 /\ i - 1 <= n - 1
      BY <1>1, <2>4
    <3>3. /\ \A j \in 1 .. (n - 1) : new[j] = IF j <= i - 1 THEN a[j] ELSE b[j - (i - 1)]
          /\ new \in Seq(ToSet(seq)) /\ Len(new) = n - 1
      BY <2>3, <2>4, <3>1, <3>2
    <3>4. \A j \in 1 .. (i - 1) : j \in 1 .. (n - 1) /\ j <= i - 1
      BY <1>1
    <3>5. \A j \in i .. (n - 1) : j \in 1 .. (n - 1) /\ ~(j <= i - 1)
      BY <1>1
    <3> QED BY <3>3, <3>4, <3>5
  <2>6. ASSUME NEW j \in 1 .. (n - 1) PROVE new[j] = IF j < i THEN seq[j] ELSE seq[j + 1]
    <3>1. CASE j < i
      <4>1. j \in 1 .. (i - 1)
        BY <1>1, <3>1
      <4> QED BY <2>4, <2>5, <3>1, <4>1
    <3>2. CASE ~(j < i)
      <4>0. j \in i .. (n - 1) /\ j - (i - 1) \in 1 .. (n - i)
        BY <1>1, <3>2
      <4>1. new[j] = b[j - (i - 1)] /\ j - (i - 1) \in 1 .. (n - i)
        BY <2>5, <4>0
      <4>2. b[j - (i - 1)] = seq[i + (j - (i - 1))]
        BY <2>4, <4>1
      <4>3. i + (j - (i - 1)) = j + 1
        BY <1>1
      <4> QED BY <3>2, <4>1, <4>2, <4>3
    <3> QED BY <3>1, <3>2
  <2> QED BY <1>1, <2>5, <2>6
<1> HIDE DEF n, new
<1>4. \A j \in 1 .. (n - 1) : \E k \in 1 .. n : k # i /\ new[j] = seq[k]
  <2> SUFFICES ASSUME NEW j \in 1 .. (n - 1) PROVE \E k \in 1 .. n : k # i /\ new[j] = seq[k]
    OBVIOUS
  <2>1. CASE j < i
    BY <1>1, <1>3, <2>1
  <2>2. CASE ~(j < i)
    <3>1. j + 1 \in 1 .. n /\ j + 1 # i /\ new[j] = seq[j + 1]
      BY <1>1, <1>3, <2>2
    <3> QED BY <3>1
  <2> QED BY <2>1, <2>2
<1>5. \A k \in 1 .. n : k # i => \E j \in 1 .. (n - 1) : new[j] = seq[k]
  <2> SUFFICES ASSUME NEW k \in 1 .. n, k # i PROVE \E j \in 1 .. (n - 1) : new[j] = seq[k]
    OBVIOUS
  <2>1. CASE k < i
    BY <1>1, <1>3, <2>1
  <2>2. CASE ~(k < i)
    <3>1. k - 1 \in 1 .. (n - 1) /\ ~(k - 1 < i) /\ (k - 1) + 1 = k
      BY <1>1, <2>2
    <3>2. new[k - 1] = seq[(k - 1) + 1]
      BY <1>3, <3>1
    <3> QED BY <3>1, <3>2
  <2> QED BY <2>1, <2>2
<1>6. \A j, k \in 1 .. (n - 1) : new[j].id = new[k].id => j = k
  <2> SUFFICES ASSUME NEW j \in 1 .. (n - 1), NEW k \in 1 .. (n - 1), new[j].id = new[k].id
               PROVE  j = k
    OBVIOUS
  <2> DEFINE at(m) == IF m < i THEN m ELSE m + 1
  <2>1. \A m \in 1 .. (n - 1) : at(m) \in 1 .. n /\ new[m] = seq[at(m)]
    BY <1>1, <1>3
  <2>2. at(j) = at(k)
    BY <1>2, <2>1
  <2> QED BY <1>1, <2>2
<1>7. new \in Seq(ToSet(new))
  <2>1. new \in [1 .. (n - 1) -> ToSet(new)] /\ n - 1 \in Nat
    BY <1>1, <1>3 DEF ToSet
  <2> QED BY <2>1
<1>8. Listed(new, known)
  BY <1>2, <1>3, <1>4, <1>6, <1>7 DEF Listed
<1>9. IdsOf(new) \subseteq IdsOf(seq)
  <2>1. IdsOf(new) = {new[j].id : j \in 1 .. (n - 1)} /\ IdsOf(seq) = {seq[k].id : k \in 1 .. n}
    BY <1>1, <1>3 DEF IdsOf
  <2> QED BY <1>4, <2>1
<1>10. ToSet(new) = {o \in ToSet(seq) : o.id # seq[i].id}
  <2>1. ToSet(new) = {new[j] : j \in 1 .. (n - 1)} /\ ToSet(seq) = {seq[k] : k \in 1 .. n}
    BY <1>1, <1>3 DEF ToSet
  <2>2. \A k \in 1 .. n : k # i <=> seq[k].id # seq[i].id
    BY <1>1, <1>2
  <2> QED BY <1>4, <1>5, <2>1, <2>2
<1>11. Of(new, seq[i].id) = {} /\ \A id : id # seq[i].id => Of(new, id) = Of(seq, id)
  BY <1>10 DEF Of
<1> QED BY <1>8, <1>9, <1>11 DEF new

\* The list with a new object.
LEMMA AppendedPlaces ==
    ASSUME NEW seq, NEW known, Listed(seq, known), NEW o, Whole(o),
           o.id \in known, o.id \notin IdsOf(seq)
    PROVE  /\ Listed(Append(seq, o), known)
           /\ IdsOf(Append(seq, o)) = IdsOf(seq) \cup {o.id}
           /\ Of(Append(seq, o), o.id) = {o} /\ Of(seq, o.id) = {}
           /\ \A id : id # o.id => Of(Append(seq, o), id) = Of(seq, id)
<1> DEFINE n == Len(seq)
           new == Append(seq, o)
<1>1. seq \in Seq(ToSet(seq)) /\ n \in Nat /\ DOMAIN seq = 1 .. n
  BY DEF Listed
<1>2. /\ \A j \in 1 .. n : Whole(seq[j]) /\ seq[j].id \in known /\ seq[j].id # o.id
      /\ \A j, k \in 1 .. n : seq[j].id = seq[k].id => j = k
  BY <1>1 DEF Listed, IdsOf
<1>3. DOMAIN new = 1 .. (n + 1) /\ new[n + 1] = o /\ \A j \in 1 .. n : new[j] = seq[j]
  BY <1>1
<1>4. new \in Seq(ToSet(seq) \cup {o})
  BY <1>1
<1> HIDE DEF n, new
<1>5. new \in Seq(ToSet(new))
  <2>1. new \in [1 .. (n + 1) -> ToSet(new)] /\ n + 1 \in Nat
    BY <1>1, <1>3, <1>4 DEF ToSet
  <2> QED BY <2>1
<1>6. \A j \in 1 .. (n + 1) : j \in 1 .. n \/ j = n + 1
  BY <1>1
<1>7. Listed(new, known)
  BY <1>1, <1>2, <1>3, <1>5, <1>6 DEF Listed
<1>8. ToSet(new) = ToSet(seq) \cup {o}
  BY <1>1, <1>3, <1>6 DEF ToSet
<1>9. IdsOf(new) = IdsOf(seq) \cup {o.id}
  BY <1>1, <1>3, <1>6 DEF IdsOf
<1>10. Of(seq, o.id) = {}
  BY <1>1, <1>2 DEF Of, ToSet
<1>11. Of(new, o.id) = {o} /\ \A id : id # o.id => Of(new, id) = Of(seq, id)
  BY <1>8, <1>10 DEF Of
<1> QED BY <1>7, <1>9, <1>10, <1>11 DEF new

\* Patching one object keeps the list.
LEMMA OneListed ==
    ASSUME NEW seq, NEW known, Listed(seq, known), NEW id, NEW patch, DOMAIN patch \subseteq ShapeFields
    PROVE  Listed(patchObject(seq, id, patch), known) /\ IdsOf(patchObject(seq, id, patch)) = IdsOf(seq)
<1> DEFINE new == patchObject(seq, id, patch)
<1>1. /\ DOMAIN new = DOMAIN seq /\ new = [i \in DOMAIN new |-> new[i]]
      /\ \A i \in DOMAIN seq : new[i] = IF seq[i].id = id THEN With(seq[i], patch) ELSE seq[i]
  BY DEF patchObject
<1> HIDE DEF new
<1>2. ASSUME NEW i \in DOMAIN seq PROVE Whole(new[i]) /\ new[i].id = seq[i].id
  <2>1. Whole(seq[i])
    BY DEF Listed
  <2> QED BY <1>1, <2>1, PatchKeeps
<1> QED BY <1>1, <1>2, SamePlaces DEF new

\* The list with the rows of a run's answer.
TakenOver(seq, rows) ==
    [i \in DOMAIN seq |-> LET mine == {o \in rows : o.id = seq[i].id}
                          IN  IF mine = {} THEN seq[i] ELSE CHOOSE o \in mine : TRUE]

\* Each place has what it had, or a row of the answer that is about it.
LEMMA TakenPlace ==
    ASSUME NEW seq, NEW rows, NEW i \in DOMAIN seq
    PROVE  \/ /\ \A o \in rows : o.id # seq[i].id
              /\ TakenOver(seq, rows)[i] = seq[i]
           \/ TakenOver(seq, rows)[i] \in rows /\ TakenOver(seq, rows)[i].id = seq[i].id
<1> DEFINE mine == {o \in rows : o.id = seq[i].id}
<1>1. TakenOver(seq, rows)[i] = IF mine = {} THEN seq[i] ELSE CHOOSE o \in mine : TRUE
  BY DEF TakenOver
<1>2. mine # {} => (CHOOSE o \in mine : TRUE) \in mine
  OBVIOUS
<1> QED BY <1>1, <1>2

\* Taking over a run's rows keeps the list.
LEMMA TakenListed ==
    ASSUME NEW seq, NEW known, Listed(seq, known), NEW rows, \A o \in rows : Whole(o)
    PROVE  Listed(TakenOver(seq, rows), known) /\ IdsOf(TakenOver(seq, rows)) = IdsOf(seq)
<1> DEFINE new == TakenOver(seq, rows)
<1>1. DOMAIN new = DOMAIN seq /\ new = [i \in DOMAIN new |-> new[i]]
  BY DEF TakenOver
<1>2. \A i \in DOMAIN seq : new[i] = seq[i] \/ (new[i] \in rows /\ new[i].id = seq[i].id)
  BY TakenPlace
<1> HIDE DEF new
<1>3. \A i \in DOMAIN seq : Whole(new[i]) /\ new[i].id = seq[i].id
  BY <1>2 DEF Listed
<1> QED BY <1>1, <1>3, SamePlaces DEF new

\* Every answer keeps everything whole.
LEMMA AnswerWhole ==
    ASSUME Wholes, NEW r \in requests, answer(r)
    PROVE  Wholes'
<1>1. UNCHANGED <<stored, runs, visit, left>> /\ UNCHANGED_answer /\ r.at \in {"done", "refused"}
  BY DEF answer, UNCHANGED_answer, serverVars
<1>2. /\ Listed(objects, DOMAIN stored) /\ RequestGood(r, DOMAIN stored, IdsOf(objects))
      /\ \A run \in runId : RunWhole(run, DOMAIN stored)
  BY DEF Wholes
<1>3. CASE answerPatch(r)
  <2>1. /\ requests' = requests \ {r} /\ UNCHANGED <<runId, ghost, layout>> /\ r.kind = "patch"
        /\ objects' = objects \/ objects' = patchObject(objects, r.id, r.prev)
    BY <1>3 DEF answerPatch, RolledBack, canvasVars, tidyVars
  <2>2. Listed(objects', DOMAIN stored) /\ IdsOf(objects') = IdsOf(objects)
    BY <1>2, <2>1, OneListed DEF RequestGood
  <2> QED BY <1>1, <1>2, <2>1, <2>2, AnswersWhole
<1>4. CASE answerDelete(r)
  <2>1. /\ requests' = requests \ {r} /\ UNCHANGED <<runId, ghost, layout>>
        /\ objects' = objects \/ objects' = removeObject(objects, r.id)
    BY <1>4 DEF answerDelete, canvasVars, tidyVars
  <2>2. Listed(objects', DOMAIN stored) /\ IdsOf(objects') \subseteq IdsOf(objects)
    <3>1. CASE objects' = objects
      BY <1>2, <3>1
    <3>2. CASE objects' = removeObject(objects, r.id) /\ r.id \in IdsOf(objects)
      <4> DEFINE i == CHOOSE j \in DOMAIN objects : objects[j].id = r.id
      <4>1. i \in DOMAIN objects
        BY <3>2 DEF IdsOf
      <4>2. objects' = RemoveAt(objects, i)
        BY <3>2 DEF removeObject
      <4> HIDE DEF i
      <4> QED BY <1>2, <4>1, <4>2, RemovedPlaces
    <3> QED BY <2>1, <3>1, <3>2 DEF removeObject
  <2> QED BY <1>1, <1>2, <2>1, <2>2, AnswersWhole
<1>5. CASE answerCreate(r)
  <2>1. /\ requests' = requests \ {r} /\ UNCHANGED <<runId, ghost, layout>> /\ r.kind = "create"
        /\ \/ objects' = objects
           \/ r.at = "done" /\ objects' = Append(objects, r.copy)
    BY <1>5 DEF answerCreate, tidyVars
  <2>2. CASE objects' = objects
    BY <1>1, <1>2, <2>1, <2>2, AnswersWhole
  <2>3. CASE r.at = "done" /\ objects' = Append(objects, r.copy)
    <3>1. IsNew(r)
      BY <2>1, <2>3 DEF IsNew
    <3>2. Whole(r.copy) /\ r.copy.id \in DOMAIN stored /\ r.copy.id \notin IdsOf(objects)
      BY <1>2, <3>1 DEF RequestGood
    <3>3. Listed(objects', DOMAIN stored) /\ IdsOf(objects') = IdsOf(objects) \cup {r.copy.id}
      BY <1>2, <2>3, <3>2, AppendedPlaces
    <3> QED BY <1>1, <1>2, <2>1, <3>1, <3>3, AnswersWhole
  <2> QED BY <2>1, <2>2, <2>3
<1>6. CASE settleBoundary(r) \/ answerStatus(r)
  BY <1>1, <1>6, AnswerKinds, SavesWhole
<1>7. CASE answerRun(r)
  <2>1. requests' = requests \ {r} /\ UNCHANGED <<ghost, layout>> /\ IsRun(r)
    BY <1>7 DEF answerRun, canvasVars, tidyVars, IsRun
  <2>2. CASE r.at = "done"
    <3>1. objects' = TakenOver(objects, r.copy.rows)
      BY <1>7, <2>2 DEF answerRun, TakenOver
    <3>2. runId' = {} \/ (r.kind = "tidy" /\ runId' = {r.copy.run})
      BY <1>7, <2>2 DEF answerRun
    <3>3. /\ \A o \in r.copy.rows : Whole(o)
          /\ r.kind = "tidy" => RunWhole(r.copy.run, DOMAIN stored)
      BY <1>2, <2>1, <2>2 DEF RequestGood
    <3>4. Listed(objects', DOMAIN stored) /\ IdsOf(objects') = IdsOf(objects)
      BY <1>2, <3>1, <3>3, TakenListed
    <3>5. \A run \in runId' : RunWhole(run, DOMAIN stored)
      BY <3>2, <3>3
    <3> QED BY <1>1, <2>1, <3>4, <3>5, AnswersWhole
  <2>3. CASE r.at # "done"
    <3>1. UNCHANGED <<objects, runId>>
      BY <1>7, <2>3 DEF answerRun
    <3> QED BY <1>1, <1>2, <2>1, <3>1, AnswersWhole
  <2> QED BY <2>2, <2>3
<1> QED BY <1>3, <1>4, <1>5, <1>6, <1>7 DEF answer

(***************************************************************************)
(* The keys of the runs                                                    *)
(***************************************************************************)
\* A tidy's answer will tell the run's rows.
Answered(run) == \E r \in requests : /\ r.kind = "tidy" /\ r.at = "done"
                                     /\ Ids(run.after) \subseteq Touched(r)

\* One tidy or undo is in flight at a time.  While a plan is shown, its key is that of a
\* run only when the answer is on its way or was lost: a replay answers about objects
\* that are blurred.
Keys ==
    /\ \A r, q \in requests : IsRun(r) /\ IsRun(q) => r = q
    /\ \A run \in runs : run.key[1] \in Int /\ run.key[1] >= left.tidies
    /\ EngineRuns => \A run \in runs : run.key[1] > left.tidies
    /\ \A r \in requests : r.kind = "tidy" => phase = "planned" /\ r.body.key[1] = left.tidies
    /\ phase = "planned" =>
          \A run \in runs : run.key[1] = left.tidies => Ids(run.after) \subseteq blurred \/ Answered(run)
    /\ \A r \in requests : IsRun(r) /\ r.at = "done" =>
          \A o \in r.copy.rows : o.id \in Touched(r) \cup blurred

\* Requests that are no runs come and go.
LEMMA KeysOther ==
    ASSUME Keys, NEW gone, NEW news, \A r \in gone : ~IsRun(r), \A r \in news : ~IsRun(r),
           requests' = (requests \ gone) \cup news, blurred \subseteq blurred',
           UNCHANGED <<runs, phase>>, left'.tidies = left.tidies
    PROVE  Keys'
<1>1. \A r \in requests' : IsRun(r) => r \in requests
  OBVIOUS
<1>2. \A r \in requests : r.kind = "tidy" => r \in requests'
  BY DEF IsRun
<1>3. \A run : Answered(run) => Answered(run)'
  BY <1>2 DEF Answered
<1>4. EngineRuns' = EngineRuns
  BY DEF EngineRuns
<1>5. \A r \in requests' : r.kind = "tidy" => r \in requests
  BY <1>1 DEF IsRun
<1> QED BY <1>1, <1>3, <1>4, <1>5 DEF Keys

\* Saves keep the keys,
LEMMA KeysSaves ==
    ASSUME Keys, NEW go, NEW op, NEW gone, SavesMade(go, op, gone)
    PROVE  Keys'
<1> DEFINE news == {SaveOf(m, op) : m \in go}
<1>1. \A r \in news : ~IsRun(r)
  BY SaveFields DEF IsRun
<1>2. /\ requests' = (requests \ gone) \cup news /\ blurred \subseteq blurred'
      /\ UNCHANGED <<runs, phase>> /\ left'.tidies = left.tidies
      /\ \A r \in gone : ~IsRun(r)
  BY DEF SavesMade, Still, IsRun
<1> HIDE DEF news
<1> QED BY <1>1, <1>2, KeysOther

\* other requests do,
LEMMA KeysSends ==
    ASSUME Keys, NEW news, Sends(news)
    PROVE  Keys'
<1>1. /\ requests' = requests \cup news /\ blurred \subseteq blurred'
      /\ UNCHANGED <<runs, phase>> /\ left'.tidies = left.tidies
  BY DEF Sends, Send, Still
<1>2. \A r \in news : /\ r.at = "sent" /\ (IsRun(r) => ~tidyBusy /\ news = {r})
                      /\ r.kind = "tidy" => phase = "planned" /\ r.body.key[1] = left.tidies
  BY DEF Sends
<1>3. \A r, q \in requests' : IsRun(r) /\ IsRun(q) => r = q
  BY <1>1, <1>2 DEF Keys, tidyBusy, IsRun
<1>4. \A run : Answered(run) => Answered(run)'
  BY <1>1 DEF Answered
<1>5. EngineRuns' = EngineRuns
  BY <1>1 DEF EngineRuns
<1> QED BY <1>1, <1>2, <1>3, <1>4, <1>5 DEF Keys

\* and steps that change nothing: a new plan gets a key that no run has.
LEMMA KeysQuiet ==
    ASSUME Wholes, Keys, Quiet
    PROVE  Keys'
<1>1. UNCHANGED <<runs, requests, blurred>> /\ left.tidies \in Int
  BY DEF Quiet, Wholes
<1>2. \A run : Answered(run)' = Answered(run)
  BY <1>1 DEF Answered
<1>3. CASE phase' = phase /\ left'.tidies = left.tidies
  BY <1>1, <1>2, <1>3 DEF Keys, EngineRuns
<1>4. CASE (phase = "idle" \/ ~tidyBusy) /\ phase' = "walls" /\ left'.tidies = left.tidies - 1
  <2>1. \A r \in requests : r.kind # "tidy"
    BY <1>4 DEF Keys, tidyBusy
  <2> QED BY <1>1, <1>2, <1>4, <2>1 DEF Keys
<1>5. CASE EngineRuns /\ phase' \in {"walls", "arrange", "planned"} /\ left'.tidies = left.tidies
  <2>1. \A r \in requests : r.kind # "tidy"
    BY <1>5 DEF Keys, EngineRuns
  <2>2. \A run \in runs : run.key[1] # left.tidies
    BY <1>1, <1>5 DEF Keys
  <2> QED BY <1>1, <1>2, <1>5, <2>1, <2>2 DEF Keys
<1>6. CASE ~tidyBusy /\ phase' = "idle" /\ left'.tidies = left.tidies
  <2>1. \A r \in requests : r.kind # "tidy"
    BY <1>6 DEF tidyBusy
  <2> QED BY <1>1, <1>2, <1>6, <2>1 DEF Keys, EngineRuns
<1> QED BY <1>3, <1>4, <1>5, <1>6 DEF Quiet

\* What a request touches is settled when it is sent, but for a new object.
LEMMA TouchedStays ==
    ASSUME NEW r, NEW next, next.kind = r.kind, next.id = r.id, next.body = r.body,
           r.kind # "create"
    PROVE  Touched(next) = Touched(r)
<1>1. CASE r.kind \in {"patch", "delete"}
  BY <1>1 DEF Touched
<1>2. CASE r.kind = "tidy"
  BY <1>2 DEF Touched
<1>3. CASE r.kind = "undo"
  BY <1>3 DEF Touched
<1>4. CASE r.kind \notin {"patch", "delete", "tidy", "undo"}
  BY <1>4 DEF Touched
<1> QED BY <1>1, <1>2, <1>3, <1>4

\* The stage of a request that is no run.
LEMMA KeysStage ==
    ASSUME Keys, RequestsWhole, NEW r \in requests, ~IsRun(r), NEW at, NEW copy, At_(r, at, copy),
           runs' = runs, PageStill, blurred \subseteq blurred'
    PROVE  Keys'
<1> DEFINE next == [r EXCEPT !.at = at, !.copy = copy]
<1>1. requests' = (requests \ {r}) \cup {next} /\ next = [r EXCEPT !.at = at, !.copy = copy]
  BY DEF At_
<1> HIDE DEF next
<1>2. /\ next.kind = r.kind /\ next.id = r.id /\ next.op = r.op
      /\ next.at = at /\ next.copy = copy /\ next.body = r.body /\ next.prev = r.prev
  BY <1>1 DEF RequestsWhole, WholeRequest
<1>3. ~IsRun(next)
  BY <1>2 DEF IsRun
<1>4. phase' = phase /\ left'.tidies = left.tidies
  BY DEF PageStill
<1> DEFINE gone == {r}
           news == {next}
<1>5. /\ \A q \in gone : ~IsRun(q)
      /\ \A q \in news : ~IsRun(q)
      /\ requests' = (requests \ gone) \cup news
  BY <1>1, <1>3
<1> HIDE DEF gone, news
<1> QED BY <1>4, <1>5, KeysOther

\* A run goes on: done, or lost.
LEMMA KeysRunStage ==
    ASSUME Keys, RequestsWhole, NEW r \in requests, IsRun(r), NEW at, NEW copy, At_(r, at, copy),
           PageStill, blurred \subseteq blurred',
           r.at = "done" => Touched(r) \subseteq blurred',
           at = "done" => \A o \in copy.rows : o.id \in Touched(r) \cup blurred',
           \/ runs' = runs
           \/ /\ r.kind = "tidy" /\ at = "done"
              /\ \E run : /\ runs' = runs \cup {run} /\ run.key = r.body.key
                          /\ Ids(run.after) \subseteq Touched(r),
           left.tidies \in Int
    PROVE  Keys'
<1> DEFINE next == [r EXCEPT !.at = at, !.copy = copy]
<1>1. requests' = (requests \ {r}) \cup {next} /\ next = [r EXCEPT !.at = at, !.copy = copy]
  BY DEF At_
<1> HIDE DEF next
<1>2. /\ next.kind = r.kind /\ next.id = r.id /\ next.op = r.op
      /\ next.at = at /\ next.copy = copy /\ next.body = r.body /\ next.prev = r.prev
  BY <1>1 DEF RequestsWhole, WholeRequest
<1>3. Touched(next) = Touched(r)
  BY <1>2, TouchedStays DEF IsRun
<1>4. phase' = phase /\ left'.tidies = left.tidies /\ EngineRuns' = EngineRuns
  BY DEF PageStill, EngineRuns
<1>5. \A q \in requests' : IsRun(q) => q = next
  BY <1>1 DEF Keys
<1>6. \A p, q \in requests' : IsRun(p) /\ IsRun(q) => p = q
  BY <1>5
<1>7. \A run \in runs' : \/ run \in runs
                         \/ /\ r.kind = "tidy" /\ run.key = r.body.key
                            /\ at = "done" /\ Ids(run.after) \subseteq Touched(r)
  OBVIOUS
<1>8. r.kind = "tidy" => phase = "planned" /\ r.body.key[1] = left.tidies
  BY DEF Keys
<1>9. \A q \in requests' : q.kind = "tidy" => phase' = "planned" /\ q.body.key[1] = left'.tidies
  <2> SUFFICES ASSUME NEW q \in requests', q.kind = "tidy"
               PROVE  phase' = "planned" /\ q.body.key[1] = left'.tidies
    OBVIOUS
  <2>1. q = next
    BY <1>5 DEF IsRun
  <2> QED BY <1>2, <1>4, <1>8, <2>1
<1>10. \A run \in runs' : run.key[1] \in Int /\ run.key[1] >= left'.tidies
  BY <1>4, <1>7, <1>8 DEF Keys
<1>11. EngineRuns' => \A run \in runs' : run.key[1] > left'.tidies
  BY <1>4, <1>7, <1>8 DEF Keys, EngineRuns
<1>12. ASSUME phase' = "planned", NEW run \in runs', run.key[1] = left'.tidies
       PROVE  Ids(run.after) \subseteq blurred' \/ Answered(run)'
  <2>1. CASE run \in runs
    <3>1. Ids(run.after) \subseteq blurred \/ Answered(run)
      BY <1>4, <1>12, <2>1 DEF Keys
    <3>2. ASSUME Answered(run) PROVE Ids(run.after) \subseteq blurred'
      <4>1. PICK q \in requests : q.kind = "tidy" /\ q.at = "done" /\ Ids(run.after) \subseteq Touched(q)
        BY <3>2 DEF Answered
      <4>2. q = r
        BY <4>1 DEF Keys, IsRun
      <4> QED BY <4>1, <4>2
    <3> QED BY <3>1, <3>2
  <2>2. CASE run \notin runs
    BY <1>1, <1>2, <1>3, <1>7, <2>2 DEF Answered
  <2> QED BY <2>1, <2>2
<1>13. \A q \in requests' : IsRun(q) /\ q.at = "done" =>
        \A o \in q.copy.rows : o.id \in Touched(q) \cup blurred'
  BY <1>2, <1>3, <1>5
<1> QED BY <1>6, <1>9, <1>10, <1>11, <1>12, <1>13 DEF Keys

\* A run is about objects of its plan.
LEMMA RunTouches ==
    ASSUME NEW r, NEW known, r.kind = "tidy", \A c \in r.body.plan : OpWhole(c, known)
    PROVE  Ids(RunOf(r).after) \subseteq Touched(r)
<1> DEFINE fresh == {c \in r.body.plan : StillAs(Named(c.id, c.before))}
<1>1. RunOf(r).after = {Named(c.id, c.after) : c \in fresh}
  BY DEF RunOf
<1>2. fresh \subseteq r.body.plan
  OBVIOUS
<1> HIDE DEF fresh
<1>3. \A c \in fresh : Named(c.id, c.after).id = c.id
  BY <1>2, NamedFields DEF OpWhole
<1>4. Touched(r) = Ids(r.body.plan)
  BY DEF Touched
<1> QED BY <1>1, <1>2, <1>3, <1>4 DEF Ids

\* A replay answers about runs of which an answer was lost.
LEMMA ReplayBlurred ==
    ASSUME Keys, NEW r \in requests, r.kind = "tidy", r.at = "sent", NEW p \in runs, p.key = r.body.key
    PROVE  Ids(p.after) \subseteq blurred
<1>1. phase = "planned" /\ p.key[1] = left.tidies
  BY DEF Keys
<1>2. Ids(p.after) \subseteq blurred \/ Answered(p)
  BY <1>1 DEF Keys
<1>3. ~Answered(p)
  BY DEF Answered, Keys, IsRun
<1> QED BY <1>2, <1>3

\* The rows a replay answers with are those of blurred objects.
LEMMA ReplayRows ==
    ASSUME Wholes, Keys, NEW r \in requests, r.kind = "tidy", r.at = "sent"
    PROVE  \A o \in UNION {Rows(stored, Ids(p.after)) : p \in {q \in runs : q.key = r.body.key}} :
              o.id \in blurred
<1> DEFINE prior == {q \in runs : q.key = r.body.key}
<1>1. \A p \in prior : p \in runs /\ p.key = r.body.key
  OBVIOUS
<1> HIDE DEF prior
<1>2. ASSUME NEW p \in prior, NEW o \in Rows(stored, Ids(p.after)) PROVE o.id \in blurred
  <2>1. \A s \in p.after : ShapeWhole(s, DOMAIN stored)
    BY <1>1 DEF Wholes, RunWhole
  <2>2. \A id \in Ids(p.after) : RowFor(stored[id], id)
    BY <2>1, IdsKnown DEF Wholes, StoreWhole
  <2>3. o.id \in Ids(p.after)
    BY <2>2, RowsWhole
  <2> QED BY <1>1, <2>3, ReplayBlurred
<1>3. \A o \in UNION {Rows(stored, Ids(p.after)) : p \in prior} : o.id \in blurred
  BY <1>2
<1> QED BY <1>3 DEF prior

\* applyRun keeps the keys,
LEMMA ApplyKeys ==
    ASSUME Wholes, Keys, RequestsWhole, NEW r \in requests, applyRun(r), PageStill, blurred' = blurred
    PROVE  Keys'
<1>1. r.kind = "tidy" /\ IsRun(r) /\ r.at = "sent" /\ left.tidies \in Int
  BY DEF applyRun, IsRun, Wholes
<1>2. \A c \in r.body.plan : OpWhole(c, DOMAIN stored)
  BY <1>1 DEF Wholes, RequestGood
<1> DEFINE run == RunOf(r)
           prior == {p \in runs : p.key = r.body.key}
<1>3. RunWhole(run, DOMAIN stored) /\ run.key = r.body.key /\ Ids(run.after) \subseteq Touched(r)
  BY <1>1, <1>2, RunShapes, RunTouches
<1>4. StoreWhole
  BY DEF Wholes
<1>5. CASE prior = {}
  <2> DEFINE rows == Rows(stored', Ids(run.after))
             copy == [run |-> run, rows |-> rows]
  <2>1. /\ runs' = runs \cup {run} /\ stored' = WithShapes(run.after)
        /\ At_(r, "done", copy)
    BY <1>5 DEF applyRun
  <2>2. copy.rows = rows
    OBVIOUS
  <2> HIDE DEF run, copy
  <2>3. \A s \in run.after : ShapeWhole(s, DOMAIN stored)
    BY <1>3 DEF RunWhole
  <2>4. \A id \in Ids(run.after) : RowFor(stored'[id], id)
    BY <1>4, <2>1, <2>3, ShapesRows, IdsKnown
  <2>5. \A o \in rows : o.id \in Ids(run.after)
    BY <2>4, RowsWhole
  <2> HIDE DEF rows
  <2>6. \A o \in copy.rows : o.id \in Touched(r) \cup blurred'
    BY <1>3, <2>2, <2>5
  <2> QED BY <1>1, <1>3, <2>1, <2>6, KeysRunStage
<1>6. CASE prior # {}
  <2> DEFINE first == CHOOSE p \in prior : TRUE
             rows == UNION {Rows(stored, Ids(p.after)) : p \in prior}
             copy == [run |-> first, rows |-> rows]
  <2>1. At_(r, "done", copy) /\ UNCHANGED <<stored, runs>>
    BY <1>6 DEF applyRun
  <2>2. copy.rows = rows
    OBVIOUS
  <2>3. \A o \in rows : o.id \in blurred
    BY <1>1, ReplayRows
  <2> HIDE DEF copy, rows
  <2>4. \A o \in copy.rows : o.id \in Touched(r) \cup blurred'
    BY <2>2, <2>3
  <2> QED BY <1>1, <2>1, <2>4, KeysRunStage
<1> QED BY <1>5, <1>6

\* and undoRun,
LEMMA UndoKeys ==
    ASSUME Wholes, Keys, RequestsWhole, NEW r \in requests, undoRun(r), PageStill, blurred' = blurred
    PROVE  Keys'
<1> DEFINE back == {b \in r.body.before : \E a \in r.body.after : a.id = b.id /\ StillAs(a)}
           rows == Rows(stored', Ids(back))
           copy == [rows |-> rows]
<1>1. /\ r.kind = "undo" /\ IsRun(r) /\ runs' = runs /\ r.at = "sent" /\ left.tidies \in Int
      /\ stored' = WithShapes(back) /\ At_(r, "done", copy)
  BY DEF undoRun, IsRun, Wholes
<1>2. back \subseteq r.body.before /\ copy.rows = rows /\ Ids(back) \subseteq Ids(r.body.after)
  BY DEF Ids
<1> HIDE DEF back, copy
<1>3. StoreWhole /\ \A s \in back : ShapeWhole(s, DOMAIN stored)
  BY <1>1, <1>2 DEF Wholes, RequestGood, RunWhole
<1>4. \A id \in Ids(back) : RowFor(stored'[id], id)
  BY <1>1, <1>3, ShapesRows, IdsKnown
<1>5. \A o \in rows : o.id \in Ids(back)
  BY <1>4, RowsWhole
<1>6. Touched(r) = Ids(r.body.after)
  BY <1>1 DEF Touched
<1> HIDE DEF rows
<1>7. \A o \in copy.rows : o.id \in Touched(r) \cup blurred'
  BY <1>2, <1>5, <1>6
<1> QED BY <1>1, <1>7, KeysRunStage

\* and every step of the server.
LEMMA ServerKeys ==
    ASSUME Wholes, Keys, RequestsWhole, NEW r \in requests, serverStep(r), PageStill, blurred' = blurred
    PROVE  Keys'
<1>1. CASE applyRun(r)
  BY <1>1, ApplyKeys
<1>2. CASE undoRun(r)
  BY <1>2, UndoKeys
<1>3. CASE handleAlone(r) \/ readRow(r) \/ saveRow(r) \/ createRow(r) \/ handleFloor(r)
  <2>1. ~IsRun(r)
    BY <1>3 DEF handleAlone, readRow, saveRow, createRow, handleFloor, IsRun, Wholes, RequestGood
  <2>2. runs' = runs /\ \E at, copy : At_(r, at, copy)
    BY <1>3 DEF handleAlone, readRow, saveRow, createRow, handleFloor, serverVars
  <2> QED BY <2>1, <2>2, KeysStage
<1> QED BY <1>1, <1>2, <1>3 DEF serverStep

\* A run whose answer is lost leaves its objects blurred.
LEMMA LoseKeys ==
    ASSUME Wholes, Keys, RequestsWhole, NEW r \in requests, lose(r)
    PROVE  Keys'
<1>1. /\ At_(r, "refused", Nothing) /\ runs' = runs
      /\ UNCHANGED <<objects, runId, layout, phase, visit, ghost>>
      /\ left' = [left EXCEPT !.faults = @ - 1]
  BY DEF lose, pageVars, serverVars, canvasVars, tidyVars
<1>2. PageStill /\ left.tidies \in Int
  BY <1>1 DEF PageStill, Wholes
<1>3. blurred \subseteq blurred' /\ (r.at = "done" => Touched(r) \subseteq blurred')
  BY DEF lose
<1>4. CASE ~IsRun(r)
  BY <1>1, <1>2, <1>3, <1>4, KeysStage
<1>5. CASE IsRun(r)
  BY <1>1, <1>2, <1>3, <1>5, KeysRunStage
<1> QED BY <1>4, <1>5

\* Every answer keeps the keys: a run that was made ends its plan.
LEMMA AnswerKeys ==
    ASSUME Wholes, Keys, NEW r \in requests, answer(r)
    PROVE  Keys'
<1>1. runs' = runs /\ left' = left /\ UNCHANGED_answer
  BY DEF answer, UNCHANGED_answer, serverVars
<1>2. CASE settleBoundary(r) \/ answerStatus(r)
  BY <1>1, <1>2, AnswerKinds, KeysSaves
<1>3. CASE answerPatch(r) \/ answerDelete(r) \/ answerCreate(r)
  <2> DEFINE gone == {r}
             news == {}
  <2>1. /\ requests' = (requests \ gone) \cup news /\ blurred \subseteq blurred' /\ phase' = phase
        /\ \A q \in gone : ~IsRun(q)
        /\ \A q \in news : ~IsRun(q)
    BY <1>3 DEF answerPatch, answerDelete, answerCreate, tidyVars, IsRun
  <2> HIDE DEF gone, news
  <2> QED BY <1>1, <2>1, KeysOther
<1>4. CASE answerRun(r)
  <2>1. requests' = requests \ {r} /\ IsRun(r) /\ blurred' = blurred
    BY <1>4 DEF answerRun, IsRun
  <2>2. \A q \in requests' : ~IsRun(q) /\ q.kind # "tidy"
    BY <2>1 DEF Keys, IsRun
  <2>3. CASE r.at = "done"
    <3>1. phase' = "result"
      BY <1>4, <2>3 DEF answerRun
    <3> QED BY <1>1, <2>1, <2>2, <3>1 DEF Keys, EngineRuns
  <2>4. CASE r.at # "done"
    <3>1. phase' = phase
      BY <1>4, <2>4 DEF answerRun, tidyVars
    <3>2. \A run : Answered(run) => Answered(run)'
      BY <2>1, <2>4 DEF Answered
    <3> QED BY <1>1, <2>1, <2>2, <3>1, <3>2 DEF Keys, EngineRuns
  <2> QED BY <2>3, <2>4
<1> QED BY <1>2, <1>3, <1>4 DEF answer

(***************************************************************************)
(* The page and the server agree                                           *)
(***************************************************************************)
Server(row) == IF row.active THEN {row.object} ELSE {}

RowsFor(rows, id) == {o \in rows : o.id = id}

\* How far the one request about an object has come, and what is shown and stored then.
Held(r, id, shown, row) ==
    /\ r.at \in {"sent", "done", "refused"}
    /\ r.kind = "patch" =>
         IF r.at = "done" THEN shown = Server(row)
         ELSE /\ row.active
              /\ shown = {With(row.object, r.body)}
              /\ r.prev = [f \in DOMAIN r.body |-> row.object[f]]
    /\ r.kind = "delete" => IF r.at = "done" THEN ~row.active ELSE shown = Server(row)
    /\ r.kind = "create" => shown = {} /\ Server(row) = {r.copy}
    /\ IsRun(r) => IF r.at = "done" /\ RowsFor(r.copy.rows, id) # {}
                   THEN shown # {} /\ Server(row) = RowsFor(r.copy.rows, id)
                   ELSE shown = Server(row)

AgreeAt(flight, id, shown, row) ==
    /\ \A r, q \in flight : r = q
    /\ flight = {} => shown = Server(row)
    /\ \A r \in flight : Held(r, id, shown, row)

Agree == \A id \in DOMAIN stored \ blurred : AgreeAt(InFlight(id), id, Of(objects, id), stored[id])

\* With no request about an object in flight, Agree is what ScreenIsStored says.
LEMMA AgreeShows ==
    ASSUME Agree
    PROVE  ScreenIsStored
BY DEF Agree, AgreeAt, ScreenIsStored, OnScreen, OnServer, Of, Server

\* A request about the room or the status touches no object.
LEMMA PlainTouches ==
    ASSUME NEW r, r.kind \in {"floor", "publish", "unpublish"} \/ (r.kind = "create" /\ r.at # "done")
    PROVE  Touched(r) = {}
BY DEF Touched

\* Whatever touches an object is one of these.
LEMMA Touching ==
    ASSUME NEW r, NEW id \in Touched(r)
    PROVE  \/ r.kind \in {"patch", "delete"} /\ id = r.id
           \/ IsRun(r)
           \/ IsNew(r) /\ id = r.copy.id
<1>1. CASE r.kind \in {"patch", "delete"}
  BY <1>1 DEF Touched
<1>2. CASE r.kind \in {"tidy", "undo"}
  BY <1>2 DEF IsRun
<1>3. CASE r.kind \notin {"patch", "delete", "tidy", "undo"}
  <2>1. Touched(r) = IF r.kind = "create" /\ r.at = "done" THEN {r.copy.id} ELSE {}
    BY <1>3 DEF Touched
  <2> QED BY <2>1 DEF IsNew
<1> QED BY <1>1, <1>2, <1>3

\* What a request touches is stored.
LEMMA TouchedKnown ==
    ASSUME Wholes, NEW r \in requests
    PROVE  Touched(r) \subseteq DOMAIN stored
<1> SUFFICES ASSUME NEW id \in Touched(r) PROVE id \in DOMAIN stored
  OBVIOUS
<1>1. RequestGood(r, DOMAIN stored, IdsOf(objects))
  BY DEF Wholes
<1>2. CASE r.kind \in {"patch", "delete"} /\ id = r.id
  BY <1>1, <1>2 DEF RequestGood
<1>3. CASE IsNew(r) /\ id = r.copy.id
  BY <1>1, <1>3 DEF RequestGood
<1>4. CASE r.kind = "tidy"
  BY <1>1, <1>4 DEF RequestGood, Touched, Ids, OpWhole
<1>5. CASE r.kind = "undo"
  BY <1>1, <1>5 DEF RequestGood, Touched, Ids, RunWhole, ShapeWhole
<1> QED BY <1>2, <1>3, <1>4, <1>5, Touching DEF IsRun

\* An object of the page that has no flag, and is saved beside nothing, has no request
\* in flight.
LEMMA NothingElse ==
    ASSUME Wholes, SavingIsTold, NEW id \in IdsOf(objects), id \notin blurred,
           NEW op, id \in saving => op = "details",
           NEW r, NEW news, r \in news, r.op = op, id \in Touched(r), id \notin Beside(news)
    PROVE  InFlight(id) = {}
<1> SUFFICES ASSUME NEW q \in InFlight(id) PROVE FALSE
  OBVIOUS
<1>1. q \in requests /\ id \in Touched(q) /\ RequestGood(q, DOMAIN stored, IdsOf(objects))
  BY DEF InFlight, Wholes
<1>2. id \in UNION {Touched(k) : k \in news}
  OBVIOUS
<1>3. r.op \notin {"details", "delete", "tidy"} /\ q.op \notin {"details", "delete", "tidy"}
  BY <1>2 DEF Beside
<1>4. id \notin saving
  BY <1>3
<1>5. CASE q.kind = "patch" /\ id = q.id
  BY <1>1, <1>4, <1>5 DEF SavingIsTold
<1>6. CASE q.kind = "delete"
  BY <1>1, <1>3, <1>6 DEF RequestGood
<1>7. CASE IsRun(q)
  BY <1>1, <1>3, <1>7 DEF RequestGood
<1>8. CASE IsNew(q) /\ id = q.copy.id
  BY <1>1, <1>8 DEF RequestGood
<1> QED BY <1>1, <1>5, <1>6, <1>7, <1>8, Touching

\* Saves keep the agreement: the change is shown, and the request can take it back.
LEMMA SavesAgree ==
    ASSUME Wholes, SavingIsTold, Agree, NEW go, NEW op, NEW gone, SavesMade(go, op, gone)
    PROVE  Agree'
<1> DEFINE news == {SaveOf(m, op) : m \in go}
<1>1. /\ \A m \in go : /\ MoveWhole(m, Len(objects)) /\ m.id \in IdsOf(objects)
                       /\ m.id \in saving => op = "details"
      /\ requests' = (requests \ gone) \cup news
      /\ blurred' = blurred \cup Beside(news)
      /\ objects' = Patched(objects, go) /\ stored' = stored
      /\ \A q \in gone : Touched(q) = {}
  BY PlainTouches DEF SavesMade, Still
<1>2. \A r \in news : \E m \in go : r = SaveOf(m, op)
  OBVIOUS
<1>3. \A m \in go : SaveOf(m, op) \in news
  OBVIOUS
<1> HIDE DEF news
<1>4. \A m \in go : LET r == SaveOf(m, op)
                    IN  /\ r.kind = "patch" /\ r.op = op /\ r.id = m.id /\ r.at = "sent"
                        /\ r.body = m.patch /\ r.prev = Before(m.id, m.patch)
                        /\ Touched(r) = {m.id}
  BY SaveFields, PatchTouches
<1>5. DOMAIN objects' = DOMAIN objects /\ Len(objects) \in Nat
  BY <1>1, PageObjects DEF Patched
<1>6. ASSUME NEW i \in DOMAIN objects
      PROVE  \/ /\ \A m \in go : m.id # objects[i].id
                /\ objects'[i] = objects[i]
             \/ \E m \in go : m.id = objects[i].id /\ objects'[i] = With(objects[i], m.patch)
  BY <1>1, <1>5, PatchedPlace
<1>7. Listed(objects, DOMAIN stored)
  BY DEF Wholes
<1>8. \A i \in DOMAIN objects : objects'[i].id = objects[i].id
  <2>1. \A i \in DOMAIN objects : Whole(objects[i])
    BY <1>7 DEF Listed
  <2>2. \A m \in go : DOMAIN m.patch \subseteq ShapeFields
    BY <1>1 DEF MoveWhole
  <2> QED BY <1>6, <2>1, <2>2, PatchKeeps
<1>9. ASSUME NEW id \in DOMAIN stored, id \notin blurred'
      PROVE  AgreeAt(InFlight(id), id, Of(objects, id), stored[id])'
  <2>1. AgreeAt(InFlight(id), id, Of(objects, id), stored[id])
    BY <1>1, <1>9 DEF Agree
  <2>2. InFlight(id)' = {r \in (requests \ gone) \cup news : id \in Touched(r)}
    BY <1>1 DEF InFlight
  <2>3. CASE \A m \in go : m.id # id
    <3>1. InFlight(id)' = InFlight(id)
      BY <1>1, <1>2, <1>4, <2>2, <2>3 DEF InFlight
    <3>2. Of(objects', id) = Of(objects, id)
      BY <1>5, <1>6, <1>8, <2>3, OthersShown
    <3> QED BY <1>1, <2>1, <3>1, <3>2
  <2>4. ASSUME NEW m \in go, m.id = id
        PROVE  AgreeAt(InFlight(id), id, Of(objects, id), stored[id])'
    <3> DEFINE r == SaveOf(m, op)
    <3>1. /\ r \in news /\ r.kind = "patch" /\ r.op = op /\ r.id = id /\ r.at = "sent"
          /\ r.body = m.patch /\ r.prev = Before(id, m.patch) /\ Touched(r) = {id}
      BY <1>3, <1>4, <2>4
    <3> HIDE DEF r
    <3>2. id \in IdsOf(objects) /\ id \notin blurred /\ (id \in saving => op = "details")
          /\ id \notin Beside(news)
      BY <1>1, <1>9, <2>4
    <3>3. InFlight(id) = {}
      BY <3>1, <3>2, NothingElse
    <3>4. \A q \in news : id \in Touched(q) => q = r
      BY <3>1, <3>2 DEF Beside
    <3>5. InFlight(id)' = {r}
      BY <2>2, <3>1, <3>3, <3>4 DEF InFlight
    <3>6. Of(objects, id) = {ObjectOf(id)} /\ Of(objects, id) = Server(stored[id])
      BY <2>1, <3>2, <3>3, PageObject DEF AgreeAt
    <3>7. stored[id].active /\ stored[id].object = ObjectOf(id)
      BY <3>6 DEF Server
    <3>8. PICK i \in DOMAIN objects : objects[i].id = id
      BY <3>2 DEF IdsOf
    <3>9. objects[i] = ObjectOf(id) /\ Of(objects', id) = {objects'[i]}
      <4>1. Of(objects', objects[i].id) = {objects'[i]} /\ Of(objects, objects[i].id) = {objects[i]}
        <5>1. DOMAIN objects' = DOMAIN objects
          BY <1>5
        <5> QED BY ONLY <5>1, <1>7, <1>8, <3>8 DEF Listed, Of, ToSet
      <4> QED BY <3>6, <3>8, <4>1
    <3>10. objects'[i] = With(ObjectOf(id), m.patch)
      <4>1. PICK k \in go : k.id = id /\ objects'[i] = With(objects[i], k.patch)
        BY <1>6, <2>4, <3>8
      <4>2. SaveOf(k, op) = r
        BY <1>3, <1>4, <3>4, <4>1
      <4>3. k.patch = m.patch
        BY <1>4, <3>1, <4>2
      <4> QED BY <3>9, <4>1, <4>3
    <3>11. r.prev = [f \in DOMAIN r.body |-> stored[id].object[f]]
      BY <3>1, <3>7 DEF Before
    <3>12. Held(r, id, Of(objects', id), stored[id])
      BY <3>1, <3>7, <3>9, <3>10, <3>11 DEF Held, IsRun
    <3> QED BY <1>1, <3>5, <3>12 DEF AgreeAt
  <2> QED BY <2>3, <2>4
<1> QED BY <1>1, <1>9 DEF Agree

\* Other requests keep it: nothing is shown or stored yet.
LEMMA SendsAgree ==
    ASSUME Wholes, Agree, NEW news, Sends(news)
    PROVE  Agree'
<1>1. /\ requests' = requests \cup news /\ blurred' = blurred \cup Beside(news)
      /\ objects' = objects /\ stored' = stored
  BY DEF Sends, Send, Still
<1>2. \A r \in news : /\ r.at = "sent" /\ r.kind # "patch"
                      /\ RequestGood(r, DOMAIN stored, IdsOf(objects))
  BY DEF Sends
<1>3. ASSUME NEW id \in DOMAIN stored, id \notin blurred'
      PROVE  AgreeAt(InFlight(id), id, Of(objects, id), stored[id])'
  <2>1. AgreeAt(InFlight(id), id, Of(objects, id), stored[id])
    BY <1>1, <1>3 DEF Agree
  <2>2. CASE \A r \in news : id \notin Touched(r)
    <3>1. InFlight(id)' = InFlight(id)
      BY <1>1, <2>2 DEF InFlight
    <3> QED BY <1>1, <2>1, <3>1
  <2>3. ASSUME NEW r \in news, id \in Touched(r)
        PROVE  AgreeAt(InFlight(id), id, Of(objects, id), stored[id])'
    <3>1. (r.kind = "delete" /\ r.op = "delete") \/ (IsRun(r) /\ r.op = "tidy")
      BY <1>2, <2>3, Touching DEF RequestGood, IsNew
    <3>2. id \notin Beside(news) /\ id \in UNION {Touched(q) : q \in news}
      BY <1>1, <1>3, <2>3
    <3>3. InFlight(id) = {} /\ \A q \in news : id \in Touched(q) => q = r
      BY <2>3, <3>1, <3>2 DEF Beside
    <3>4. InFlight(id)' = {r}
      BY <1>1, <2>3, <3>3 DEF InFlight
    <3>5. Of(objects, id) = Server(stored[id])
      BY <2>1, <3>3 DEF AgreeAt
    <3>6. Held(r, id, Of(objects, id), stored[id])
      BY <1>2, <3>1, <3>5 DEF Held, IsRun
    <3> QED BY <1>1, <3>4, <3>6 DEF AgreeAt
  <2> QED BY <2>2, <2>3
<1> QED BY <1>1, <1>3 DEF Agree

\* A step that changes neither side keeps it.
LEMMA QuietAgree ==
    ASSUME Agree, UNCHANGED <<objects, stored, requests, blurred>>
    PROVE  Agree'
<1>1. \A id : InFlight(id)' = InFlight(id)
  BY DEF InFlight
<1> QED BY <1>1 DEF Agree

\* A request goes on: objects it does not touch are left alone, and of those it touches
\* it is the only one.
LEMMA StagesAgree ==
    ASSUME RequestsWhole, Agree, NEW r \in requests, NEW at, NEW copy, At_(r, at, copy),
           objects' = objects, DOMAIN stored' = DOMAIN stored, blurred \subseteq blurred',
           \/ r.kind # "create"
           \/ at # "done" /\ (r.at # "done" \/ Touched(r) \subseteq blurred'),
           \A id \in DOMAIN stored \ blurred' :
              id \notin Touched(r) => stored'[id] = stored[id],
           \A id \in (DOMAIN stored \ blurred') \cap Touched(r) : \A next :
              /\ next.kind = r.kind /\ next.body = r.body /\ next.prev = r.prev
              /\ next.at = at /\ next.copy = copy
              /\ InFlight(id) = {r} /\ Held(r, id, Of(objects, id), stored[id])
              => Held(next, id, Of(objects, id), stored'[id])
    PROVE  Agree'
<1> DEFINE next == [r EXCEPT !.at = at, !.copy = copy]
<1>1. requests' = (requests \ {r}) \cup {next} /\ next = [r EXCEPT !.at = at, !.copy = copy]
  BY DEF At_
<1> HIDE DEF next
<1>2. /\ next.kind = r.kind /\ next.id = r.id /\ next.op = r.op
      /\ next.at = at /\ next.copy = copy /\ next.body = r.body /\ next.prev = r.prev
  BY <1>1 DEF RequestsWhole, WholeRequest
<1>3. ASSUME NEW id \in DOMAIN stored, id \notin blurred'
      PROVE  AgreeAt(InFlight(id), id, Of(objects, id), stored[id])'
  <2>1. AgreeAt(InFlight(id), id, Of(objects, id), stored[id]) /\ id \notin blurred
    BY <1>3 DEF Agree
  <2>2. id \in Touched(next) <=> id \in Touched(r)
    <3>1. CASE r.kind # "create"
      BY <1>2, <3>1, TouchedStays
    <3>2. CASE r.kind = "create" /\ at # "done"
      <4>1. Touched(next) = {}
        BY <1>2, <3>2, PlainTouches
      <4>2. Touched(r) = {} \/ Touched(r) \subseteq blurred'
        BY <3>2, PlainTouches
      <4> QED BY <1>3, <4>1, <4>2
    <3> QED BY <3>1, <3>2
  <2>3. CASE id \notin Touched(r)
    <3>1. InFlight(id)' = InFlight(id)
      BY <1>1, <2>2, <2>3 DEF InFlight
    <3> QED BY <1>3, <2>1, <2>3, <3>1
  <2>4. CASE id \in Touched(r)
    <3>1. InFlight(id) = {r} /\ Held(r, id, Of(objects, id), stored[id])
      BY <2>1, <2>4 DEF InFlight, AgreeAt
    <3>2. Held(next, id, Of(objects, id), stored'[id])
      BY <1>2, <1>3, <2>4, <3>1
    <3>3. InFlight(id)' = {next}
      BY <1>1, <2>2, <2>4, <3>1 DEF InFlight
    <3> QED BY <3>2, <3>3 DEF AgreeAt
  <2> QED BY <2>3, <2>4
<1> QED BY <1>3 DEF Agree

\* An answer is taken.
LEMMA AnswersAgree ==
    ASSUME Agree, NEW r \in requests, requests' = requests \ {r},
           stored' = stored, blurred' = blurred,
           \A id \in DOMAIN stored \ blurred :
              id \notin Touched(r) => Of(objects', id) = Of(objects, id),
           \A id \in (DOMAIN stored \ blurred) \cap Touched(r) :
              Held(r, id, Of(objects, id), stored[id]) => Of(objects', id) = Server(stored[id])
    PROVE  Agree'
<1> SUFFICES ASSUME NEW id \in DOMAIN stored, id \notin blurred
             PROVE  AgreeAt(InFlight(id), id, Of(objects, id), stored[id])'
  BY DEF Agree
<1>1. AgreeAt(InFlight(id), id, Of(objects, id), stored[id])
  BY DEF Agree
<1>2. CASE id \notin Touched(r)
  <2>1. InFlight(id)' = InFlight(id)
    BY <1>2 DEF InFlight
  <2> QED BY <1>1, <1>2, <2>1
<1>3. CASE id \in Touched(r)
  <2>1. InFlight(id) = {r} /\ Held(r, id, Of(objects, id), stored[id])
    BY <1>1, <1>3 DEF InFlight, AgreeAt
  <2>2. InFlight(id)' = {}
    BY <2>1 DEF InFlight
  <2>3. Of(objects', id) = Server(stored[id])
    BY <1>3, <2>1
  <2> QED BY <2>2, <2>3 DEF AgreeAt
<1> QED BY <1>2, <1>3

(***************************************************************************)
(* The server's steps keep the agreement                                   *)
(***************************************************************************)
\* The view of the one request about an object writes what the page shows, or refuses.
LEMMA AloneAgree ==
    ASSUME Wholes, RequestsWhole, Agree, NEW r \in requests, handleAlone(r), PageStill,
           blurred' = blurred
    PROVE  Agree'
<1>1. /\ r.kind \in {"patch", "delete"} /\ r.id \in DOMAIN stored /\ Touched(r) = {r.id}
      /\ objects' = objects /\ r.at = "sent"
  BY DEF handleAlone, Wholes, RequestGood, Touched, PageStill
<1> DEFINE row == stored[r.id]
<1>2. CASE row.active
  <2>1. At_(r, "done", Nothing) /\ stored' = [stored EXCEPT ![r.id] = Saved(r, row)]
    BY <1>2 DEF handleAlone
  <2>2. DOMAIN stored' = DOMAIN stored /\ \A id \in DOMAIN stored : id # r.id => stored'[id] = stored[id]
    BY <2>1
  <2>3. stored'[r.id] = Saved(r, row)
    BY <1>1, <2>1
  <2>4. /\ r.kind = "patch" => Server(Saved(r, row)) = {With(row.object, r.body)}
        /\ r.kind = "delete" => ~Saved(r, row).active
    BY <1>2 DEF Server, Saved
  <2> HIDE DEF row
  <2>5. ASSUME NEW next, next.kind = r.kind, next.body = r.body, next.prev = r.prev,
               next.at = "done", NEW shown, Held(r, r.id, shown, row)
        PROVE  Held(next, r.id, shown, stored'[r.id])
    BY <1>1, <2>3, <2>4, <2>5 DEF Held, IsRun
  <2> QED BY <1>1, <2>1, <2>2, <2>5, StagesAgree DEF row
<1>3. CASE ~row.active
  <2>1. At_(r, "refused", Nothing) /\ stored' = stored
    BY <1>3 DEF handleAlone
  <2> HIDE DEF row
  <2>2. ASSUME NEW next, next.kind = r.kind, next.body = r.body, next.prev = r.prev,
               next.at = "refused", NEW shown, Held(r, r.id, shown, row)
        PROVE  Held(next, r.id, shown, row)
    BY <1>1, <1>3, <2>2 DEF Held, IsRun
  <2> QED BY <1>1, <2>1, <2>2, StagesAgree DEF row
<1> QED BY <1>2, <1>3

\* A view that works on a copy is one of several about the object.
LEMMA CopyAgree ==
    ASSUME Wholes, RequestsWhole, Agree, NEW r \in requests, readRow(r) \/ saveRow(r), PageStill,
           blurred' = blurred
    PROVE  Agree'
<1>1. /\ r.kind \in {"patch", "delete"} /\ Touched(r) = {r.id} /\ objects' = objects
  BY DEF readRow, saveRow, Wholes, RequestGood, Touched, PageStill
<1>2. CASE readRow(r)
  <2>1. stored' = stored /\ InFlight(r.id) # {r}
    BY <1>2 DEF readRow, serverVars
  <2>2. At_(r, "read", stored[r.id]) \/ At_(r, "refused", Nothing)
    BY <1>2 DEF readRow
  <2> QED BY <1>1, <2>1, <2>2, StagesAgree
<1>3. CASE saveRow(r)
  <2>1. /\ stored' = [stored EXCEPT ![r.id] = Saved(r, r.copy)] /\ At_(r, "done", Nothing)
        /\ r.at = "read"
    BY <1>3 DEF saveRow
  <2>2. DOMAIN stored' = DOMAIN stored /\ \A id \in DOMAIN stored : id # r.id => stored'[id] = stored[id]
    BY <2>1
  <2>3. \A id, shown, held : ~Held(r, id, shown, held)
    BY <2>1 DEF Held
  <2> QED BY <1>1, <2>1, <2>2, <2>3, StagesAgree
<1> QED BY <1>2, <1>3

\* A new row is one that the page does not show yet.
LEMMA CreateAgree ==
    ASSUME Wholes, RequestsWhole, Agree, NEW r \in requests, createRow(r), PageStill,
           blurred' = blurred
    PROVE  Agree'
<1> DEFINE new == [r.body EXCEPT !.id = 1 + Cardinality(DOMAIN stored)]
<1>1. Whole(r.body) /\ r.kind = "create" /\ r.at = "sent" /\ objects' = objects
  BY DEF createRow, Wholes, RequestGood, PageStill
<1>2. Whole(new) /\ new.id = 1 + Cardinality(DOMAIN stored)
  <2> DEFINE n == 1 + Cardinality(DOMAIN stored)
  <2> HIDE DEF n
  <2>1. Whole([r.body EXCEPT !.id = n]) /\ [r.body EXCEPT !.id = n].id = n
    BY <1>1 DEF Whole, HasFields, ObjectFields, ShapeFields
  <2> QED BY <2>1 DEF n
<1>3. /\ stored' = [id \in {new.id} \cup DOMAIN stored |->
                      IF id = new.id THEN [object |-> new, active |-> TRUE] ELSE stored[id]]
      /\ At_(r, "done", new)
  BY DEF createRow
<1> HIDE DEF new
<1>4. new.id \notin DOMAIN stored
  BY <1>2, <1>3, NewRow DEF Wholes
<1>5. new.id \notin IdsOf(objects)
  BY <1>4, PageObject
<1> DEFINE next == [r EXCEPT !.at = "done", !.copy = new]
<1>6. requests' = (requests \ {r}) \cup {next} /\ next = [r EXCEPT !.at = "done", !.copy = new]
  BY <1>3 DEF At_
<1> HIDE DEF next
<1>7. next.kind = "create" /\ next.at = "done" /\ next.copy = new
  BY <1>1, <1>6 DEF RequestsWhole, WholeRequest
<1>8. Touched(r) = {} /\ Touched(next) = {new.id}
  <2>1. Touched(r) = {}
    BY <1>1, PlainTouches
  <2> QED BY <1>7, <2>1 DEF Touched
<1>9. ASSUME NEW id \in DOMAIN stored', id \notin blurred'
      PROVE  AgreeAt(InFlight(id), id, Of(objects, id), stored[id])'
  <2>1. CASE id # new.id
    <3>1. id \in DOMAIN stored /\ stored'[id] = stored[id] /\ id \notin blurred
      BY <1>3, <1>9, <2>1
    <3>2. InFlight(id)' = InFlight(id)
      BY <1>6, <1>8, <2>1 DEF InFlight
    <3> QED BY <1>1, <3>1, <3>2 DEF Agree
  <2>2. CASE id = new.id
    <3>1. \A q \in requests : id \notin Touched(q)
      BY <1>4, <2>2, TouchedKnown
    <3>2. InFlight(id)' = {next}
      BY <1>6, <1>8, <2>2, <3>1 DEF InFlight
    <3>3. Of(objects, id) = {}
      BY <1>5, <2>2 DEF Of, IdsOf, ToSet
    <3>4. Server(stored'[id]) = {new}
      BY <1>3, <2>2 DEF Server
    <3>5. Held(next, id, Of(objects, id), stored'[id])
      BY <1>7, <3>3, <3>4 DEF Held, IsRun
    <3> QED BY <1>1, <3>2, <3>5 DEF AgreeAt
  <2> QED BY <2>1, <2>2
<1> QED BY <1>9 DEF Agree

\* A run writes shapes of objects that are there, and answers with their rows.
LEMMA ShapesAgree ==
    ASSUME Wholes, RequestsWhole, Agree, NEW r \in requests, IsRun(r), r.at = "sent",
           NEW S, \A s \in S : ShapeWhole(s, DOMAIN stored) /\ stored[s.id].active,
           Ids(S) \subseteq Touched(r), stored' = WithShapes(S),
           NEW copy, copy.rows = Rows(stored', Ids(S)), At_(r, "done", copy),
           PageStill, blurred' = blurred
    PROVE  Agree'
<1>1. /\ DOMAIN stored' = DOMAIN stored
      /\ \A id \in DOMAIN stored :
            /\ RowFor(stored'[id], id) /\ stored'[id].active = stored[id].active
            /\ id \notin Ids(S) => stored'[id] = stored[id]
  BY ShapesRows DEF Wholes
<1>2. Ids(S) \subseteq DOMAIN stored /\ \A id \in Ids(S) : stored[id].active
  BY IdsKnown DEF Ids
<1>3. objects' = objects /\ r.kind # "create"
  BY DEF PageStill, IsRun
<1>4. ASSUME NEW id \in DOMAIN stored, NEW next, next.kind = r.kind, next.at = "done", next.copy = copy,
             NEW shown, Held(r, id, shown, stored[id])
      PROVE  Held(next, id, shown, stored'[id])
  <2>1. shown = Server(stored[id]) /\ IsRun(next)
    BY <1>4 DEF Held, IsRun
  <2>2. CASE id \in Ids(S)
    <3>1. RowsFor(copy.rows, id) = {stored'[id].object}
      <4>1. \A k \in Ids(S) : stored'[k].object.id = k
        BY <1>1, <1>2 DEF RowFor
      <4> QED BY <2>2, <4>1 DEF RowsFor, Rows
    <3>2. shown # {} /\ Server(stored'[id]) = {stored'[id].object}
      BY <1>1, <1>2, <2>1, <2>2 DEF Server
    <3> QED BY <1>4, <2>1, <3>1, <3>2 DEF Held, IsRun
  <2>3. CASE id \notin Ids(S)
    <3>1. RowsFor(copy.rows, id) = {} /\ stored'[id] = stored[id]
      <4>1. \A k \in Ids(S) : stored'[k].object.id = k
        BY <1>1, <1>2 DEF RowFor
      <4> QED BY <1>1, <2>3, <4>1 DEF RowsFor, Rows
    <3> QED BY <1>4, <2>1, <3>1 DEF Held, IsRun
  <2> QED BY <2>2, <2>3
<1> QED BY <1>1, <1>3, <1>4, StagesAgree

\* A run, or the replay of one, keeps the agreement,
LEMMA ApplyAgree ==
    ASSUME Wholes, Keys, RequestsWhole, Agree, NEW r \in requests, applyRun(r), PageStill,
           blurred' = blurred
    PROVE  Agree'
<1>1. r.kind = "tidy" /\ IsRun(r) /\ r.at = "sent" /\ objects' = objects
  BY DEF applyRun, IsRun, PageStill
<1>2. \A c \in r.body.plan : OpWhole(c, DOMAIN stored)
  BY <1>1 DEF Wholes, RequestGood
<1> DEFINE run == RunOf(r)
           prior == {p \in runs : p.key = r.body.key}
<1>3. CASE prior = {}
  <2> DEFINE copy == [run |-> run, rows |-> Rows(stored', Ids(run.after))]
  <2>1. stored' = WithShapes(run.after) /\ At_(r, "done", copy)
    BY <1>3 DEF applyRun
  <2>2. copy.rows = Rows(stored', Ids(run.after))
    OBVIOUS
  <2>3. Ids(run.after) \subseteq Touched(r)
    BY <1>1, <1>2, RunTouches
  <2>4. \A s \in run.after : ShapeWhole(s, DOMAIN stored)
    BY <1>2, RunShapes DEF RunWhole
  <2>5. \A s \in run.after : stored[s.id].active
    <3> DEFINE fresh == {c \in r.body.plan : StillAs(Named(c.id, c.before))}
    <3>1. run.after = {Named(c.id, c.after) : c \in fresh}
      BY DEF RunOf
    <3>2. \A c \in fresh : OpWhole(c, DOMAIN stored) /\ StillAs(Named(c.id, c.before))
      BY <1>2
    <3> HIDE DEF fresh, run
    <3>3. \A c \in fresh : stored[Named(c.id, c.after).id].active
      <4>1. \A c \in fresh : Named(c.id, c.after).id = c.id /\ Named(c.id, c.before).id = c.id
        BY <3>2, NamedFields DEF OpWhole
      <4> QED BY <3>2, <4>1 DEF StillAs
    <3> QED BY <3>1, <3>3
  <2> HIDE DEF run, copy
  <2> QED BY <1>1, <2>1, <2>2, <2>3, <2>4, <2>5, ShapesAgree
<1>4. CASE prior # {}
  <2> DEFINE first == CHOOSE p \in prior : TRUE
             rows == UNION {Rows(stored, Ids(p.after)) : p \in prior}
             copy == [run |-> first, rows |-> rows]
  <2>1. At_(r, "done", copy) /\ stored' = stored
    BY <1>4 DEF applyRun
  <2>2. copy.rows = rows
    OBVIOUS
  <2>3. \A o \in rows : o.id \in blurred
    BY <1>1, ReplayRows
  <2> HIDE DEF copy, rows
  <2>4. ASSUME NEW id, id \notin blurred', NEW next, next.kind = r.kind, next.at = "done",
               next.copy = copy, NEW shown, Held(r, id, shown, stored[id])
        PROVE  Held(next, id, shown, stored'[id])
    <3>1. RowsFor(copy.rows, id) = {}
      BY <2>2, <2>3, <2>4 DEF RowsFor
    <3> QED BY <1>1, <2>1, <2>4, <3>1 DEF Held, IsRun
  <2> QED BY <1>1, <2>1, <2>4, StagesAgree
<1> QED BY <1>3, <1>4

\* so does taking one back,
LEMMA UndoAgree ==
    ASSUME Wholes, RequestsWhole, Agree, NEW r \in requests, undoRun(r), PageStill,
           blurred' = blurred
    PROVE  Agree'
<1> DEFINE back == {b \in r.body.before : \E a \in r.body.after : a.id = b.id /\ StillAs(a)}
           copy == [rows |-> Rows(stored', Ids(back))]
<1>1. /\ r.kind = "undo" /\ IsRun(r) /\ r.at = "sent"
      /\ stored' = WithShapes(back) /\ At_(r, "done", copy)
  BY DEF undoRun, IsRun
<1>2. copy.rows = Rows(stored', Ids(back))
  OBVIOUS
<1>3. \A b \in back : b \in r.body.before /\ stored[b.id].active
  BY DEF StillAs
<1>4. Ids(back) \subseteq Touched(r)
  <2>1. Ids(back) \subseteq Ids(r.body.after)
    BY DEF Ids
  <2>2. Touched(r) = Ids(r.body.after)
    BY <1>1 DEF Touched
  <2> QED BY <2>1, <2>2
<1> HIDE DEF back, copy
<1>5. \A s \in back : ShapeWhole(s, DOMAIN stored)
  BY <1>1, <1>3 DEF Wholes, RequestGood, RunWhole
<1> QED BY <1>1, <1>2, <1>3, <1>4, <1>5, ShapesAgree

\* and every step of the server.
LEMMA ServerAgree ==
    ASSUME Wholes, Keys, RequestsWhole, Agree, NEW r \in requests, serverStep(r), PageStill,
           blurred' = blurred
    PROVE  Agree'
<1>1. CASE handleFloor(r)
  <2>1. stored' = stored /\ At_(r, "done", Nothing) /\ r.kind \in {"floor", "publish", "unpublish"}
    BY <1>1 DEF handleFloor
  <2>2. Touched(r) = {} /\ objects' = objects
    BY <2>1, PlainTouches DEF PageStill
  <2> QED BY <2>1, <2>2, StagesAgree
<1> QED BY <1>1, AloneAgree, CopyAgree, CreateAgree, ApplyAgree, UndoAgree DEF serverStep

\* A connection that is lost before the server acts leaves a refusal to be taken.
LEMMA LoseAgree ==
    ASSUME Wholes, RequestsWhole, Agree, NEW r \in requests, lose(r)
    PROVE  Agree'
<1>1. At_(r, "refused", Nothing) /\ stored' = stored /\ objects' = objects
  BY DEF lose, pageVars, serverVars
<1>2. /\ blurred \subseteq blurred' /\ r.at \in {"sent", "done"}
      /\ r.at = "done" => Touched(r) \subseteq blurred'
  BY DEF lose
<1>3. ASSUME NEW id \in Touched(r), id \notin blurred', NEW next, next.kind = r.kind,
             next.body = r.body, next.prev = r.prev, next.at = "refused",
             NEW shown, NEW row, Held(r, id, shown, row)
      PROVE  Held(next, id, shown, row)
  <2>1. r.at = "sent" /\ r.kind # "create"
    <3>1. r.at = "sent"
      BY <1>2, <1>3
    <3> QED BY <1>3, <3>1, PlainTouches
  <2> QED BY <1>3, <2>1 DEF Held, IsRun
<1> QED BY <1>1, <1>2, <1>3, StagesAgree

(***************************************************************************)
(* The answers keep the agreement                                          *)
(***************************************************************************)
\* The answer to a save: kept, or every field it changed put back as it is stored.
LEMMA PatchAgree ==
    ASSUME Wholes, Agree, NEW r \in requests, answerPatch(r), r.at \in {"done", "refused"},
           stored' = stored
    PROVE  Agree'
<1>1. /\ r.kind = "patch" /\ requests' = requests \ {r} /\ blurred' = blurred
      /\ Touched(r) = {r.id} /\ objects' = RolledBack(r)
  BY PatchTouches DEF answerPatch
<1>2. /\ Listed(objects, DOMAIN stored) /\ r.id \in DOMAIN stored
      /\ DOMAIN r.body \subseteq ShapeFields /\ DOMAIN r.prev = DOMAIN r.body
      /\ RowFor(stored[r.id], r.id)
  BY <1>1 DEF Wholes, RequestGood, StoreWhole
<1>3. CASE r.at = "done"
  <2>1. objects' = objects
    BY <1>1, <1>3 DEF RolledBack
  <2>2. \A shown, row : Held(r, r.id, shown, row) => shown = Server(row)
    BY <1>1, <1>3 DEF Held
  <2> QED BY <1>1, <2>1, <2>2, AnswersAgree
<1>4. CASE r.at = "refused"
  <2>1. /\ DOMAIN objects' = DOMAIN objects
        /\ \A i \in DOMAIN objects : objects'[i] = IF objects[i].id = r.id THEN With(objects[i], r.prev)
                                                   ELSE objects[i]
    BY <1>1, <1>4 DEF RolledBack, patchObject
  <2>2. \A i \in DOMAIN objects : objects'[i].id = objects[i].id
    <3>1. \A i \in DOMAIN objects : Whole(objects[i])
      BY <1>2 DEF Listed
    <3> QED BY <1>2, <2>1, <3>1, PatchKeeps
  <2>3. \A id : id # r.id => Of(objects', id) = Of(objects, id)
    BY <2>1, <2>2, OthersShown
  <2>4. ASSUME Held(r, r.id, Of(objects, r.id), stored[r.id])
        PROVE  Of(objects', r.id) = Server(stored[r.id])
    <3> DEFINE o == stored[r.id].object
    <3>1. /\ stored[r.id].active /\ Of(objects, r.id) = {With(o, r.body)}
          /\ r.prev = [f \in DOMAIN r.body |-> o[f]]
      BY <1>1, <1>4, <2>4 DEF Held
    <3>2. PICK i \in DOMAIN objects : objects[i].id = r.id /\ objects[i] = With(o, r.body)
      BY <3>1 DEF Of, ToSet
    <3>3. Of(objects', objects[i].id) = {objects'[i]}
      <4>1. DOMAIN objects' = DOMAIN objects
        BY <2>1
      <4> QED BY ONLY <4>1, <1>2, <2>2, <3>2 DEF Listed, Of, ToSet
    <3>4. objects'[i] = With(With(o, r.body), r.prev)
      BY <2>1, <3>2
    <3>5. Whole(o)
      BY <1>2 DEF RowFor
    <3> HIDE DEF o
    <3>6. objects'[i] = o
      BY <1>2, <3>1, <3>4, <3>5, PatchUndone
    <3> QED BY <3>1, <3>2, <3>3, <3>6 DEF Server, o
  <2> QED BY <1>1, <2>3, <2>4, AnswersAgree
<1> QED BY <1>3, <1>4

\* The answer to a deletion: gone from the page too, or still there.
LEMMA DeleteAgree ==
    ASSUME Wholes, Agree, NEW r \in requests, answerDelete(r), stored' = stored
    PROVE  Agree'
<1>1. /\ r.kind = "delete" /\ requests' = requests \ {r} /\ blurred' = blurred
      /\ Touched(r) = {r.id}
      /\ objects' = IF r.at = "done" THEN removeObject(objects, r.id) ELSE objects
  BY DEF answerDelete, Touched
<1>2. Listed(objects, DOMAIN stored)
  BY DEF Wholes
<1>3. CASE r.at # "done" \/ r.id \notin IdsOf(objects)
  <2>1. objects' = objects
    BY <1>1, <1>3 DEF removeObject
  <2>2. ASSUME Held(r, r.id, Of(objects, r.id), stored[r.id])
        PROVE  Of(objects, r.id) = Server(stored[r.id])
    <3>1. CASE r.at # "done"
      BY <1>1, <2>2, <3>1 DEF Held
    <3>2. CASE r.at = "done" /\ r.id \notin IdsOf(objects)
      <4>1. Of(objects, r.id) = {}
        BY <3>2 DEF Of, IdsOf, ToSet
      <4>2. ~stored[r.id].active
        BY <1>1, <2>2, <3>2 DEF Held
      <4> QED BY <4>1, <4>2 DEF Server
    <3> QED BY <1>3, <3>1, <3>2
  <2> QED BY <1>1, <2>1, <2>2, AnswersAgree
<1>4. CASE r.at = "done" /\ r.id \in IdsOf(objects)
  <2> DEFINE i == CHOOSE j \in DOMAIN objects : objects[j].id = r.id
  <2>1. i \in DOMAIN objects /\ objects[i].id = r.id
    BY <1>4 DEF IdsOf
  <2>2. objects' = RemoveAt(objects, i)
    BY <1>1, <1>4 DEF removeObject
  <2> HIDE DEF i
  <2>3. /\ Of(objects', r.id) = {}
        /\ \A id : id # r.id => Of(objects', id) = Of(objects, id)
    BY <1>2, <2>1, <2>2, RemovedPlaces
  <2>4. \A shown, row : Held(r, r.id, shown, row) => Server(row) = {}
    BY <1>1, <1>4 DEF Held, Server
  <2> QED BY <1>1, <2>3, <2>4, AnswersAgree
<1> QED BY <1>3, <1>4

\* The answer to a creation: the new object is shown.
LEMMA NewAgree ==
    ASSUME Wholes, Agree, NEW r \in requests, answerCreate(r), stored' = stored
    PROVE  Agree'
<1>1. /\ r.kind = "create" /\ requests' = requests \ {r} /\ blurred' = blurred
      /\ objects' = IF r.at = "done" /\ r.copy.id \notin IdsOf(objects)
                    THEN Append(objects, r.copy) ELSE objects
  BY DEF answerCreate
<1>2. Listed(objects, DOMAIN stored)
  BY DEF Wholes
<1>3. CASE r.at # "done"
  <2>1. Touched(r) = {} /\ objects' = objects
    BY <1>1, <1>3, PlainTouches
  <2> QED BY <1>1, <2>1, AnswersAgree
<1>4. CASE r.at = "done"
  <2>1. Whole(r.copy) /\ r.copy.id \in DOMAIN stored /\ r.copy.id \notin IdsOf(objects)
    BY <1>1, <1>4 DEF Wholes, RequestGood, IsNew
  <2>2. Touched(r) = {r.copy.id} /\ objects' = Append(objects, r.copy)
    BY <1>1, <1>4, <2>1 DEF Touched
  <2>3. /\ Of(objects', r.copy.id) = {r.copy}
        /\ \A id : id # r.copy.id => Of(objects', id) = Of(objects, id)
    <3> DEFINE o == r.copy
               known == DOMAIN stored
    <3>1. Whole(o) /\ o.id \in known /\ o.id \notin IdsOf(objects) /\ Listed(objects, known)
      BY <1>2, <2>1
    <3>2. objects' = Append(objects, o)
      BY <2>2
    <3> HIDE DEF o, known
    <3>3. Of(Append(objects, o), o.id) = {o}
      BY <3>1, AppendedPlaces
    <3>4. \A id : id # o.id => Of(Append(objects, o), id) = Of(objects, id)
      BY <3>1, AppendedPlaces
    <3> QED BY <3>2, <3>3, <3>4 DEF o
  <2>4. \A id, shown, row : Held(r, id, shown, row) => Server(row) = {r.copy}
    BY <1>1 DEF Held
  <2> QED BY <1>1, <2>2, <2>3, <2>4, AnswersAgree
<1> QED BY <1>3, <1>4

\* A run's answer: the page shows the rows it brings, and everything else as before.
LEMMA RunAgree ==
    ASSUME Wholes, Keys, Agree, NEW r \in requests, answerRun(r), stored' = stored
    PROVE  Agree'
<1>1. IsRun(r) /\ requests' = requests \ {r} /\ blurred' = blurred
  BY DEF answerRun, IsRun
<1>2. Listed(objects, DOMAIN stored)
  BY DEF Wholes
<1>3. CASE r.at # "done"
  <2>1. objects' = objects
    BY <1>3 DEF answerRun
  <2>2. \A id, shown, row : Held(r, id, shown, row) => shown = Server(row)
    BY <1>1, <1>3 DEF Held
  <2> QED BY <1>1, <2>1, <2>2, AnswersAgree
<1>4. CASE r.at = "done"
  <2> DEFINE rows == r.copy.rows
  <2>1. objects' = TakenOver(objects, rows)
    BY <1>4 DEF answerRun, TakenOver
  <2>2. (\A o \in rows : Whole(o)) /\ \A o \in rows : o.id \in Touched(r) \cup blurred
    BY <1>1, <1>4 DEF Wholes, RequestGood, Keys
  <2>3. \A id, shown, row : Held(r, id, shown, row) =>
          IF RowsFor(rows, id) # {} THEN shown # {} /\ Server(row) = RowsFor(rows, id)
          ELSE shown = Server(row)
    BY <1>1, <1>4 DEF Held
  <2> HIDE DEF rows
  <2>4. DOMAIN objects' = DOMAIN objects
    BY <2>1 DEF TakenOver
  <2>5. \A i \in DOMAIN objects :
           \/ (\A o \in rows : o.id # objects[i].id) /\ objects'[i] = objects[i]
           \/ objects'[i] \in rows /\ objects'[i].id = objects[i].id
    BY <2>1, TakenPlace
  <2>6. \A i \in DOMAIN objects : objects'[i].id = objects[i].id
    BY <2>5
  <2>7. ASSUME NEW id, RowsFor(rows, id) = {}
        PROVE  Of(objects', id) = Of(objects, id)
    <3>1. \A o \in rows : o.id # id
      BY <2>7 DEF RowsFor
    <3>2. \A i \in DOMAIN objects : objects'[i].id = objects[i].id
                                    /\ (objects[i].id = id => objects'[i] = objects[i])
      BY <2>5, <2>6, <3>1
    <3> QED BY <2>4, <3>2, OthersShown
  <2>8. ASSUME NEW id \in DOMAIN stored, Held(r, id, Of(objects, id), stored[id])
        PROVE  Of(objects', id) = Server(stored[id])
    <3>1. CASE RowsFor(rows, id) = {}
      BY <2>3, <2>7, <2>8, <3>1
    <3>2. CASE RowsFor(rows, id) # {}
      <4>1. Of(objects, id) # {} /\ Server(stored[id]) = RowsFor(rows, id)
        BY <2>3, <2>8, <3>2
      <4>2. PICK i \in DOMAIN objects : objects[i].id = id
        BY <4>1 DEF Of, ToSet
      <4>3. Of(objects', objects[i].id) = {objects'[i]}
        BY ONLY <2>4, <1>2, <2>6, <4>2 DEF Listed, Of, ToSet
      <4>4. objects'[i] \in RowsFor(rows, id)
        BY <2>5, <3>2, <4>2 DEF RowsFor
      <4>5. Server(stored[id]) = {objects'[i]}
        BY <4>1, <4>4 DEF Server
      <4> QED BY <4>2, <4>3, <4>5
    <3> QED BY <3>1, <3>2
  <2>9. ASSUME NEW id, id \notin Touched(r), id \notin blurred PROVE Of(objects', id) = Of(objects, id)
    BY <2>2, <2>7, <2>9 DEF RowsFor
  <2> QED BY <1>1, <2>8, <2>9, AnswersAgree
<1> QED BY <1>3, <1>4

\* Every answer keeps the agreement.
LEMMA AnswerAgree ==
    ASSUME Wholes, Inv, Keys, Agree, NEW r \in requests, answer(r)
    PROVE  Agree'
<1>1. r.at \in {"done", "refused"} /\ stored' = stored /\ UNCHANGED_answer
  BY DEF answer, UNCHANGED_answer, serverVars
<1>2. CASE settleBoundary(r) \/ answerStatus(r)
  BY <1>1, <1>2, AnswerKinds, SavesAgree DEF Inv
<1> QED BY <1>1, <1>2, PatchAgree, DeleteAgree, NewAgree, RunAgree DEF answer

(***************************************************************************)
(* The theorem                                                             *)
(***************************************************************************)
\* The page starts with what is stored.
LEMMA InitAgrees ==
    ASSUME Init
    PROVE  Wholes /\ Keys /\ Agree
<1>1. /\ visit \in Visits /\ objects = visit.objects /\ requests = {} /\ runs = {} /\ runId = {}
      /\ ghost = <<>> /\ layout = <<>> /\ blurred = {} /\ phase = "idle"
      /\ stored = [id \in IdsOf(objects) |-> [object |-> ObjectOf(id), active |-> TRUE]]
      /\ left = [edits |-> visit.edits, steps |-> visit.steps, tidies |-> visit.tidies,
                 faults |-> visit.faults]
  BY DEF Init
<1>2. /\ objects \in Seq(ToSet(objects))
      /\ \A i \in DOMAIN objects : Whole(objects[i]) /\ objects[i].id = i
      /\ left.tidies \in Int /\ DOMAIN left = {"edits", "steps", "tidies", "faults"}
  BY <1>1, VisitsAssumption DEF Whole
<1> DEFINE n == Len(objects)
<1>3. n \in Nat /\ DOMAIN objects = 1 .. n
  BY <1>2
<1>4. IdsOf(objects) = 1 .. n /\ DOMAIN stored = 1 .. n
  BY <1>1, <1>2, <1>3 DEF IdsOf
<1>5. IsFiniteSet(DOMAIN stored) /\ DOMAIN stored = 1 .. Cardinality(DOMAIN stored)
  <2> HIDE DEF n
  <2>1. IsFiniteSet(1 .. n) /\ Cardinality(1 .. n) = n
    BY <1>3, FS_Interval
  <2> QED BY <1>4, <2>1
<1>6. ASSUME NEW id \in DOMAIN stored
      PROVE  RowFor(stored[id], id) /\ Of(objects, id) = Server(stored[id])
  <2>1. id \in DOMAIN objects /\ objects[id].id = id /\ Whole(objects[id])
    BY <1>2, <1>3, <1>4
  <2>2. ToSet(objects) = {objects[i] : i \in DOMAIN objects}
    BY DEF ToSet
  <2>3. \A o \in ToSet(objects) : o.id = id => o = objects[id]
    BY <1>2, <2>2
  <2>4. ObjectOf(id) = objects[id]
    BY <2>1, <2>2, <2>3 DEF ObjectOf
  <2>5. Of(objects, id) = {objects[id]}
    BY <2>1, <2>2, <2>3 DEF Of
  <2>6. stored[id] = [object |-> objects[id], active |-> TRUE]
    BY <1>1, <1>4, <2>4
  <2> QED BY <2>1, <2>5, <2>6 DEF RowFor, Server
<1>7. Listed(objects, DOMAIN stored)
  BY <1>2, <1>3, <1>4 DEF Listed
<1>8. Wholes
  BY <1>1, <1>2, <1>5, <1>6, <1>7 DEF Wholes, StoreWhole
<1>9. Keys
  BY <1>1 DEF Keys, EngineRuns
<1>10. Agree
  <2>1. \A id : InFlight(id) = {}
    BY <1>1 DEF InFlight
  <2> QED BY <1>6, <2>1 DEF Agree, AgreeAt
<1> QED BY <1>8, <1>9, <1>10

\* Every step keeps the three facts.
LEMMA StepAgrees ==
    ASSUME Inv, Wholes, Keys, Agree, [Next]_vars
    PROVE  Wholes' /\ Keys' /\ Agree'
<1> USE DEF Inv
<1>1. CASE Edit \/ Page \/ Tidy \/ UNCHANGED vars
  <2>1. \/ \E go, op, gone : SavesMade(go, op, gone)
        \/ \E news : Sends(news)
        \/ Quiet
    <3>1. CASE UNCHANGED vars
      <4>1. UNCHANGED <<objects, stored, runs, requests, blurred, visit, runId, layout, left,
                        ghost, phase>>
        BY <3>1 DEF vars, pageVars, serverVars, canvasVars, tidyVars
      <4> QED BY <4>1 DEF Quiet, GhostWhole, Wholes
    <3>2. CASE Edit \/ Page \/ Tidy
      BY <3>2, EditKinds, PageKinds, TidyKind
    <3> QED BY <1>1, <3>1, <3>2
  <2>2. ASSUME NEW go, NEW op, NEW gone, SavesMade(go, op, gone) PROVE Wholes' /\ Keys' /\ Agree'
    BY <2>2, SavesWhole, KeysSaves, SavesAgree
  <2>3. ASSUME NEW news, Sends(news) PROVE Wholes' /\ Keys' /\ Agree'
    BY <2>3, SendsWhole, KeysSends, SendsAgree
  <2>4. CASE Quiet
    BY <2>4, QuietWhole, KeysQuiet, QuietAgree DEF Quiet
  <2> QED BY <2>1, <2>2, <2>3, <2>4
<1>2. ASSUME NEW r \in requests, serverStep(r), UNCHANGED_page
      PROVE  Wholes' /\ Keys' /\ Agree'
  BY <1>2, PageUntouched, ServerWhole, ServerKeys, ServerAgree
<1>3. ASSUME NEW r \in requests, lose(r)
      PROVE  Wholes' /\ Keys' /\ Agree'
  BY <1>3, LoseWhole, LoseKeys, LoseAgree
<1>4. ASSUME NEW r \in requests, answer(r)
      PROVE  Wholes' /\ Keys' /\ Agree'
  BY <1>4, AnswerWhole, AnswerKeys, AnswerAgree
<1> QED BY <1>1, <1>2, <1>3, <1>4 DEF Next, Network

\* Of every object that is stored, and of which no request is on its way, the page shows
\* what the server stores, whatever users do, in whatever order requests are handled and
\* answered, and whichever connections are lost: a refused save is taken back field by
\* field, a dropped edit leaves nothing behind.  Excepted are objects of which an answer
\* was lost after the server had acted, or which an unguarded save, a deletion or a tidy
\* changed beside another request (useCanvasInteractions.ts:169-191, 370-400).
THEOREM PageShowsStored == Spec => []ScreenIsStored
<1>1. Init => Wholes /\ Keys /\ Agree
  BY InitAgrees
<1>2. Inv /\ (Wholes /\ Keys /\ Agree) /\ [Next]_vars => (Wholes /\ Keys /\ Agree)'
  BY StepAgrees
<1>3. Wholes /\ Keys /\ Agree => ScreenIsStored
  BY AgreeShows
<1> QED BY <1>1, <1>2, <1>3, InvHolds, PTL DEF Spec

=============================================================================
