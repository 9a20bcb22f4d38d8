--------------------------- MODULE DeskBookingProofs ---------------------------
(***************************************************************************)
(* What DeskBooking guarantees for any number of workers, users, desks,    *)
(* dates and rows.  The inductive invariant says who holds which row: a    *)
(* desk's lock has one holder, a cancelled row one owner, a row id one     *)
(* INSERT; and what each holder may rely on until it commits.              *)
(***************************************************************************)
EXTENDS DeskBooking, TLAPS

\* The fields a step reads are filled in.
ReqTyped ==
  \A p \in Workers :
    /\ pc[p] \in BookSteps => /\ req[p].desk \in Desks
                              /\ req[p].user \in Users
                              /\ req[p].date \in Dates
                              /\ req[p].booking \in BookingIds
    /\ pc[p] \in RetireSteps => req[p].desk \in Desks /\ req[p].user \in Users
    /\ pc[p] = "cancelOne" => /\ req[p].booking \in BookingIds
                              /\ req[p].user \in Users
                              /\ booking[req[p].booking] # NoRow
    /\ pc[p] = "savePatch" => req[p].desk \in Desks /\ req[p].status \in DeskStatus \cup {None}
    /\ pc[p] = "saveFloor" => req[p].status \in FloorStatus \cup {None}

\* A row id belongs to one INSERT.
RowIds ==
  \A p \in Workers :
    pc[p] \in BookSteps => /\ booking[req[p].booking] = NoRow
                           /\ \A q \in Workers \ {p} : req[q].booking # req[p].booking

\* An open transaction owns active bookings of its desk, and no other owns them.
RowsOwned ==
  \A p \in Workers :
    /\ pc[p] \notin {"presave", "save", "cascade", "commitRetire"} => doomed[p] = {}
    /\ pc[p] # "commitRetire" => swept[p] = {}
    /\ \A b \in Rows(p) : booking[b].status = "active" /\ booking[b].desk = req[p].desk
    /\ \A q \in Workers \ {p} : Rows(p) \cap Rows(q) = {}

\* A desk's lock has one holder.
LockMutex ==
  \A p, q \in Workers, d \in Desks : Holds(p, d) /\ Holds(q, d) => p = q

BasicInv == TypeOK /\ ReqTyped /\ RowIds /\ RowsOwned /\ LockMutex

--------------------------------------------------------------------------------

LEMMA NoRowTyped == NoRow \notin BookingRow
BY DEF NoRow, BookingRow

LEMMA TypeOKStep == BasicInv /\ [Next]_vars => TypeOK'
<1> SUFFICES ASSUME BasicInv, [Next]_vars PROVE TypeOK'
  OBVIOUS
<1> USE DEF BasicInv, TypeOK, Copies, NoCopies, FreshDesk, DeskRow, FloorStatus,
            DeskStatus, Steps, BookSteps, RetireSteps
<1>1. CASE UNCHANGED vars
  BY <1>1 DEF vars
<1>2. ASSUME NEW p \in Workers, Start(p) PROVE TypeOK'
  <2>0. NoRequest \in Request
    BY DEF NoRequest, Request
  <2>1. ASSUME NEW u \in Users, NEW d \in Desks, NEW t \in Dates, NEW b \in BookingIds,
               StartBook(p, u, d, t, b)
        PROVE  TypeOK'
    BY <2>1 DEF StartBook, Begin, NoRequest, Request
  <2>2. ASSUME NEW u \in Users, NEW b \in BookingIds, StartCancel(p, u, b)
        PROVE  TypeOK'
    BY <2>2 DEF StartCancel, Begin, NoRequest, Request
  <2>3. ASSUME NEW u \in Users, NEW d \in Desks, NEW kind \in {"deleteDesk", "retireDesk"},
               StartRetire(p, u, d, kind)
        PROVE  TypeOK'
    BY <2>3 DEF StartRetire, Begin, NoRequest, Request
  <2>4. ASSUME NEW u \in Users, NEW d \in Desks, NEW s \in DeskStatus \cup {None},
               StartPatchDesk(p, u, d, s)
        PROVE  TypeOK'
    BY <2>4 DEF StartPatchDesk, Begin, NoRequest, Request
  <2>5. ASSUME NEW u \in Users, NEW s \in FloorStatus \cup {None}, StartPatchFloor(p, u, s)
        PROVE  TypeOK'
    BY <2>5 DEF StartPatchFloor, Begin, NoRequest, Request
  <2>6. QED
    BY <1>2, <2>1, <2>2, <2>3, <2>4, <2>5 DEF Start

<1>3. ASSUME NEW p \in Workers, Finish(p)
      PROVE  /\ pc' \in [Workers -> Steps]
             /\ req' \in [Workers -> Request]
             /\ seen' \in [Workers -> Copies]
             /\ doomed' \in [Workers -> SUBSET BookingIds]
             /\ swept' \in [Workers -> SUBSET BookingIds]
  BY <1>3 DEF Finish, NoRequest, Request
<1>4. ASSUME NEW p \in Workers, Refuse(p) PROVE TypeOK'
  BY <1>3, <1>4 DEF Refuse
<1>5. ASSUME NEW p \in Workers,
             \/ RefuseBook(p) \/ Die(p) \/ DeadlockVictim(p)
             \/ LockDesk(p) \/ CheckDesk(p) \/ CheckUser(p) \/ Insert(p)
      PROVE  TypeOK'
  BY <1>4, <1>5 DEF RefuseBook, Die, DeadlockVictim, LockDesk, CheckDesk, CheckUser, Insert, Goto
<1>6. ASSUME NEW p \in Workers, CommitBook(p) PROVE TypeOK'
  <2>1. NewRow(req[p]) \in BookingRow
    BY <1>6 DEF CommitBook, NewRow, BookingRow, ReqTyped
  <2>2. QED
    BY <1>3, <1>6, <2>1 DEF CommitBook, ReqTyped
<1>7. ASSUME NEW p \in Workers, CancelOne(p) PROVE TypeOK'
  <2>1. booking[req[p].booking] \in BookingRow /\ req[p].booking \in BookingIds /\ req[p].user \in Users
    BY <1>7 DEF CancelOne, ReqTyped
  <2>2. booking' \in [BookingIds -> BookingRow \cup {NoRow}]
    BY <1>7, <2>1 DEF CancelOne, BookingRow
  <2>3. QED
    BY <1>3, <1>7, <2>2 DEF CancelOne
<1>8. ASSUME NEW p \in Workers,
             CancelAll(p) \/ PreSave(p) \/ SaveDesk(p) \/ Cascade(p)
      PROVE  TypeOK'
  <2>1. ActiveOn(req[p].desk) \subseteq BookingIds
    BY DEF ActiveOn
  <2>2. CASE CancelAll(p)
    BY <2>1, <2>2 DEF CancelAll, Goto
  <2>3. CASE PreSave(p)
    BY <2>3 DEF PreSave, Goto, ReqTyped
  <2>4. CASE SaveDesk(p)
    BY <2>4 DEF SaveDesk, Goto
  <2>5. CASE Cascade(p)
    BY <2>1, <2>5 DEF Cascade, Goto
  <2>6. QED
    BY <1>8, <2>2, <2>3, <2>4, <2>5
<1>9. ASSUME NEW p \in Workers, CommitRetire(p) PROVE TypeOK'
  <2>1. req[p].desk \in Desks /\ req[p].user \in Users
    BY <1>9 DEF CommitRetire, ReqTyped
  <2>2. desk' \in [Desks -> DeskRow]
    BY <1>9, <2>1 DEF CommitRetire
  <2>3. ASSUME NEW b \in Rows(p) PROVE b \in BookingIds /\ booking[b] \in BookingRow
    BY <2>3 DEF RowsOwned, Rows, NoRow
  <2>4. booking' \in [BookingIds -> BookingRow \cup {NoRow}]
    BY <1>9, <2>1, <2>3 DEF CommitRetire, BookingRow
  <2>5. QED
    BY <1>3, <1>9, <2>2, <2>4 DEF CommitRetire
<1>10. ASSUME NEW p \in Workers, SavePatch(p) \/ SaveFloor(p) PROVE TypeOK'
  <2>1. CASE SavePatch(p)
    <3>1. desk' \in [Desks -> DeskRow]
      BY <2>1 DEF SavePatch, ReqTyped
    <3>2. QED
      BY <1>3, <2>1, <3>1 DEF SavePatch
  <2>2. CASE SaveFloor(p)
    <3>1. floor' \in FloorStatus
      BY <2>2 DEF SaveFloor, ReqTyped
    <3>2. QED
      BY <1>3, <2>2, <3>1 DEF SaveFloor
  <2>3. QED
    BY <1>10, <2>1, <2>2
<1>11. QED
  BY <1>1, <1>2, <1>5, <1>6, <1>7, <1>8, <1>9, <1>10 DEF Next, Step
--------------------------------------------------------------------------------
(* What Begin, Goto and Finish leave alone: every other worker. *)

LEMMA OthersKeep ==
  ASSUME TypeOK, NEW p \in Workers, Start(p) \/ Step(p) \/ Die(p) \/ DeadlockVictim(p)
  PROVE  \A q \in Workers \ {p} : /\ pc'[q] = pc[q] /\ req'[q] = req[q] /\ seen'[q] = seen[q]
                                  /\ doomed'[q] = doomed[q] /\ swept'[q] = swept[q]
<1> USE DEF TypeOK
<1>1. CASE Start(p)
  BY <1>1 DEF Start, StartBook, StartCancel, StartRetire, StartPatchDesk, StartPatchFloor, Begin
<1>2. CASE Die(p) \/ DeadlockVictim(p) \/ RefuseBook(p) \/ LockDesk(p) \/ CheckDesk(p)
             \/ CheckUser(p) \/ Insert(p)
  BY <1>2 DEF Die, DeadlockVictim, RefuseBook, LockDesk, CheckDesk, CheckUser, Insert,
              Refuse, Finish, Goto
<1>3. CASE CommitBook(p) \/ CancelOne(p) \/ CommitRetire(p) \/ SavePatch(p) \/ SaveFloor(p)
  BY <1>3 DEF CommitBook, CancelOne, CommitRetire, SavePatch, SaveFloor, Finish
<1>4. CASE CancelAll(p) \/ PreSave(p) \/ SaveDesk(p) \/ Cascade(p)
  BY <1>4 DEF CancelAll, PreSave, SaveDesk, Cascade, Goto
<1>5. QED
  BY <1>1, <1>2, <1>3, <1>4 DEF Step

\* What a step does to the rows: one booking appears, one or an owned set is cancelled,
\* one desk is saved, or nothing.
LEMMA RowsChange ==
  ASSUME TypeOK, ReqTyped, NEW p \in Workers,
         Start(p) \/ Step(p) \/ Die(p) \/ DeadlockVictim(p)
  PROVE  \/ CommitBook(p) \/ CancelOne(p) \/ CommitRetire(p) \/ SavePatch(p) \/ SaveFloor(p)
         \/ UNCHANGED <<floor, desk, booking>>
<1>1. CASE Start(p)
  BY <1>1 DEF Start, StartBook, StartCancel, StartRetire, StartPatchDesk, StartPatchFloor, Begin
<1>2. CASE Step(p) \/ Die(p) \/ DeadlockVictim(p)
  BY <1>2 DEF Step, Die, DeadlockVictim, RefuseBook, LockDesk, CheckDesk, CheckUser, Insert,
              Refuse, CancelAll, PreSave, SaveDesk, Cascade
<1>3. QED
  BY <1>1, <1>2

\* An existing row that nobody else owns becomes cancelled.
RowCancelled(p, b) ==
  /\ BookingFree(p, b)
  /\ booking[b] \in BookingRow
  /\ booking'[b] \in BookingRow
  /\ booking'[b].status = "cancelled"
  /\ booking'[b].desk = booking[b].desk
  /\ booking'[b].user = booking[b].user
  /\ booking'[b].date = booking[b].date

\* A booking row appears by CommitBook and otherwise only becomes cancelled.
LEMMA BookingChange ==
  ASSUME BasicInv, NEW p \in Workers,
         Start(p) \/ Step(p) \/ Die(p) \/ DeadlockVictim(p),
         NEW b \in BookingIds, booking'[b] # booking[b]
  PROVE  \/ CommitBook(p) /\ b = req[p].booking /\ booking'[b] = NewRow(req[p])
         \/ CancelOne(p) /\ b = req[p].booking /\ RowCancelled(p, b)
         \/ CommitRetire(p) /\ b \in Rows(p) /\ RowCancelled(p, b)
<1> USE DEF BasicInv, TypeOK
<1>1. CASE CommitBook(p)
  BY <1>1 DEF CommitBook, ReqTyped, BookSteps
<1>2. CASE CancelOne(p)
  <2>1. booking[req[p].booking] \in BookingRow /\ req[p].user \in Users
    BY <1>2 DEF CancelOne, ReqTyped
  <2>2. b = req[p].booking
    BY <1>2 DEF CancelOne
  <2>3. /\ booking'[b].status = "cancelled" /\ booking'[b] \in BookingRow
        /\ booking'[b].desk = booking[b].desk /\ booking'[b].user = booking[b].user
        /\ booking'[b].date = booking[b].date
    BY <1>2, <2>1, <2>2 DEF CancelOne, BookingRow
  <2>4. QED
    BY <1>2, <2>1, <2>2, <2>3 DEF CancelOne, RowCancelled
<1>3. CASE CommitRetire(p)
  <2>1. b \in Rows(p) /\ req[p].user \in Users
    BY <1>3 DEF CommitRetire, ReqTyped, RetireSteps
  <2>2. booking[b] \in BookingRow
    BY <2>1 DEF RowsOwned, NoRow
  <2>3. /\ booking'[b].status = "cancelled" /\ booking'[b] \in BookingRow
        /\ booking'[b].desk = booking[b].desk /\ booking'[b].user = booking[b].user
        /\ booking'[b].date = booking[b].date
    BY <1>3, <2>1, <2>2 DEF CommitRetire, BookingRow
  <2>4. BookingFree(p, b)
    BY <2>1 DEF RowsOwned, BookingFree
  <2>5. QED
    BY <1>3, <2>1, <2>2, <2>3, <2>4 DEF RowCancelled
<1>4. QED
  BY <1>1, <1>2, <1>3, RowsChange DEF SavePatch, SaveFloor

--------------------------------------------------------------------------------
(* Each part of BasicInv is kept by every step. *)

\* The disjuncts of Start with their parameters, the idle worker they start from and
\* the fields they fill in.
LEMMA StartShape ==
  ASSUME TypeOK, NEW p \in Workers, Start(p)
  PROVE  /\ pc[p] = "idle" /\ UNCHANGED <<floor, desk, booking, doomed, swept>>
         /\ pc'[p] \in {"lock", "cancelOne", "cancelAll", "savePatch", "saveFloor"}
         /\ pc'[p] = "lock" =>
              /\ req'[p].desk \in Desks /\ req'[p].user \in Users /\ req'[p].date \in Dates
              /\ req'[p].booking \in BookingIds /\ Unused(req'[p].booking)
         /\ pc'[p] = "cancelOne" => /\ req'[p].booking \in BookingIds
                                    /\ req'[p].user \in Users
                                    /\ booking[req'[p].booking].status = "active"
         /\ pc'[p] \in {"cancelAll", "savePatch", "saveFloor"} => req'[p].booking = None
         /\ pc'[p] = "cancelAll" => req'[p].desk \in Desks /\ req'[p].user \in Users
         /\ pc'[p] = "savePatch" =>
              req'[p].desk \in Desks /\ req'[p].status \in DeskStatus \cup {None}
         /\ pc'[p] = "saveFloor" => req'[p].status \in FloorStatus \cup {None}
<1> USE DEF TypeOK
<1>1. ASSUME NEW u \in Users, NEW d \in Desks, NEW t \in Dates, NEW b \in BookingIds,
             StartBook(p, u, d, t, b)
      PROVE  /\ pc[p] = "idle" /\ UNCHANGED <<floor, desk, booking, doomed, swept>>
             /\ pc'[p] = "lock" /\ req'[p].desk = d /\ req'[p].user = u
             /\ req'[p].date = t /\ req'[p].booking = b /\ Unused(b)
  BY <1>1 DEF StartBook, Begin, NoRequest
<1>2. ASSUME NEW u \in Users, NEW b \in BookingIds, StartCancel(p, u, b)
      PROVE  /\ pc[p] = "idle" /\ UNCHANGED <<floor, desk, booking, doomed, swept>>
             /\ pc'[p] = "cancelOne" /\ req'[p].user = u /\ req'[p].booking = b
             /\ booking[b].status = "active"
  BY <1>2 DEF StartCancel, Begin, NoRequest
<1>3. ASSUME NEW u \in Users, NEW d \in Desks, NEW kind \in {"deleteDesk", "retireDesk"},
             StartRetire(p, u, d, kind)
      PROVE  /\ pc[p] = "idle" /\ UNCHANGED <<floor, desk, booking, doomed, swept>>
             /\ pc'[p] = "cancelAll" /\ req'[p].desk = d /\ req'[p].user = u
             /\ req'[p].booking = None
  BY <1>3 DEF StartRetire, Begin, NoRequest
<1>4. ASSUME NEW u \in Users, NEW d \in Desks, NEW s \in DeskStatus \cup {None},
             StartPatchDesk(p, u, d, s)
      PROVE  /\ pc[p] = "idle" /\ UNCHANGED <<floor, desk, booking, doomed, swept>>
             /\ pc'[p] = "savePatch" /\ req'[p].desk = d /\ req'[p].status = s
             /\ req'[p].booking = None
  BY <1>4 DEF StartPatchDesk, Begin, NoRequest
<1>5. ASSUME NEW u \in Users, NEW s \in FloorStatus \cup {None}, StartPatchFloor(p, u, s)
      PROVE  /\ pc[p] = "idle" /\ UNCHANGED <<floor, desk, booking, doomed, swept>>
             /\ pc'[p] = "saveFloor" /\ req'[p].status = s /\ req'[p].booking = None
  BY <1>5 DEF StartPatchFloor, Begin, NoRequest
<1>6. QED
  BY <1>1, <1>2, <1>3, <1>4, <1>5 DEF Start

\* Where the other steps lead, and that a request does not change while it runs.
LEMMA StepShape ==
  ASSUME TypeOK, NEW p \in Workers, Step(p) \/ Die(p) \/ DeadlockVictim(p)
  PROVE  \/ Finish(p) /\ pc'[p] = "idle" /\ req'[p] = NoRequest /\ Rows(p)' = {}
            /\ doomed'[p] = {} /\ swept'[p] = {}
         \/ /\ req' = req /\ UNCHANGED <<floor, desk, booking>>
            /\ \/ /\ <<pc[p], pc'[p]>> \in {<<"lock", "deskFree">>, <<"deskFree", "userFree">>,
                                           <<"userFree", "insert">>, <<"insert", "commitBook">>,
                                           <<"presave", "save">>, <<"save", "cascade">>,
                                           <<"save", "commitRetire">>}
                  /\ UNCHANGED <<doomed, swept>>
               \/ CancelAll(p) /\ pc[p] = "cancelAll" /\ pc'[p] = "presave"
               \/ Cascade(p) /\ pc[p] = "cascade" /\ pc'[p] = "commitRetire"
<1> USE DEF TypeOK
<1>1. ASSUME Finish(p)
      PROVE  /\ pc'[p] = "idle" /\ req'[p] = NoRequest /\ Rows(p)' = {}
             /\ doomed'[p] = {} /\ swept'[p] = {}
  BY <1>1 DEF Finish, Rows
<1>2. CASE Die(p) \/ DeadlockVictim(p) \/ RefuseBook(p)
  BY <1>1, <1>2 DEF Die, DeadlockVictim, RefuseBook, Refuse
<1>3. CASE LockDesk(p)
  BY <1>1, <1>3 DEF LockDesk, Refuse, Goto
<1>4. CASE CheckDesk(p)
  BY <1>1, <1>4 DEF CheckDesk, Refuse, Goto
<1>5. CASE CheckUser(p)
  BY <1>1, <1>5 DEF CheckUser, Refuse, Goto
<1>6. CASE Insert(p)
  BY <1>1, <1>6 DEF Insert, Refuse, Goto
<1>7. CASE CommitBook(p) \/ CancelOne(p) \/ CommitRetire(p) \/ SavePatch(p) \/ SaveFloor(p)
  BY <1>1, <1>7 DEF CommitBook, CancelOne, CommitRetire, SavePatch, SaveFloor
<1>8. CASE PreSave(p) \/ SaveDesk(p)
  BY <1>8 DEF PreSave, SaveDesk, Goto
<1>9. CASE CancelAll(p) \/ Cascade(p)
  BY <1>9 DEF CancelAll, Cascade, Goto
<1>10. QED
  BY <1>2, <1>3, <1>4, <1>5, <1>6, <1>7, <1>8, <1>9 DEF Step

LEMMA ReqTypedStep ==
  ASSUME BasicInv, NEW p \in Workers, Start(p) \/ Step(p) \/ Die(p) \/ DeadlockVictim(p)
  PROVE  ReqTyped'
<1> USE DEF BasicInv
<1>1. ASSUME NEW q \in Workers, pc[q] = "cancelOne" PROVE booking'[req[q].booking] # NoRow
  <2>1. req[q].booking \in BookingIds /\ booking[req[q].booking] # NoRow
    BY <1>1 DEF ReqTyped
  <2>2. CASE booking'[req[q].booking] = booking[req[q].booking]
    BY <2>1, <2>2
  <2>3. CASE booking'[req[q].booking] # booking[req[q].booking]
    <3>1. ~(CommitBook(p) /\ req[q].booking = req[p].booking)
      BY <2>1 DEF CommitBook, RowIds, BookSteps
    <3>2. RowCancelled(p, req[q].booking)
      BY <2>1, <2>3, <3>1, BookingChange
    <3>3. QED
      BY <3>2, NoRowTyped DEF RowCancelled
  <2>4. QED
    BY <2>2, <2>3
<1>2. ASSUME NEW q \in Workers \ {p}
      PROVE  pc'[q] = pc[q] /\ req'[q] = req[q]
  BY OthersKeep
<1>3. CASE Start(p)
  <2>1. \A b \in BookingIds : booking[b].status = "active" => booking[b] # NoRow
    BY DEF NoRow
  <2>2. QED
    BY <1>1, <1>2, <1>3, <2>1, StartShape DEF ReqTyped, BookSteps, RetireSteps
<1>4. CASE Step(p) \/ Die(p) \/ DeadlockVictim(p)
  BY <1>1, <1>2, <1>4, StepShape DEF ReqTyped, BookSteps, RetireSteps
<1>5. QED
  BY <1>3, <1>4

LEMMA RowIdsStep ==
  ASSUME BasicInv, NEW p \in Workers, Start(p) \/ Step(p) \/ Die(p) \/ DeadlockVictim(p)
  PROVE  RowIds'
<1> USE DEF BasicInv
<1>1. ASSUME NEW q \in Workers \ {p}
      PROVE  pc'[q] = pc[q] /\ req'[q] = req[q]
  BY OthersKeep
<1>2. ASSUME NEW q \in Workers, pc[q] \in BookSteps, booking'[req[q].booking] # NoRow
      PROVE  q = p /\ CommitBook(p)
  <2>1. req[q].booking \in BookingIds /\ booking[req[q].booking] = NoRow
    BY <1>2 DEF ReqTyped, RowIds
  <2>2. ~RowCancelled(p, req[q].booking)
    BY <2>1, NoRowTyped DEF RowCancelled
  <2>3. CommitBook(p) /\ req[q].booking = req[p].booking
    BY <1>2, <2>1, <2>2, BookingChange
  <2>4. QED
    BY <1>2, <2>3 DEF RowIds
<1>3. CASE Start(p)
  <2>1. \A q \in Workers : pc[q] \in BookSteps => req[q].booking \in BookingIds
    BY DEF ReqTyped
  <2>2. pc'[p] \in {"lock", "cancelOne"} \/ req'[p].booking = None
    BY <1>3, StartShape DEF TypeOK
  <2>3. pc'[p] = "lock" => Unused(req'[p].booking) /\ req'[p].booking \in BookingIds
    BY <1>3, StartShape DEF TypeOK
  <2>4. pc'[p] = "cancelOne" => booking[req'[p].booking] # NoRow
    BY <1>3, StartShape DEF TypeOK, NoRow
  <2>5. booking' = booking /\ pc'[p] \in BookSteps => pc'[p] = "lock"
    BY <1>3, StartShape DEF TypeOK, BookSteps
  <2>6. booking' = booking
    BY <1>3, StartShape DEF TypeOK
  <2>7. QED
    BY <1>1, <2>1, <2>2, <2>3, <2>4, <2>5, <2>6, NoneAssumption DEF RowIds, Unused
<1>4. CASE Step(p) \/ Die(p) \/ DeadlockVictim(p)
  <2>1. CASE Finish(p) /\ pc'[p] = "idle" /\ req'[p] = NoRequest
    <3>1. req'[p].booking = None /\ pc'[p] \notin BookSteps
      BY <2>1 DEF NoRequest, BookSteps
    <3>2. QED
      BY <1>1, <1>2, <3>1, NoneAssumption DEF RowIds, ReqTyped
  <2>2. CASE req' = req /\ UNCHANGED booking /\ (pc'[p] \in BookSteps => pc[p] \in BookSteps)
    BY <1>1, <2>2 DEF RowIds
  <2>3. QED
    BY <1>4, <2>1, <2>2, StepShape DEF BookSteps
<1>5. QED
  BY <1>3, <1>4

LEMMA LockMutexStep ==
  ASSUME BasicInv, NEW p \in Workers, Start(p) \/ Step(p) \/ Die(p) \/ DeadlockVictim(p)
  PROVE  LockMutex'
<1> USE DEF BasicInv
<1>1. ASSUME NEW q \in Workers \ {p}, NEW d \in Desks PROVE Holds(q, d)' <=> Holds(q, d)
  BY OthersKeep DEF Holds
<1>2. ASSUME NEW d \in Desks, Holds(p, d)' PROVE Holds(p, d) \/ DeskFree(p, d)
  <2>1. CASE Start(p)
    BY <1>2, <2>1, StartShape DEF Holds, LockedSteps
  <2>2. CASE LockDesk(p) \/ SaveDesk(p)
    BY <1>2, <2>2 DEF LockDesk, SaveDesk, Refuse, Finish, Goto, Holds, TypeOK, LockedSteps
  <2>3. CASE ~LockDesk(p) /\ ~SaveDesk(p) /\ (Step(p) \/ Die(p) \/ DeadlockVictim(p))
    <3>1. pc[p] \notin {"lock", "save"} \/ pc'[p] = "idle" \/ pc'[p] = pc[p]
      BY <2>3 DEF Step, Die, DeadlockVictim, RefuseBook, Refuse, Finish, CheckDesk, CheckUser,
                  Insert, CommitBook, CancelOne, CancelAll, PreSave, Cascade, CommitRetire,
                  SavePatch, SaveFloor, Goto, TypeOK
    <3>2. QED
      BY <1>2, <2>3, <3>1, StepShape DEF Holds, LockedSteps
  <2>4. QED
    BY <2>1, <2>2, <2>3
<1>3. QED
  BY <1>1, <1>2 DEF LockMutex, DeskFree

LEMMA RowsOwnedStep ==
  ASSUME BasicInv, NEW p \in Workers, Start(p) \/ Step(p) \/ Die(p) \/ DeadlockVictim(p)
  PROVE  RowsOwned'
<1> USE DEF BasicInv
<1>1. ASSUME NEW q \in Workers \ {p}
      PROVE  /\ pc'[q] = pc[q] /\ req'[q] = req[q] /\ doomed'[q] = doomed[q]
             /\ swept'[q] = swept[q] /\ Rows(q)' = Rows(q)
  BY OthersKeep DEF Rows
<1>2. ASSUME NEW q \in Workers, NEW b \in Rows(q)
      PROVE  b \in BookingIds /\ booking[b].status = "active" /\ booking[b] \in BookingRow
  BY DEF RowsOwned, Rows, TypeOK, NoRow
<1>3. ASSUME NEW q \in Workers \ {p}, NEW b \in Rows(q) PROVE booking'[b] = booking[b]
  <2>1. ~BookingFree(p, b)
    BY <1>3 DEF BookingFree
  <2>2. b \in BookingIds /\ booking[b] # NoRow
    BY <1>2, <1>3, NoRowTyped
  <2>3. ~(CommitBook(p) /\ b = req[p].booking)
    BY <2>2 DEF CommitBook, RowIds, BookSteps
  <2>4. QED
    BY <2>1, <2>2, <2>3, BookingChange DEF RowCancelled
<1>4. \A q \in Workers \ {p} :
        /\ pc'[q] \notin {"presave", "save", "cascade", "commitRetire"} => doomed'[q] = {}
        /\ pc'[q] # "commitRetire" => swept'[q] = {}
        /\ \A b \in Rows(q)' : booking'[b].status = "active" /\ booking'[b].desk = req'[q].desk
        /\ \A r \in Workers \ {p, q} : Rows(q)' \cap Rows(r)' = {}
  BY <1>1, <1>3 DEF RowsOwned
<1>5. /\ pc'[p] \notin {"presave", "save", "cascade", "commitRetire"} => doomed'[p] = {}
      /\ pc'[p] # "commitRetire" => swept'[p] = {}
      /\ \A b \in Rows(p)' : booking'[b].status = "active" /\ booking'[b].desk = req'[p].desk
      /\ \A r \in Workers \ {p} : Rows(p)' \cap Rows(r)' = {}
  <2>1. CASE Start(p)
    <3>1. pc[p] = "idle" /\ doomed'[p] = {} /\ swept'[p] = {}
      BY <2>1, StartShape DEF RowsOwned
    <3>2. QED
      BY <3>1 DEF Rows
  <2>2. CASE doomed'[p] = {} /\ swept'[p] = {}
    BY <2>2 DEF Rows
  <2>3. CASE CancelAll(p) /\ pc[p] = "cancelAll" /\ pc'[p] = "presave"
    <3>1. /\ doomed'[p] = ActiveOn(req[p].desk) /\ swept'[p] = {} /\ booking' = booking
          /\ req' = req
      BY <2>3 DEF CancelAll, Goto, RowsOwned, TypeOK
    <3>2. \A b \in ActiveOn(req[p].desk) : BookingFree(p, b)
      BY <2>3 DEF CancelAll
    <3>3. QED
      BY <1>1, <2>3, <3>1, <3>2 DEF Rows, ActiveOn, BookingFree
  <2>4. CASE Cascade(p) /\ pc[p] = "cascade" /\ pc'[p] = "commitRetire"
    <3>1. /\ swept'[p] = ActiveOn(req[p].desk) \ doomed[p] /\ doomed'[p] = doomed[p]
          /\ booking' = booking /\ req' = req
      BY <2>4 DEF Cascade, Goto, TypeOK
    <3>2. \A b \in ActiveOn(req[p].desk) : BookingFree(p, b)
      BY <2>4 DEF Cascade
    <3>3. \A b \in doomed[p] : b \in Rows(p)
      BY DEF Rows
    <3>4. \A b \in Rows(p)' : b \in doomed[p] \/ b \in ActiveOn(req[p].desk)
      BY <3>1 DEF Rows
    <3>5. \A b \in Rows(p)' : booking'[b].status = "active" /\ booking'[b].desk = req'[p].desk
      BY <3>1, <3>3, <3>4 DEF RowsOwned, ActiveOn
    <3>6. \A r \in Workers \ {p} : Rows(p)' \cap Rows(r)' = {}
      BY <1>1, <3>2, <3>3, <3>4 DEF RowsOwned, BookingFree
    <3>7. QED
      BY <2>4, <3>5, <3>6
  <2>5. CASE /\ req' = req /\ UNCHANGED <<booking, doomed, swept>>
             /\ <<pc[p], pc'[p]>> \in {<<"lock", "deskFree">>, <<"deskFree", "userFree">>,
                                      <<"userFree", "insert">>, <<"insert", "commitBook">>,
                                      <<"presave", "save">>, <<"save", "cascade">>,
                                      <<"save", "commitRetire">>}
    <3>1. Rows(p)' = Rows(p)
      BY <2>5 DEF Rows
    <3>2. /\ pc'[p] \notin {"presave", "save", "cascade", "commitRetire"} => doomed'[p] = {}
          /\ pc'[p] # "commitRetire" => swept'[p] = {}
      BY <2>5 DEF RowsOwned
    <3>3. QED
      BY <1>1, <2>5, <3>1, <3>2 DEF RowsOwned
  <2>6. QED
    BY <2>1, <2>2, <2>3, <2>4, <2>5, StepShape
<1>6. QED
  BY <1>4, <1>5 DEF RowsOwned

LEMMA BasicInvInit == Init => BasicInv
BY NoneAssumption DEF Init, BasicInv, TypeOK, ReqTyped, RowIds, RowsOwned, LockMutex, Holds,
   LockedSteps, Rows, NoRow, NoRequest, Request, NoCopies, Copies, FreshDesk, DeskRow, FloorStatus,
   DeskStatus, BookSteps, RetireSteps, Steps

LEMMA BasicInvStep == BasicInv /\ [Next]_vars => BasicInv'
<1> SUFFICES ASSUME BasicInv, [Next]_vars PROVE BasicInv'
  OBVIOUS
<1>1. CASE Next
  <2>1. PICK p \in Workers : Start(p) \/ Step(p) \/ Die(p) \/ DeadlockVictim(p)
    BY <1>1 DEF Next
  <2>2. QED
    BY <2>1, TypeOKStep, ReqTypedStep, RowIdsStep, RowsOwnedStep, LockMutexStep DEF BasicInv
<1>2. CASE UNCHANGED vars
  BY <1>2 DEF vars, BasicInv, TypeOK, ReqTyped, RowIds, RowsOwned, LockMutex, Holds, Rows
<1>3. QED
  BY <1>1, <1>2

\* Rows, requests and locals keep their types.
THEOREM TypeCorrect == Spec => []TypeOK
<1>1. BasicInv => TypeOK
  BY DEF BasicInv
<1>2. QED
  BY <1>1, BasicInvInit, BasicInvStep, PTL DEF Spec

--------------------------------------------------------------------------------
(* What a booking transaction may rely on. *)

\* From its lock to its commit, the desk stays in service and available.
DeskStaysOpen ==
  \A p \in Workers : pc[p] \in BookSteps \ {"lock"} => desk[req[p].desk] = FreshDesk

\* Once inserted, no active booking has the row's user and date, and no other inserted
\* row has a key in common with it.
InsertSettlesUser ==
  \A p \in Workers :
    pc[p] = "commitBook" =>
      /\ SameUser(req[p]) = {}
      /\ \A q \in Workers \ {p} : pc[q] = "commitBook" => ~SameKey(req[p], req[q])

BookInv == BasicInv /\ DeskStaysOpen /\ LockSettlesDesk /\ InsertSettlesUser /\ NoDoubleBooking

LEMMA DeskStaysOpenStep ==
  ASSUME BasicInv, DeskStaysOpen, NEW p \in Workers,
         Start(p) \/ Step(p) \/ Die(p) \/ DeadlockVictim(p)
  PROVE  DeskStaysOpen'
<1> USE DEF BasicInv
<1>1. ASSUME NEW q \in Workers, pc[q] \in BookSteps \ {"lock"}, pc'[q] \in BookSteps
      PROVE  desk'[req[q].desk] = desk[req[q].desk]
  <2>1. Holds(q, req[q].desk) /\ req[q].desk \in Desks
    BY <1>1 DEF Holds, LockedSteps, BookSteps, ReqTyped
  <2>2. CASE CommitRetire(p)
    <3>1. Holds(p, req[p].desk) /\ p # q /\ req[p].desk \in Desks
      BY <1>1, <2>2 DEF CommitRetire, Holds, LockedSteps, BookSteps, RetireSteps, ReqTyped
    <3>2. req[p].desk # req[q].desk
      BY <2>1, <3>1 DEF LockMutex
    <3>3. QED
      BY <2>1, <2>2, <3>2 DEF CommitRetire, TypeOK
  <2>3. CASE SavePatch(p)
    <3>1. p # q
      BY <1>1, <2>3 DEF SavePatch, BookSteps
    <3>2. req[p].desk # req[q].desk
      BY <2>1, <2>3, <3>1 DEF SavePatch, DeskFree
    <3>3. QED
      BY <2>1, <2>3, <3>2 DEF SavePatch, TypeOK
  <2>4. QED
    BY <2>2, <2>3, RowsChange DEF CommitBook, CancelOne, SaveFloor
<1>2. ASSUME NEW q \in Workers, pc'[q] \in BookSteps \ {"lock"}
      PROVE  desk'[req'[q].desk] = FreshDesk
  <2>1. CASE pc[q] \in BookSteps \ {"lock"} /\ req'[q] = req[q]
    BY <1>1, <1>2, <2>1 DEF DeskStaysOpen
  <2>2. CASE q # p
    <3>1. pc'[q] = pc[q] /\ req'[q] = req[q]
      BY <2>2, OthersKeep
    <3>2. QED
      BY <1>2, <2>1, <3>1
  <2>3. CASE q = p /\ LockDesk(p)
    <3>1. pc'[p] # "idle" /\ desk[req[p].desk] \in DeskRow
      BY <1>2, <2>3 DEF LockDesk, BookSteps, TypeOK, ReqTyped
    <3>2. /\ desk[req[p].desk].active /\ desk[req[p].desk].status = "available"
          /\ desk' = desk /\ req' = req
      BY <2>3, <3>1 DEF LockDesk, Refuse, Finish, Goto, TypeOK
    <3>3. QED
      BY <2>3, <3>1, <3>2 DEF DeskRow, FreshDesk
  <2>4. CASE q = p /\ ~LockDesk(p)
    <3>1. pc[p] # "lock" \/ pc'[p] = "idle" \/ pc'[p] = pc[p]
      BY <2>4, StartShape DEF Step, Die, DeadlockVictim, RefuseBook, Refuse, Finish, CheckDesk,
         CheckUser, Insert, CommitBook, CancelOne, CancelAll, PreSave, SaveDesk, Cascade,
         CommitRetire, SavePatch, SaveFloor, TypeOK
    <3>2. QED
      BY <1>2, <2>1, <2>4, <3>1, StartShape, StepShape DEF BookSteps
  <2>5. QED
    BY <2>2, <2>3, <2>4
<1>3. QED
  BY <1>2 DEF DeskStaysOpen

\* An active booking of the next state is an old one, unless it is the row that a
\* CommitBook just wrote.
LEMMA ActiveGrows ==
  ASSUME BasicInv, NEW p \in Workers, Start(p) \/ Step(p) \/ Die(p) \/ DeadlockVictim(p),
         NEW b \in BookingIds, booking'[b].status = "active"
  PROVE  \/ booking'[b] = booking[b]
         \/ CommitBook(p) /\ b = req[p].booking /\ booking'[b] = NewRow(req[p])
BY BookingChange DEF RowCancelled

LEMMA LockSettlesDeskStep ==
  ASSUME BasicInv, LockSettlesDesk, NEW p \in Workers,
         Start(p) \/ Step(p) \/ Die(p) \/ DeadlockVictim(p)
  PROVE  LockSettlesDesk'
<1> USE DEF BasicInv
<1>1. ASSUME NEW q \in Workers, pc[q] \in {"userFree", "insert", "commitBook"},
             pc'[q] \in BookSteps, req'[q] = req[q]
      PROVE  SameDesk(req[q])' = {}
  <2>1. SUFFICES ASSUME NEW b \in BookingIds, booking'[b].status = "active",
                        booking'[b].desk = req[q].desk, booking'[b].date = req[q].date
                 PROVE  FALSE
    BY <1>1 DEF SameDesk, ActiveOn
  <2>2. booking'[b] # booking[b]
    BY <1>1, <2>1 DEF LockSettlesDesk, SameDesk, ActiveOn
  <2>3. CommitBook(p) /\ req[p].desk = req[q].desk
    <3>1. CommitBook(p) /\ booking'[b] = NewRow(req[p])
      BY <2>1, <2>2, ActiveGrows
    <3>2. NewRow(req[p]).desk = req[p].desk
      BY DEF NewRow
    <3>3. QED
      BY <2>1, <3>1, <3>2
  <2>4. Holds(p, req[q].desk) /\ Holds(q, req[q].desk) /\ req[q].desk \in Desks
    BY <1>1, <2>3 DEF CommitBook, Holds, LockedSteps, ReqTyped, BookSteps
  <2>5. p = q
    BY <2>4 DEF LockMutex
  <2>6. QED
    BY <1>1, <2>3, <2>5 DEF CommitBook, Finish, TypeOK, BookSteps
<1>2. ASSUME NEW q \in Workers, pc'[q] \in {"userFree", "insert", "commitBook"}
      PROVE  SameDesk(req[q])' = {}
  <2>1. CASE q # p
    <3>1. pc'[q] = pc[q] /\ req'[q] = req[q]
      BY <2>1, OthersKeep
    <3>2. QED
      BY <1>1, <1>2, <3>1 DEF BookSteps, SameDesk, ActiveOn
  <2>2. CASE q = p /\ CheckDesk(p)
    <3>1. SameDesk(req[p]) = {} /\ booking' = booking /\ req' = req
      BY <1>2, <2>2 DEF CheckDesk, Refuse, Finish, Goto, TypeOK
    <3>2. QED
      BY <2>2, <3>1 DEF SameDesk, ActiveOn
  <2>3. CASE q = p /\ ~CheckDesk(p)
    <3>1. pc[p] # "deskFree" \/ pc'[p] = "idle" \/ pc'[p] = pc[p]
      BY <2>3, StartShape DEF Step, Die, DeadlockVictim, RefuseBook, Refuse, Finish, LockDesk,
         CheckUser, Insert, CommitBook, CancelOne, CancelAll, PreSave, SaveDesk, Cascade,
         CommitRetire, SavePatch, SaveFloor, TypeOK
    <3>2. pc[p] \in {"userFree", "insert", "commitBook"} /\ req'[p] = req[p]
      BY <1>2, <2>3, <3>1, StartShape, StepShape
    <3>3. QED
      BY <1>1, <1>2, <2>3, <3>2 DEF BookSteps, SameDesk, ActiveOn
  <2>4. QED
    BY <2>1, <2>2, <2>3
<1>3. ASSUME NEW q \in Workers, pc'[q] \in {"userFree", "insert", "commitBook"},
             NEW r \in Workers \ {q}, pc'[r] = "commitBook"
      PROVE  req'[r].desk # req'[q].desk
  <2>1. Holds(q, req[q].desk)' /\ Holds(r, req[r].desk)'
    BY <1>3 DEF Holds, LockedSteps
  <2>2. req'[q].desk \in Desks
    BY <1>3, ReqTypedStep DEF ReqTyped, BookSteps
  <2>3. LockMutex'
    BY LockMutexStep
  <2>4. QED
    BY <1>3, <2>1, <2>2, <2>3 DEF LockMutex, Holds
<1>4. QED
  BY <1>2, <1>3 DEF LockSettlesDesk

LEMMA InsertSettlesUserStep ==
  ASSUME BasicInv, InsertSettlesUser, NEW p \in Workers,
         Start(p) \/ Step(p) \/ Die(p) \/ DeadlockVictim(p)
  PROVE  InsertSettlesUser'
<1> USE DEF BasicInv
<1>1. ASSUME NEW q \in Workers, pc[q] = "commitBook", pc'[q] = "commitBook", req'[q] = req[q]
      PROVE  SameUser(req[q])' = {}
  <2>1. SUFFICES ASSUME NEW b \in BookingIds, booking'[b].status = "active",
                        booking'[b].user = req[q].user, booking'[b].date = req[q].date
                 PROVE  FALSE
    BY <1>1 DEF SameUser
  <2>2. booking'[b] # booking[b]
    BY <1>1, <2>1 DEF InsertSettlesUser, SameUser
  <2>3. CommitBook(p) /\ booking'[b] = NewRow(req[p])
    BY <2>1, <2>2, ActiveGrows
  <2>4. p # q
    BY <1>1, <2>3 DEF CommitBook, Finish, TypeOK
  <2>5. req[p].user = req[q].user /\ req[p].date = req[q].date
    BY <2>1, <2>3 DEF NewRow
  <2>6. QED
    BY <1>1, <2>3, <2>4, <2>5 DEF CommitBook, InsertSettlesUser, SameKey
<1>2. CASE pc[p] = "insert" /\ pc'[p] = "commitBook"
  <2>1. Insert(p)
    BY <1>2, StartShape DEF Step, Die, DeadlockVictim, RefuseBook, Refuse, Finish, LockDesk,
       CheckDesk, CheckUser, CommitBook, CancelOne, CancelAll, PreSave, SaveDesk, Cascade,
       CommitRetire, SavePatch, SaveFloor, TypeOK
  <2>2. /\ UniqueRows(req[p]) = {} /\ ~InsertWaits(p)
        /\ booking' = booking /\ req' = req
    BY <1>2, <2>1 DEF Insert, Refuse, Finish, Goto, TypeOK
  <2>3. SameUser(req[p])' = {}
    BY <2>2 DEF UniqueRows, SameUser
  <2>4. \A q \in Workers \ {p} : pc[q] = "commitBook" => ~SameKey(req[p], req[q])
    BY <2>2 DEF InsertWaits
  <2>5. \A q \in Workers \ {p} : pc'[q] = pc[q]
    BY OthersKeep
  <2>6. ASSUME NEW q \in Workers, NEW r \in Workers \ {q}, pc'[q] = "commitBook",
               pc'[r] = "commitBook"
        PROVE  ~SameKey(req'[q], req'[r])
    BY <2>2, <2>4, <2>5, <2>6 DEF InsertSettlesUser, SameKey
  <2>7. ASSUME NEW q \in Workers, pc'[q] = "commitBook" PROVE SameUser(req[q])' = {}
    BY <1>1, <2>2, <2>3, <2>5, <2>7
  <2>8. QED
    BY <2>6, <2>7 DEF InsertSettlesUser, SameKey
<1>3. CASE ~(pc[p] = "insert" /\ pc'[p] = "commitBook")
  <2>1. ASSUME NEW q \in Workers, pc'[q] = "commitBook"
        PROVE  pc[q] = "commitBook" /\ req'[q] = req[q]
    <3>1. CASE q # p
      BY <2>1, <3>1, OthersKeep
    <3>2. CASE q = p
      BY <1>3, <2>1, <3>2, StartShape, StepShape
    <3>3. QED
      BY <3>1, <3>2
  <2>2. ASSUME NEW q \in Workers, pc'[q] = "commitBook" PROVE SameUser(req[q])' = {}
    BY <1>1, <2>1, <2>2
  <2>3. ASSUME NEW q \in Workers, NEW r \in Workers \ {q}, pc'[q] = "commitBook",
               pc'[r] = "commitBook"
        PROVE  ~SameKey(req'[q], req'[r])
    BY <2>1, <2>3 DEF InsertSettlesUser
  <2>4. QED
    BY <2>2, <2>3 DEF InsertSettlesUser, SameKey
<1>4. QED
  BY <1>2, <1>3

LEMMA NoDoubleBookingStep ==
  ASSUME BookInv, NEW p \in Workers, Start(p) \/ Step(p) \/ Die(p) \/ DeadlockVictim(p)
  PROVE  NoDoubleBooking'
<1> USE DEF BookInv, BasicInv
<1>1. SUFFICES ASSUME NEW a \in BookingIds, NEW b \in BookingIds, a # b,
                      booking'[a].status = "active", booking'[b].status = "active",
                      booking'[a].date = booking'[b].date
               PROVE  booking'[a].desk # booking'[b].desk /\ booking'[a].user # booking'[b].user
  BY DEF NoDoubleBooking
<1>2. CASE booking'[a] = booking[a] /\ booking'[b] = booking[b]
  BY <1>1, <1>2 DEF NoDoubleBooking
<1>3. ASSUME NEW c \in BookingIds, booking'[c] = booking[c], booking'[c].status = "active",
             CommitBook(p), booking'[c].date = req[p].date
      PROVE  booking'[c].desk # req[p].desk /\ booking'[c].user # req[p].user
  <2>1. pc[p] = "commitBook"
    BY <1>3 DEF CommitBook
  <2>2. SameDesk(req[p]) = {} /\ SameUser(req[p]) = {}
    BY <2>1 DEF LockSettlesDesk, InsertSettlesUser
  <2>3. QED
    BY <1>3, <2>2 DEF SameDesk, ActiveOn, SameUser
<1>4. CASE CommitBook(p) /\ a = req[p].booking /\ booking'[a] = NewRow(req[p])
  <2>1. booking'[b] = booking[b]
    BY <1>1, <1>4, ActiveGrows
  <2>2. /\ booking'[a].desk = req[p].desk /\ booking'[a].user = req[p].user
        /\ booking'[a].date = req[p].date
    BY <1>4 DEF NewRow
  <2>3. QED
    BY <1>1, <1>3, <1>4, <2>1, <2>2
<1>5. CASE CommitBook(p) /\ b = req[p].booking /\ booking'[b] = NewRow(req[p])
  <2>1. booking'[a] = booking[a]
    BY <1>1, <1>5, ActiveGrows
  <2>2. /\ booking'[b].desk = req[p].desk /\ booking'[b].user = req[p].user
        /\ booking'[b].date = req[p].date
    BY <1>5 DEF NewRow
  <2>3. QED
    BY <1>1, <1>3, <1>5, <2>1, <2>2
<1>6. QED
  BY <1>1, <1>2, <1>4, <1>5, ActiveGrows

LEMMA BookInvInit == Init => BookInv
BY BasicInvInit DEF Init, BookInv, DeskStaysOpen, LockSettlesDesk, InsertSettlesUser,
   NoDoubleBooking, BookSteps, NoRow

LEMMA BookInvStep == BookInv /\ [Next]_vars => BookInv'
<1> SUFFICES ASSUME BookInv, [Next]_vars PROVE BookInv'
  OBVIOUS
<1>0. BasicInv'
  BY BasicInvStep DEF BookInv
<1>1. CASE Next
  <2>1. PICK p \in Workers : Start(p) \/ Step(p) \/ Die(p) \/ DeadlockVictim(p)
    BY <1>1 DEF Next
  <2>2. QED
    BY <1>0, <2>1, DeskStaysOpenStep, LockSettlesDeskStep, InsertSettlesUserStep,
       NoDoubleBookingStep DEF BookInv
<1>2. CASE UNCHANGED vars
  BY <1>0, <1>2 DEF vars, BookInv, DeskStaysOpen, LockSettlesDesk, InsertSettlesUser,
     NoDoubleBooking, SameDesk, SameUser, ActiveOn
<1>3. QED
  BY <1>1, <1>2

\* No desk and no user is booked twice on a date, however many requests interleave.
THEOREM NeverDoubleBooked == Spec => []NoDoubleBooking
<1>1. BookInv => NoDoubleBooking
  BY DEF BookInv
<1>2. QED
  BY <1>1, BookInvInit, BookInvStep, PTL DEF Spec

\* After the first pre-check the desk's row lock keeps the desk and date free: only the
\* per-user constraint can fail an INSERT.
THEOREM DeskSettledByLock == Spec => []LockSettlesDesk
<1>1. BookInv => LockSettlesDesk
  BY DEF BookInv
<1>2. QED
  BY <1>1, BookInvInit, BookInvStep, PTL DEF Spec

\* A booking becomes active only on a desk that is then in service and available.
THEOREM OnlyOpenDesksBooked == Spec => BookedOnlyWhenOpen
<1>1. ASSUME BookInv, [Next]_vars
      PROVE  [\A b \in BookingIds :
                booking[b].status # "active" /\ booking'[b].status = "active"
                  => desk[booking'[b].desk] = FreshDesk]_vars
  <2>1. SUFFICES ASSUME NEW b \in BookingIds, Next,
                        booking[b].status # "active", booking'[b].status = "active"
                 PROVE  desk[booking'[b].desk] = FreshDesk
    BY <1>1
  <2>2. PICK p \in Workers : Start(p) \/ Step(p) \/ Die(p) \/ DeadlockVictim(p)
    BY <2>1 DEF Next
  <2>3. CommitBook(p) /\ booking'[b] = NewRow(req[p])
    BY <1>1, <2>1, <2>2, ActiveGrows DEF BookInv
  <2>4. booking'[b].desk = req[p].desk /\ pc[p] = "commitBook"
    BY <2>3 DEF NewRow, CommitBook
  <2>5. QED
    BY <1>1, <2>4 DEF BookInv, DeskStaysOpen, BookSteps
<1>2. QED
  BY <1>1, BookInvInit, BookInvStep, PTL DEF Spec, BookedOnlyWhenOpen

(***************************************************************************)
(* Where nobody edits desks (a PATCH may write is_active back), retiring a *)
(* desk leaves no booking on it and DeskBooking implements BookingLedger.  *)
(***************************************************************************)
NoDeskEdits == "patchDesk" \notin Kinds

\* No PATCH is running.
NoPatchRuns == \A p \in Workers : pc[p] # "savePatch"

\* A retirement whose pre_save saw the desk out of service finds it so.
SkipsOnlyRetired ==
  \A p \in Workers : pc[p] = "save" /\ ~seen[p].wasActive => ~desk[req[p].desk].active

\* A retirement that is about to commit owns every active booking of its desk.
SweepComplete ==
  \A p \in Workers : pc[p] = "commitRetire" => ActiveOn(req[p].desk) \subseteq Rows(p)

RetireInv == BookInv /\ NoPatchRuns /\ SkipsOnlyRetired /\ SweepComplete /\ NoBookingOnRetiredDesk

\* Without edits, a desk leaves service by CommitRetire and never comes back.
LEMMA DeskChange ==
  ASSUME RetireInv, NEW p \in Workers, Start(p) \/ Step(p) \/ Die(p) \/ DeadlockVictim(p),
         NEW d \in Desks, desk'[d].active # desk[d].active
  PROVE  CommitRetire(p) /\ d = req[p].desk /\ ~desk'[d].active
<1> USE DEF RetireInv, BookInv, BasicInv, TypeOK
<1>1. ~SavePatch(p)
  BY DEF NoPatchRuns, SavePatch
<1>2. CommitRetire(p)
  BY <1>1, RowsChange DEF CommitBook, CancelOne, SaveFloor
<1>3. req[p].desk \in Desks
  BY <1>2 DEF CommitRetire, ReqTyped, RetireSteps
<1>4. QED
  BY <1>2, <1>3 DEF CommitRetire

LEMMA NoPatchRunsStep ==
  ASSUME NoDeskEdits, RetireInv, NEW p \in Workers,
         Start(p) \/ Step(p) \/ Die(p) \/ DeadlockVictim(p)
  PROVE  NoPatchRuns'
<1> USE DEF RetireInv, BookInv, BasicInv
<1>1. \A q \in Workers \ {p} : pc'[q] = pc[q]
  BY OthersKeep
<1>2. pc'[p] # "savePatch"
  <2>1. CASE Start(p)
    BY <2>1 DEF Start, StartBook, StartCancel, StartRetire, StartPatchDesk, StartPatchFloor,
                Begin, NoDeskEdits, NoRequest, TypeOK
  <2>2. CASE Step(p) \/ Die(p) \/ DeadlockVictim(p)
    BY <2>2, StepShape
  <2>3. QED
    BY <2>1, <2>2
<1>3. QED
  BY <1>1, <1>2 DEF NoPatchRuns

LEMMA SkipsOnlyRetiredStep ==
  ASSUME RetireInv, NEW p \in Workers, Start(p) \/ Step(p) \/ Die(p) \/ DeadlockVictim(p)
  PROVE  SkipsOnlyRetired'
<1> USE DEF RetireInv, BookInv, BasicInv
<1>1. ASSUME NEW d \in Desks, ~desk[d].active PROVE ~desk'[d].active
  <2>1. desk[d].active \in BOOLEAN
    BY DEF TypeOK, DeskRow
  <2>2. QED
    BY <1>1, <2>1, DeskChange
<1>2. ASSUME NEW q \in Workers, pc'[q] = "save", ~seen'[q].wasActive
      PROVE  ~desk'[req'[q].desk].active
  <2>1. CASE q # p
    <3>1. pc'[q] = pc[q] /\ req'[q] = req[q] /\ seen'[q] = seen[q]
      BY <2>1, OthersKeep
    <3>2. req[q].desk \in Desks
      BY <1>2, <3>1 DEF ReqTyped, RetireSteps
    <3>3. QED
      BY <1>1, <1>2, <3>1, <3>2 DEF SkipsOnlyRetired
  <2>2. CASE q = p
    <3>1. pc[p] = "presave" /\ req' = req /\ desk' = desk
      BY <1>2, <2>2, StartShape, StepShape
    <3>2. PreSave(p)
      BY <1>2, <2>2, <3>1, StartShape DEF Step, Die, DeadlockVictim, RefuseBook, Refuse, Finish,
         LockDesk, CheckDesk, CheckUser, Insert, CommitBook, CancelOne, CancelAll, SaveDesk,
         Cascade, CommitRetire, SavePatch, SaveFloor, TypeOK
    <3>3. seen'[p].wasActive = desk[req[p].desk].active
      BY <3>2 DEF PreSave, TypeOK, Copies
    <3>4. QED
      BY <1>2, <2>2, <3>1, <3>3
  <2>3. QED
    BY <2>1, <2>2
<1>3. QED
  BY <1>2 DEF SkipsOnlyRetired

LEMMA SweepCompleteStep ==
  ASSUME RetireInv, NEW p \in Workers, Start(p) \/ Step(p) \/ Die(p) \/ DeadlockVictim(p)
  PROVE  SweepComplete'
<1> USE DEF RetireInv, BookInv, BasicInv
<1>1. SUFFICES ASSUME NEW q \in Workers, pc'[q] = "commitRetire", NEW b \in BookingIds,
                      booking'[b].status = "active", booking'[b].desk = req'[q].desk
               PROVE  b \in Rows(q)'
  BY DEF SweepComplete, ActiveOn
<1>2. CASE pc[q] = "commitRetire" /\ req'[q] = req[q] /\ Rows(q)' = Rows(q)
  <2>1. CASE booking'[b] = booking[b]
    BY <1>1, <1>2, <2>1 DEF SweepComplete, ActiveOn
  <2>2. CASE CommitBook(p) /\ booking'[b] = NewRow(req[p])
    <3>1. req[p].desk = req[q].desk /\ pc[p] = "commitBook"
      BY <1>1, <1>2, <2>2 DEF NewRow, CommitBook
    <3>2. Holds(p, req[q].desk) /\ Holds(q, req[q].desk) /\ req[q].desk \in Desks
      BY <1>2, <3>1 DEF Holds, LockedSteps, ReqTyped, BookSteps
    <3>3. p = q
      BY <3>2 DEF LockMutex
    <3>4. QED
      BY <1>2, <3>1, <3>3
  <2>3. QED
    BY <1>1, <2>1, <2>2, ActiveGrows
<1>3. CASE q # p
  <2>1. pc'[q] = pc[q] /\ req'[q] = req[q] /\ Rows(q)' = Rows(q)
    BY <1>3, OthersKeep DEF Rows
  <2>2. QED
    BY <1>1, <1>2, <2>1
<1>4. CASE q = p /\ Cascade(p)
  <2>1. /\ swept'[p] = ActiveOn(req[p].desk) \ doomed[p] /\ doomed'[p] = doomed[p]
        /\ booking' = booking /\ req' = req
    BY <1>4 DEF Cascade, Goto, TypeOK
  <2>2. b \in ActiveOn(req[p].desk)
    BY <1>1, <1>4, <2>1 DEF ActiveOn
  <2>3. QED
    BY <1>4, <2>1, <2>2 DEF Rows
<1>5. CASE q = p /\ pc[p] = "save"
  <2>1. SaveDesk(p) /\ req' = req /\ booking' = booking
    BY <1>1, <1>5, StartShape DEF Step, Die, DeadlockVictim, RefuseBook, Refuse, Finish,
       LockDesk, CheckDesk, CheckUser, Insert, CommitBook, CancelOne, CancelAll, PreSave, SaveDesk,
       Cascade, CommitRetire, SavePatch, SaveFloor, Goto, TypeOK
  <2>2. ~seen[p].wasActive
    BY <1>1, <1>5, <2>1 DEF SaveDesk, Goto, TypeOK
  <2>3. ~desk[req[p].desk].active
    BY <1>5, <2>2 DEF SkipsOnlyRetired
  <2>4. QED
    BY <1>1, <1>5, <2>1, <2>3 DEF NoBookingOnRetiredDesk
<1>6. QED
  BY <1>1, <1>3, <1>4, <1>5, StartShape, StepShape

LEMMA NoBookingOnRetiredDeskStep ==
  ASSUME RetireInv, NEW p \in Workers, Start(p) \/ Step(p) \/ Die(p) \/ DeadlockVictim(p)
  PROVE  NoBookingOnRetiredDesk'
<1> USE DEF RetireInv, BookInv, BasicInv
<1>1. SUFFICES ASSUME NEW b \in BookingIds, booking'[b].status = "active"
               PROVE  desk'[booking'[b].desk].active
  BY DEF NoBookingOnRetiredDesk
<1>2. booking'[b] \in BookingRow
  BY <1>1, TypeOKStep DEF TypeOK, NoRow, Next
<1>3. booking'[b].desk \in Desks
  BY <1>2 DEF BookingRow
<1>4. desk[booking'[b].desk].active
  <2>1. CASE booking'[b] = booking[b]
    BY <1>1, <2>1 DEF NoBookingOnRetiredDesk
  <2>2. CASE CommitBook(p) /\ booking'[b] = NewRow(req[p])
    <3>1. booking'[b].desk = req[p].desk /\ pc[p] = "commitBook"
      BY <2>2 DEF NewRow, CommitBook
    <3>2. QED
      BY <3>1 DEF DeskStaysOpen, BookSteps, FreshDesk
  <2>3. QED
    BY <1>1, <2>1, <2>2, ActiveGrows
<1>5. CASE CommitRetire(p) /\ booking'[b].desk = req[p].desk
  <2>1. booking'[b] = booking[b]
    BY <1>1, <1>5, ActiveGrows DEF CommitBook, CommitRetire
  <2>2. b \in Rows(p)
    BY <1>1, <1>5, <2>1 DEF SweepComplete, ActiveOn, CommitRetire
  <2>3. booking'[b].status = "cancelled"
    BY <1>5, <1>2, <2>1, <2>2 DEF CommitRetire, BookingRow
  <2>4. QED
    BY <1>1, <2>3
<1>6. CASE ~(CommitRetire(p) /\ booking'[b].desk = req[p].desk)
  <2>1. desk'[booking'[b].desk].active = desk[booking'[b].desk].active
    BY <1>3, <1>6, DeskChange
  <2>2. QED
    BY <1>4, <2>1
<1>7. QED
  BY <1>5, <1>6

LEMMA RetireInvInit == Init => RetireInv
BY BookInvInit DEF Init, RetireInv, NoPatchRuns, SkipsOnlyRetired, SweepComplete,
   NoBookingOnRetiredDesk, NoRow

LEMMA RetireInvStep ==
  ASSUME NoDeskEdits PROVE RetireInv /\ [Next]_vars => RetireInv'
<1> SUFFICES ASSUME RetireInv, [Next]_vars PROVE RetireInv'
  OBVIOUS
<1>0. BookInv'
  BY BookInvStep DEF RetireInv
<1>1. CASE Next
  <2>1. PICK p \in Workers : Start(p) \/ Step(p) \/ Die(p) \/ DeadlockVictim(p)
    BY <1>1 DEF Next
  <2>2. QED
    BY <1>0, <2>1, NoPatchRunsStep, SkipsOnlyRetiredStep, SweepCompleteStep,
       NoBookingOnRetiredDeskStep DEF RetireInv
<1>2. CASE UNCHANGED vars
  BY <1>0, <1>2 DEF vars, RetireInv, NoPatchRuns, SkipsOnlyRetired, SweepComplete, Rows,
     ActiveOn, NoBookingOnRetiredDesk
<1>3. QED
  BY <1>1, <1>2

\* Retiring desks leaves no active booking behind, if no desk is edited.
THEOREM RetiredDesksEmpty == ASSUME NoDeskEdits PROVE Spec => []NoBookingOnRetiredDesk
<1>1. RetireInv => NoBookingOnRetiredDesk
  BY DEF RetireInv
<1>2. QED
  BY <1>1, RetireInvInit, RetireInvStep, PTL DEF Spec

--------------------------------------------------------------------------------
(* The refinement: every step is a step of the ledger or leaves it alone. *)

EntryOf(row) == [desk |-> row.desk, user |-> row.user, date |-> row.date]

OpenDesks == {d \in Desks : desk[d].active}

Booked == {EntryOf(booking[b]) : b \in {c \in BookingIds : booking[c].status = "active"}}

\* Two active rows with the same entry are one row.
LEMMA EntriesDiffer ==
  ASSUME NoDoubleBooking, NEW a \in BookingIds, NEW b \in BookingIds,
         booking[a].status = "active", booking[b].status = "active",
         EntryOf(booking[a]) = EntryOf(booking[b])
  PROVE  a = b
BY DEF NoDoubleBooking, EntryOf

LEMMA CommitBookRefines ==
  ASSUME RetireInv, NEW p \in Workers, CommitBook(p)
  PROVE  /\ EntryOf(NewRow(req[p])) \in Ledger!Entry
         /\ req[p].desk \in OpenDesks /\ OpenDesks' = OpenDesks
         /\ \A f \in Booked : ~Ledger!Clash(EntryOf(NewRow(req[p])), f)
         /\ Booked' = Booked \cup {EntryOf(NewRow(req[p]))}
<1> USE DEF RetireInv, BookInv, BasicInv, TypeOK
<1>1. /\ pc[p] = "commitBook" /\ req[p].desk \in Desks /\ req[p].user \in Users
      /\ req[p].date \in Dates /\ req[p].booking \in BookingIds
      /\ booking[req[p].booking].status = "absent" /\ desk' = desk
      /\ booking' = [booking EXCEPT ![req[p].booking] = NewRow(req[p])]
  BY DEF CommitBook, ReqTyped, RowIds, BookSteps, NoRow
<1>2. EntryOf(NewRow(req[p])) \in Ledger!Entry
  BY <1>1 DEF EntryOf, NewRow, Ledger!Entry
<1>3. req[p].desk \in OpenDesks /\ OpenDesks' = OpenDesks
  BY <1>1 DEF DeskStaysOpen, BookSteps, FreshDesk, OpenDesks
<1>4. ASSUME NEW b \in BookingIds, booking[b].status = "active"
      PROVE  ~Ledger!Clash(EntryOf(NewRow(req[p])), EntryOf(booking[b]))
  <2>1. SameDesk(req[p]) = {} /\ SameUser(req[p]) = {}
    BY <1>1 DEF LockSettlesDesk, InsertSettlesUser
  <2>2. ~(booking[b].date = req[p].date
          /\ (booking[b].desk = req[p].desk \/ booking[b].user = req[p].user))
    BY <1>4, <2>1 DEF SameDesk, SameUser, ActiveOn
  <2>3. QED
    BY <2>2 DEF EntryOf, NewRow, Ledger!Clash
<1>5. /\ booking'[req[p].booking] = NewRow(req[p])
      /\ \A b \in BookingIds \ {req[p].booking} : booking'[b] = booking[b]
  BY <1>1
<1>6. NewRow(req[p]).status = "active"
  BY DEF NewRow
<1>7. Booked' = Booked \cup {EntryOf(NewRow(req[p]))}
  BY <1>1, <1>5, <1>6 DEF Booked
<1>8. QED
  BY <1>2, <1>3, <1>4, <1>7 DEF Booked

LEMMA CancelOneRefines ==
  ASSUME RetireInv, NEW p \in Workers, CancelOne(p)
  PROVE  /\ OpenDesks' = OpenDesks
         /\ \/ Booked' = Booked
            \/ \E e \in Ledger!Entry : e \in Booked /\ Booked' = Booked \ {e}
<1> USE DEF RetireInv, BookInv, BasicInv, TypeOK
<1> DEFINE c == req[p].booking
<1>1. c \in BookingIds /\ booking[c] \in BookingRow /\ desk' = desk
  BY DEF CancelOne, ReqTyped
<1>2. booking'[c].status # "active" /\ \A b \in BookingIds \ {c} : booking'[b] = booking[b]
  BY <1>1 DEF CancelOne, BookingRow
<1>3. CASE booking[c].status # "active"
  BY <1>1, <1>2, <1>3 DEF Booked, OpenDesks
<1>4. CASE booking[c].status = "active"
  <2>1. EntryOf(booking[c]) \in Ledger!Entry
    BY <1>1 DEF BookingRow, EntryOf, Ledger!Entry
  <2>2. EntryOf(booking[c]) \in Booked
    BY <1>1, <1>4 DEF Booked
  <2>3. \A b \in BookingIds \ {c} :
          booking[b].status = "active" => EntryOf(booking[b]) # EntryOf(booking[c])
    BY <1>1, <1>4, EntriesDiffer
  <2>4. Booked' = Booked \ {EntryOf(booking[c])}
    BY <1>1, <1>2, <1>4, <2>3 DEF Booked
  <2>5. QED
    BY <1>1, <2>1, <2>2, <2>4 DEF OpenDesks
<1>5. QED
  BY <1>3, <1>4

LEMMA CommitRetireRefines ==
  ASSUME RetireInv, NEW p \in Workers, CommitRetire(p)
  PROVE  \/ OpenDesks' = OpenDesks /\ Booked' = Booked
         \/ /\ req[p].desk \in OpenDesks /\ OpenDesks' = OpenDesks \ {req[p].desk}
            /\ Booked' = {e \in Booked : e.desk # req[p].desk}
<1> USE DEF RetireInv, BookInv, BasicInv, TypeOK
<1> DEFINE d == req[p].desk
<1>1. d \in Desks /\ pc[p] = "commitRetire"
  BY DEF CommitRetire, ReqTyped, RetireSteps
<1>2. /\ ~desk'[d].active
      /\ \A x \in Desks \ {d} : desk'[x] = desk[x]
  BY <1>1 DEF CommitRetire
<1>3. OpenDesks' = OpenDesks \ {d}
  BY <1>1, <1>2 DEF OpenDesks
<1>4. \A b \in BookingIds : b \in Rows(p) <=> booking[b].status = "active" /\ booking[b].desk = d
  BY <1>1 DEF RowsOwned, SweepComplete, ActiveOn, Rows
<1>5. ASSUME NEW b \in BookingIds
      PROVE  /\ b \notin Rows(p) => booking'[b] = booking[b]
             /\ b \in Rows(p) => booking'[b].status # "active"
  <2>1. CASE b \in Rows(p)
    <3>1. booking[b] \in BookingRow
      BY <1>4, <2>1 DEF NoRow
    <3>2. QED
      BY <2>1, <3>1 DEF CommitRetire, BookingRow
  <2>2. QED
    BY <2>1 DEF CommitRetire
<1>6. \A b \in BookingIds : booking'[b].status = "active"
         <=> booking[b].status = "active" /\ booking[b].desk # d
  BY <1>4, <1>5
<1>7. \A b \in BookingIds : booking'[b].status = "active" => booking'[b] = booking[b]
  BY <1>5
<1>8. \A b \in BookingIds : EntryOf(booking[b]).desk = booking[b].desk
  BY DEF EntryOf
<1>9. Booked' = {e \in Booked : e.desk # d}
  BY <1>6, <1>7, <1>8 DEF Booked
<1>10. CASE d \in OpenDesks
  BY <1>3, <1>9, <1>10
<1>11. CASE d \notin OpenDesks
  <2>1. \A b \in BookingIds : booking[b].status = "active" => booking[b].desk # d
    BY <1>1, <1>11 DEF NoBookingOnRetiredDesk, OpenDesks
  <2>2. Booked' = Booked
    BY <1>8, <1>9, <2>1 DEF Booked
  <2>3. QED
    BY <1>3, <1>11, <2>2
<1>12. QED
  BY <1>10, <1>11

LEMMA LedgerStep == RetireInv /\ [Next]_vars => [Ledger!Next]_(Ledger!ledgerVars)
<1> SUFFICES ASSUME RetireInv, [Next]_vars PROVE [Ledger!Next]_(Ledger!ledgerVars)
  OBVIOUS
<1> USE DEF Ledger!ledgerVars, OpenDesks, Booked, EntryOf
<1>1. CASE UNCHANGED vars
  BY <1>1 DEF vars
<1>2. ASSUME NEW p \in Workers, CommitBook(p) PROVE Ledger!Next
  BY <1>2, CommitBookRefines DEF Ledger!Next, Ledger!Book, NewRow
<1>3. ASSUME NEW p \in Workers, CancelOne(p) PROVE [Ledger!Next]_(Ledger!ledgerVars)
  BY <1>3, CancelOneRefines DEF Ledger!Next, Ledger!Cancel
<1>4. ASSUME NEW p \in Workers, CommitRetire(p) PROVE [Ledger!Next]_(Ledger!ledgerVars)
  <2>1. req[p].desk \in Desks
    BY <1>4 DEF CommitRetire, RetireInv, BookInv, BasicInv, ReqTyped, RetireSteps
  <2>2. QED
    BY <1>4, <2>1, CommitRetireRefines DEF Ledger!Next, Ledger!Retire
<1>5. CASE Next
  <2>1. PICK p \in Workers : Start(p) \/ Step(p) \/ Die(p) \/ DeadlockVictim(p)
    BY <1>5 DEF Next
  <2>2. ~SavePatch(p)
    BY DEF RetireInv, NoPatchRuns, SavePatch
  <2>3. CASE SaveFloor(p) \/ UNCHANGED <<floor, desk, booking>>
    BY <2>3 DEF SaveFloor
  <2>4. QED
    BY <1>2, <1>3, <1>4, <2>1, <2>2, <2>3, RowsChange DEF RetireInv, BookInv, BasicInv
<1>6. QED
  BY <1>1, <1>5

LEMMA LedgerInit == Init => Ledger!Init
BY DEF Init, Ledger!Init, FreshDesk, NoRow

\* Booking, cancelling and retiring take effect at one instant each, as the ledger says,
\* if no desk is edited.
THEOREM ImplementsLedger == ASSUME NoDeskEdits PROVE Spec => LedgerSpec
BY LedgerInit, LedgerStep, RetireInvInit, RetireInvStep, PTL DEF Spec, LedgerSpec, Ledger!Spec
================================================================================
