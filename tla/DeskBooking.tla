------------------------------ MODULE DeskBooking ------------------------------
(***************************************************************************)
(* Desk booking on one published-or-draft floor: the booking service       *)
(* (offices/services/booking_service.py), the endpoints that book, cancel, *)
(* retire and edit desks or publish the floor (offices/views.py), and the  *)
(* pre_save/post_save receivers of Desk (offices/signals.py).              *)
(*                                                                         *)
(* A worker serves one request at a time.  Each SQL statement is one step. *)
(* PostgreSQL runs at READ COMMITTED: a statement reads what is committed  *)
(* when it runs, a row written in an open transaction stays locked until   *)
(* it ends, and nobody else sees the write before.  floor, desk and        *)
(* booking hold the COMMITTED rows; what an open transaction wrote is its  *)
(* pc (the lock it took, the row it inserted) and the sets doomed and      *)
(* swept (the bookings it cancelled), and reaches the rows at its commit.  *)
(***************************************************************************)

CONSTANTS Workers,      \* request threads of the web processes
          Users,        \* members of the organisation
          Admins,       \* those of them user_can_manage_offices lets through
          Desks,        \* desks of the floor
          Dates,        \* bookable dates
          BookingIds,   \* bound: how many booking rows there can be
          Kinds,        \* the requests this instance serves
          None          \* an absent value

AllKinds == {"book", "cancel", "deleteDesk", "retireDesk", "patchDesk", "patchFloor"}

ASSUME KindsAssumption  == Kinds \subseteq AllKinds
ASSUME AdminsAssumption == Admins \subseteq Users
ASSUME NoneAssumption   == None \notin BookingIds

VARIABLES floor,     \* Floor.status
          desk,      \* Desk rows
          booking,   \* DeskBooking rows
          pc,        \* the statement each worker runs next
          req,       \* the request it serves
          seen,      \* the copies of rows its request read
          doomed,    \* bookings its open transaction cancelled for the user
          swept      \* bookings its open transaction cancelled through the signal

vars == <<floor, desk, booking, pc, req, seen, doomed, swept>>

--------------------------------------------------------------------------------
(* Rows and requests *)

FloorStatus == {"draft", "published"}

\* Desk.Status; "maintenance" is tested like "unavailable" everywhere (!= AVAILABLE).
DeskStatus == {"available", "unavailable"}

DeskRow == [active : BOOLEAN, status : DeskStatus]

\* A row id that no INSERT has used yet.
NoRow == [desk |-> None, user |-> None, date |-> None, status |-> "absent", by |-> None]

BookingRow == [desk : Desks, user : Users, date : Dates,
               status : {"active", "cancelled"}, by : Users \cup {None}]

Request == [kind    : Kinds \cup {None},
            user    : Users \cup {None},
            desk    : Desks \cup {None},
            date    : Dates \cup {None},
            booking : BookingIds \cup {None},
            status  : FloorStatus \cup DeskStatus \cup {None}]

NoRequest == [kind |-> None, user |-> None, desk |-> None,
              date |-> None, booking |-> None, status |-> None]

Copies == [floor : FloorStatus, desk : DeskRow, wasActive : BOOLEAN]

FreshDesk == [active |-> TRUE, status |-> "available"]

NoCopies == [floor |-> "published", desk |-> FreshDesk, wasActive |-> FALSE]

BookSteps   == {"lock", "deskFree", "userFree", "insert", "commitBook"}
RetireSteps == {"cancelAll", "presave", "save", "cascade", "commitRetire"}
Steps       == BookSteps \cup RetireSteps \cup {"idle", "cancelOne", "savePatch", "saveFloor"}

--------------------------------------------------------------------------------
(* Locks and what conflicts *)

\* Mutated: Desk.objects.get() without select_for_update().
LockedStepsNoForUpdate == {"cascade", "commitRetire"}

\* The steps before which a worker took the row lock of its desk, by SELECT FOR UPDATE
\* (booking) or by its UPDATE of the row (retiring).  It keeps the lock until it ends.
LockedSteps == {"deskFree", "userFree", "insert", "commitBook", "cascade", "commitRetire"}

Holds(p, d) == pc[p] \in LockedSteps /\ req[p].desk = d

DeskFree(p, d) == \A q \in Workers \ {p} : ~Holds(q, d)

\* The booking rows the worker's open transaction has updated.
Rows(p) == doomed[p] \cup swept[p]

BookingFree(p, b) == \A q \in Workers \ {p} : b \notin Rows(q)

ActiveOn(d) == {b \in BookingIds : booking[b].status = "active" /\ booking[b].desk = d}

\* Committed active bookings on the desk, or of the user, of a "book" request.
SameDesk(r) == {b \in ActiveOn(r.desk) : booking[b].date = r.date}
SameUser(r) == {b \in BookingIds : /\ booking[b].status = "active"
                                   /\ booking[b].user = r.user
                                   /\ booking[b].date = r.date}

\* Mutated: the per-user constraint dropped.
UniqueRowsDeskOnly(r) == SameDesk(r)

\* The rows an INSERT collides with: the two partial unique constraints.
UniqueRows(r) == SameDesk(r) \cup SameUser(r)

\* Two inserts of which the second waits for the first to commit or roll back.
SameKey(r, s) == r.date = s.date /\ (r.desk = s.desk \/ r.user = s.user)

--------------------------------------------------------------------------------
(* Serving a request *)

Begin(p, r, copies, step) ==
  /\ pc[p] = "idle"
  /\ r.kind \in Kinds
  /\ req'  = [req EXCEPT ![p] = r]
  /\ seen' = [seen EXCEPT ![p] = copies]
  /\ pc'   = [pc EXCEPT ![p] = step]
  /\ UNCHANGED <<floor, desk, booking, doomed, swept>>

Goto(p, step) ==
  /\ pc' = [pc EXCEPT ![p] = step]
  /\ UNCHANGED req

\* The response is sent: locks, uncommitted writes and copies are gone.
Finish(p) ==
  /\ pc'     = [pc EXCEPT ![p] = "idle"]
  /\ req'    = [req EXCEPT ![p] = NoRequest]
  /\ seen'   = [seen EXCEPT ![p] = NoCopies]
  /\ doomed' = [doomed EXCEPT ![p] = {}]
  /\ swept'  = [swept EXCEPT ![p] = {}]

\* An error response: the transaction rolls back.
Refuse(p) == Finish(p) /\ UNCHANGED <<floor, desk, booking>>

--------------------------------------------------------------------------------
(* Booking a desk: DeskBookingListCreateView.post and create_booking_for_user *)

\* An id that neither a row nor a request in flight uses (bound: BookingIds).
Unused(b) == booking[b] = NoRow /\ \A p \in Workers : req[p].booking # b

\* The view reads the floor; the transaction starts later and never reads it again.
StartBook(p, u, d, t, b) ==
  /\ Unused(b)
  /\ Begin(p, [NoRequest EXCEPT !.kind = "book", !.user = u, !.desk = d,
                                !.date = t, !.booking = b],
           [NoCopies EXCEPT !.floor = floor], "lock")

\* Mutated: a desk that is no longer in service is polled for, not refused.
RefuseBookDraftOnly(p) ==
  /\ pc[p] = "lock"
  /\ seen[p].floor # "published"
  /\ Refuse(p)

\* BookingFloorNotPublishedError, or Desk.DoesNotExist.
RefuseBook(p) ==
  /\ pc[p] = "lock"
  /\ seen[p].floor # "published" \/ ~desk[req[p].desk].active
  /\ Refuse(p)

\* SELECT ... FOR UPDATE waits for the row, then sees its last committed version.
LockDesk(p) ==
  /\ pc[p] = "lock"
  /\ seen[p].floor = "published"
  /\ desk[req[p].desk].active
  /\ DeskFree(p, req[p].desk)
  /\ IF desk[req[p].desk].status = "available"
       THEN Goto(p, "deskFree") /\ UNCHANGED <<floor, desk, booking, seen, doomed, swept>>
       ELSE Refuse(p)

\* First pre-check: DuplicateBookingError("desk_date").
CheckDesk(p) ==
  /\ pc[p] = "deskFree"
  /\ IF SameDesk(req[p]) = {}
       THEN Goto(p, "userFree") /\ UNCHANGED <<floor, desk, booking, seen, doomed, swept>>
       ELSE Refuse(p)

\* Second pre-check: DuplicateBookingError("user_org_date").  clean() then tests the
\* locked desk again and finds nothing new.
CheckUser(p) ==
  /\ pc[p] = "userFree"
  /\ IF SameUser(req[p]) = {}
       THEN Goto(p, "insert") /\ UNCHANGED <<floor, desk, booking, seen, doomed, swept>>
       ELSE Refuse(p)

\* Another transaction decides whether the INSERT collides: it inserted the same key,
\* or it cancelled the booking that is in the way.
InsertWaits(p) ==
  \E q \in Workers \ {p} :
    \/ pc[q] = "commitBook" /\ SameKey(req[p], req[q])
    \/ UniqueRows(req[p]) \cap Rows(q) # {}

\* INSERT; on a collision the IntegrityError becomes a 409.
Insert(p) ==
  /\ pc[p] = "insert"
  /\ \/ /\ UniqueRows(req[p]) = {}
        /\ ~InsertWaits(p)
        /\ Goto(p, "commitBook")
        /\ UNCHANGED <<floor, desk, booking, seen, doomed, swept>>
     \/ /\ \E b \in UniqueRows(req[p]) : BookingFree(p, b)
        /\ Refuse(p)

NewRow(r) == [desk |-> r.desk, user |-> r.user, date |-> r.date,
              status |-> "active", by |-> None]

CommitBook(p) ==
  /\ pc[p] = "commitBook"
  /\ booking' = [booking EXCEPT ![req[p].booking] = NewRow(req[p])]
  /\ UNCHANGED <<floor, desk>>
  /\ Finish(p)

--------------------------------------------------------------------------------
(* Cancelling a booking: the two cancel views and cancel_desk_booking *)

\* The view reads the booking, without a lock; an already cancelled one is a 400.
StartCancel(p, u, b) ==
  /\ booking[b].status = "active"
  /\ u = booking[b].user \/ u \in Admins
  /\ Begin(p, [NoRequest EXCEPT !.kind = "cancel", !.user = u, !.booking = b],
           NoCopies, "cancelOne")

\* save(update_fields=[status, cancelled_at, cancelled_by]): by primary key, whatever
\* the row's status has become.
CancelOne(p) ==
  /\ pc[p] = "cancelOne"
  /\ BookingFree(p, req[p].booking)
  /\ booking' = [booking EXCEPT ![req[p].booking].status = "cancelled",
                                ![req[p].booking].by = req[p].user]
  /\ UNCHANGED <<floor, desk>>
  /\ Finish(p)

--------------------------------------------------------------------------------
(* Retiring a desk: DeskDetailView.delete, and _retire_active_desks for the  *)
(* endpoints that delete or retype its layout object                         *)

\* The view (or the query of _retire_active_desks) reads an active desk.
StartRetire(p, u, d, kind) ==
  /\ u \in Admins
  /\ desk[d].active
  /\ Begin(p, [NoRequest EXCEPT !.kind = kind, !.user = u, !.desk = d],
           [NoCopies EXCEPT !.desk = desk[d]], "cancelAll")

\* cancel_active_bookings_for_desk(desk, cancelled_by=user): one UPDATE, which waits for
\* rows that another transaction updated and skips those that are cancelled by then.
CancelAll(p) ==
  /\ pc[p] = "cancelAll"
  /\ \A b \in ActiveOn(req[p].desk) : BookingFree(p, b)
  /\ doomed' = [doomed EXCEPT ![p] = ActiveOn(req[p].desk)]
  /\ Goto(p, "presave")
  /\ UNCHANGED <<floor, desk, booking, seen, swept>>

\* Mutated: the shortcut of BE-14 also taken when is_active is saved.
PreSaveSkipped(p) ==
  /\ pc[p] = "presave"
  /\ Goto(p, "save")
  /\ UNCHANGED <<floor, desk, booking, seen, doomed, swept>>

\* pre_save: a SELECT of the is_active that is committed now.
PreSave(p) ==
  /\ pc[p] = "presave"
  /\ seen' = [seen EXCEPT ![p].wasActive = desk[req[p].desk].active]
  /\ Goto(p, "save")
  /\ UNCHANGED <<floor, desk, booking, doomed, swept>>

\* Mutated: no post_save receiver, the first UPDATE is the only cancellation.
SaveDeskNoSignal(p) ==
  /\ pc[p] = "save"
  /\ DeskFree(p, req[p].desk)
  /\ Goto(p, "commitRetire")
  /\ UNCHANGED <<floor, desk, booking, seen, doomed, swept>>

\* UPDATE of the desk with is_active = False: waits for its row lock and takes it.
\* post_save cascades only when pre_save saw the desk active.
SaveDesk(p) ==
  /\ pc[p] = "save"
  /\ DeskFree(p, req[p].desk)
  /\ Goto(p, IF seen[p].wasActive THEN "cascade" ELSE "commitRetire")
  /\ UNCHANGED <<floor, desk, booking, seen, doomed, swept>>

\* post_save: cancel_active_bookings_for_desk(desk, cancelled_by=None).
Cascade(p) ==
  /\ pc[p] = "cascade"
  /\ \A b \in ActiveOn(req[p].desk) : BookingFree(p, b)
  /\ swept' = [swept EXCEPT ![p] = ActiveOn(req[p].desk) \ doomed[p]]
  /\ Goto(p, "commitRetire")
  /\ UNCHANGED <<floor, desk, booking, seen, doomed>>

\* delete() saved every column, so the stale status too; _retire_active_desks saved
\* is_active alone.
CommitRetire(p) ==
  /\ pc[p] = "commitRetire"
  /\ desk' = [desk EXCEPT ![req[p].desk] =
                [active |-> FALSE,
                 status |-> IF req[p].kind = "deleteDesk" THEN seen[p].desk.status
                                                          ELSE desk[req[p].desk].status]]
  /\ booking' = [b \in BookingIds |->
                   IF b \in Rows(p)
                     THEN [booking[b] EXCEPT !.status = "cancelled",
                                             !.by = IF b \in doomed[p] THEN req[p].user
                                                                       ELSE None]
                     ELSE booking[b]]
  /\ UNCHANGED floor
  /\ Finish(p)

--------------------------------------------------------------------------------
(* Editing a desk or the floor: full-row saves of a copy read earlier *)

StartPatchDesk(p, u, d, s) ==
  /\ u \in Admins
  /\ desk[d].active
  /\ Begin(p, [NoRequest EXCEPT !.kind = "patchDesk", !.user = u, !.desk = d, !.status = s],
           [NoCopies EXCEPT !.desk = desk[d]], "savePatch")

\* Mutated: a body without a status writes the missing value.
SavePatchNone(p) ==
  /\ pc[p] = "savePatch"
  /\ DeskFree(p, req[p].desk)
  /\ desk' = [desk EXCEPT ![req[p].desk].status = req[p].status]
  /\ UNCHANGED <<floor, booking>>
  /\ Finish(p)

\* desk.save(): every column, is_active as it was read, status when the body has one.
SavePatch(p) ==
  /\ pc[p] = "savePatch"
  /\ DeskFree(p, req[p].desk)
  /\ desk' = [desk EXCEPT ![req[p].desk] =
                [active |-> seen[p].desk.active,
                 status |-> IF req[p].status = None THEN seen[p].desk.status
                                                    ELSE req[p].status]]
  /\ UNCHANGED <<floor, booking>>
  /\ Finish(p)

StartPatchFloor(p, u, s) ==
  /\ u \in Admins
  /\ Begin(p, [NoRequest EXCEPT !.kind = "patchFloor", !.user = u, !.status = s],
           [NoCopies EXCEPT !.floor = floor], "saveFloor")

\* floor.save(): a boundary-only body (None) writes the status back as it was read.
SaveFloor(p) ==
  /\ pc[p] = "saveFloor"
  /\ floor' = IF req[p].status = None THEN seen[p].floor ELSE req[p].status
  /\ UNCHANGED <<desk, booking>>
  /\ Finish(p)

--------------------------------------------------------------------------------
(* What ends a request from outside *)

\* The worker or its connection dies: an open transaction rolls back.
Die(p) == pc[p] # "idle" /\ Refuse(p)

\* The workers p's next statement waits for.
WaitsFor(p) ==
  {q \in Workers \ {p} :
    \/ pc[p] = "lock" /\ desk[req[p].desk].active /\ Holds(q, req[p].desk)
    \/ pc[p] \in {"save", "savePatch"} /\ Holds(q, req[p].desk)
    \/ pc[p] \in {"cancelAll", "cascade"} /\ ActiveOn(req[p].desk) \cap Rows(q) # {}
    \/ pc[p] = "cancelOne" /\ req[p].booking \in Rows(q)
    \/ pc[p] = "insert" /\ \/ pc[q] = "commitBook" /\ SameKey(req[p], req[q])
                           \/ UniqueRows(req[p]) \cap Rows(q) # {}}

\* p is on a cycle of waiting workers.
Deadlocked(p) ==
  \E S \in SUBSET Workers :
    p \in S /\ \A q \in S : WaitsFor(q) \cap S # {} /\ \E r \in S : q \in WaitsFor(r)

\* PostgreSQL breaks the cycle: one transaction fails and the request is a 500.
DeadlockVictim(p) == Deadlocked(p) /\ Refuse(p)

--------------------------------------------------------------------------------

Init ==
  /\ floor   \in FloorStatus
  /\ desk    = [d \in Desks |-> FreshDesk]
  /\ booking = [b \in BookingIds |-> NoRow]
  /\ pc      = [p \in Workers |-> "idle"]
  /\ req     = [p \in Workers |-> NoRequest]
  /\ seen    = [p \in Workers |-> NoCopies]
  /\ doomed  = [p \in Workers |-> {}]
  /\ swept   = [p \in Workers |-> {}]

Start(p) ==
  \E u \in Users :
    \/ \E d \in Desks, t \in Dates, b \in BookingIds : StartBook(p, u, d, t, b)
    \/ \E b \in BookingIds : StartCancel(p, u, b)
    \/ \E d \in Desks, kind \in {"deleteDesk", "retireDesk"} : StartRetire(p, u, d, kind)
    \/ \E d \in Desks, s \in DeskStatus \cup {None} : StartPatchDesk(p, u, d, s)
    \/ \E s \in FloorStatus \cup {None} : StartPatchFloor(p, u, s)

\* A step that a running request takes of its own.
Step(p) ==
  \/ RefuseBook(p) \/ LockDesk(p) \/ CheckDesk(p) \/ CheckUser(p)
  \/ Insert(p) \/ CommitBook(p)
  \/ CancelOne(p)
  \/ CancelAll(p) \/ PreSave(p) \/ SaveDesk(p) \/ Cascade(p) \/ CommitRetire(p)
  \/ SavePatch(p) \/ SaveFloor(p)

Next == \E p \in Workers : Start(p) \/ Step(p) \/ Die(p) \/ DeadlockVictim(p)

\* A request thread goes on; a statement that waits for a row lock is queued and gets
\* its turn; the deadlock detector runs.
Fairness == \A p \in Workers : SF_vars(Step(p)) /\ WF_vars(DeadlockVictim(p))

Spec == Init /\ [][Next]_vars

FairSpec == Spec /\ Fairness

--------------------------------------------------------------------------------
(* Properties *)

TypeOK ==
  /\ floor   \in FloorStatus
  /\ desk    \in [Desks -> DeskRow]
  /\ booking \in [BookingIds -> BookingRow \cup {NoRow}]
  /\ pc      \in [Workers -> Steps]
  /\ req     \in [Workers -> Request]
  /\ seen    \in [Workers -> Copies]
  /\ doomed  \in [Workers -> SUBSET BookingIds]
  /\ swept   \in [Workers -> SUBSET BookingIds]

\* No desk and no user has two active bookings on a date, whatever the interleaving of
\* pre-checks and inserts (the two pre-checks run under one desk's lock only).
NoDoubleBooking ==
  \A a, b \in BookingIds :
    /\ a # b
    /\ booking[a].status = "active" /\ booking[b].status = "active"
    /\ booking[a].date = booking[b].date
    => booking[a].desk # booking[b].desk /\ booking[a].user # booking[b].user

\* The desk's row lock alone settles the desk: once the first pre-check passed, no
\* active booking of that desk and date can appear before the request ends, so only
\* the per-user constraint can ever fail the INSERT.
LockSettlesDesk ==
  \A p \in Workers :
    pc[p] \in {"userFree", "insert", "commitBook"} =>
      /\ SameDesk(req[p]) = {}
      /\ \A q \in Workers \ {p} :
           pc[q] = "commitBook" => ~(/\ req[q].desk = req[p].desk
                                     /\ req[q].date = req[p].date)

\* A booking becomes active only while its desk is in service and available, although
\* both were read several statements earlier.
BookedOnlyWhenOpen ==
  [][\A b \in BookingIds :
       booking[b].status # "active" /\ booking'[b].status = "active"
         => desk[booking'[b].desk] = FreshDesk]_vars

\* Retiring a desk leaves no active booking on it, also when a booking commits between
\* the first UPDATE of the bookings and the UPDATE of the desk.
NoBookingOnRetiredDesk ==
  \A b \in BookingIds : booking[b].status = "active" => desk[booking[b].desk].active

\* "When a Desk transitions is_active True -> False, cancel all active bookings"
\* (signals.py), with desk edits allowed to write is_active back in between.
DeactivationCancels ==
  [][\A d \in Desks : desk[d].active /\ ~desk'[d].active
       => \A b \in BookingIds : ~(booking'[b].status = "active" /\ booking'[b].desk = d)]_vars

\* "drafts can't be booked even via a direct API call" (docs/064): a booking becomes
\* active only on a published floor.
DraftNeverBooked ==
  [][\A b \in BookingIds :
       booking[b].status # "active" /\ booking'[b].status = "active"
         => floor = "published"]_vars

\* Every request ends, although two retirements of one desk can wait for each other.
EveryRequestEnds == \A p \in Workers : pc[p] # "idle" ~> pc[p] = "idle"

\* The ledger this implements: active rows and desks in service.
Ledger == INSTANCE BookingLedger WITH
  open   <- {d \in Desks : desk[d].active},
  booked <- {[desk |-> booking[b].desk, user |-> booking[b].user, date |-> booking[b].date] :
               b \in {c \in BookingIds : booking[c].status = "active"}}

\* Each request takes effect at one instant, as the ledger says.
LedgerSpec == Ledger!Spec
================================================================================
