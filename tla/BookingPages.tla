---------------------------- MODULE BookingPages ----------------------------
(***************************************************************************)
(* The desk, room and "my bookings" pages: the selection of office, floor  *)
(* and date they share (useBookingLocationSelection), the lists they show, *)
(* the availability computed from them, and the book and cancel requests   *)
(* with their feedback, dialog and timers.  A hook's effect runs in the    *)
(* same step as the event that makes it due.                               *)
(*                                                                         *)
(* Times are numbers: a day has Day units, an instant counts units since   *)
(* the start of day 0 in UTC, the office is Offset units ahead of it and   *)
(* the browser Here units.                                                 *)
(***************************************************************************)
EXTENDS Integers, Sequences, FiniteSets

CONSTANTS
    Desks, OtherFloor,      \* the organisation's desks; those not on Floor
    OutOfService,           \* desks and rooms that are inactive or in maintenance
    Rooms,
    Office, Floor,          \* the office, and its floor with the other desks and Rooms
    Gone,                   \* an office, remembered floor or desk that no longer exists
    Dates, Horizon,         \* days that may be picked; how far ahead one may book
    Clocks,                 \* the instants at which something happens
    Day, Offset, Here,      \* units of a day; the office's and the browser's lead on UTC
    DayStart, DayEnd,       \* the display window of a room's day
    MaxDuration,
    Arrivals,               \* how the user gets to a page
    LastPairs,              \* what localStorage may hold
    OtherTimes,             \* when somebody else books a room: pairs of minutes
    MaxActs, MaxCalls, MaxOthers,  \* bounds: clicks, own requests, what others do
    Nothing                 \* "" or null

ASSUME TimesAssumption ==
    /\ Day \in Nat /\ Offset \in 0 .. Day /\ Here \in Int
    /\ 0 <= DayStart /\ DayStart < DayEnd /\ DayEnd < Day
    /\ DayStart \in Nat /\ DayEnd \in Nat /\ MaxDuration \in Nat \ {0}
    /\ OtherTimes \subseteq (0 .. (Day - 1)) \X (0 .. (Day - 1))   \* times of one office day

ASSUME ThingsAssumption ==
    Desks \cap Rooms = {} /\ OutOfService \subseteq Desks \cup Rooms /\ OtherFloor \subseteq Desks

FloorDesks == Desks \ OtherFloor

\* Today may be picked.
ASSUME DatesAssumption ==
    /\ Dates \subseteq Int /\ Clocks \subseteq Int /\ Horizon \in Nat
    /\ \A t \in Clocks : (t + Here) \div Day \in Dates

\* The office and floor of a link exist, its desk may not; what was remembered may be gone.
ASSUME ArrivalsAssumption ==
    /\ \A a \in Arrivals :
          /\ a.page \in {"desk", "room", "mine"}
          /\ a.office \in {Nothing, Office} /\ a.floor \in {Nothing, Floor}
          /\ a.date \in Dates \cup {Nothing} /\ a.desk \in FloorDesks \cup {Nothing, Gone}
          /\ a.page # "desk" => a.desk = Nothing
    /\ LastPairs \subseteq [office : {Office, Gone}, floor : {Floor, Gone}] \cup {Nothing}

VARIABLES
    page,       \* the mounted page: "desk", "room" or "mine"
    mount,      \* how many pages have been mounted
    place,      \* the selected office, floor and date
    loc,        \* the offices and floors lists and the restore of the last pair
    remembered, \* localStorage: the last office and floor
    things,     \* the floor's desks or rooms and its layout, and whether desks are known
    list,       \* the mounted booking lists
    cache,      \* requestCache, the booking lists in it
    ui,         \* the page's own state
    timers,     \* the timeouts that will hide a success message
    calls,      \* own requests in flight
    server,     \* all bookings, by id
    sent,       \* own requests made
    told,       \* history: what the server told this client of each of its bookings, in which mount
    others, acts,
    now,        \* the instant
    published   \* the floor's status, PUBLISHED or DRAFT

world == <<now, published>>

vars == <<page, mount, place, loc, remembered, things, list, cache, ui, timers, calls, server,
          sent, told, others, acts, world>>

Lists == {"deskBookings", "roomBookings", "myBookings", "myRoomBookings"}
MyLists == {"myBookings", "myRoomBookings"}
ListsOf(p) == CASE p = "desk" -> {"deskBookings"}
                [] p = "room" -> {"roomBookings"}
                [] p = "mine" -> MyLists

Keys == {<<n, Floor, d>> : n \in Lists \ MyLists, d \in Dates} \cup {<<n>> : n \in MyLists}

BookingRecord == [id : Nat \ {0}, res : Desks \cup Rooms, date : Dates, from : Int, to : Int,
                  mine : BOOLEAN, active : BOOLEAN]
RowSets == SUBSET BookingRecord

\* null is no key, no request and no booking.
ASSUME NothingAssumption ==
    /\ Nothing \notin Keys /\ Nothing \notin BookingRecord
    /\ Nothing \notin [key : Keys, got : RowSets \cup {Nothing}]

----------------------------------------------------------------------------
(* Times of a room's day (roomTimeline.ts).                                *)

officeMinutesOfInstant(i) == (i + Offset) % Day
Instant(date, minutes)    == date * Day + minutes - Offset

startTimeOptions      == DayStart .. (DayEnd - 1)
durationOptionsFor(s) == {d \in 1 .. MaxDuration : s + d <= DayEnd}

\* A duration that the new start does not allow becomes the longest it allows.
effectiveDuration(s, d) ==
    IF d \in durationOptionsFor(s) THEN d
    ELSE CHOOSE x \in durationOptionsFor(s) : \A y \in durationOptionsFor(s) : y <= x

\* Mutated: slots that touch end to start conflict.
slotConflictsClosed(bs, from, to) ==
    \E b \in bs : b.active /\ from <= officeMinutesOfInstant(b.to)
                           /\ to >= officeMinutesOfInstant(b.from)

slotConflicts(bs, from, to) ==
    \E b \in bs : b.active /\ from < officeMinutesOfInstant(b.to)
                           /\ to > officeMinutesOfInstant(b.from)

\* The bookings drawn on the bar and in the list below it.
buildTimelineSegments(bs) ==
    {b \in bs : LET s == officeMinutesOfInstant(b.from)
                    e == officeMinutesOfInstant(b.to)
                    start == IF s > DayStart THEN s ELSE DayStart
                    end == IF e < DayEnd THEN e ELSE DayEnd
                IN  b.active /\ s < e /\ start < end}

----------------------------------------------------------------------------
(* Availability.                                                           *)

BookingOf(d, bs) == {b \in bs : b.res = d /\ b.active}

DeskStatus(d, bs) ==
    IF d \in OutOfService THEN "unavailable"
    ELSE IF \E b \in BookingOf(d, bs) : b.mine THEN "bookedByMe"
    ELSE IF BookingOf(d, bs) # {} THEN "reserved"
    ELSE "available"

getMyBookingForDate(bs) == {b \in bs : b.mine /\ b.active}
canBookDesk(d, bs)      == DeskStatus(d, bs) = "available" /\ getMyBookingForDate(bs) = {}

roomSlotStatus(r, bs, from, to) ==
    LET own(m) == {b \in BookingOf(r, bs) : b.mine = m} IN
    IF r \in OutOfService THEN "unavailable"
    ELSE IF slotConflicts(own(TRUE), from, to) THEN "bookedByMe"
    ELSE IF slotConflicts(own(FALSE), from, to) THEN "reserved"
    ELSE "available"

\* What the room's card lets the user book.
canBookSlot(r, bs, from, to) == r \notin OutOfService /\ ~slotConflicts(BookingOf(r, bs), from, to)

\* The tabs of "my bookings".
groupMyBookings(bs, today) ==
    [upcoming  |-> {b \in bs : b.active /\ b.date >= today},
     past      |-> {b \in bs : b.active /\ b.date < today},
     cancelled |-> {b \in bs : ~b.active}]

\* The browser's day, the office's day (resolve_office_today), and what each lets book.
Today       == (now + Here) \div Day
OfficeToday == (now + Offset) \div Day

validateBookingDate(d)   == d \in Today .. Today + Horizon
validate_booking_date(d) == d \in OfficeToday .. OfficeToday + Horizon

----------------------------------------------------------------------------
(* The server.                                                             *)

Bookings == {server[i] : i \in DOMAIN server}

Listed(n) == CASE n = "deskBookings" -> FloorDesks
               [] n = "myBookings"   -> Desks
               [] OTHER              -> Rooms

Content(k) ==
    IF Len(k) = 1 THEN {b \in Bookings : b.res \in Listed(k[1]) /\ b.mine}
    ELSE {b \in Bookings : b.res \in Listed(k[1]) /\ b.date = k[3] /\ b.active}

\* The checks of CreateDeskBookingSerializer and create_booking_for_user, and of their room
\* counterparts: a desk for a day, one a day for each user wherever it is; a room from an
\* instant that is not past, half-open.
Accepts(res, date, from, to, me) ==
    LET taken == {b \in Bookings : b.active /\ b.res = res} IN
    /\ res \in OtherFloor \/ published
    /\ validate_booking_date(date) /\ res \notin OutOfService
    /\ res \in Desks => /\ \A b \in taken : b.date # date
                        /\ me => \A b \in Bookings :
                              b.active /\ b.mine /\ b.res \in Desks => b.date # date
    /\ res \in Rooms => from >= now /\ \A b \in taken : ~(b.from < to /\ b.to > from)

Booking(res, date, from, to, me) ==
    [id |-> Len(server) + 1, res |-> res, date |-> date, from |-> from, to |-> to,
     mine |-> me, active |-> TRUE]

----------------------------------------------------------------------------
(* List hooks.                                                             *)

Key(n, p) == IF n \in MyLists THEN <<n>>
             ELSE IF p.floor = Nothing THEN Nothing ELSE <<n, p.floor, p.date>>

NoList == [st |-> "loading", shown |-> {}, of |-> Nothing, fetch |-> Nothing]

\* The effect for key k: cancels the fetch in flight, then shows nothing, a
\* cached list, or asks.
Load(h, k, force, stored) ==
    IF k = Nothing THEN [st |-> "ready", shown |-> {}, of |-> Nothing, fetch |-> Nothing]
    ELSE IF stored[k] # Nothing /\ ~force
    THEN [st |-> "ready", shown |-> stored[k], of |-> k, fetch |-> Nothing]
    ELSE [h EXCEPT !.st = "loading", !.fetch = [key |-> k, got |-> Nothing]]

LoadAll(p, stored) == [n \in DOMAIN list |-> Load(list[n], Key(n, p), FALSE, stored)]

\* What getCachedValue still finds: everything, or nothing after 30 s.
Stored == {cache, [k \in Keys |-> Nothing]}

\* createDeskBooking, cancelDeskBooking, cancelMyBooking, createRoomBooking, cancelRoomBooking
Invalidated(res) ==
    LET dropped == IF res \in Desks THEN {"deskBookings", "myBookings"}
                   ELSE {"roomBookings", "myRoomBookings"}
    IN  [k \in Keys |-> IF k[1] \in dropped THEN Nothing ELSE cache[k]]

----------------------------------------------------------------------------
(* The location: offices, floors and the last pair.                        *)

\* With an office in the URL nothing waits for the lists: they are taken as loaded.
NewLoc(a) ==
    LET idle == a.office # Nothing \/ a.page = "mine"
        st == IF idle THEN "ready" ELSE "loading"
    IN  [offices |-> st, floorsOf |-> a.office, floors |-> st, arrived |-> idle, restored |-> idle]

\* The restore effect.  Setting the office renders again: in that commit the floors
\* hook starts to load, but the effect still sees the floors' state of before.
Restore(p, l) ==
    IF l.restored THEN [p |-> p, l |-> l]
    ELSE IF remembered = Nothing THEN [p |-> p, l |-> [l EXCEPT !.restored = TRUE]]
    ELSE IF p.office = Nothing THEN
        IF l.offices = "loading" THEN [p |-> p, l |-> l]
        ELSE IF l.offices = "ready" /\ remembered.office = Office
        THEN [p |-> [p EXCEPT !.office = Office],
              l |-> [l EXCEPT !.floorsOf = Office, !.floors = "loading",
                              !.restored = l.floors # "loading"]]
        ELSE [p |-> p, l |-> [l EXCEPT !.restored = TRUE]]
    ELSE IF p.office = remembered.office /\ l.floors # "loading"
    THEN [p |-> IF l.floors = "ready" /\ l.floorsOf = Office /\ remembered.floor = Floor
                THEN [p EXCEPT !.floor = Floor] ELSE p,
          l |-> [l EXCEPT !.restored = TRUE]]
    ELSE [p |-> p, l |-> l]

\* The hooks of the floor's desks or rooms and of its layout.  useDesks keeps the desks it
\* had while it loads; the room page does not wait for the layout.
Asked(p, floor, known) ==
    [items  |-> IF floor = Nothing THEN "none" ELSE "loading",
     layout |-> IF floor # Nothing /\ p = "desk" THEN "loading" ELSE "done",
     known  |-> known]

\* The state after an event that leaves place p and location l: the restore, and the
\* hooks of the floor and date.
Settle(p, l) ==
    LET r == Restore(p, l) IN
    /\ place' = r.p
    /\ loc' = r.l
    /\ things' = IF r.p.floor = place.floor THEN things ELSE Asked(page, r.p.floor, things.known)
    /\ IF r.p.floor = place.floor /\ r.p.date = place.date THEN UNCHANGED <<list, cache>>
       ELSE \E stored \in Stored : list' = LoadAll(r.p, stored) /\ cache' = stored

dataLoading == \/ things.items = "loading" \/ things.layout = "loading"
               \/ \E n \in DOMAIN list : list[n].st = "loading"

\* The "book again" desk is selected once, when the floor's data is there; with
\* no such desk the page says that it is gone.
Prefilled(u) ==
    IF u.prefill = Nothing \/ place'.floor = Nothing \/ dataLoading' THEN u
    ELSE IF things'.known /\ u.prefill \in FloorDesks
    THEN [u EXCEPT !.prefill = Nothing, !.desk = u.prefill]
    ELSE [u EXCEPT !.prefill = Nothing, !.gone = TRUE]

OfficesAnswer(ok) ==
    /\ page # "mine"
    /\ loc.offices = "loading"
    /\ Settle(place, [loc EXCEPT !.offices = IF ok THEN "ready" ELSE "failed"])
    /\ UNCHANGED <<page, mount, remembered, ui, timers, calls, server, sent, told, others, acts,
                   world>>

\* With no office the request is for office 0, and fails.
FloorsAnswer(ok) ==
    /\ page # "mine"
    /\ loc.floors = "loading"
    /\ ok => loc.floorsOf # Nothing
    /\ Settle(place, [loc EXCEPT !.floors = IF ok THEN "ready" ELSE "failed"])
    /\ UNCHANGED <<page, mount, remembered, ui, timers, calls, server, sent, told, others, acts,
                   world>>

----------------------------------------------------------------------------
(* Pages.                                                                  *)

NoFeedback == [bookOk |-> 0, cancelOk |-> 0, bookErr |-> Nothing, cancelErr |-> FALSE]
NewUi(desk) == [prefill |-> desk, gone |-> FALSE, desk |-> Nothing, booking |-> FALSE,
                cancelling |-> FALSE, busy |-> Nothing, dialog |-> Nothing, feedback |-> NoFeedback]

\* An arrival: a page, and the office, floor, date and desk of its URL.
PlaceOf(a) == [office |-> a.office, floor |-> a.floor,
               date |-> IF a.date # Nothing /\ validateBookingDate(a.date) THEN a.date ELSE Today]

Init ==
    /\ now \in Clocks
    /\ published \in BOOLEAN
    /\ \E a \in Arrivals :
          /\ page = a.page
          /\ place = PlaceOf(a)
          /\ loc = NewLoc(a)
          /\ things = Asked(a.page, a.floor, FALSE)
          /\ list = [n \in ListsOf(a.page) |->
                        Load(NoList, Key(n, PlaceOf(a)), FALSE, [k \in Keys |-> Nothing])]
          /\ ui = NewUi(a.desk)
    /\ mount = 1
    /\ remembered \in IF loc.arrived THEN {Nothing} ELSE LastPairs
    /\ cache = [k \in Keys |-> Nothing]
    /\ timers = {}
    /\ calls = {}
    /\ server = << >>
    /\ sent = 0
    /\ told = {}
    /\ others = 0
    /\ acts = 0

Act == acts < MaxActs /\ acts' = acts + 1

\* A link, "book again", Back (also with a dialog open): the old page is unmounted and its
\* timers are cleared.
Navigate(a) ==
    /\ Act
    /\ a.page # page
    /\ page' = a.page
    /\ mount' = mount + 1
    /\ place' = PlaceOf(a)
    /\ loc' = NewLoc(a)
    /\ things' = Asked(a.page, a.floor, FALSE)
    /\ \E stored \in Stored :
          /\ list' = [n \in ListsOf(a.page) |-> Load(NoList, Key(n, PlaceOf(a)), FALSE, stored)]
          /\ cache' = stored
    /\ ui' = NewUi(a.desk)
    /\ timers' = {}
    /\ UNCHANGED <<remembered, calls, server, sent, told, others, world>>

Reset == [ui EXCEPT !.desk = Nothing, !.feedback = NoFeedback]

ChooseOffice(o) ==
    /\ Act
    /\ page # "mine" /\ ui.dialog = Nothing /\ loc.offices = "ready"
    /\ Settle([place EXCEPT !.office = o, !.floor = Nothing],
              [loc EXCEPT !.floorsOf = o, !.floors = "loading"])
    /\ ui' = Prefilled([Reset EXCEPT !.gone = FALSE])
    /\ UNCHANGED <<page, mount, remembered, timers, calls, server, sent, told, others, world>>

ChooseFloor ==
    /\ Act
    /\ page # "mine" /\ ui.dialog = Nothing
    /\ place.office # Nothing /\ loc.floors = "ready" /\ place.floor = Nothing
    /\ Settle([place EXCEPT !.floor = Floor], loc)
    /\ remembered' = [office |-> place.office, floor |-> Floor]
    /\ ui' = Prefilled([Reset EXCEPT !.gone = FALSE])
    /\ UNCHANGED <<page, mount, timers, calls, server, sent, told, others, world>>

ChooseDate(d) ==
    /\ Act
    /\ page # "mine" /\ ui.dialog = Nothing
    /\ place.floor # Nothing /\ d # place.date
    /\ Settle([place EXCEPT !.date = d], loc)
    /\ ui' = Prefilled(Reset)
    /\ UNCHANGED <<page, mount, remembered, timers, calls, server, sent, told, others, world>>

----------------------------------------------------------------------------
(* Lists and the floor's things.                                           *)

ItemsAnswer(ok) ==
    /\ things.items = "loading"
    /\ things' = [things EXCEPT !.items = IF ok THEN "ready" ELSE "failed",
                               !.known = @ \/ (ok /\ page = "desk")]
    /\ UNCHANGED <<place, list>>
    /\ ui' = Prefilled(ui)
    /\ UNCHANGED <<page, mount, loc, remembered, cache, timers, calls, server, sent, told, others,
                   acts, world>>

\* Loaded or not: without it the cards are there, and no map.
LayoutAnswer ==
    /\ things.layout = "loading"
    /\ things' = [things EXCEPT !.layout = "done"]
    /\ UNCHANGED <<place, list>>
    /\ ui' = Prefilled(ui)
    /\ UNCHANGED <<page, mount, loc, remembered, cache, timers, calls, server, sent, told, others,
                   acts, world>>

\* The server reads the list.
ServeList(n) ==
    /\ list[n].fetch # Nothing
    /\ list[n].fetch.got = Nothing
    /\ list' = [list EXCEPT ![n].fetch.got = Content(list[n].fetch.key)]
    /\ UNCHANGED <<page, mount, place, loc, remembered, things, cache, ui, timers, calls, server,
                   sent, told, others, acts, world>>

Arrive(n) ==
    LET f == list[n].fetch IN
    /\ f # Nothing
    /\ f.got # Nothing
    /\ list' = [list EXCEPT ![n] = [st |-> "ready", shown |-> f.got, of |-> f.key, fetch |-> Nothing]]
    /\ cache' = [cache EXCEPT ![f.key] = f.got]
    /\ UNCHANGED <<place, things>>
    /\ ui' = Prefilled(ui)
    /\ UNCHANGED <<page, mount, loc, remembered, timers, calls, server, sent, told, others, acts,
                   world>>

\* Mutated: a failed fetch is not forgotten.
FailKeepsFetch(n) ==
    /\ list[n].fetch # Nothing
    /\ list' = [list EXCEPT ![n].st = "failed"]
    /\ UNCHANGED <<place, things>>
    /\ ui' = Prefilled(ui)
    /\ UNCHANGED <<page, mount, loc, remembered, cache, timers, calls, server, sent, told, others,
                   acts, world>>

\* A failure keeps what was shown.
Fail(n) ==
    /\ list[n].fetch # Nothing
    /\ list' = [list EXCEPT ![n].st = "failed", ![n].fetch = Nothing]
    /\ UNCHANGED <<place, things>>
    /\ ui' = Prefilled(ui)
    /\ UNCHANGED <<page, mount, loc, remembered, cache, timers, calls, server, sent, told, others,
                   acts, world>>

----------------------------------------------------------------------------
(* Booking and cancelling.                                                 *)

DayList == CHOOSE n \in ListsOf(page) : TRUE

\* What the pages render: their cards, or something else.  The desk page shows the desks it
\* knows, also beside an error; on the room page an error takes the place of the cards.
DeskCards == page = "desk" /\ place.floor # Nothing /\ ~dataLoading /\ things.known
RoomCards == page = "room" /\ place.floor # Nothing /\ ~dataLoading /\ things.items = "ready"
MyCards   == page = "mine" /\ ~dataLoading

SelectDesk(d) ==
    /\ Act
    /\ DeskCards /\ ui.dialog = Nothing
    /\ ui' = [ui EXCEPT !.desk = d, !.feedback = NoFeedback]
    /\ UNCHANGED <<page, mount, place, loc, remembered, things, list, cache, timers, calls, server,
                   sent, told, others, world>>

Send(op, res, date, from, to, id) ==
    /\ sent < MaxCalls
    /\ sent' = sent + 1
    /\ calls' = calls \cup {[n |-> sent + 1, op |-> op, res |-> res, date |-> date, from |-> from,
                             to |-> to, id |-> id, mount |-> mount, st |-> "sent"]}
    /\ UNCHANGED <<page, mount, place, loc, remembered, things, list, cache, timers, server, told,
                   others, acts, world>>

\* The Book button of a desk is there and on.
DeskBookable(d) ==
    /\ DeskCards /\ ~ui.booking /\ validateBookingDate(place.date)
    /\ canBookDesk(d, list[DayList].shown)

\* handleBook of the desk page, from a card or the panel.
BookDesk(d) ==
    /\ ui.dialog = Nothing
    /\ DeskBookable(d)
    /\ ui' = [ui EXCEPT !.booking = TRUE, !.feedback.bookErr = Nothing, !.feedback.bookOk = 0]
    /\ Send("book", d, place.date, Instant(place.date, 0), Instant(place.date, Day), 0)

\* handleBook of the room page: only the room that acted last is locked.
BookRoom(r, start, duration) ==
    LET end == start + effectiveDuration(start, duration) IN
    /\ RoomCards /\ ui.dialog = Nothing
    /\ canBookSlot(r, list[DayList].shown, start, end) /\ validateBookingDate(place.date)
    /\ ~(ui.busy = r /\ (ui.booking \/ ui.cancelling))
    /\ ui' = [ui EXCEPT !.booking = TRUE, !.busy = r, !.feedback.bookErr = Nothing]
    /\ Send("book", r, place.date, Instant(place.date, start), Instant(place.date, end), 0)

\* Whose Cancel button is there: a card or the panel, a segment of the room's bar, a
\* row of "my bookings".
DeskCancellable(b) ==
    /\ DeskCards /\ ~ui.cancelling
    /\ b \in getMyBookingForDate(list[DayList].shown)
    /\ DeskStatus(b.res, list[DayList].shown) = "bookedByMe"
RoomCancellable(b) == RoomCards /\ b \in buildTimelineSegments(list[DayList].shown) /\ b.mine
MyCancellable(b) ==
    /\ MyCards /\ ~ui.cancelling
    /\ \E n \in MyLists : b \in groupMyBookings(list[n].shown, Today).upcoming

\* A click on Cancel: the confirmation dialog opens and covers the page.
CancelClicked(b) ==
    /\ Act
    /\ ui.dialog = Nothing
    /\ DeskCancellable(b) \/ RoomCancellable(b) \/ MyCancellable(b)
    /\ ui' = [ui EXCEPT !.dialog = b]
    /\ UNCHANGED <<page, mount, place, loc, remembered, things, list, cache, timers, calls, server,
                   sent, told, others, world>>

DismissCancel ==
    /\ ui.dialog # Nothing /\ ~ui.cancelling
    /\ ui' = [ui EXCEPT !.dialog = Nothing]
    /\ UNCHANGED <<page, mount, place, loc, remembered, things, list, cache, timers, calls, server,
                   sent, told, others, acts, world>>

ConfirmOnDeskPage == [ui EXCEPT !.cancelling = TRUE, !.feedback.cancelOk = 0, !.feedback.cancelErr = FALSE]
ConfirmOnRoomPage(b) == [ui EXCEPT !.cancelling = TRUE, !.busy = b.res, !.feedback.bookErr = Nothing]
ConfirmOnMyPage == [ui EXCEPT !.cancelling = TRUE, !.feedback.cancelOk = 0, !.feedback.cancelErr = FALSE]

confirmCancel ==
    LET b == ui.dialog IN
    /\ b # Nothing /\ ~ui.cancelling
    /\ ui' = CASE page = "desk" -> ConfirmOnDeskPage
               [] page = "room" -> ConfirmOnRoomPage(b)
               [] page = "mine" -> ConfirmOnMyPage
    /\ Send("cancel", b.res, b.date, b.from, b.to, b.id)

\* The server takes or refuses a request (it may refuse for reasons of its own).
ServeCall(c) ==
    LET take == IF c.op = "book" THEN Accepts(c.res, c.date, c.from, c.to, TRUE)
                ELSE server[c.id].active
    IN
    /\ c.st = "sent"
    /\ \/ /\ take
          /\ server' = IF c.op = "book"
                       THEN Append(server, Booking(c.res, c.date, c.from, c.to, TRUE))
                       ELSE [server EXCEPT ![c.id].active = FALSE]
          /\ calls' = (calls \ {c}) \cup {[c EXCEPT !.st = "done", !.id = IF c.op = "book"
                                                        THEN Len(server) + 1 ELSE c.id]}
       \/ /\ server' = server
          /\ calls' = (calls \ {c}) \cup {[c EXCEPT !.st = "refused"]}
    /\ UNCHANGED <<page, mount, place, loc, remembered, things, list, cache, ui, timers, sent, told,
                   others, acts, world>>

\* Mutated: the catch branch forgets the spinner.
DeskBookEndedOk(c, ok) ==
    IF ok THEN [ui EXCEPT !.booking = FALSE, !.feedback.bookOk = c.n]
    ELSE [ui EXCEPT !.feedback.bookErr = c.res]

\* What a page's own state becomes when its request c has ended.
DeskBookEnded(c, ok) ==
    IF ok THEN [ui EXCEPT !.booking = FALSE, !.feedback.bookOk = c.n]
    ELSE [ui EXCEPT !.booking = FALSE, !.feedback.bookErr = c.res]

DeskCancelEnded(c, ok) ==
    LET closed == [ui EXCEPT !.cancelling = FALSE, !.dialog = Nothing] IN
    IF ok THEN [closed EXCEPT !.feedback.cancelOk = c.n] ELSE [closed EXCEPT !.feedback.cancelErr = TRUE]

RoomBookEnded(c, ok) ==
    [ui EXCEPT !.booking = FALSE, !.busy = Nothing, !.feedback.bookErr = IF ok THEN @ ELSE c.res]

RoomCancelEnded(c, ok) ==
    [ui EXCEPT !.cancelling = FALSE, !.busy = Nothing, !.dialog = Nothing,
               !.feedback.bookErr = IF ok THEN @ ELSE c.res]

MyCancelEnded(c, ok) ==
    LET closed == [ui EXCEPT !.cancelling = FALSE, !.dialog = Nothing] IN
    IF ok THEN [closed EXCEPT !.feedback.cancelOk = c.n] ELSE [closed EXCEPT !.feedback.cancelErr = TRUE]

Ended(c, ok) ==
    CASE page = "desk" /\ c.op = "book"   -> DeskBookEnded(c, ok)
      [] page = "desk" /\ c.op = "cancel" -> DeskCancelEnded(c, ok)
      [] page = "room" /\ c.op = "book"   -> RoomBookEnded(c, ok)
      [] page = "room" /\ c.op = "cancel" -> RoomCancelEnded(c, ok)
      [] page = "mine"                    -> MyCancelEnded(c, ok)

\* Mutated: a new timeout without clearing the one before.
TimersKept(c) == timers \cup {[op |-> c.op, n |-> c.n]}

\* The timeout that hides the message replaces the one of an earlier message.
TimersOf(c) == {t \in timers : t.op # c.op} \cup {[op |-> c.op, n |-> c.n]}

\* Mutated: no refresh after a success.
RefreshNothing(c, stored) == list

\* refreshBookings(), refreshDesks(), refreshRooms()
RefreshAfter(c, stored) ==
    [n \in DOMAIN list |->
        IF n \in MyLists /\ (n = "myBookings") # (c.res \in Desks) THEN list[n]
        ELSE Load(list[n], Key(n, place), TRUE, stored)]

\* The answer of a request is there, or the network failed (before or after the server
\* took it).  A page that is gone is not told; the lists are dropped all the same.  A
\* cancellation has the last word, also on a booking whose own answer is late.
Answer(c, ok) ==
    /\ ok => c.st = "done"
    /\ calls' = calls \ {c}
    /\ cache' = IF ok THEN Invalidated(c.res) ELSE cache
    /\ told' = IF c.op = "book" /\ \E t \in told : t.id = c.id THEN told
               ELSE {t \in told : t.id # c.id}
                    \cup {[id |-> c.id, mount |-> c.mount,
                           said |-> IF ~ok THEN "unknown"
                                    ELSE IF c.op = "book" THEN "booked" ELSE "cancelled"]}
    /\ IF c.mount # mount THEN UNCHANGED <<ui, timers, list>>
       ELSE /\ ui' = Ended(c, ok)
            /\ timers' = IF ok /\ page = "desk" THEN TimersOf(c) ELSE timers
            /\ list' = IF ok THEN RefreshAfter(c, cache') ELSE list
    /\ UNCHANGED <<page, mount, place, loc, remembered, things, server, sent, others, acts, world>>

\* Three seconds are over.
Timeout(t) ==
    /\ timers' = timers \ {t}
    /\ ui' = [ui EXCEPT !.feedback.bookOk = IF t.op = "book" THEN 0 ELSE @,
                        !.feedback.cancelOk = IF t.op = "cancel" THEN 0 ELSE @]
    /\ UNCHANGED <<page, mount, place, loc, remembered, things, list, cache, calls, server, sent,
                   told, others, acts, world>>

----------------------------------------------------------------------------
(* Everything else.                                                        *)

\* Somebody else books, or this user in another window: a desk for a day, a room at any
\* time of the office's day.
Elsewhere(res, date, from, to, me) ==
    /\ others < MaxOthers
    /\ Accepts(res, date, Instant(date, from), Instant(date, to), me)
    /\ server' = Append(server, Booking(res, date, Instant(date, from), Instant(date, to), me))
    /\ others' = others + 1
    /\ UNCHANGED <<page, mount, place, loc, remembered, things, list, cache, ui, timers, calls,
                   sent, told, acts, world>>

\* An administrator publishes the floor, or makes it a draft.
SetStatus ==
    /\ others < MaxOthers
    /\ published' = ~published
    /\ others' = others + 1
    /\ UNCHANGED <<page, mount, place, loc, remembered, things, list, cache, ui, timers, calls,
                   server, sent, told, acts, now>>

\* Time goes on, over midnight here or in the office; a mounted page is taken to render.
Tick ==
    /\ \E t \in Clocks : now < t /\ now' = t
    /\ UNCHANGED <<page, mount, place, loc, remembered, things, list, cache, ui, timers, calls,
                   server, sent, told, others, acts, published>>

Next ==
    \/ \E a \in Arrivals : Navigate(a)
    \/ \E ok \in BOOLEAN : OfficesAnswer(ok) \/ FloorsAnswer(ok) \/ ItemsAnswer(ok)
    \/ LayoutAnswer
    \/ ChooseOffice(Office)
    \/ ChooseFloor
    \/ \E d \in Dates : ChooseDate(d)
    \/ \E n \in DOMAIN list : ServeList(n) \/ Arrive(n) \/ Fail(n)
    \/ \E d \in FloorDesks : SelectDesk(d) \/ BookDesk(d)
    \/ \E r \in Rooms, s \in startTimeOptions, d \in 1 .. MaxDuration : BookRoom(r, s, d)
    \/ \E b \in UNION {list[n].shown : n \in DOMAIN list} : CancelClicked(b)
    \/ DismissCancel
    \/ confirmCancel
    \/ \E c \in calls : ServeCall(c)
    \/ \E c \in calls, ok \in BOOLEAN : Answer(c, ok)
    \/ \E t \in timers : Timeout(t)
    \/ \E d \in Desks, date \in Dates, me \in BOOLEAN : Elsewhere(d, date, 0, Day, me)
    \/ \E r \in Rooms, date \in Dates, t \in OtherTimes, me \in BOOLEAN :
          Elsewhere(r, date, t[1], t[2], me)
    \/ SetStatus
    \/ Tick

Spec == Init /\ [][Next]_vars

----------------------------------------------------------------------------
(* Properties.                                                             *)

\* Types.  The parts of the pages keep their shapes, and every list is one of
\* the mounted page's.
TypeOK ==
    /\ page \in {"desk", "room", "mine"}
    /\ place \in [office : {Nothing, Office}, floor : {Nothing, Floor}, date : Dates]
    /\ DOMAIN list = ListsOf(page)
    /\ \A n \in DOMAIN list : /\ list[n].st \in {"loading", "ready", "failed"}
                              /\ list[n].shown \subseteq (UNION {Content(k) : k \in Keys})
                                     \cup {[b EXCEPT !.active = TRUE] : b \in Bookings}
                              /\ (list[n].st = "loading") = (list[n].fetch # Nothing)
    /\ \A c \in calls : c.st \in {"sent", "done", "refused"} /\ c.n \in 1 .. sent
    /\ things \in [items : {"none", "loading", "ready", "failed"}, layout : {"loading", "done"},
                   known : BOOLEAN]
    /\ ui.desk \in FloorDesks \cup {Nothing}
    /\ now \in Clocks /\ published \in BOOLEAN

Covers(n, b) ==
    /\ list[n].of # Nothing
    /\ b.res \in Listed(n)
    /\ n \in MyLists \/ b.date = list[n].of[3]

\* "no stale reserved/available status survives a book/cancel" (bookingApi.ts:22),
\* for the page that made the request: once the server has answered, every list of
\* the page that is not loading says what the answer said, whatever fetch was in
\* flight, whatever was cached and wherever the user has looked since.
ShownFollowsOwn ==
    \A t \in told :
        t.mount = mount /\ t.said # "unknown" /\ (\A c \in calls : c.id # t.id) =>
            \A n \in DOMAIN list :
                list[n].st = "ready" /\ Covers(n, server[t.id]) =>
                    ((\E b \in list[n].shown : b.id = t.id /\ b.active) <=> t.said = "booked")

\* What the server refuses and no page checks (bookingValidation.ts:47 has it that the
\* rules are the same): a draft floor, a day that is past or too far in the office though
\* not in the browser, a room's slot that has begun, a desk of one's own elsewhere that day.
Unseen(res, date, from) ==
    \/ ~published
    \/ ~validate_booking_date(date)
    \/ res \in Rooms /\ from < now
    \/ res \in Desks /\ \E b \in Bookings : b.active /\ b.mine /\ b.res \in OtherFloor /\ b.date = date

Agree(offered, res, date, from, to) ==
    LET accepted == Accepts(res, date, from, to, TRUE) IN
    /\ offered /\ ~Unseen(res, date, from) => accepted
    /\ accepted /\ validateBookingDate(date) => offered

\* The pages' own checks (validateBookingDate, canBookDesk, slotConflicts) against the
\* server's rules, on a list that is up to date: what is offered is refused for one of the
\* four reasons that no page checks and for no other, and what the server would take on a
\* day that the page lets pick is offered, slots that touch and days shifted by the zone
\* included; the floor map colours a room as free exactly when its card offers it.
OffersMatchServer ==
    \A n \in DOMAIN list \ MyLists :
        list[n].st = "ready" /\ list[n].of # Nothing /\ list[n].shown = Content(list[n].of) =>
            LET date == list[n].of[3]
                bs == list[n].shown
                open == validateBookingDate(date)
            IN  /\ n = "deskBookings" => \A d \in FloorDesks :
                      Agree(open /\ canBookDesk(d, bs), d, date, Instant(date, 0), Instant(date, Day))
                /\ n = "roomBookings" => \A r \in Rooms, s \in startTimeOptions :
                      \A len \in durationOptionsFor(s) :
                          /\ canBookSlot(r, bs, s, s + len) = (roomSlotStatus(r, bs, s, s + len) = "available")
                          /\ Agree(open /\ canBookSlot(r, bs, s, s + len), r, date,
                                   Instant(date, s), Instant(date, s + len))

\* A timeout never hides the message of a later booking or cancellation: a pending
\* timeout is the one of the message that is shown, if any is (bookingTimerRef).
TimerOwnsMessage ==
    \A t \in timers :
        (IF t.op = "book" THEN ui.feedback.bookOk ELSE ui.feedback.cancelOk) \in {0, t.n}

\* The spinner of the desk page is on exactly while its request is in flight, so a
\* second click cannot send a second one; the dialog of any page stays while its
\* cancellation is in flight.
BusyWhileInFlight ==
    LET mine(op) == {c \in calls : c.op = op /\ c.mount = mount} IN
    /\ page = "desk" => ui.booking = (mine("book") # {}) /\ Cardinality(mine("book")) <= 1
    /\ ui.cancelling = (mine("cancel") # {}) /\ Cardinality(mine("cancel")) <= 1
    /\ ui.cancelling => ui.dialog # Nothing

=============================================================================
