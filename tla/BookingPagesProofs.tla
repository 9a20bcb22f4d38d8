-------------------------- MODULE BookingPagesProofs --------------------------
(***************************************************************************)
(* What BookingPages guarantees for any desks, rooms, dates, arrivals and  *)
(* bounds.  The inductive invariant relates four views of one booking: the *)
(* server's row, the request about it that is in flight, what this client  *)
(* was told of it, and every list, cached, awaited or shown, it may be in. *)
(***************************************************************************)
EXTENDS BookingPages, SequenceTheorems, FiniteSetTheorems, TLAPS

Resources == Desks \cup Rooms

\* A list of key k that was read from the server when its rows were those of sv, or earlier:
\* rows that differ were cancelled since.
Shape(k, S, sv) ==
    \A b \in S : /\ b.id \in DOMAIN sv
                 /\ b = sv[b.id] \/ b = [sv[b.id] EXCEPT !.active = TRUE]
                 /\ k[1] \in MyLists => b.mine

InKey(k, b) == /\ b.res \in Listed(k[1])
               /\ k[1] \in MyLists \/ b.date = k[3]

\* The list says of each booking in fm what the client was told.
Tells(k, S, sv, fm) ==
    \A t \in fm : InKey(k, sv[t.id]) =>
        ((\E b \in S : b.id = t.id /\ b.active) <=> t.said = "booked")

LEMMA ListedLists ==
  /\ Listed("deskBookings") = FloorDesks /\ Listed("myBookings") = Desks
  /\ Listed("roomBookings") = Rooms /\ Listed("myRoomBookings") = Rooms
  /\ FloorDesks \subseteq Desks
BY DEF Listed, FloorDesks

Good(k, S, sv, fm) == Shape(k, S, sv) /\ Tells(k, S, sv, fm)

KeysFor(n) == IF n \in MyLists THEN {<<n>>} ELSE {<<n, Floor, d>> : d \in Dates}

Fetch     == [key : Keys, got : RowSets \cup {Nothing}]
ListState == [st : {"loading", "ready", "failed"}, shown : RowSets,
              of : Keys \cup {Nothing}, fetch : Fetch \cup {Nothing}]

\* A list hook: what it awaits, shows and, unless it failed, tells.
ListGood(n, r, sv, fm) ==
    /\ r \in ListState
    /\ r.st = "loading" <=> r.fetch # Nothing
    /\ r.fetch # Nothing =>
         /\ r.fetch.key \in KeysFor(n)
         /\ r.fetch.got # Nothing => Good(r.fetch.key, r.fetch.got, sv, fm)
    /\ r.of = Nothing => r.shown = {}
    /\ r.of # Nothing => r.of \in KeysFor(n) /\ Shape(r.of, r.shown, sv)
    /\ r.st = "ready" /\ r.of # Nothing => Good(r.of, r.shown, sv, fm)

\* What the client was told in this mount and no cancellation in flight can change.
Firm == {t \in told : /\ t.mount = mount
                      /\ \/ t.said = "cancelled"
                         \/ /\ t.said = "booked"
                            /\ \A c \in calls : c.op = "cancel" => c.id # t.id}

ListsGood == /\ \A k \in Keys : cache[k] # Nothing => Good(k, cache[k], server, Firm)
             /\ \A n \in DOMAIN list : ListGood(n, list[n], server, Firm)

Call == [n : Nat, op : {"book", "cancel"}, res : Resources, date : Dates, from : Int, to : Int,
         id : Nat, mount : Nat, st : {"sent", "done", "refused"}]

\* A request that the server has taken, and any cancellation, names one of this client's rows.
CallGood(c, sv) ==
    IF c.op = "book" /\ c.st # "done" THEN c.id = 0
    ELSE /\ c.id \in DOMAIN sv /\ sv[c.id].mine /\ sv[c.id].res = c.res
         /\ c.op = "cancel" /\ c.st = "done" => ~sv[c.id].active

CallsGood == /\ \A c \in calls : /\ c \in Call /\ CallGood(c, server)
                                 /\ c.mount <= mount /\ c.n \in 1 .. sent
             /\ \A c, d \in calls : c.n = d.n => c = d

\* A booking that stands, unless a cancellation of it is in flight.
Stands(id) == server[id].active \/ \E c \in calls : c.op = "cancel" /\ c.id = id

ToldGood ==
    /\ \A t \in told :
          /\ t.mount <= mount /\ t.mount \in Nat /\ t.said \in {"booked", "cancelled", "unknown"}
          /\ t.said # "unknown" => t.id \in DOMAIN server /\ server[t.id].mine
          /\ t.said = "cancelled" => ~server[t.id].active
          /\ t.said = "booked" => Stands(t.id)
    /\ \A c \in calls : c.op = "book" /\ c.st = "done" =>
          Stands(c.id) \/ \E t \in told : t.id = c.id

\* Others cancel nothing.
ServerGood == /\ server \in Seq(BookingRecord)
              /\ \A i \in DOMAIN server : server[i].id = i /\ (server[i].active \/ server[i].mine)

Feedback == [bookOk : Nat, cancelOk : Nat, bookErr : Resources \cup {Nothing}, cancelErr : BOOLEAN]
Ui == [prefill : FloorDesks \cup {Nothing, Gone}, gone : BOOLEAN, desk : FloorDesks \cup {Nothing},
       booking : BOOLEAN, cancelling : BOOLEAN, busy : Resources \cup {Nothing},
       dialog : BookingRecord \cup {Nothing}, feedback : Feedback]

\* The dialog is about one of this client's rows.
UiGood == /\ ui \in Ui
          /\ ui.dialog # Nothing => /\ ui.dialog.id \in DOMAIN server
                                    /\ ui.dialog.res = server[ui.dialog.id].res
                                    /\ server[ui.dialog.id].mine

Things == [items : {"none", "loading", "ready", "failed"}, layout : {"loading", "done"}, known : BOOLEAN]

PageGood ==
    /\ page \in {"desk", "room", "mine"} /\ DOMAIN list = ListsOf(page)
    /\ place \in [office : {Nothing, Office}, floor : {Nothing, Floor}, date : Dates]
    /\ things \in Things
    /\ mount \in Nat /\ sent \in Nat
    /\ DOMAIN cache = Keys
    /\ \A k \in Keys : cache[k] # Nothing => cache[k] \in RowSets

\* Only the desk page has timers, one for each message.
TimersGood ==
    /\ page # "desk" => timers = {}
    /\ \A t \in timers : t.op \in {"book", "cancel"} /\ t.n \in Nat

\* The requests of this mount.
Mine(op) == {c \in calls : c.op = op /\ c.mount = mount}
AtMostOne(S) == \A c, d \in S : c = d

Busy == /\ page = "desk" => (ui.booking <=> Mine("book") # {}) /\ AtMostOne(Mine("book"))
        /\ page = "mine" => Mine("book") = {}
        /\ (ui.cancelling <=> Mine("cancel") # {}) /\ AtMostOne(Mine("cancel"))
        /\ ui.cancelling => ui.dialog # Nothing

\* What does not depend on the pages.
WorldGood == now \in Clocks /\ published \in BOOLEAN

Inv == /\ PageGood /\ UiGood /\ ServerGood /\ CallsGood /\ ToldGood /\ ListsGood
       /\ TimersGood /\ TimerOwnsMessage /\ Busy
----------------------------------------------------------------------------
(* Lists, in any state of the server *)

LEMMA RowTyped == ASSUME NEW S \in RowSets, NEW b \in S PROVE b \in BookingRecord
BY DEF RowSets

LEMMA NoRows == {} \in RowSets
BY DEF RowSets

LEMMA GoodWeaker ==
  ASSUME NEW k, NEW S, NEW sv, NEW fm, NEW gm, gm \subseteq fm, Good(k, S, sv, fm)
  PROVE  Good(k, S, sv, gm)
BY DEF Good, Tells

LEMMA ListWeaker ==
  ASSUME NEW n, NEW r, NEW sv, NEW fm, NEW gm, gm \subseteq fm, ListGood(n, r, sv, fm)
  PROVE  ListGood(n, r, sv, gm)
BY GoodWeaker DEF ListGood

\* The rows of sv are still there in tv, cancelled at most.
Follows(sv, tv) ==
    \A i \in DOMAIN sv : /\ i \in DOMAIN tv
                         /\ sv[i] \in BookingRecord
                         /\ tv[i] = sv[i] \/ tv[i] = [sv[i] EXCEPT !.active = FALSE]

LEMMA ShapeFollows ==
  ASSUME NEW k, NEW S, NEW sv, NEW tv, Follows(sv, tv), Shape(k, S, sv), S \in RowSets
  PROVE  Shape(k, S, tv)
<1> SUFFICES ASSUME NEW b \in S
             PROVE  /\ b.id \in DOMAIN tv
                    /\ b = tv[b.id] \/ b = [tv[b.id] EXCEPT !.active = TRUE]
                    /\ k[1] \in MyLists => b.mine
  BY DEF Shape
<1> DEFINE r == sv[b.id]
           q == tv[b.id]
<1>1. /\ b = r \/ b = [r EXCEPT !.active = TRUE]
      /\ k[1] \in MyLists => b.mine
      /\ b \in BookingRecord
  BY RowTyped DEF Shape
<1>2. b.id \in DOMAIN sv
  BY DEF Shape
<1>3. r \in BookingRecord /\ b.id \in DOMAIN tv /\ (q = r \/ q = [r EXCEPT !.active = FALSE])
  BY <1>2 DEF Follows
<1> HIDE DEF r, q
<1>4. b = q \/ b = [q EXCEPT !.active = TRUE]
  BY <1>1, <1>3 DEF BookingRecord
<1>5. QED
  BY <1>1, <1>3, <1>4 DEF r, q

LEMMA TellsFollows ==
  ASSUME NEW k, NEW S, NEW sv, NEW tv, Follows(sv, tv), NEW fm, Tells(k, S, sv, fm),
         \A t \in fm : t.id \in DOMAIN sv
  PROVE  Tells(k, S, tv, fm)
<1>1. ASSUME NEW t \in fm PROVE InKey(k, tv[t.id]) <=> InKey(k, sv[t.id])
  <2> DEFINE r == sv[t.id]
             q == tv[t.id]
  <2>1. r \in BookingRecord /\ (q = r \/ q = [r EXCEPT !.active = FALSE])
    BY DEF Follows
  <2> HIDE DEF r, q
  <2>2. q.res = r.res /\ q.date = r.date
    BY <2>1 DEF BookingRecord
  <2>3. InKey(k, q) <=> InKey(k, r)
    BY <2>2 DEF InKey
  <2>4. QED
    BY <2>3 DEF r, q
<1>2. QED
  BY <1>1 DEF Tells

LEMMA GoodFollows ==
  ASSUME NEW k, NEW S, NEW sv, NEW tv, Follows(sv, tv), NEW fm, Good(k, S, sv, fm),
         S \in RowSets, \A t \in fm : t.id \in DOMAIN sv
  PROVE  Good(k, S, tv, fm)
BY ShapeFollows, TellsFollows DEF Good

LEMMA ListFollows ==
  ASSUME NEW n, NEW r, NEW sv, NEW tv, Follows(sv, tv), NEW fm, ListGood(n, r, sv, fm),
         \A t \in fm : t.id \in DOMAIN sv
  PROVE  ListGood(n, r, tv, fm)
<1>1. r \in ListState
  BY DEF ListGood
<1>2. r.fetch # Nothing /\ r.fetch.got # Nothing => Good(r.fetch.key, r.fetch.got, tv, fm)
  <2>1. SUFFICES ASSUME r.fetch # Nothing, r.fetch.got # Nothing
                 PROVE  Good(r.fetch.key, r.fetch.got, tv, fm)
    OBVIOUS
  <2>2. r.fetch \in Fetch
    BY <1>1, <2>1 DEF ListState
  <2>3. r.fetch.got \in RowSets
    BY <2>1, <2>2 DEF Fetch
  <2>4. QED
    BY <2>1, <2>3, GoodFollows DEF ListGood
<1>3. r.shown \in RowSets
  BY <1>1 DEF ListState
<1>4. r.of # Nothing => Shape(r.of, r.shown, tv)
  BY <1>3, ShapeFollows DEF ListGood
<1>5. r.st = "ready" /\ r.of # Nothing => Good(r.of, r.shown, tv, fm)
  BY <1>3, GoodFollows DEF ListGood
<1>6. QED
  BY <1>2, <1>4, <1>5 DEF ListGood

LEMMA KeysForKeys == ASSUME NEW n \in Lists PROVE KeysFor(n) \subseteq Keys
BY DEF KeysFor, Keys

LEMMA AskNothing == ASSUME NEW f \in Fetch PROVE f # Nothing
BY NothingAssumption DEF Fetch

\* The effect of a hook: nothing, the cached list, or a request.
LEMMA LoadGood ==
  ASSUME NEW n \in Lists, NEW h, NEW k \in KeysFor(n) \cup {Nothing}, NEW force \in BOOLEAN,
         NEW stored, NEW sv, NEW fm,
         h = NoList \/ ListGood(n, h, sv, fm),
         k # Nothing /\ stored[k] # Nothing
           => Good(k, stored[k], sv, fm) /\ stored[k] \in RowSets
  PROVE  ListGood(n, Load(h, k, force, stored), sv, fm)
<1> DEFINE f == [key |-> k, got |-> Nothing]
           r == Load(h, k, force, stored)
<1>1. k \in Keys \cup {Nothing}
  BY KeysForKeys
<1>2. CASE k = Nothing
  <2>1. r = [st |-> "ready", shown |-> {}, of |-> Nothing, fetch |-> Nothing]
    BY <1>2 DEF Load
  <2>2. r \in ListState
    BY <2>1, NoRows DEF ListState
  <2>3. QED
    BY <2>1, <2>2 DEF ListGood
<1>3. CASE k # Nothing /\ stored[k] # Nothing /\ ~force
  <2>1. r = [st |-> "ready", shown |-> stored[k], of |-> k, fetch |-> Nothing]
    BY <1>3 DEF Load
  <2>2. Shape(k, stored[k], sv)
    BY <1>3 DEF Good
  <2> HIDE DEF r
  <2>3. /\ r.st = "ready" /\ r.shown = stored[k] /\ r.of = k /\ r.fetch = Nothing
        /\ r \in ListState
    BY <1>1, <1>3, <2>1 DEF ListState
  <2>4. ListGood(n, r, sv, fm)
    BY <1>3, <2>2, <2>3 DEF ListGood
  <2>5. QED
    BY <2>4 DEF r
<1>4. CASE k # Nothing /\ ~(stored[k] # Nothing /\ ~force)
  <2>1. r = [h EXCEPT !.st = "loading", !.fetch = f]
    BY <1>4 DEF Load
  <2>2. f \in Fetch /\ f.key = k /\ f.got = Nothing
    BY <1>1, <1>4 DEF Fetch
  <2>3. f # Nothing
    BY <2>2, AskNothing
  <2>4. /\ h \in ListState
        /\ h.of = Nothing => h.shown = {}
        /\ h.of # Nothing => h.of \in KeysFor(n) /\ Shape(h.of, h.shown, sv)
    BY NoRows DEF NoList, ListGood, ListState
  <2> HIDE DEF f, r
  <2>5. /\ r.st = "loading" /\ r.shown = h.shown /\ r.of = h.of /\ r.fetch = f
        /\ r \in ListState
    BY <2>1, <2>2, <2>4 DEF ListState
  <2>6. ListGood(n, r, sv, fm)
    BY <1>4, <2>2, <2>3, <2>4, <2>5 DEF ListGood
  <2>7. QED
    BY <2>6 DEF r
<1>5. QED
  BY <1>2, <1>3, <1>4
----------------------------------------------------------------------------
(* What the client was told, and the server *)

ServerKnows(fm) == \A t \in fm : t.id \in DOMAIN server

LEMMA FirmKnown == ASSUME ToldGood PROVE ServerKnows(Firm)
BY DEF ToldGood, ServerKnows, Firm

\* What the client was told for good is so.
LEMMA FirmTrue ==
  ASSUME ToldGood, NEW t \in Firm
  PROVE  /\ t.id \in DOMAIN server /\ server[t.id].mine
         /\ server[t.id].active <=> t.said = "booked"
<1>1. t \in told /\ t.said \in {"booked", "cancelled"}
  BY DEF Firm
<1>2. t.said = "booked" => \A c \in calls : c.op = "cancel" => c.id # t.id
  BY DEF Firm
<1>3. QED
  BY <1>1, <1>2 DEF ToldGood, Stands

LEMMA ServerTyped ==
  ASSUME ServerGood
  PROVE  /\ \A i \in DOMAIN server : server[i] \in BookingRecord /\ server[i].id = i
         /\ Len(server) \in Nat /\ DOMAIN server = 1 .. Len(server)
         /\ Follows(server, server)
<1>1. /\ Len(server) \in Nat /\ DOMAIN server = 1 .. Len(server)
      /\ \A i \in DOMAIN server : server[i] \in BookingRecord
  BY LenProperties DEF ServerGood
<1>2. QED
  BY <1>1 DEF ServerGood, Follows

\* The server's answer to a list request tells what the client was told.
LEMMA ContentGood ==
  ASSUME ServerGood, ToldGood, NEW k \in Keys
  PROVE  Good(k, Content(k), server, Firm) /\ Content(k) \in RowSets
<1> DEFINE kind == Listed(k[1])
<1>1. k \in {<<n>> : n \in MyLists} \/ k \in {<<n, Floor, d>> : n \in Lists \ MyLists, d \in Dates}
  BY DEF Keys
<1>2. (k[1] \in MyLists /\ Len(k) = 1) \/ (k[1] \notin MyLists /\ Len(k) = 3)
  BY <1>1
<1>3. Content(k) = IF Len(k) = 1 THEN {b \in Bookings : b.res \in kind /\ b.mine}
                   ELSE {b \in Bookings : b.res \in kind /\ b.date = k[3] /\ b.active}
  BY DEF Content
<1>4. \A b \in Bookings : b.id \in DOMAIN server /\ b = server[b.id] /\ b \in BookingRecord
  BY ServerTyped DEF Bookings
<1>5. Content(k) \in RowSets
  BY <1>3, <1>4 DEF RowSets
<1>6. Shape(k, Content(k), server)
  BY <1>2, <1>3, <1>4 DEF Shape
<1>7. Tells(k, Content(k), server, Firm)
  <2> SUFFICES ASSUME NEW t \in Firm, InKey(k, server[t.id])
               PROVE  (\E b \in Content(k) : b.id = t.id /\ b.active) <=> t.said = "booked"
    BY DEF Tells
  <2> DEFINE r == server[t.id]
  <2>1. r \in Bookings /\ r \in BookingRecord /\ r.id = t.id /\ r.mine /\ (r.active <=> t.said = "booked")
    BY FirmTrue, ServerTyped DEF Bookings
  <2>2. r.res \in kind /\ (k[1] \in MyLists \/ r.date = k[3])
    <3> HIDE DEF r
    <3>1. InKey(k, r)
      BY DEF r
    <3>2. QED
      BY <3>1 DEF InKey
  <2>3. \A b \in Content(k) : b.id = t.id => b = r
    BY <1>3, <1>4
  <2> HIDE DEF r
  <2>4. r.active => r \in Content(k)
    BY <1>2, <1>3, <2>1, <2>2
  <2>5. QED
    BY <2>1, <2>3, <2>4
<1>8. QED
  BY <1>5, <1>6, <1>7 DEF Good
----------------------------------------------------------------------------
(* Steps that only browse *)

Place == [office : {Nothing, Office}, floor : {Nothing, Floor}, date : Dates]

\* Nothing happens on the server, in the requests or to what the client was told.
Browses == UNCHANGED <<page, mount, calls, server, sent, told>>

LEMMA BrowseKeeps ==
  ASSUME Browses
  PROVE  /\ Firm' = Firm
         /\ (ServerGood <=> ServerGood') /\ (CallsGood <=> CallsGood') /\ (ToldGood <=> ToldGood')
         /\ Mine("book")' = Mine("book") /\ Mine("cancel")' = Mine("cancel")
<1>1. Firm' = Firm
  BY DEF Browses, Firm
<1>2. ServerGood <=> ServerGood'
  BY DEF Browses, ServerGood
<1>3. CallsGood <=> CallsGood'
  BY DEF Browses, CallsGood
<1>4. ToldGood <=> ToldGood'
  BY DEF Browses, ToldGood, Stands
<1>5. Mine("book")' = Mine("book") /\ Mine("cancel")' = Mine("cancel")
  BY DEF Browses, Mine
<1>6. QED
  BY <1>1, <1>2, <1>3, <1>4, <1>5

LEMMA RestorePlace ==
  ASSUME NEW p \in Place, NEW l
  PROVE  Restore(p, l).p \in Place
<1> DEFINE r == Restore(p, l)
<1>1. r.p \in {p, [p EXCEPT !.office = Office], [p EXCEPT !.floor = Floor]}
  BY DEF Restore
<1>2. p \in Place /\ [p EXCEPT !.office = Office] \in Place /\ [p EXCEPT !.floor = Floor] \in Place
  BY DEF Place
<1> HIDE DEF r
<1>3. r.p \in Place
  BY <1>1, <1>2
<1>4. QED
  BY <1>3 DEF r

LEMMA PageLists ==
  ASSUME NEW p \in {"desk", "room", "mine"}
  PROVE  ListsOf(p) \subseteq Lists
BY DEF ListsOf, Lists, MyLists

LEMMA KeyGood ==
  ASSUME NEW n \in Lists, NEW p \in Place
  PROVE  Key(n, p) \in KeysFor(n) \cup {Nothing}
<1>1. p.floor \in {Nothing, Floor} /\ p.date \in Dates
  BY DEF Place
<1>2. QED
  BY <1>1 DEF Key, KeysFor

\* The lists of a page that mounts or that goes to another floor or date.
LEMMA LoadsGood ==
  ASSUME ListsGood, PageGood, NEW D \in SUBSET Lists, NEW p \in Place, NEW stored \in Stored,
         NEW force \in BOOLEAN, NEW from,
         \A n \in D : from[n] = NoList \/ ListGood(n, from[n], server, Firm)
  PROVE  /\ \A n \in D : ListGood(n, Load(from[n], Key(n, p), force, stored), server, Firm)
         /\ DOMAIN stored = Keys
         /\ \A k \in Keys : stored[k] # Nothing
               => Good(k, stored[k], server, Firm) /\ stored[k] \in RowSets
<1>1. DOMAIN stored = Keys
  BY DEF Stored, PageGood
<1>2. \A k \in Keys : stored[k] # Nothing => stored[k] = cache[k]
  BY DEF Stored
<1>3. \A k \in Keys : stored[k] # Nothing => Good(k, stored[k], server, Firm) /\ stored[k] \in RowSets
  BY <1>2 DEF ListsGood, PageGood
<1>4. ASSUME NEW n \in D
      PROVE  ListGood(n, Load(from[n], Key(n, p), force, stored), server, Firm)
  <2> DEFINE k == Key(n, p)
             h == from[n]
  <2>1. n \in Lists
    OBVIOUS
  <2>2. k \in KeysFor(n) \cup {Nothing}
    BY <2>1, KeyGood
  <2>3. k # Nothing /\ stored[k] # Nothing
          => Good(k, stored[k], server, Firm) /\ stored[k] \in RowSets
    BY <1>3, <2>1, <2>2, KeysForKeys
  <2>4. h = NoList \/ ListGood(n, h, server, Firm)
    OBVIOUS
  <2> HIDE DEF k, h
  <2>5. ListGood(n, Load(h, k, force, stored), server, Firm)
    BY <2>1, <2>2, <2>3, <2>4, LoadGood
  <2>6. QED
    BY <2>5 DEF k, h
<1>5. QED
  BY <1>1, <1>3, <1>4

\* The parts of the invariant that speak of the lists, for the next state.
LEMMA ListsAfter ==
  ASSUME \A k \in Keys : cache'[k] # Nothing => Good(k, cache'[k], server', Firm'),
         \A n \in DOMAIN list' : ListGood(n, list'[n], server', Firm')
  PROVE  ListsGood'
BY DEF ListsGood

LEMMA AskedTyped == ASSUME NEW p, NEW floor, NEW known \in BOOLEAN PROVE Asked(p, floor, known) \in Things
BY DEF Asked, Things

LEMMA SettleGood ==
  ASSUME PageGood, ListsGood, Browses, NEW p \in Place, NEW l, Settle(p, l)
  PROVE  PageGood' /\ ListsGood'
<1> DEFINE q == Restore(p, l).p
<1>1. q \in Place /\ place' = q
  BY RestorePlace DEF Settle
<1>2. things' \in Things
  <2>1. things \in Things /\ things.known \in BOOLEAN
    BY DEF PageGood, Things
  <2>2. things' = things \/ things' = Asked(page, q.floor, things.known)
    BY DEF Settle
  <2>3. QED
    BY <2>1, <2>2, AskedTyped
<1>3. Firm' = Firm /\ server' = server /\ page' = page /\ mount' = mount /\ sent' = sent
  BY BrowseKeeps DEF Browses
<1>4. CASE UNCHANGED <<list, cache>>
  <2>1. ListsGood'
    BY <1>3, <1>4 DEF ListsGood
  <2>2. PageGood'
    BY <1>1, <1>2, <1>3, <1>4 DEF PageGood, Place
  <2>3. QED
    BY <2>1, <2>2
<1>5. ASSUME NEW stored \in Stored, list' = LoadAll(q, stored), cache' = stored
      PROVE  PageGood' /\ ListsGood'
  <2>1. DOMAIN list \in SUBSET Lists
    BY PageLists DEF PageGood
  <2>2. \A n \in DOMAIN list : ListGood(n, list[n], server, Firm)
    BY DEF ListsGood
  <2>3. /\ \A n \in DOMAIN list : ListGood(n, Load(list[n], Key(n, q), FALSE, stored), server, Firm)
        /\ DOMAIN stored = Keys
        /\ \A k \in Keys : stored[k] # Nothing
              => Good(k, stored[k], server, Firm) /\ stored[k] \in RowSets
    <3> HIDE DEF q
    <3>1. QED
      BY <1>1, <2>1, <2>2, LoadsGood
  <2>4. DOMAIN list' = DOMAIN list
        /\ \A n \in DOMAIN list : list'[n] = Load(list[n], Key(n, q), FALSE, stored)
    BY <1>5 DEF LoadAll
  <2> HIDE DEF q
  <2>5. ListsGood'
    BY <1>3, <1>5, <2>3, <2>4, ListsAfter
  <2>6. PageGood'
    BY <1>1, <1>2, <1>3, <1>5, <2>3, <2>4 DEF PageGood, Place
  <2>7. QED
    BY <2>5, <2>6
<1>6. QED
  BY <1>4, <1>5 DEF Settle
----------------------------------------------------------------------------
(* What browsing does to the page's own state *)

\* The spinners and the dialog stay; the messages stay or go.
Keeps(u, v) == /\ v \in Ui
               /\ v.booking = u.booking /\ v.cancelling = u.cancelling /\ v.dialog = u.dialog
               /\ v.feedback = u.feedback \/ v.feedback = NoFeedback

LEMMA PrefilledKeeps == ASSUME NEW u \in Ui PROVE Keeps(u, Prefilled(u))
<1> DEFINE v == Prefilled(u)
<1>1. \/ v = u
      \/ u.prefill \in FloorDesks /\ v = [u EXCEPT !.prefill = Nothing, !.desk = u.prefill]
      \/ v = [u EXCEPT !.prefill = Nothing, !.gone = TRUE]
  BY DEF Prefilled
<1> HIDE DEF v
<1>2. Keeps(u, v)
  BY <1>1 DEF Keeps, Ui
<1>3. QED
  BY <1>2 DEF v

LEMMA NoFeedbackTyped == NoFeedback \in Feedback
BY DEF NoFeedback, Feedback

\* A click that clears the messages, and then the "book again" desk.
LEMMA ResetKeeps ==
  ASSUME ui \in Ui
  PROVE  Keeps(ui, Prefilled(Reset)) /\ Keeps(ui, Prefilled([Reset EXCEPT !.gone = FALSE]))
<1> DEFINE u == Reset
           w == [u EXCEPT !.gone = FALSE]
<1>1. u = [ui EXCEPT !.desk = Nothing, !.feedback = NoFeedback]
  BY DEF Reset
<1>2. u \in Ui /\ u.booking = ui.booking /\ u.cancelling = ui.cancelling /\ u.dialog = ui.dialog
      /\ u.feedback = NoFeedback
  BY <1>1, NoFeedbackTyped DEF Ui
<1> HIDE DEF u
<1>3. w \in Ui /\ w.booking = ui.booking /\ w.cancelling = ui.cancelling /\ w.dialog = ui.dialog
      /\ w.feedback = NoFeedback
  BY <1>2 DEF Ui
<1> HIDE DEF w
<1>4. Keeps(u, Prefilled(u)) /\ Keeps(w, Prefilled(w))
  BY <1>2, <1>3, PrefilledKeeps
<1>5. Keeps(ui, Prefilled(u)) /\ Keeps(ui, Prefilled(w))
  BY <1>2, <1>3, <1>4 DEF Keeps
<1>6. QED
  BY <1>5 DEF u, w

LEMMA BrowseUi ==
  ASSUME UiGood, TimersGood, TimerOwnsMessage, Busy, Browses, timers' = timers, Keeps(ui, ui')
  PROVE  UiGood' /\ TimersGood' /\ TimerOwnsMessage' /\ Busy'
<1>1. UiGood'
  BY DEF UiGood, Keeps, Browses
<1>2. TimersGood'
  BY DEF TimersGood, Browses
<1>3. TimerOwnsMessage'
  <2>1. CASE ui'.feedback = ui.feedback
    BY <2>1 DEF TimerOwnsMessage
  <2>2. CASE ui'.feedback = NoFeedback
    BY <2>2 DEF TimerOwnsMessage, NoFeedback
  <2>3. QED
    BY <2>1, <2>2 DEF Keeps
<1>4. Busy'
  BY BrowseKeeps DEF Busy, Keeps, Browses
<1>5. QED
  BY <1>1, <1>2, <1>3, <1>4

LEMMA BrowseInv ==
  ASSUME Inv, Browses, timers' = timers, Keeps(ui, ui'), PageGood', ListsGood'
  PROVE  Inv'
BY BrowseKeeps, BrowseUi DEF Inv

\* Lists and places that stay.
LEMMA StillGood ==
  ASSUME PageGood, ListsGood, Browses, UNCHANGED <<place, list, cache>>,
         things' \in Things
  PROVE  PageGood' /\ ListsGood'
<1>1. ListsGood'
  BY BrowseKeeps DEF ListsGood, Browses
<1>2. PageGood'
  BY DEF PageGood, Browses
<1>3. QED
  BY <1>1, <1>2

LEMMA KeepsSelf == ASSUME ui \in Ui PROVE Keeps(ui, ui)
BY DEF Keeps

LEMMA OfficesAnswerInv == ASSUME Inv, NEW ok \in BOOLEAN, OfficesAnswer(ok) PROVE Inv'
<1>1. Browses /\ timers' = timers /\ ui' = ui
  BY DEF OfficesAnswer, Browses
<1>2. place \in Place
  BY DEF Inv, PageGood, Place
<1>3. PageGood' /\ ListsGood'
  BY <1>1, <1>2, SettleGood DEF OfficesAnswer, Inv
<1>4. QED
  BY <1>1, <1>3, KeepsSelf, BrowseInv DEF Inv, UiGood

LEMMA FloorsAnswerInv == ASSUME Inv, NEW ok \in BOOLEAN, FloorsAnswer(ok) PROVE Inv'
<1>1. Browses /\ timers' = timers /\ ui' = ui
  BY DEF FloorsAnswer, Browses
<1>2. place \in Place
  BY DEF Inv, PageGood, Place
<1>3. PageGood' /\ ListsGood'
  BY <1>1, <1>2, SettleGood DEF FloorsAnswer, Inv
<1>4. QED
  BY <1>1, <1>3, KeepsSelf, BrowseInv DEF Inv, UiGood

\* The desks or rooms, or the layout, are there or failed.
LEMMA AnswersInv ==
  ASSUME Inv, (\E ok \in BOOLEAN : ItemsAnswer(ok)) \/ LayoutAnswer
  PROVE  Inv'
<1>1. Browses /\ timers' = timers /\ ui' = Prefilled(ui) /\ UNCHANGED <<place, list, cache>>
  BY DEF ItemsAnswer, LayoutAnswer, Browses
<1>2. things' \in Things
  <2>1. things \in Things
    BY DEF Inv, PageGood
  <2>2. CASE \E ok \in BOOLEAN : ItemsAnswer(ok)
    BY <2>1, <2>2 DEF ItemsAnswer, Things
  <2>3. CASE LayoutAnswer
    BY <2>1, <2>3 DEF LayoutAnswer, Things
  <2>4. QED
    BY <2>2, <2>3
<1>3. PageGood' /\ ListsGood'
  BY <1>1, <1>2, StillGood DEF Inv
<1>4. Keeps(ui, ui')
  BY <1>1, PrefilledKeeps DEF Inv, UiGood
<1>5. QED
  BY <1>1, <1>3, <1>4, BrowseInv

\* A choice of office, floor or date.
LEMMA ChoiceInv ==
  ASSUME Inv, Browses, timers' = timers, NEW p \in Place, NEW l, Settle(p, l),
         ui' = Prefilled(Reset) \/ ui' = Prefilled([Reset EXCEPT !.gone = FALSE])
  PROVE  Inv'
<1>1. PageGood' /\ ListsGood'
  BY SettleGood DEF Inv
<1>2. Keeps(ui, ui')
  BY ResetKeeps DEF Inv, UiGood
<1>3. QED
  BY <1>1, <1>2, BrowseInv

LEMMA ChooseOfficeInv == ASSUME Inv, ChooseOffice(Office) PROVE Inv'
<1>1. [place EXCEPT !.office = Office, !.floor = Nothing] \in Place
  BY DEF Inv, PageGood, Place
<1>2. Browses /\ timers' = timers
  BY DEF ChooseOffice, Browses
<1>3. QED
  BY <1>1, <1>2, ChoiceInv DEF ChooseOffice

LEMMA ChooseFloorInv == ASSUME Inv, ChooseFloor PROVE Inv'
<1>1. [place EXCEPT !.floor = Floor] \in Place
  BY DEF Inv, PageGood, Place
<1>2. Browses /\ timers' = timers
  BY DEF ChooseFloor, Browses
<1>3. QED
  BY <1>1, <1>2, ChoiceInv DEF ChooseFloor

LEMMA ChooseDateInv == ASSUME Inv, NEW d \in Dates, ChooseDate(d) PROVE Inv'
<1>1. [place EXCEPT !.date = d] \in Place
  BY DEF Inv, PageGood, Place
<1>2. Browses /\ timers' = timers
  BY DEF ChooseDate, Browses
<1>3. QED
  BY <1>1, <1>2, ChoiceInv DEF ChooseDate
----------------------------------------------------------------------------
(* One list is served, arrives or fails *)

LEMMA OneList ==
  ASSUME PageGood, ListsGood, Browses, UNCHANGED <<place, things>>,
         NEW n \in DOMAIN list, NEW r, ListGood(n, r, server, Firm),
         DOMAIN list' = DOMAIN list, list'[n] = r,
         \A m \in DOMAIN list \ {n} : list'[m] = list[m],
         DOMAIN cache' = Keys,
         \A k \in Keys : cache'[k] # Nothing
            => Good(k, cache'[k], server, Firm) /\ cache'[k] \in RowSets
  PROVE  PageGood' /\ ListsGood'
<1>1. Firm' = Firm /\ server' = server
  BY BrowseKeeps DEF Browses
<1>2. \A m \in DOMAIN list' : ListGood(m, list'[m], server, Firm)
  BY DEF ListsGood
<1>3. ListsGood'
  BY <1>1, <1>2, ListsAfter
<1>4. PageGood'
  BY DEF PageGood, Browses
<1>5. QED
  BY <1>3, <1>4

LEMMA CacheGood ==
  ASSUME PageGood, ListsGood
  PROVE  /\ DOMAIN cache = Keys
         /\ \A k \in Keys : cache[k] # Nothing
               => Good(k, cache[k], server, Firm) /\ cache[k] \in RowSets
BY DEF PageGood, ListsGood

\* What a list awaits.
LEMMA FetchGood ==
  ASSUME PageGood, ListsGood, NEW n \in DOMAIN list, list[n].fetch # Nothing
  PROVE  /\ n \in Lists /\ ListGood(n, list[n], server, Firm)
         /\ list[n].fetch \in Fetch /\ list[n].fetch.key \in Keys
         /\ list[n].fetch.key \in KeysFor(n)
         /\ list[n].fetch.got # Nothing =>
               /\ list[n].fetch.got \in RowSets
               /\ Good(list[n].fetch.key, list[n].fetch.got, server, Firm)
<1> DEFINE r == list[n]
<1>1. n \in Lists /\ ListGood(n, r, server, Firm)
  BY PageLists DEF PageGood, ListsGood
<1>2. r.fetch # Nothing
  OBVIOUS
<1> HIDE DEF r
<1>3. r.fetch \in Fetch
  BY <1>1, <1>2 DEF ListGood, ListState
<1>4. r.fetch.key \in Keys /\ (r.fetch.got # Nothing => r.fetch.got \in RowSets)
  BY <1>3 DEF Fetch
<1>5. /\ r.fetch.key \in KeysFor(n)
      /\ r.fetch.got # Nothing => Good(r.fetch.key, r.fetch.got, server, Firm)
  BY <1>1, <1>2 DEF ListGood
<1>6. QED
  BY <1>1, <1>3, <1>4, <1>5 DEF r

LEMMA ServeListInv == ASSUME Inv, NEW n \in DOMAIN list, ServeList(n) PROVE Inv'
<1> DEFINE h == list[n]
           k == h.fetch.key
           f == [h.fetch EXCEPT !.got = Content(k)]
           r == [h EXCEPT !.fetch = f]
<1>1. Browses /\ timers' = timers /\ ui' = ui /\ UNCHANGED <<place, things, cache>>
      /\ h.fetch # Nothing
  BY DEF ServeList, Browses
<1>2. /\ n \in Lists /\ ListGood(n, h, server, Firm)
      /\ h.fetch \in Fetch /\ k \in Keys /\ k \in KeysFor(n)
  BY <1>1, FetchGood DEF Inv
<1>3. Good(k, Content(k), server, Firm) /\ Content(k) \in RowSets
  <2> HIDE DEF k
  <2>1. QED
    BY <1>2, ContentGood DEF Inv
<1>4. list' = [list EXCEPT ![n].fetch.got = Content(k)]
  BY DEF ServeList
<1>5. list'[n] = r
  BY <1>4
<1>6. DOMAIN list' = DOMAIN list /\ \A m \in DOMAIN list \ {n} : list'[m] = list[m]
  BY <1>4
<1>7. f \in Fetch /\ f.key = k /\ f.got = Content(k)
  BY <1>2, <1>3 DEF Fetch
<1>8. f # Nothing
  <2> HIDE DEF f
  <2>1. QED
    BY <1>7, AskNothing
<1>9. ListGood(n, r, server, Firm)
  <2> HIDE DEF f, k, h
  <2>1. h \in ListState
    BY <1>2 DEF ListGood
  <2>2. /\ r.st = h.st /\ r.shown = h.shown /\ r.of = h.of /\ r.fetch = f
        /\ r \in ListState
    BY <2>1, <1>7 DEF ListState
  <2> HIDE DEF r
  <2>3. QED
    BY <1>1, <1>2, <1>3, <1>7, <1>8, <2>2 DEF ListGood
<1>10. PageGood' /\ ListsGood'
  <2> HIDE DEF r
  <2>1. /\ DOMAIN cache' = Keys
        /\ \A j \in Keys : cache'[j] # Nothing
              => Good(j, cache'[j], server, Firm) /\ cache'[j] \in RowSets
    BY <1>1, CacheGood DEF Inv
  <2>2. QED
    BY <1>1, <1>5, <1>6, <1>9, <2>1, OneList DEF Inv
<1>11. QED
  BY <1>1, <1>10, KeepsSelf, BrowseInv DEF Inv, UiGood

LEMMA ArriveInv == ASSUME Inv, NEW n \in DOMAIN list, Arrive(n) PROVE Inv'
<1> DEFINE f == list[n].fetch
           r == [st |-> "ready", shown |-> f.got, of |-> f.key, fetch |-> Nothing]
<1>1. Browses /\ timers' = timers /\ ui' = Prefilled(ui) /\ UNCHANGED <<place, things>>
      /\ f # Nothing /\ f.got # Nothing
  BY DEF Arrive, Browses
<1>2. /\ f.key \in Keys /\ f.key \in KeysFor(n) /\ f.got \in RowSets
      /\ Good(f.key, f.got, server, Firm)
  BY <1>1, FetchGood DEF Inv
<1>3. list' = [list EXCEPT ![n] = r] /\ cache' = [cache EXCEPT ![f.key] = f.got]
  BY DEF Arrive
<1>4. ListGood(n, r, server, Firm)
  <2> HIDE DEF f
  <2>1. r \in ListState /\ Shape(f.key, f.got, server)
    BY <1>2 DEF ListState, Good
  <2>2. r.st = "ready" /\ r.shown = f.got /\ r.of = f.key /\ r.fetch = Nothing
    OBVIOUS
  <2> HIDE DEF r
  <2>3. f.key # Nothing
    BY <1>2, NothingAssumption
  <2>4. QED
    BY <1>2, <2>1, <2>2, <2>3 DEF ListGood
<1>5. PageGood' /\ ListsGood'
  <2> HIDE DEF f, r
  <2>1. /\ DOMAIN cache' = Keys
        /\ \A j \in Keys : cache'[j] # Nothing
              => Good(j, cache'[j], server, Firm) /\ cache'[j] \in RowSets
    BY <1>2, <1>3, CacheGood DEF Inv
  <2>2. /\ DOMAIN list' = DOMAIN list /\ list'[n] = r
        /\ \A m \in DOMAIN list \ {n} : list'[m] = list[m]
    BY <1>3
  <2>3. QED
    BY <1>1, <1>4, <2>1, <2>2, OneList DEF Inv
<1>6. Keeps(ui, ui')
  BY <1>1, PrefilledKeeps DEF Inv, UiGood
<1>7. QED
  BY <1>1, <1>5, <1>6, BrowseInv

LEMMA FailInv == ASSUME Inv, NEW n \in DOMAIN list, Fail(n) PROVE Inv'
<1> DEFINE h == list[n]
           r == [h EXCEPT !.st = "failed", !.fetch = Nothing]
<1>1. Browses /\ timers' = timers /\ ui' = Prefilled(ui) /\ UNCHANGED <<place, things, cache>>
  BY DEF Fail, Browses
<1>2. n \in Lists /\ ListGood(n, h, server, Firm)
  BY PageLists DEF Inv, PageGood, ListsGood
<1>3. list' = [list EXCEPT ![n].st = "failed", ![n].fetch = Nothing]
  BY DEF Fail
<1>4. /\ DOMAIN list' = DOMAIN list /\ list'[n] = r
      /\ \A m \in DOMAIN list \ {n} : list'[m] = list[m]
  BY <1>3
<1>5. ListGood(n, r, server, Firm)
  <2> HIDE DEF h
  <2>1. h \in ListState
    BY <1>2 DEF ListGood
  <2>2. /\ r.st = "failed" /\ r.shown = h.shown /\ r.of = h.of /\ r.fetch = Nothing
        /\ r \in ListState
    BY <2>1 DEF ListState
  <2> HIDE DEF r
  <2>3. QED
    BY <1>2, <2>2 DEF ListGood
<1>6. PageGood' /\ ListsGood'
  <2> HIDE DEF r
  <2>1. /\ DOMAIN cache' = Keys
        /\ \A j \in Keys : cache'[j] # Nothing
              => Good(j, cache'[j], server, Firm) /\ cache'[j] \in RowSets
    BY <1>1, CacheGood DEF Inv
  <2>2. QED
    BY <1>1, <1>4, <1>5, <2>1, OneList DEF Inv
<1>7. Keeps(ui, ui')
  BY <1>1, PrefilledKeeps DEF Inv, UiGood
<1>8. QED
  BY <1>1, <1>6, <1>7, BrowseInv
----------------------------------------------------------------------------
(* Clicks that send nothing, and the end of a message *)

LEMMA SelectDeskInv == ASSUME Inv, NEW d \in FloorDesks, SelectDesk(d) PROVE Inv'
<1>1. Browses /\ timers' = timers /\ UNCHANGED <<place, things, list, cache>>
  BY DEF SelectDesk, Browses
<1>2. ui' = [ui EXCEPT !.desk = d, !.feedback = NoFeedback]
  BY DEF SelectDesk
<1>3. Keeps(ui, ui')
  BY <1>2, NoFeedbackTyped DEF Keeps, Inv, UiGood, Ui
<1>4. PageGood' /\ ListsGood'
  BY <1>1, StillGood DEF Inv, PageGood
<1>5. QED
  BY <1>1, <1>3, <1>4, BrowseInv

\* A row on screen is one of the server's; on "my bookings" it is the client's own.
LEMMA ShownRow ==
  ASSUME PageGood, ListsGood, NEW n \in DOMAIN list, NEW b \in list[n].shown
  PROVE  /\ b \in BookingRecord /\ b.id \in DOMAIN server
         /\ b = server[b.id] \/ b = [server[b.id] EXCEPT !.active = TRUE]
         /\ n \in MyLists => b.mine
<1> DEFINE r == list[n]
<1>1. n \in Lists /\ ListGood(n, r, server, Firm) /\ b \in r.shown
  BY PageLists DEF PageGood, ListsGood
<1> HIDE DEF r
<1>2. r.of # Nothing /\ r.of \in KeysFor(n) /\ Shape(r.of, r.shown, server) /\ r.shown \in RowSets
  BY <1>1 DEF ListGood, ListState
<1>3. n \in MyLists => r.of[1] \in MyLists
  BY <1>2 DEF KeysFor
<1>4. QED
  BY <1>1, <1>2, <1>3, RowTyped DEF Shape

LEMMA ShownRes ==
  ASSUME PageGood, ListsGood, ServerGood, NEW n \in DOMAIN list, NEW b \in list[n].shown
  PROVE  b.res = server[b.id].res /\ (b.mine <=> server[b.id].mine)
<1> DEFINE r == server[b.id]
<1>1. r \in BookingRecord /\ (b = r \/ b = [r EXCEPT !.active = TRUE])
  BY ShownRow, ServerTyped
<1> HIDE DEF r
<1>2. b.res = r.res /\ (b.mine <=> r.mine)
  BY <1>1 DEF BookingRecord
<1>3. QED
  BY <1>2 DEF r

LEMMA CancelClickedInv ==
  ASSUME Inv, NEW b \in UNION {list[n].shown : n \in DOMAIN list}, CancelClicked(b)
  PROVE  Inv'
<1>1. Browses /\ timers' = timers /\ UNCHANGED <<place, things, list, cache>>
  BY DEF CancelClicked, Browses
<1>2. ui' = [ui EXCEPT !.dialog = b]
  BY DEF CancelClicked
<1>3. PICK n \in DOMAIN list : b \in list[n].shown
  OBVIOUS
<1>4. /\ b \in BookingRecord /\ b.id \in DOMAIN server /\ b # Nothing
      /\ b.res = server[b.id].res /\ (b.mine <=> server[b.id].mine)
  BY <1>3, ShownRow, ShownRes, NothingAssumption DEF Inv
<1>5. b.mine
  <2>1. CASE DeskCancellable(b)
    BY <2>1 DEF DeskCancellable, getMyBookingForDate
  <2>2. CASE RoomCancellable(b)
    BY <2>2 DEF RoomCancellable
  <2>3. CASE MyCancellable(b)
    <3>1. page = "mine" /\ \E m \in MyLists : b \in list[m].shown
      BY <2>3 DEF MyCancellable, MyCards, groupMyBookings
    <3>2. DOMAIN list = MyLists
      BY <3>1 DEF Inv, PageGood, ListsOf
    <3>3. QED
      BY <3>1, <3>2, ShownRow DEF Inv
  <2>4. QED
    BY <2>1, <2>2, <2>3 DEF CancelClicked
<1>6. ui' \in Ui /\ ui'.dialog = b /\ ui'.booking = ui.booking /\ ui'.cancelling = ui.cancelling
      /\ ui'.feedback = ui.feedback
  BY <1>2, <1>4 DEF Inv, UiGood, Ui
<1>7. UiGood'
  BY <1>1, <1>4, <1>5, <1>6 DEF UiGood, Browses
<1>8. TimersGood' /\ TimerOwnsMessage'
  BY <1>1, <1>6 DEF Inv, TimersGood, TimerOwnsMessage, Browses
<1>9. Busy'
  BY <1>1, <1>4, <1>6, BrowseKeeps DEF Inv, Busy, Browses
<1>10. PageGood' /\ ListsGood'
  BY <1>1, StillGood DEF Inv, PageGood
<1>11. QED
  BY <1>1, <1>7, <1>8, <1>9, <1>10, BrowseKeeps DEF Inv

LEMMA DismissCancelInv == ASSUME Inv, DismissCancel PROVE Inv'
<1>1. Browses /\ timers' = timers /\ UNCHANGED <<place, things, list, cache>> /\ ~ui.cancelling
  BY DEF DismissCancel, Browses
<1>2. ui' = [ui EXCEPT !.dialog = Nothing]
  BY DEF DismissCancel
<1>3. ui' \in Ui /\ ui'.dialog = Nothing /\ ui'.booking = ui.booking
      /\ ui'.cancelling = ui.cancelling /\ ui'.feedback = ui.feedback
  BY <1>2 DEF Inv, UiGood, Ui
<1>4. UiGood'
  BY <1>3 DEF UiGood
<1>5. TimersGood' /\ TimerOwnsMessage'
  BY <1>1, <1>3 DEF Inv, TimersGood, TimerOwnsMessage, Browses
<1>6. Busy'
  BY <1>1, <1>3, BrowseKeeps DEF Inv, Busy, Browses
<1>7. PageGood' /\ ListsGood'
  BY <1>1, StillGood DEF Inv, PageGood
<1>8. QED
  BY <1>1, <1>4, <1>5, <1>6, <1>7, BrowseKeeps DEF Inv

LEMMA TimeoutInv == ASSUME Inv, NEW t \in timers, Timeout(t) PROVE Inv'
<1> DEFINE f == [ui.feedback EXCEPT !.bookOk = IF t.op = "book" THEN 0 ELSE @,
                                    !.cancelOk = IF t.op = "cancel" THEN 0 ELSE @]
<1>1. Browses /\ timers' \subseteq timers /\ UNCHANGED <<place, things, list, cache>>
  BY DEF Timeout, Browses
<1>2. ui' = [ui EXCEPT !.feedback.bookOk = IF t.op = "book" THEN 0 ELSE @,
                       !.feedback.cancelOk = IF t.op = "cancel" THEN 0 ELSE @]
  BY DEF Timeout
<1>3. ui \in Ui
  BY DEF Inv, UiGood
<1>4. ui' = [ui EXCEPT !.feedback = f]
  BY <1>2, <1>3 DEF Ui, Feedback
<1>5. f \in Feedback /\ f.bookOk \in {0, ui.feedback.bookOk} /\ f.cancelOk \in {0, ui.feedback.cancelOk}
  BY <1>3 DEF Ui, Feedback
<1> HIDE DEF f
<1>6. ui' \in Ui /\ ui'.dialog = ui.dialog /\ ui'.booking = ui.booking
      /\ ui'.cancelling = ui.cancelling /\ ui'.feedback = f
  BY <1>3, <1>4, <1>5 DEF Ui
<1>7. UiGood'
  BY <1>1, <1>6 DEF Inv, UiGood, Browses
<1>8. TimersGood'
  BY <1>1 DEF Inv, TimersGood, Browses
<1>9. TimerOwnsMessage'
  <2> SUFFICES ASSUME NEW s \in timers'
               PROVE  (IF s.op = "book" THEN f.bookOk ELSE f.cancelOk) \in {0, s.n}
    BY <1>6 DEF TimerOwnsMessage
  <2>1. (IF s.op = "book" THEN ui.feedback.bookOk ELSE ui.feedback.cancelOk) \in {0, s.n}
    BY <1>1 DEF Inv, TimerOwnsMessage
  <2>2. QED
    BY <1>5, <2>1
<1>10. Busy'
  BY <1>1, <1>6, BrowseKeeps DEF Inv, Busy, Browses
<1>11. PageGood' /\ ListsGood'
  BY <1>1, StillGood DEF Inv, PageGood
<1>12. QED
  BY <1>1, <1>7, <1>8, <1>9, <1>10, <1>11, BrowseKeeps DEF Inv
----------------------------------------------------------------------------
(* A request is sent *)

\* What a request is about: nothing yet, or one of this client's rows.
Target(op, res, id) ==
    IF op = "book" THEN id = 0
    ELSE id \in DOMAIN server /\ server[id].mine /\ server[id].res = res

LEMMA SendGood ==
  ASSUME Inv, NEW op \in {"book", "cancel"}, NEW res \in Resources, NEW date \in Dates,
         NEW from \in Int, NEW to \in Int, NEW id, Target(op, res, id),
         Send(op, res, date, from, to, id)
  PROVE  /\ PageGood' /\ ServerGood' /\ CallsGood' /\ ToldGood' /\ ListsGood' /\ TimersGood'
         /\ page' = page /\ mount' = mount /\ server' = server /\ timers' = timers
         /\ \E c : /\ Mine(op)' = Mine(op) \cup {c}
                   /\ \A o : o # op => Mine(o)' = Mine(o)
<1> DEFINE c == [n |-> sent + 1, op |-> op, res |-> res, date |-> date, from |-> from, to |-> to,
                 id |-> id, mount |-> mount, st |-> "sent"]
<1>1. /\ sent' = sent + 1 /\ calls' = calls \cup {c}
      /\ UNCHANGED <<page, mount, place, things, list, cache, timers, server, told>>
  BY DEF Send
<1>2. sent \in Nat /\ mount \in Nat
  BY DEF Inv, PageGood
<1>3. id \in Nat
  BY ServerTyped DEF Target, Inv
<1>4. /\ c \in Call /\ c.n = sent + 1 /\ c.op = op /\ c.res = res /\ c.id = id /\ c.mount = mount
      /\ c.st = "sent"
  BY <1>2, <1>3 DEF Call
<1> HIDE DEF c
<1>5. CallGood(c, server)
  BY <1>4 DEF CallGood, Target
<1>6. CallsGood'
  <2>1. \A d \in calls : d \in Call /\ CallGood(d, server) /\ d.mount <= mount /\ d.n \in 1 .. sent
    BY DEF Inv, CallsGood
  <2>2. \A d \in calls' : d \in Call /\ CallGood(d, server) /\ d.mount <= mount /\ d.n \in 1 .. (sent + 1)
    BY <1>1, <1>2, <1>4, <1>5, <2>1
  <2>3. \A d, e \in calls' : d.n = e.n => d = e
    BY <1>1, <1>2, <1>4, <2>1 DEF Inv, CallsGood
  <2>4. QED
    BY <1>1, <2>2, <2>3 DEF CallsGood
<1>7. ToldGood'
  <2>1. \A i : Stands(i) => Stands(i)'
    BY <1>1 DEF Stands
  <2>2. \A d \in calls' : d.op = "book" /\ d.st = "done" => d \in calls
    BY <1>1, <1>4
  <2>3. QED
    BY <1>1, <2>1, <2>2 DEF Inv, ToldGood
<1>8. Firm' \subseteq Firm
  BY <1>1 DEF Firm
<1>9. ListsGood'
  BY <1>1, <1>8, GoodWeaker, ListWeaker DEF Inv, ListsGood
<1>10. PageGood' /\ ServerGood' /\ TimersGood'
  BY <1>1, <1>2 DEF Inv, PageGood, ServerGood, TimersGood
<1>11. Mine(op)' = Mine(op) \cup {c} /\ \A o : o # op => Mine(o)' = Mine(o)
  BY <1>1, <1>4 DEF Mine
<1>12. QED
  BY <1>1, <1>6, <1>7, <1>9, <1>10, <1>11

LEMMA InstantTyped == ASSUME NEW d \in Dates, NEW m \in Int PROVE Instant(d, m) \in Int
BY TimesAssumption, DatesAssumption DEF Instant

\* The longest duration that a start allows exists.
LEMMA DurationTyped ==
  ASSUME NEW s \in startTimeOptions, NEW d
  PROVE  effectiveDuration(s, d) \in durationOptionsFor(s) /\ effectiveDuration(s, d) \in 1 .. MaxDuration
<1> DEFINE D == durationOptionsFor(s)
           x == IF MaxDuration <= DayEnd - s THEN MaxDuration ELSE DayEnd - s
<1>1. s \in Int /\ s < DayEnd /\ MaxDuration \in Nat \ {0} /\ DayEnd \in Nat
  BY TimesAssumption DEF startTimeOptions
<1>2. x \in D /\ \A y \in D : y <= x
  BY <1>1 DEF durationOptionsFor
<1>3. D \subseteq 1 .. MaxDuration
  BY DEF durationOptionsFor
<1>4. effectiveDuration(s, d) \in D
  <2> HIDE DEF x
  <2>1. \E z \in D : \A y \in D : y <= z
    BY <1>2
  <2>2. effectiveDuration(s, d) = IF d \in D THEN d ELSE CHOOSE z \in D : \A y \in D : y <= z
    BY DEF effectiveDuration
  <2> HIDE DEF D
  <2>3. QED
    BY <2>1, <2>2
<1>5. QED
  BY <1>3, <1>4

LEMMA BookDeskInv == ASSUME Inv, NEW d \in FloorDesks, BookDesk(d) PROVE Inv'
<1>1. place.date \in Dates
  BY DEF Inv, PageGood
<1>2. Instant(place.date, 0) \in Int /\ Instant(place.date, Day) \in Int
  BY <1>1, InstantTyped, TimesAssumption
<1>3. Target("book", d, 0) /\ d \in Resources
  BY DEF Target, Resources, FloorDesks
<1>4. Send("book", d, place.date, Instant(place.date, 0), Instant(place.date, Day), 0)
  BY DEF BookDesk
<1>5. /\ PageGood' /\ ServerGood' /\ CallsGood' /\ ToldGood' /\ ListsGood' /\ TimersGood'
      /\ page' = page /\ mount' = mount /\ server' = server /\ timers' = timers
      /\ \E c : /\ Mine("book")' = Mine("book") \cup {c}
                /\ \A o : o # "book" => Mine(o)' = Mine(o)
  BY <1>1, <1>2, <1>3, <1>4, SendGood
<1>6. ~ui.booking /\ page = "desk"
  BY DEF BookDesk, DeskBookable, DeskCards
<1>7. ui' = [ui EXCEPT !.booking = TRUE, !.feedback.bookErr = Nothing, !.feedback.bookOk = 0]
  BY DEF BookDesk
<1>8. /\ ui' \in Ui /\ ui'.booking /\ ui'.dialog = ui.dialog /\ ui'.cancelling = ui.cancelling
      /\ ui'.feedback.bookOk = 0 /\ ui'.feedback.cancelOk = ui.feedback.cancelOk
  BY <1>7 DEF Inv, UiGood, Ui, Feedback
<1>9. UiGood'
  BY <1>5, <1>8 DEF Inv, UiGood
<1>10. TimerOwnsMessage'
  BY <1>5, <1>8 DEF Inv, TimerOwnsMessage
<1>11. Busy'
  <2>1. Mine("book") = {}
    BY <1>6 DEF Inv, Busy
  <2>2. Mine("cancel")' = Mine("cancel")
    BY <1>5
  <2>3. Mine("book")' # {} /\ AtMostOne(Mine("book")')
    BY <1>5, <2>1 DEF AtMostOne
  <2>4. ui.cancelling <=> Mine("cancel") # {}
    BY DEF Inv, Busy
  <2>5. QED
    BY <1>5, <1>6, <1>8, <2>2, <2>3, <2>4 DEF Inv, Busy
<1>12. QED
  BY <1>5, <1>9, <1>10, <1>11 DEF Inv

LEMMA BookRoomInv ==
  ASSUME Inv, NEW r \in Rooms, NEW s \in startTimeOptions, NEW d \in 1 .. MaxDuration, BookRoom(r, s, d)
  PROVE  Inv'
<1> DEFINE end == s + effectiveDuration(s, d)
<1>1. place.date \in Dates
  BY DEF Inv, PageGood
<1>2. s \in Int /\ end \in Int
  BY DurationTyped DEF startTimeOptions
<1>3. Instant(place.date, s) \in Int /\ Instant(place.date, end) \in Int
  BY <1>1, <1>2, InstantTyped
<1>4. Target("book", r, 0) /\ r \in Resources
  BY DEF Target, Resources
<1>5. Send("book", r, place.date, Instant(place.date, s), Instant(place.date, end), 0)
  BY DEF BookRoom
<1> HIDE DEF end
<1>6. /\ PageGood' /\ ServerGood' /\ CallsGood' /\ ToldGood' /\ ListsGood' /\ TimersGood'
      /\ page' = page /\ mount' = mount /\ server' = server /\ timers' = timers
      /\ \E c : /\ Mine("book")' = Mine("book") \cup {c}
                /\ \A o : o # "book" => Mine(o)' = Mine(o)
  BY <1>1, <1>3, <1>4, <1>5, SendGood
<1>7. page = "room"
  BY DEF BookRoom, RoomCards
<1>8. ui' = [ui EXCEPT !.booking = TRUE, !.busy = r, !.feedback.bookErr = Nothing]
  BY DEF BookRoom
<1>9. /\ ui' \in Ui /\ ui'.dialog = ui.dialog /\ ui'.cancelling = ui.cancelling
      /\ ui'.feedback.bookOk = ui.feedback.bookOk /\ ui'.feedback.cancelOk = ui.feedback.cancelOk
  BY <1>4, <1>8 DEF Inv, UiGood, Ui, Feedback
<1>10. UiGood'
  BY <1>6, <1>9 DEF Inv, UiGood
<1>11. TimerOwnsMessage'
  BY <1>6, <1>9 DEF Inv, TimerOwnsMessage
<1>12. Busy'
  <2>1. Mine("cancel")' = Mine("cancel")
    BY <1>6
  <2>2. ui.cancelling <=> Mine("cancel") # {}
    BY DEF Inv, Busy
  <2>3. QED
    BY <1>6, <1>7, <1>9, <2>1, <2>2 DEF Inv, Busy
<1>13. QED
  BY <1>6, <1>10, <1>11, <1>12 DEF Inv

LEMMA ConfirmCancelInv == ASSUME Inv, confirmCancel PROVE Inv'
<1> DEFINE b == ui.dialog
<1>1. b # Nothing /\ ~ui.cancelling
  BY DEF confirmCancel
<1>2. b \in BookingRecord /\ b.id \in DOMAIN server /\ b.res = server[b.id].res /\ server[b.id].mine
  BY <1>1 DEF Inv, UiGood, Ui
<1>3. Target("cancel", b.res, b.id)
  BY <1>2 DEF Target
<1>4. Send("cancel", b.res, b.date, b.from, b.to, b.id)
  BY DEF confirmCancel
<1>5. b.res \in Resources /\ b.date \in Dates /\ b.from \in Int /\ b.to \in Int
  BY <1>2 DEF BookingRecord, Resources
<1>6. ui' \in {ConfirmOnDeskPage, ConfirmOnRoomPage(b), ConfirmOnMyPage}
  BY DEF confirmCancel, Inv, PageGood
<1>7. /\ ui' \in Ui /\ ui'.dialog = b /\ ui'.booking = ui.booking /\ ui'.cancelling
      /\ ui'.feedback.bookOk = ui.feedback.bookOk
      /\ ui'.feedback.cancelOk \in {0, ui.feedback.cancelOk}
  <2>1. ui \in Ui
    BY DEF Inv, UiGood
  <2>2. CASE ui' = ConfirmOnDeskPage \/ ui' = ConfirmOnMyPage
    <3> DEFINE g == [ui.feedback EXCEPT !.cancelOk = 0, !.cancelErr = FALSE]
    <3>1. g \in Feedback /\ g.bookOk = ui.feedback.bookOk /\ g.cancelOk = 0
      BY <2>1 DEF Ui, Feedback
    <3>2. ui' = [ui EXCEPT !.cancelling = TRUE, !.feedback = g]
      BY <2>1, <2>2 DEF ConfirmOnDeskPage, ConfirmOnMyPage, Ui, Feedback
    <3> HIDE DEF g
    <3>3. QED
      BY <2>1, <3>1, <3>2 DEF Ui
  <2>3. CASE ui' = ConfirmOnRoomPage(b)
    BY <1>5, <2>1, <2>3 DEF ConfirmOnRoomPage, Ui, Feedback
  <2>4. QED
    BY <1>6, <2>2, <2>3
<1> HIDE DEF b
<1>8. /\ PageGood' /\ ServerGood' /\ CallsGood' /\ ToldGood' /\ ListsGood' /\ TimersGood'
      /\ page' = page /\ mount' = mount /\ server' = server /\ timers' = timers
      /\ \E c : /\ Mine("cancel")' = Mine("cancel") \cup {c}
                /\ \A o : o # "cancel" => Mine(o)' = Mine(o)
  BY <1>3, <1>4, <1>5, SendGood
<1>9. UiGood'
  BY <1>7, <1>8 DEF Inv, UiGood, b
<1>10. TimerOwnsMessage'
  <2> SUFFICES ASSUME NEW t \in timers
               PROVE  (IF t.op = "book" THEN ui'.feedback.bookOk ELSE ui'.feedback.cancelOk) \in {0, t.n}
    BY <1>8 DEF TimerOwnsMessage
  <2>1. (IF t.op = "book" THEN ui.feedback.bookOk ELSE ui.feedback.cancelOk) \in {0, t.n}
    BY DEF Inv, TimerOwnsMessage
  <2>2. QED
    BY <1>7, <2>1
<1>11. Busy'
  <2>1. Mine("cancel") = {}
    BY <1>1 DEF Inv, Busy
  <2>2. Mine("book")' = Mine("book")
    BY <1>8
  <2>3. Mine("cancel")' # {} /\ AtMostOne(Mine("cancel")')
    BY <1>8, <2>1 DEF AtMostOne
  <2>4. /\ page = "desk" => (ui.booking <=> Mine("book") # {}) /\ AtMostOne(Mine("book"))
        /\ page = "mine" => Mine("book") = {}
    BY DEF Inv, Busy
  <2>5. QED
    BY <1>1, <1>7, <1>8, <2>2, <2>3, <2>4 DEF Busy
<1>12. QED
  BY <1>8, <1>9, <1>10, <1>11 DEF Inv
----------------------------------------------------------------------------
(* The server takes or refuses a request, or somebody else's *)

\* Everything the client has; the request's own state may change.
ClientStays == UNCHANGED <<page, mount, place, things, list, cache, ui, timers, sent, told>>

LEMMA ServerMoves ==
  ASSUME Inv, ClientStays, Follows(server, server'), Firm' = Firm
  PROVE  PageGood' /\ ListsGood' /\ UiGood' /\ TimersGood' /\ TimerOwnsMessage'
<1>1. \A t \in Firm : t.id \in DOMAIN server
  BY FirmKnown DEF Inv, ServerKnows
<1>2. \A k \in Keys : cache[k] # Nothing => Good(k, cache[k], server, Firm) /\ cache[k] \in RowSets
  BY CacheGood DEF Inv
<1>3. \A k \in Keys : cache'[k] # Nothing => Good(k, cache'[k], server', Firm')
  BY <1>1, <1>2, GoodFollows DEF ClientStays
<1>4. \A n \in DOMAIN list' : ListGood(n, list'[n], server', Firm')
  BY <1>1, ListFollows DEF ClientStays, Inv, ListsGood
<1>5. ListsGood'
  BY <1>3, <1>4, ListsAfter
<1>6. UiGood'
  <2>1. SUFFICES ASSUME ui.dialog # Nothing
                 PROVE  /\ ui.dialog.id \in DOMAIN server'
                        /\ ui.dialog.res = server'[ui.dialog.id].res
                        /\ server'[ui.dialog.id].mine
    BY DEF UiGood, ClientStays, Inv
  <2> DEFINE i == ui.dialog.id
             r == server[i]
             q == server'[i]
  <2>2. i \in DOMAIN server /\ ui.dialog.res = r.res /\ r.mine
    BY <2>1 DEF Inv, UiGood
  <2>3. i \in DOMAIN server' /\ r \in BookingRecord /\ (q = r \/ q = [r EXCEPT !.active = FALSE])
    BY <2>2 DEF Follows
  <2> HIDE DEF r, q
  <2>4. q.res = r.res /\ q.mine = r.mine
    BY <2>3 DEF BookingRecord
  <2>5. QED
    BY <2>2, <2>3, <2>4 DEF q
<1>7. PageGood' /\ TimersGood' /\ TimerOwnsMessage'
  BY DEF Inv, PageGood, TimersGood, TimerOwnsMessage, ClientStays
<1>8. QED
  BY <1>5, <1>6, <1>7

LEMMA Appended ==
  ASSUME ServerGood, NEW b \in BookingRecord, b.id = Len(server) + 1, b.active,
         server' = Append(server, b)
  PROVE  /\ ServerGood' /\ Follows(server, server')
         /\ b.id \in DOMAIN server' /\ server'[b.id] = b
         /\ \A i \in DOMAIN server : i \in DOMAIN server' /\ server'[i] = server[i]
<1>1. /\ server \in Seq(BookingRecord) /\ Len(server) \in Nat /\ DOMAIN server = 1 .. Len(server)
      /\ \A i \in DOMAIN server : server[i] \in BookingRecord /\ server[i].id = i
  BY ServerTyped DEF ServerGood
<1>2. /\ server' \in Seq(BookingRecord) /\ Len(server') = Len(server) + 1
      /\ \A i \in 1 .. Len(server) : server'[i] = server[i]
      /\ server'[Len(server) + 1] = b
  BY <1>1, AppendProperties
<1>3. DOMAIN server' = 1 .. (Len(server) + 1)
  BY <1>2, LenProperties
<1>4. \A i \in DOMAIN server : i \in DOMAIN server' /\ server'[i] = server[i]
  BY <1>1, <1>2, <1>3
<1>5. b.id \in DOMAIN server' /\ server'[b.id] = b
  BY <1>1, <1>2, <1>3
<1>6. ServerGood'
  BY <1>1, <1>2, <1>3, <1>4, <1>5 DEF ServerGood
<1>7. QED
  BY <1>1, <1>4, <1>5, <1>6 DEF Follows

LEMMA BookingTyped ==
  ASSUME ServerGood, NEW res \in Resources, NEW date \in Dates, NEW from \in Int, NEW to \in Int,
         NEW me \in BOOLEAN
  PROVE  /\ Booking(res, date, from, to, me) \in BookingRecord
         /\ Booking(res, date, from, to, me).id = Len(server) + 1
         /\ Booking(res, date, from, to, me).active
         /\ Booking(res, date, from, to, me).mine = me
         /\ Booking(res, date, from, to, me).res = res
BY ServerTyped DEF Booking, BookingRecord, Resources

LEMMA ElsewhereInv ==
  ASSUME Inv, NEW res \in Resources, NEW date \in Dates, NEW from \in Int, NEW to \in Int,
         NEW me \in BOOLEAN, Elsewhere(res, date, from, to, me)
  PROVE  Inv'
<1> DEFINE b == Booking(res, date, Instant(date, from), Instant(date, to), me)
<1>1. Instant(date, from) \in Int /\ Instant(date, to) \in Int
  BY InstantTyped
<1>2. b \in BookingRecord /\ b.id = Len(server) + 1 /\ b.active
  BY <1>1, BookingTyped DEF Inv
<1>3. server' = Append(server, b) /\ ClientStays /\ calls' = calls
  BY DEF Elsewhere, ClientStays
<1> HIDE DEF b
<1>4. /\ ServerGood' /\ Follows(server, server')
      /\ \A i \in DOMAIN server : i \in DOMAIN server' /\ server'[i] = server[i]
  BY <1>2, <1>3, Appended DEF Inv
<1>5. Firm' = Firm
  BY <1>3 DEF ClientStays, Firm
<1>6. CallsGood'
  BY <1>3, <1>4 DEF Inv, CallsGood, CallGood, ClientStays
<1>7. ToldGood'
  <2>1. \A i \in DOMAIN server : Stands(i)' <=> Stands(i)
    BY <1>3, <1>4 DEF Stands
  <2>2. \A c \in calls : c.op = "book" /\ c.st = "done" => c.id \in DOMAIN server
    BY DEF Inv, CallsGood, CallGood
  <2>3. QED
    BY <1>3, <1>4, <2>1, <2>2 DEF Inv, ToldGood, ClientStays
<1>8. Busy'
  BY <1>3 DEF Inv, Busy, Mine, ClientStays
<1>9. QED
  BY <1>3, <1>4, <1>5, <1>6, <1>7, <1>8, ServerMoves DEF Inv
\* A request that stays the same request keeps its page busy.
LEMMA Replaced ==
  ASSUME NEW c \in calls, NEW d, d.op = c.op, d.mount = c.mount,
         calls' = (calls \ {c}) \cup {d}, ClientStays, Busy
  PROVE  Busy'
<1>1. ASSUME NEW op
      PROVE  /\ Mine(op)' = {} <=> Mine(op) = {}
             /\ AtMostOne(Mine(op)) => AtMostOne(Mine(op)')
  <2>1. CASE c.op = op /\ c.mount = mount
    <3>1. c \in Mine(op) /\ Mine(op)' = (Mine(op) \ {c}) \cup {d}
      BY <2>1 DEF Mine, ClientStays
    <3>2. QED
      BY <3>1 DEF AtMostOne
  <2>2. CASE ~(c.op = op /\ c.mount = mount)
    <3>1. Mine(op)' = Mine(op)
      BY <2>2 DEF Mine, ClientStays
    <3>2. QED
      BY <3>1
  <2>3. QED
    BY <2>1, <2>2
<1>2. page = "desk" => (ui.booking <=> Mine("book")' # {}) /\ AtMostOne(Mine("book")')
  BY <1>1 DEF Busy
<1>3. (ui.cancelling <=> Mine("cancel")' # {}) /\ AtMostOne(Mine("cancel")')
  BY <1>1 DEF Busy
<1>4. page = "mine" => Mine("book")' = {}
  BY <1>1 DEF Busy
<1>5. QED
  BY <1>2, <1>3, <1>4 DEF Busy, ClientStays

\* A cancellation in flight stays in flight until its answer is there.
LEMMA SameTargets ==
  ASSUME NEW c \in calls, NEW d, d.op = c.op, c.op = "cancel" => d.id = c.id,
         calls' = (calls \ {c}) \cup {d}
  PROVE  \A i : (\E e \in calls' : e.op = "cancel" /\ e.id = i)
                  <=> (\E e \in calls : e.op = "cancel" /\ e.id = i)
OBVIOUS

LEMMA FirmStays ==
  ASSUME ClientStays,
         \A i : (\E e \in calls' : e.op = "cancel" /\ e.id = i)
                  <=> (\E e \in calls : e.op = "cancel" /\ e.id = i)
  PROVE  Firm' = Firm
<1>1. \A t : (\A e \in calls' : e.op = "cancel" => e.id # t.id)
               <=> (\A e \in calls : e.op = "cancel" => e.id # t.id)
  OBVIOUS
<1>2. told' = told /\ mount' = mount
  BY DEF ClientStays
<1>3. QED
  BY <1>1, <1>2 DEF Firm

LEMMA CallsAfter ==
  ASSUME CallsGood, ClientStays, NEW c \in calls, NEW d \in Call, CallGood(d, server'),
         d.mount = c.mount, d.n = c.n, calls' = (calls \ {c}) \cup {d},
         \A e \in calls \ {c} : CallGood(e, server')
  PROVE  CallsGood'
<1>1. /\ \A e \in calls : e \in Call /\ e.mount <= mount /\ e.n \in 1 .. sent
      /\ \A e, f \in calls : e.n = f.n => e = f
  BY DEF CallsGood
<1>2. \A e \in calls' : /\ e \in Call /\ CallGood(e, server')
                        /\ e.mount <= mount /\ e.n \in 1 .. sent
  BY <1>1
<1>3. \A e, f \in calls' : e.n = f.n => e = f
  BY <1>1
<1>4. QED
  BY <1>2, <1>3 DEF CallsGood, ClientStays

LEMMA ServeCallInv == ASSUME Inv, NEW c \in calls, ServeCall(c) PROVE Inv'
<1>1. ClientStays /\ c.st = "sent"
  BY DEF ServeCall, ClientStays
<1>2. c \in Call /\ CallGood(c, server) /\ (\A e \in calls : CallGood(e, server))
  BY DEF Inv, CallsGood
<1>3. c.op \in {"book", "cancel"} /\ c.res \in Resources
  BY <1>2 DEF Call
\* What is left to show in each case, for d that takes the place of c.
<1>4. ASSUME NEW d \in Call, calls' = (calls \ {c}) \cup {d}, d.op = c.op, d.mount = c.mount,
             d.n = c.n, c.op = "cancel" => d.id = c.id, CallGood(d, server'),
             ServerGood', Follows(server, server'),
             \A e \in calls \ {c} : CallGood(e, server'),
             \A i \in DOMAIN server : Stands(i) => Stands(i)',
             \A i \in DOMAIN server : server'[i].active => server[i].active,
             \A i \in DOMAIN server : server[i].mine => server'[i].mine,
             d.op = "book" /\ d.st = "done" => server'[d.id].active
      PROVE  Inv'
  <2>1. \A i : (\E e \in calls' : e.op = "cancel" /\ e.id = i)
                  <=> (\E e \in calls : e.op = "cancel" /\ e.id = i)
    BY <1>4, SameTargets
  <2>2. Firm' = Firm
    BY <1>1, <2>1, FirmStays
  <2>3. CallsGood'
    BY <1>1, <1>4, CallsAfter DEF Inv
  <2>4. ToldGood'
    <3>1. \A e \in calls : e.op = "book" /\ e.st = "done" => e.id \in DOMAIN server
      BY <1>2 DEF CallGood
    <3>2. \A i \in DOMAIN server : i \in DOMAIN server'
      BY <1>4 DEF Follows
    <3>3. \A t \in told :
             /\ t.mount <= mount /\ t.mount \in Nat /\ t.said \in {"booked", "cancelled", "unknown"}
             /\ t.said # "unknown" => t.id \in DOMAIN server' /\ server'[t.id].mine
             /\ t.said = "cancelled" => ~server'[t.id].active
             /\ t.said = "booked" => Stands(t.id)'
      BY <1>4, <3>2 DEF Inv, ToldGood
    <3>4. \A e \in calls' : e.op = "book" /\ e.st = "done" =>
             Stands(e.id)' \/ \E t \in told : t.id = e.id
      <4>1. Stands(d.id)' \/ ~(d.op = "book" /\ d.st = "done")
        BY <1>4 DEF Stands
      <4>2. \A e \in calls \ {c} : e.op = "book" /\ e.st = "done" =>
               Stands(e.id)' \/ \E t \in told : t.id = e.id
        BY <1>4, <3>1 DEF Inv, ToldGood
      <4>3. QED
        BY <1>4, <4>1, <4>2
    <3>5. QED
      BY <1>1, <3>3, <3>4 DEF ToldGood, ClientStays
  <2>5. Busy'
    BY <1>1, <1>4, Replaced DEF Inv
  <2>6. QED
    BY <1>1, <1>4, <2>2, <2>3, <2>4, <2>5, ServerMoves DEF Inv
<1>5. CASE server' = server /\ calls' = (calls \ {c}) \cup {[c EXCEPT !.st = "refused"]}
  <2> DEFINE d == [c EXCEPT !.st = "refused"]
  <2>1. /\ d \in Call /\ d.op = c.op /\ d.mount = c.mount /\ d.n = c.n /\ d.id = c.id
        /\ d.res = c.res /\ d.st = "refused"
    BY <1>2 DEF Call
  <2>2. calls' = (calls \ {c}) \cup {d}
    BY <1>5
  <2> HIDE DEF d
  <2>3. CallGood(d, server')
    BY <1>1, <1>2, <1>5, <2>1 DEF CallGood
  <2>4. ServerGood' /\ Follows(server, server')
    BY <1>5, ServerTyped DEF Inv, ServerGood
  <2>5. \A i \in DOMAIN server : Stands(i) => Stands(i)'
    BY <1>5, <2>1, <2>2 DEF Stands
  <2>6. \A e \in calls \ {c} : CallGood(e, server')
    BY <1>2, <1>5
  <2>7. QED
    BY <1>4, <1>5, <2>1, <2>2, <2>3, <2>4, <2>5, <2>6
<1>6. CASE /\ c.op = "book"
           /\ server' = Append(server, Booking(c.res, c.date, c.from, c.to, TRUE))
           /\ calls' = (calls \ {c}) \cup {[c EXCEPT !.st = "done", !.id = Len(server) + 1]}
  <2> DEFINE x == Len(server) + 1
             d == [c EXCEPT !.st = "done", !.id = x]
             b == Booking(c.res, c.date, c.from, c.to, TRUE)
  <2>1. /\ d \in Call /\ d.op = c.op /\ d.mount = c.mount /\ d.n = c.n /\ d.id = x
        /\ d.res = c.res /\ d.st = "done"
    <3>1. x \in Nat
      BY ServerTyped DEF Inv
    <3> HIDE DEF x
    <3>2. QED
      BY <1>2, <3>1 DEF Call
  <2>2. calls' = (calls \ {c}) \cup {d} /\ server' = Append(server, b)
    BY <1>6
  <2>3. b \in BookingRecord /\ b.id = Len(server) + 1 /\ b.active /\ b.mine /\ b.res = c.res
    <3>1. c.date \in Dates /\ c.from \in Int /\ c.to \in Int
      BY <1>2 DEF Call
    <3>2. ServerGood /\ TRUE \in BOOLEAN
      BY DEF Inv
    <3>3. c.res \in Resources
      BY <1>3
    <3>4. QED
      BY <3>1, <3>2, <3>3, BookingTyped DEF Booking
  <2> HIDE DEF d, b
  <2>4. /\ ServerGood' /\ Follows(server, server') /\ b.id \in DOMAIN server' /\ server'[b.id] = b
        /\ \A i \in DOMAIN server : i \in DOMAIN server' /\ server'[i] = server[i]
    BY <2>2, <2>3, Appended DEF Inv
  <2>5. CallGood(d, server')
    BY <1>6, <2>1, <2>3, <2>4 DEF CallGood
  <2>6. \A i \in DOMAIN server : Stands(i) => Stands(i)'
    BY <1>6, <2>1, <2>2, <2>4 DEF Stands
  <2>7. \A e \in calls \ {c} : CallGood(e, server')
    BY <1>2, <2>4 DEF CallGood
  <2>8. server'[d.id].active
    BY <2>1, <2>3, <2>4
  <2>9. QED
    BY <1>4, <1>6, <2>1, <2>2, <2>4, <2>5, <2>6, <2>7, <2>8
<1>7. CASE /\ c.op = "cancel"
           /\ server' = [server EXCEPT ![c.id].active = FALSE]
           /\ calls' = (calls \ {c}) \cup {[c EXCEPT !.st = "done", !.id = c.id]}
  <2> DEFINE d == [c EXCEPT !.st = "done", !.id = c.id]
             i0 == c.id
             r == server[i0]
             q == [r EXCEPT !.active = FALSE]
  <2>1. /\ d \in Call /\ d.op = c.op /\ d.mount = c.mount /\ d.n = c.n /\ d.id = i0
        /\ d.res = c.res /\ d.st = "done"
    BY <1>2 DEF Call
  <2>2. calls' = (calls \ {c}) \cup {d} /\ server' = [server EXCEPT ![i0] = q]
    BY <1>7
  <2>3. i0 \in DOMAIN server /\ r.mine /\ r.res = c.res
    BY <1>2, <1>7 DEF CallGood
  <2>4. r \in BookingRecord /\ r.id = i0
    BY <2>3, ServerTyped DEF Inv
  <2>5. q \in BookingRecord /\ q.id = i0 /\ q.mine /\ q.res = c.res /\ ~q.active
    <3> HIDE DEF r
    <3>1. QED
      BY <2>3, <2>4 DEF BookingRecord
  <2> HIDE DEF d
  <2>6. /\ DOMAIN server' = DOMAIN server /\ server'[i0] = q
        /\ \A i \in DOMAIN server \ {i0} : server'[i] = server[i]
    BY <2>2, <2>3
  <2>7. server' \in Seq(BookingRecord)
    <3> HIDE DEF q
    <3>1. QED
      BY <2>2, <2>3, <2>5, ExceptSeq DEF Inv, ServerGood
  <2>8. Follows(server, server')
    BY <2>4, <2>6, ServerTyped DEF Follows, Inv
  <2> HIDE DEF q, r, i0
  <2>9. ServerGood'
    BY <2>5, <2>6, <2>7 DEF Inv, ServerGood
  <2>10. CallGood(d, server')
    BY <1>7, <2>1, <2>3, <2>5, <2>6 DEF CallGood
  <2>11. \A e \in calls \ {c} : CallGood(e, server')
    <3> SUFFICES ASSUME NEW e \in calls \ {c} PROVE CallGood(e, server')
      OBVIOUS
    <3>1. CallGood(e, server)
      BY <1>2
    <3>2. e.id = i0 => server[i0].res = c.res
      BY <2>3 DEF r
    <3>3. QED
      BY <2>3, <2>5, <2>6, <3>1, <3>2 DEF CallGood
  <2>12. \A i \in DOMAIN server : Stands(i) => Stands(i)'
    <3> SUFFICES ASSUME NEW i \in DOMAIN server, Stands(i) PROVE Stands(i)'
      OBVIOUS
    <3>1. CASE i = i0
      <4>1. d \in calls' /\ d.op = "cancel" /\ d.id = i
        BY <1>7, <2>1, <2>2, <3>1
      <4>2. QED
        BY <4>1 DEF Stands
    <3>2. CASE i # i0
      <4>1. server'[i] = server[i]
        BY <2>6, <3>2
      <4>2. \A e \in calls : e.id = i => e \in calls'
        BY <2>2, <3>2 DEF i0
      <4>3. QED
        BY <4>1, <4>2 DEF Stands
    <3>3. QED
      BY <3>1, <3>2
  <2>13. \A i \in DOMAIN server : server'[i].active => server[i].active
    BY <2>5, <2>6
  <2>14. \A i \in DOMAIN server : server[i].mine => server'[i].mine
    BY <2>5, <2>6
  <2>15. c.op = "cancel" => d.id = c.id
    BY <2>1 DEF i0
  <2>16. QED
    BY <1>4, <1>7, <2>1, <2>2, <2>8, <2>9, <2>10, <2>11, <2>12, <2>13, <2>14, <2>15
<1>8. \/ server' = server /\ calls' = (calls \ {c}) \cup {[c EXCEPT !.st = "refused"]}
      \/ /\ server' = IF c.op = "book"
                       THEN Append(server, Booking(c.res, c.date, c.from, c.to, TRUE))
                       ELSE [server EXCEPT ![c.id].active = FALSE]
         /\ calls' = (calls \ {c}) \cup {[c EXCEPT !.st = "done", !.id = IF c.op = "book"
                                                        THEN Len(server) + 1 ELSE c.id]}
  BY DEF ServeCall
<1>9. CASE c.op = "book"
  BY <1>5, <1>6, <1>8, <1>9
<1>10. CASE c.op = "cancel"
  BY <1>5, <1>7, <1>8, <1>10
<1>11. QED
  BY <1>3, <1>9, <1>10
----------------------------------------------------------------------------
(* The answer of a request *)

\* A list that is asked for again tells nothing until the new one is there.
LEMMA ReloadGood ==
  ASSUME NEW n \in Lists, NEW h, NEW k \in KeysFor(n) \cup {Nothing}, NEW stored, NEW sv, NEW fm,
         NEW gm, ListGood(n, h, sv, fm)
  PROVE  ListGood(n, Load(h, k, TRUE, stored), sv, gm)
<1> DEFINE f == [key |-> k, got |-> Nothing]
           r == Load(h, k, TRUE, stored)
<1>1. CASE k = Nothing
  <2>1. r = [st |-> "ready", shown |-> {}, of |-> Nothing, fetch |-> Nothing]
    BY <1>1 DEF Load
  <2> HIDE DEF r
  <2>2. /\ r.st = "ready" /\ r.shown = {} /\ r.of = Nothing /\ r.fetch = Nothing
        /\ r \in ListState
    BY <2>1, NoRows DEF ListState
  <2>3. ListGood(n, r, sv, gm)
    BY <2>2 DEF ListGood
  <2>4. QED
    BY <2>3 DEF r
<1>2. CASE k # Nothing
  <2>1. r = [h EXCEPT !.st = "loading", !.fetch = f]
    BY <1>2 DEF Load
  <2>2. f \in Fetch /\ f.key = k /\ f.got = Nothing
    BY <1>2, KeysForKeys DEF Fetch
  <2>3. f # Nothing
    BY <2>2, AskNothing
  <2>4. h \in ListState
    BY DEF ListGood
  <2> HIDE DEF f, r
  <2>5. /\ r.st = "loading" /\ r.shown = h.shown /\ r.of = h.of /\ r.fetch = f
        /\ r \in ListState
    BY <2>1, <2>2, <2>4 DEF ListState
  <2>6. ListGood(n, r, sv, gm)
    BY <1>2, <2>2, <2>3, <2>5 DEF ListGood
  <2>7. QED
    BY <2>6 DEF r
<1>3. QED
  BY <1>1, <1>2

\* One more thing was told, of a row that the key does not cover.
LEMMA GoodElsewhere ==
  ASSUME NEW k, NEW S, NEW sv, NEW fm, NEW gm, NEW w, gm \subseteq fm \cup {w},
         ~InKey(k, sv[w.id]), Good(k, S, sv, fm)
  PROVE  Good(k, S, sv, gm)
BY DEF Good, Tells

LEMMA ListElsewhere ==
  ASSUME NEW n, NEW r, NEW sv, NEW fm, NEW gm, NEW w, gm \subseteq fm \cup {w},
         \A k \in KeysFor(n) : ~InKey(k, sv[w.id]), ListGood(n, r, sv, fm)
  PROVE  ListGood(n, r, sv, gm)
BY GoodElsewhere DEF ListGood

Said(c, ok) == [id |-> c.id, mount |-> c.mount,
                said |-> IF ~ok THEN "unknown" ELSE IF c.op = "book" THEN "booked" ELSE "cancelled"]

\* What the client was told before, and of what: the entries for the request's row go
\* when it is a cancellation, and stay otherwise.
LEMMA ToldAfter ==
  ASSUME NEW c \in calls, NEW ok \in BOOLEAN, Answer(c, ok)
  PROVE  /\ \A t \in told' : \/ t \in told /\ (c.op = "cancel" => t.id # c.id)
                             \/ /\ t = Said(c, ok)
                                /\ c.op = "book" => \A u \in told : u.id # c.id
         /\ \A t \in told : t \in told' \/ t.id = c.id
         /\ \E t \in told' : t.id = c.id
<1>1. told' = IF c.op = "book" /\ \E t \in told : t.id = c.id THEN told
              ELSE {t \in told : t.id # c.id} \cup {Said(c, ok)}
  BY DEF Answer, Said
<1>2. Said(c, ok).id = c.id
  BY DEF Said
<1>3. CASE c.op = "book" /\ \E t \in told : t.id = c.id
  BY <1>1, <1>3
<1>4. CASE ~(c.op = "book" /\ \E t \in told : t.id = c.id)
  BY <1>1, <1>2, <1>4
<1>5. QED
  BY <1>3, <1>4

LEMMA AnswerTold == ASSUME Inv, NEW c \in calls, NEW ok \in BOOLEAN, Answer(c, ok) PROVE ToldGood'
<1>1. calls' = calls \ {c} /\ mount' = mount /\ server' = server /\ (ok => c.st = "done")
  BY DEF Answer
<1>2. c \in Call /\ CallGood(c, server) /\ c.mount <= mount
  BY DEF Inv, CallsGood
<1>3. c.op \in {"book", "cancel"} /\ c.mount \in Nat
  BY <1>2 DEF Call
<1>4. \A i : Stands(i) /\ ~(c.op = "cancel" /\ c.id = i) => Stands(i)'
  BY <1>1 DEF Stands
<1>5. ASSUME NEW t \in told'
      PROVE  /\ t.mount <= mount /\ t.mount \in Nat /\ t.said \in {"booked", "cancelled", "unknown"}
             /\ t.said # "unknown" => t.id \in DOMAIN server /\ server[t.id].mine
             /\ t.said = "cancelled" => ~server[t.id].active
             /\ t.said = "booked" => Stands(t.id)'
  <2>1. CASE t \in told /\ (c.op = "cancel" => t.id # c.id)
    BY <1>4, <2>1 DEF Inv, ToldGood
  <2>2. CASE t = Said(c, ok) /\ (c.op = "book" => \A u \in told : u.id # c.id)
    <3>1. /\ t.id = c.id /\ t.mount = c.mount
          /\ t.said = IF ~ok THEN "unknown" ELSE IF c.op = "book" THEN "booked" ELSE "cancelled"
      BY <2>2 DEF Said
    <3>2. ok /\ c.op = "book" => Stands(c.id)
      BY <1>1, <2>2 DEF Inv, ToldGood
    <3>3. ok /\ c.op = "book" => Stands(c.id)'
      BY <1>4, <3>2
    <3>4. ok => c.id \in DOMAIN server /\ server[c.id].mine /\ (c.op = "cancel" => ~server[c.id].active)
      BY <1>1, <1>2 DEF CallGood
    <3>5. QED
      BY <1>2, <1>3, <3>1, <3>3, <3>4
  <2>3. QED
    BY <2>1, <2>2, ToldAfter
<1>6. ASSUME NEW d \in calls', d.op = "book", d.st = "done"
      PROVE  Stands(d.id)' \/ \E t \in told' : t.id = d.id
  <2>1. Stands(d.id) \/ \E t \in told : t.id = d.id
    BY <1>1, <1>6 DEF Inv, ToldGood
  <2>2. QED
    BY <1>4, <2>1, ToldAfter
<1>7. QED
  BY <1>1, <1>5, <1>6 DEF ToldGood

\* The only news is the answer itself.
LEMMA AnswerFirm ==
  ASSUME Inv, NEW c \in calls, NEW ok \in BOOLEAN, Answer(c, ok)
  PROVE  /\ Firm' \subseteq Firm \cup {Said(c, ok)}
         /\ ~ok \/ c.mount # mount => Firm' \subseteq Firm
<1>1. calls' = calls \ {c} /\ mount' = mount
  BY DEF Answer
<1>2. c.op \in {"book", "cancel"}
  BY DEF Inv, CallsGood, Call
<1>3. ASSUME NEW t \in Firm', t \in told, c.op = "cancel" => t.id # c.id PROVE t \in Firm
  <2>1. t.said = "booked" => \A e \in calls : e.op = "cancel" => e.id # t.id
    BY <1>1, <1>3 DEF Firm
  <2>2. QED
    BY <1>1, <1>3, <2>1 DEF Firm
<1>4. ASSUME NEW t \in Firm', t = Said(c, ok) PROVE ok /\ c.mount = mount
  BY <1>1, <1>4 DEF Said, Firm
<1>5. \A t \in Firm' : t \in told'
  BY DEF Firm
<1>6. QED
  BY <1>3, <1>4, <1>5, ToldAfter
\* What a success leaves in the cache does not speak of the row that was acted upon.
LEMMA AnswerCache ==
  ASSUME Inv, NEW c \in calls, NEW ok \in BOOLEAN, Answer(c, ok)
  PROVE  /\ DOMAIN cache' = Keys
         /\ \A k \in Keys : cache'[k] # Nothing => /\ cache'[k] = cache[k]
                                                   /\ ok => ~InKey(k, server[c.id])
<1>1. /\ c.st = "done" => server[c.id].res = c.res
  BY DEF Inv, CallsGood, CallGood
<1>2. cache' = IF ok THEN Invalidated(c.res) ELSE cache
  BY DEF Answer
<1>3. CASE ~ok
  BY <1>2, <1>3 DEF Inv, PageGood
<1>4. CASE ok
  <2> DEFINE dropped == IF c.res \in Desks THEN {"deskBookings", "myBookings"}
                        ELSE {"roomBookings", "myRoomBookings"}
  <2>1. cache' = [k \in Keys |-> IF k[1] \in dropped THEN Nothing ELSE cache[k]]
    BY <1>2, <1>4 DEF Invalidated
  <2>2. server[c.id].res = c.res
    BY <1>1, <1>4 DEF Answer
  <2>3. \A k \in Keys : k[1] \in Lists
    BY DEF Keys, Lists, MyLists
  <2>4. \A k \in Keys : k[1] \notin dropped => ~InKey(k, server[c.id])
    BY <2>2, <2>3, ListedLists, ThingsAssumption DEF InKey, Lists
  <2>5. QED
    BY <2>1, <2>4
<1>5. QED
  BY <1>3, <1>4

LEMMA AnswerLists ==
  ASSUME Inv, NEW c \in calls, NEW ok \in BOOLEAN, Answer(c, ok)
  PROVE  PageGood' /\ ListsGood'
<1> DEFINE w == Said(c, ok)
<1>1. server' = server /\ UNCHANGED <<page, mount, place, things, sent>> /\ w.id = c.id
  BY DEF Answer, Said
<1> HIDE DEF w
<1>2. Firm' \subseteq Firm \cup {w} /\ (~ok \/ c.mount # mount => Firm' \subseteq Firm)
  BY AnswerFirm DEF w
<1>3. /\ DOMAIN cache' = Keys
      /\ \A k \in Keys : cache'[k] # Nothing
            => Good(k, cache'[k], server, Firm) /\ cache'[k] \in RowSets
  BY AnswerCache, CacheGood DEF Inv
<1>4. \A k \in Keys : cache'[k] # Nothing => Good(k, cache'[k], server', Firm')
  <2> SUFFICES ASSUME NEW k \in Keys, cache'[k] # Nothing PROVE Good(k, cache'[k], server, Firm')
    BY <1>1
  <2>1. CASE ok
    <3>1. ~InKey(k, server[w.id])
      BY <1>1, <2>1, AnswerCache
    <3>2. QED
      BY <1>2, <1>3, <3>1, GoodElsewhere
  <2>2. CASE ~ok
    BY <1>2, <1>3, <2>2, GoodWeaker
  <2>3. QED
    BY <2>1, <2>2
<1>5. /\ DOMAIN list \subseteq Lists
      /\ \A n \in DOMAIN list : ListGood(n, list[n], server, Firm)
  BY PageLists DEF Inv, PageGood, ListsGood
<1>6. DOMAIN list' = DOMAIN list /\ \A n \in DOMAIN list' : ListGood(n, list'[n], server', Firm')
  <2>1. CASE ~ok \/ c.mount # mount
    <3>1. list' = list
      BY <2>1 DEF Answer
    <3>2. QED
      BY <1>1, <1>2, <1>5, <2>1, <3>1, ListWeaker
  <2>2. CASE ok /\ c.mount = mount
    <3>1. list' = RefreshAfter(c, cache')
      BY <2>2 DEF Answer
    <3>2. /\ DOMAIN list' = DOMAIN list
          /\ \A n \in DOMAIN list :
                list'[n] = IF n \in MyLists /\ (n = "myBookings") # (c.res \in Desks) THEN list[n]
                           ELSE Load(list[n], Key(n, place), TRUE, cache')
      BY <3>1 DEF RefreshAfter
    <3>3. ASSUME NEW n \in DOMAIN list PROVE ListGood(n, list'[n], server, Firm')
      <4> DEFINE h == list[n]
      <4>1. n \in Lists /\ ListGood(n, h, server, Firm)
        BY <1>5
      <4>2. CASE n \in MyLists /\ (n = "myBookings") # (c.res \in Desks)
        <5>1. server[w.id].res = c.res
          BY <1>1, <2>2 DEF Answer, Inv, CallsGood, CallGood
        <5>2. \A k \in KeysFor(n) : ~InKey(k, server[w.id])
          BY <4>2, <5>1, ListedLists, ThingsAssumption DEF KeysFor, InKey, MyLists
        <5> HIDE DEF h
        <5>3. ListGood(n, h, server, Firm')
          BY <1>2, <4>1, <5>2, ListElsewhere
        <5>4. list'[n] = h
          BY <3>2, <4>2 DEF h
        <5>5. QED
          BY <5>3, <5>4
      <4>3. CASE ~(n \in MyLists /\ (n = "myBookings") # (c.res \in Desks))
        <5> DEFINE k == Key(n, place)
        <5>1. list'[n] = Load(h, k, TRUE, cache')
          BY <3>2, <4>3
        <5>2. k \in KeysFor(n) \cup {Nothing}
          BY <4>1, KeyGood DEF Inv, PageGood, Place
        <5> HIDE DEF h, k
        <5>3. ListGood(n, Load(h, k, TRUE, cache'), server, Firm')
          BY <4>1, <5>2, ReloadGood
        <5>4. QED
          BY <5>1, <5>3
      <4>4. QED
        BY <4>2, <4>3
    <3>4. QED
      BY <1>1, <3>2, <3>3
  <2>3. QED
    BY <2>1, <2>2
<1>7. ListsGood'
  BY <1>4, <1>6, ListsAfter
<1>8. PageGood'
  BY <1>1, <1>3, <1>6 DEF Inv, PageGood
<1>9. QED
  BY <1>7, <1>8
\* The page's own state after the answer: a booking's spinner goes, a cancellation's
\* spinner and dialog go, and the desk page's message is the one of this request.
BookUi(u, v, c, ok) ==
    /\ v \in Ui /\ v.cancelling = u.cancelling /\ v.dialog = u.dialog
    /\ v.feedback.cancelOk = u.feedback.cancelOk
    /\ page = "desk" => ~v.booking /\ v.feedback.bookOk = IF ok THEN c.n ELSE u.feedback.bookOk

CancelUi(u, v, c, ok) ==
    /\ v \in Ui /\ ~v.cancelling /\ v.dialog = Nothing /\ v.booking = u.booking
    /\ v.feedback.bookOk = u.feedback.bookOk
    /\ page = "desk" => v.feedback.cancelOk = IF ok THEN c.n ELSE u.feedback.cancelOk

LEMMA BookEnded ==
  ASSUME ui \in Ui, NEW c \in Call, c.op = "book", page \in {"desk", "room"}, NEW ok \in BOOLEAN
  PROVE  BookUi(ui, Ended(c, ok), c, ok)
<1> DEFINE v == Ended(c, ok)
<1>1. c.n \in Nat /\ c.res \in Resources
  BY DEF Call
<1>2. CASE page = "desk"
  <2> DEFINE g == IF ok THEN [ui.feedback EXCEPT !.bookOk = c.n]
                  ELSE [ui.feedback EXCEPT !.bookErr = c.res]
  <2>1. v = [ui EXCEPT !.booking = FALSE, !.feedback = g]
    BY <1>2 DEF Ended, DeskBookEnded, Ui, Feedback
  <2>2. g \in Feedback /\ g.cancelOk = ui.feedback.cancelOk
        /\ g.bookOk = IF ok THEN c.n ELSE ui.feedback.bookOk
    BY <1>1 DEF Ui, Feedback
  <2> HIDE DEF v, g
  <2>3. BookUi(ui, v, c, ok)
    BY <2>1, <2>2 DEF BookUi, Ui
  <2>4. QED
    BY <2>3 DEF v
<1>3. CASE page = "room"
  <2> DEFINE g == [ui.feedback EXCEPT !.bookErr = IF ok THEN @ ELSE c.res]
  <2>1. v = [ui EXCEPT !.booking = FALSE, !.busy = Nothing, !.feedback = g]
    BY <1>3 DEF Ended, RoomBookEnded, Ui, Feedback
  <2>2. g \in Feedback /\ g.cancelOk = ui.feedback.cancelOk
    BY <1>1 DEF Ui, Feedback
  <2> HIDE DEF v, g
  <2>3. BookUi(ui, v, c, ok)
    BY <1>3, <2>1, <2>2 DEF BookUi, Ui
  <2>4. QED
    BY <2>3 DEF v
<1>4. QED
  BY <1>2, <1>3

LEMMA CancelEnded ==
  ASSUME ui \in Ui, NEW c \in Call, c.op = "cancel", page \in {"desk", "room", "mine"},
         NEW ok \in BOOLEAN
  PROVE  CancelUi(ui, Ended(c, ok), c, ok)
<1>1. c.n \in Nat /\ c.res \in Resources
  BY DEF Call
<1>2. CASE page # "room"
  <2> DEFINE v == Ended(c, ok)
             g == IF ok THEN [ui.feedback EXCEPT !.cancelOk = c.n]
                  ELSE [ui.feedback EXCEPT !.cancelErr = TRUE]
  <2>1. v = [ui EXCEPT !.cancelling = FALSE, !.dialog = Nothing, !.feedback = g]
    BY <1>2 DEF Ended, DeskCancelEnded, MyCancelEnded, Ui, Feedback
  <2>2. g \in Feedback /\ g.bookOk = ui.feedback.bookOk
        /\ g.cancelOk = IF ok THEN c.n ELSE ui.feedback.cancelOk
    BY <1>1 DEF Ui, Feedback
  <2> HIDE DEF v, g
  <2>3. CancelUi(ui, v, c, ok)
    BY <1>2, <2>1, <2>2 DEF CancelUi, Ui
  <2>4. QED
    BY <2>3 DEF v
<1>3. CASE page = "room"
  <2> DEFINE v == Ended(c, ok)
             g == [ui.feedback EXCEPT !.bookErr = IF ok THEN @ ELSE c.res]
  <2>1. v = [ui EXCEPT !.cancelling = FALSE, !.busy = Nothing, !.dialog = Nothing, !.feedback = g]
    BY <1>3 DEF Ended, RoomCancelEnded, Ui, Feedback
  <2>2. g \in Feedback /\ g.bookOk = ui.feedback.bookOk /\ g.cancelOk = ui.feedback.cancelOk
    BY <1>1 DEF Ui, Feedback
  <2> HIDE DEF v, g
  <2>3. CancelUi(ui, v, c, ok)
    BY <1>3, <2>1, <2>2 DEF CancelUi, Ui
  <2>4. QED
    BY <2>3 DEF v
<1>4. QED
  BY <1>2, <1>3

LEMMA AnswerUi ==
  ASSUME Inv, NEW c \in calls, NEW ok \in BOOLEAN, Answer(c, ok)
  PROVE  UiGood' /\ TimersGood' /\ TimerOwnsMessage' /\ Busy'
<1>1. calls' = calls \ {c} /\ UNCHANGED <<page, mount, server>>
  BY DEF Answer
<1>2. c \in Call /\ c.op \in {"book", "cancel"} /\ c.n \in Nat
  BY DEF Inv, CallsGood, Call
<1>3. CASE c.mount # mount
  <2>1. UNCHANGED <<ui, timers>>
    BY <1>3 DEF Answer
  <2>2. Mine("book")' = Mine("book") /\ Mine("cancel")' = Mine("cancel")
    BY <1>1, <1>3 DEF Mine
  <2>3. UiGood' /\ TimersGood' /\ TimerOwnsMessage'
    BY <1>1, <2>1 DEF Inv, UiGood, TimersGood, TimerOwnsMessage
  <2>4. QED
    BY <1>1, <2>1, <2>2, <2>3 DEF Inv, Busy
<1>4. CASE c.mount = mount
  <2>1. ui' = Ended(c, ok) /\ timers' = IF ok /\ page = "desk" THEN TimersOf(c) ELSE timers
    BY <1>4 DEF Answer
  <2>2. page \in {"desk", "room", "mine"} /\ ui \in Ui
    BY DEF Inv, PageGood, UiGood
  <2>3. \A o : o # c.op => Mine(o)' = Mine(o)
    BY <1>1 DEF Mine
  <2>4. Mine(c.op)' = Mine(c.op) \ {c} /\ c \in Mine(c.op)
    BY <1>1, <1>4 DEF Mine
  <2>5. TimersGood'
    <3>1. CASE ok /\ page = "desk"
      BY <1>1, <1>2, <2>1, <3>1 DEF Inv, TimersGood, TimersOf
    <3>2. CASE ~(ok /\ page = "desk")
      BY <1>1, <2>1, <3>2 DEF Inv, TimersGood
    <3>3. QED
      BY <3>1, <3>2
  \* Timers of messages that this answer leaves alone, and the one of its own message.
  <2>6. ASSUME page # "desk" PROVE TimerOwnsMessage'
    BY <1>1, <2>5, <2>6 DEF TimersGood, TimerOwnsMessage
  <2>7. CASE c.op = "book"
    <3>1. page \in {"desk", "room"}
      <4>1. Mine("book") # {}
        BY <2>4, <2>7
      <4>2. QED
        BY <2>2, <4>1 DEF Inv, Busy
    <3>2. BookUi(ui, ui', c, ok)
      BY <1>2, <2>1, <2>2, <2>7, <3>1, BookEnded
    <3>3. UiGood'
      BY <1>1, <3>2 DEF Inv, UiGood, BookUi
    <3>4. ASSUME page = "desk" PROVE TimerOwnsMessage'
      <4> SUFFICES ASSUME NEW t \in timers'
                   PROVE  (IF t.op = "book" THEN ui'.feedback.bookOk ELSE ui'.feedback.cancelOk) \in {0, t.n}
        BY DEF TimerOwnsMessage
      <4>1. CASE t \in timers /\ (ok => t.op # "book")
        BY <3>2, <3>4, <4>1 DEF Inv, TimerOwnsMessage, BookUi
      <4>2. CASE ok /\ t = [op |-> c.op, n |-> c.n]
        BY <2>7, <3>2, <3>4, <4>2 DEF BookUi
      <4>3. QED
        BY <2>1, <2>7, <3>4, <4>1, <4>2 DEF TimersOf
    <3>5. Busy'
      <4>1. Mine("cancel")' = Mine("cancel")
        BY <2>3, <2>7
      <4>2. page = "desk" => Mine("book")' = {} /\ AtMostOne(Mine("book")')
        BY <2>4, <2>7 DEF Inv, Busy, AtMostOne
      <4>3. QED
        BY <1>1, <3>1, <3>2, <4>1, <4>2 DEF Inv, Busy, BookUi
    <3>6. QED
      BY <2>5, <2>6, <3>3, <3>4, <3>5
  <2>8. CASE c.op = "cancel"
    <3>1. CancelUi(ui, ui', c, ok)
      BY <1>2, <2>1, <2>2, <2>8, CancelEnded
    <3>2. UiGood'
      BY <3>1 DEF UiGood, CancelUi
    <3>3. ASSUME page = "desk" PROVE TimerOwnsMessage'
      <4> SUFFICES ASSUME NEW t \in timers'
                   PROVE  (IF t.op = "book" THEN ui'.feedback.bookOk ELSE ui'.feedback.cancelOk) \in {0, t.n}
        BY DEF TimerOwnsMessage
      <4>1. CASE t \in timers /\ (ok => t.op # "cancel")
        <5>1. t.op \in {"book", "cancel"}
          BY <4>1 DEF Inv, TimersGood
        <5>2. QED
          BY <3>1, <3>3, <4>1, <5>1 DEF Inv, TimerOwnsMessage, CancelUi
      <4>2. CASE ok /\ t = [op |-> c.op, n |-> c.n]
        BY <2>8, <3>1, <3>3, <4>2 DEF CancelUi
      <4>3. QED
        BY <2>1, <2>8, <3>3, <4>1, <4>2 DEF TimersOf
    <3>4. Busy'
      <4>1. Mine("book")' = Mine("book")
        BY <2>3, <2>8
      <4>2. Mine("cancel")' = {} /\ AtMostOne(Mine("cancel")')
        BY <2>4, <2>8 DEF Inv, Busy, AtMostOne
      <4>3. QED
        BY <1>1, <3>1, <4>1, <4>2 DEF Inv, Busy, CancelUi
    <3>5. QED
      BY <2>5, <2>6, <3>2, <3>3, <3>4
  <2>9. QED
    BY <1>2, <2>7, <2>8
<1>5. QED
  BY <1>3, <1>4

LEMMA AnswerInv == ASSUME Inv, NEW c \in calls, NEW ok \in BOOLEAN, Answer(c, ok) PROVE Inv'
<1>1. calls' = calls \ {c} /\ UNCHANGED <<mount, server, sent>>
  BY DEF Answer
<1>2. ServerGood' /\ CallsGood'
  BY <1>1 DEF Inv, ServerGood, CallsGood
<1>3. QED
  BY <1>2, AnswerTold, AnswerLists, AnswerUi DEF Inv
----------------------------------------------------------------------------
(* A page mounts *)

LEMMA TodayTyped == ASSUME WorldGood PROVE Today \in Dates
BY DatesAssumption DEF Today, WorldGood

LEMMA PlaceOfTyped == ASSUME WorldGood, NEW a \in Arrivals PROVE PlaceOf(a) \in Place
BY TodayTyped, ArrivalsAssumption DEF PlaceOf, Place

LEMMA NewUiTyped ==
  ASSUME NEW d \in FloorDesks \cup {Nothing, Gone}
  PROVE  /\ NewUi(d) \in Ui /\ ~NewUi(d).booking /\ ~NewUi(d).cancelling /\ NewUi(d).dialog = Nothing
BY NoFeedbackTyped DEF NewUi, Ui

LEMMA NavigateInv == ASSUME Inv, WorldGood, NEW a \in Arrivals, Navigate(a) PROVE Inv'
<1> DEFINE D == ListsOf(a.page)
           p == PlaceOf(a)
<1>1. /\ mount' = mount + 1 /\ page' = a.page /\ place' = p /\ timers' = {} /\ ui' = NewUi(a.desk)
      /\ things' \in Things
      /\ UNCHANGED <<calls, server, sent, told>>
  BY AskedTyped DEF Navigate
<1>2. p \in Place /\ a.page \in {"desk", "room", "mine"} /\ a.desk \in FloorDesks \cup {Nothing, Gone}
  BY PlaceOfTyped, ArrivalsAssumption
<1>3. PICK stored \in Stored : /\ list' = [n \in D |-> Load(NoList, Key(n, p), FALSE, stored)]
                               /\ cache' = stored
  BY DEF Navigate
<1>4. mount \in Nat
  BY DEF Inv, PageGood
<1>5. Firm' = {}
  BY <1>1, <1>4 DEF Inv, ToldGood, Firm
<1>6. Mine("book")' = {} /\ Mine("cancel")' = {}
  <2>1. \A c \in calls : c.mount # mount + 1
    <3> SUFFICES ASSUME NEW c \in calls PROVE c.mount # mount + 1
      OBVIOUS
    <3>1. c.mount \in Nat /\ c.mount <= mount
      BY DEF Inv, CallsGood, Call
    <3>2. QED
      BY <1>4, <3>1
  <2>2. QED
    BY <1>1, <2>1 DEF Mine
<1>7. /\ \A n \in D : ListGood(n, Load(NoList, Key(n, p), FALSE, stored), server, Firm)
      /\ DOMAIN stored = Keys
      /\ \A k \in Keys : stored[k] # Nothing
            => Good(k, stored[k], server, Firm) /\ stored[k] \in RowSets
  <2> DEFINE from == [n \in D |-> NoList]
  <2>1. D \in SUBSET Lists /\ FALSE \in BOOLEAN
    BY <1>2, PageLists
  <2>2. \A n \in D : from[n] = NoList \/ ListGood(n, from[n], server, Firm)
    OBVIOUS
  <2> HIDE DEF p, D
  <2>3. /\ \A n \in D : ListGood(n, Load(from[n], Key(n, p), FALSE, stored), server, Firm)
        /\ DOMAIN stored = Keys
        /\ \A k \in Keys : stored[k] # Nothing
              => Good(k, stored[k], server, Firm) /\ stored[k] \in RowSets
    <3> HIDE DEF from
    <3>1. QED
      BY <1>2, <2>1, <2>2, LoadsGood DEF Inv
  <2>4. QED
    BY <2>3
<1> HIDE DEF p, D
<1>8. ListsGood'
  <2>1. \A k \in Keys : cache'[k] # Nothing => Good(k, cache'[k], server', Firm')
    BY <1>1, <1>3, <1>5, <1>7, GoodWeaker
  <2>2. \A n \in DOMAIN list' : ListGood(n, list'[n], server', Firm')
    BY <1>1, <1>3, <1>5, <1>7, ListWeaker
  <2>3. QED
    BY <2>1, <2>2, ListsAfter
<1>9. PageGood'
  BY <1>1, <1>2, <1>3, <1>4, <1>7 DEF PageGood, Place, Inv, D
<1>10. UiGood' /\ TimersGood' /\ TimerOwnsMessage' /\ Busy'
  BY <1>1, <1>2, <1>6, NewUiTyped DEF UiGood, TimersGood, TimerOwnsMessage, Busy, AtMostOne
<1>11. ServerGood'
  BY <1>1 DEF Inv, ServerGood
<1>12. CallsGood'
  <2>1. \A c \in calls : c.mount <= mount + 1
    <3> SUFFICES ASSUME NEW c \in calls PROVE c.mount <= mount + 1
      OBVIOUS
    <3>1. c.mount \in Nat /\ c.mount <= mount
      BY DEF Inv, CallsGood, Call
    <3>2. QED
      BY <1>4, <3>1
  <2>2. QED
    BY <1>1, <2>1 DEF Inv, CallsGood
<1>13. ToldGood'
  <2>1. \A t \in told : t.mount <= mount + 1
    BY <1>4 DEF Inv, ToldGood
  <2>2. QED
    BY <1>1, <2>1 DEF Inv, ToldGood, Stands
<1>14. QED
  BY <1>8, <1>9, <1>10, <1>11, <1>12, <1>13 DEF Inv

LEMMA InitWorld == ASSUME Init PROVE WorldGood
BY DEF Init, WorldGood

LEMMA InitInv == ASSUME Init PROVE Inv
<1> DEFINE none == [k \in Keys |-> Nothing]
<1>1. /\ mount = 1 /\ cache = none /\ timers = {} /\ calls = {} /\ server = << >> /\ sent = 0
      /\ told = {}
  BY DEF Init
<1>2. PICK a \in Arrivals :
         /\ page = a.page /\ place = PlaceOf(a)
         /\ things = Asked(a.page, a.floor, FALSE)
         /\ list = [n \in ListsOf(a.page) |-> Load(NoList, Key(n, PlaceOf(a)), FALSE, none)]
         /\ ui = NewUi(a.desk)
  BY DEF Init
<1>3. place \in Place /\ a.page \in {"desk", "room", "mine"} /\ a.desk \in FloorDesks \cup {Nothing, Gone}
  BY <1>2, InitWorld, PlaceOfTyped, ArrivalsAssumption
<1>4. Firm = {} /\ Mine("book") = {} /\ Mine("cancel") = {}
  BY <1>1 DEF Firm, Mine
<1>5. ListsGood
  <2>1. \A k \in Keys : none[k] = Nothing
    OBVIOUS
  <2> HIDE DEF none
  <2>2. ASSUME NEW n \in DOMAIN list PROVE ListGood(n, list[n], server, Firm)
    <3> DEFINE k == Key(n, place)
    <3>1. n \in Lists /\ list[n] = Load(NoList, k, FALSE, none)
      BY <1>2, <1>3, PageLists
    <3>2. k \in KeysFor(n) \cup {Nothing}
      BY <1>3, <3>1, KeyGood
    <3>3. k # Nothing /\ none[k] # Nothing => Good(k, none[k], server, Firm) /\ none[k] \in RowSets
      BY <2>1, <3>1, <3>2, KeysForKeys
    <3> HIDE DEF k
    <3>4. ListGood(n, Load(NoList, k, FALSE, none), server, Firm)
      <4> DEFINE h == NoList
      <4>1. h = NoList
        OBVIOUS
      <4> HIDE DEF h
      <4>2. QED
        BY <3>1, <3>2, <3>3, <4>1, LoadGood
    <3>5. QED
      BY <3>1, <3>4
  <2>3. QED
    BY <1>1, <2>1, <2>2 DEF ListsGood
<1>6. PageGood
  BY <1>1, <1>2, <1>3, AskedTyped DEF PageGood, Place
<1>7. UiGood /\ TimersGood /\ TimerOwnsMessage /\ Busy
  BY <1>1, <1>2, <1>3, <1>4, NewUiTyped DEF UiGood, TimersGood, TimerOwnsMessage, Busy, AtMostOne
<1>8. ServerGood /\ CallsGood /\ ToldGood
  <2>1. server \in Seq(BookingRecord) /\ DOMAIN server = {}
    BY <1>1
  <2>2. QED
    BY <1>1, <2>1 DEF ServerGood, CallsGood, ToldGood
<1>9. QED
  BY <1>5, <1>6, <1>7, <1>8 DEF Inv

\* The clock moves, or the floor's status, or nothing.
PageStays == UNCHANGED <<page, mount, place, loc, remembered, things, list, cache, ui, timers, calls,
                         server, sent, told, acts>>

LEMMA StutterInv == ASSUME Inv, PageStays PROVE Inv'
<1>1. Browses /\ timers' = timers /\ ui' = ui /\ UNCHANGED <<place, things, list, cache>>
  BY DEF PageStays, Browses
<1>2. PageGood' /\ ListsGood'
  BY <1>1, StillGood DEF Inv, PageGood
<1>3. QED
  BY <1>1, <1>2, KeepsSelf, BrowseInv DEF Inv, UiGood
----------------------------------------------------------------------------
(* The theorems *)

LEMMA NextInv == ASSUME Inv, WorldGood, [Next]_vars PROVE Inv'
<1>1. CASE \E a \in Arrivals : Navigate(a)
  BY <1>1, NavigateInv
<1>2. CASE (\E ok \in BOOLEAN : OfficesAnswer(ok) \/ FloorsAnswer(ok) \/ ItemsAnswer(ok)) \/ LayoutAnswer
  BY <1>2, OfficesAnswerInv, FloorsAnswerInv, AnswersInv
<1>3. CASE ChooseOffice(Office) \/ ChooseFloor \/ \E d \in Dates : ChooseDate(d)
  BY <1>3, ChooseOfficeInv, ChooseFloorInv, ChooseDateInv
<1>4. CASE \E n \in DOMAIN list : ServeList(n) \/ Arrive(n) \/ Fail(n)
  BY <1>4, ServeListInv, ArriveInv, FailInv
<1>5. CASE \E d \in FloorDesks : SelectDesk(d) \/ BookDesk(d)
  BY <1>5, SelectDeskInv, BookDeskInv
<1>6. CASE \E r \in Rooms, s \in startTimeOptions, d \in 1 .. MaxDuration : BookRoom(r, s, d)
  BY <1>6, BookRoomInv
<1>7. CASE \E b \in UNION {list[n].shown : n \in DOMAIN list} : CancelClicked(b)
  BY <1>7, CancelClickedInv
<1>8. CASE DismissCancel \/ confirmCancel
  BY <1>8, DismissCancelInv, ConfirmCancelInv
<1>9. CASE \E c \in calls : ServeCall(c)
  BY <1>9, ServeCallInv
<1>10. CASE \E c \in calls, ok \in BOOLEAN : Answer(c, ok)
  BY <1>10, AnswerInv
<1>11. CASE \E t \in timers : Timeout(t)
  BY <1>11, TimeoutInv
<1>12. CASE \E d \in Desks, date \in Dates, me \in BOOLEAN : Elsewhere(d, date, 0, Day, me)
  <2>1. Desks \subseteq Resources /\ 0 \in Int /\ Day \in Int
    BY TimesAssumption DEF Resources
  <2>2. QED
    BY <1>12, <2>1, ElsewhereInv
<1>13. CASE \E r \in Rooms, date \in Dates, t \in OtherTimes, me \in BOOLEAN :
              Elsewhere(r, date, t[1], t[2], me)
  <2>1. Rooms \subseteq Resources /\ \A t \in OtherTimes : t[1] \in Int /\ t[2] \in Int
    BY TimesAssumption DEF Resources
  <2>2. QED
    BY <1>13, <2>1, ElsewhereInv
<1>14. CASE SetStatus \/ Tick \/ UNCHANGED vars
  <2>1. PageStays
    BY <1>14 DEF SetStatus, Tick, vars, PageStays
  <2>2. QED
    BY <2>1, StutterInv
<1>15. QED
  BY <1>1, <1>2, <1>3, <1>4, <1>5, <1>6, <1>7, <1>8, <1>9, <1>10, <1>11, <1>12, <1>13, <1>14 DEF Next

\* Only the clock moves the clock, and only an administrator publishes.
LEMMA NextWorld == ASSUME WorldGood, [Next]_vars PROVE WorldGood'
<1>1. CASE UNCHANGED world
  BY <1>1 DEF world, WorldGood
<1>2. CASE Tick \/ SetStatus
  BY <1>2 DEF Tick, SetStatus, WorldGood
<1>3. ASSUME ~(Tick \/ SetStatus) PROVE UNCHANGED world
  BY <1>3 DEF Next, vars, Navigate, OfficesAnswer, FloorsAnswer, ItemsAnswer, LayoutAnswer, ChooseOffice,
     ChooseFloor, ChooseDate, ServeList, Arrive, Fail, SelectDesk, BookDesk, BookRoom, Send,
     CancelClicked, DismissCancel, confirmCancel, ServeCall, Answer, Timeout, Elsewhere
<1>4. QED
  BY <1>1, <1>2, <1>3

\* The four views of a booking agree in every reachable state.
LEMMA InvHolds == Spec => [](Inv /\ WorldGood)
<1>1. Inv /\ WorldGood /\ [Next]_vars => (Inv /\ WorldGood)'
  BY NextInv, NextWorld
<1>2. QED
  BY InitInv, InitWorld, <1>1, PTL DEF Spec

\* The pages keep their shapes: every row on screen is a row of the server, at most with
\* a cancellation that it has not seen (BookingDeskPage, BookingRoomPage, MyBookingsPage).
THEOREM TypeCorrect == Spec => []TypeOK
<1>1. ASSUME Inv, WorldGood PROVE TypeOK
  <2>1. ASSUME NEW n \in DOMAIN list, NEW b \in list[n].shown
        PROVE  b \in (UNION {Content(k) : k \in Keys}) \cup {[x EXCEPT !.active = TRUE] : x \in Bookings}
    <3> DEFINE r == server[b.id]
    <3>1. b.id \in DOMAIN server /\ (b = r \/ b = [r EXCEPT !.active = TRUE])
      BY <1>1, ShownRow DEF Inv
    <3>2. r \in Bookings /\ r \in BookingRecord /\ (r.active \/ r.mine)
      BY <1>1, <3>1, ServerTyped DEF Inv, ServerGood, Bookings
    <3>3. r.res \in Desks \cup Rooms /\ r.active \in BOOLEAN
      BY <3>2 DEF BookingRecord
    <3>4. r.active => r = [r EXCEPT !.active = TRUE]
      <4> HIDE DEF r
      <4>1. QED
        BY <3>2 DEF BookingRecord
    <3>5. ASSUME r.mine PROVE \E k \in Keys : r \in Content(k)
      <4>1. CASE r.res \in Desks
        <5>1. <<"myBookings">> \in Keys /\ r \in Content(<<"myBookings">>)
          BY <3>2, <3>5, <4>1, ListedLists DEF Keys, MyLists, Content
        <5>2. QED
          BY <5>1
      <4>2. CASE r.res \in Rooms
        <5>1. <<"myRoomBookings">> \in Keys /\ r \in Content(<<"myRoomBookings">>)
          BY <3>2, <3>5, <4>2, ListedLists DEF Keys, MyLists, Content
        <5>2. QED
          BY <5>1
      <4>3. QED
        BY <3>3, <4>1, <4>2
    <3> HIDE DEF r
    <3>6. QED
      BY <3>1, <3>2, <3>4, <3>5
  <2>2. ASSUME NEW n \in DOMAIN list
        PROVE  /\ list[n].st \in {"loading", "ready", "failed"}
               /\ (list[n].st = "loading") = (list[n].fetch # Nothing)
    <3> DEFINE r == list[n]
    <3>1. ListGood(n, r, server, Firm)
      BY <1>1 DEF Inv, ListsGood
    <3> HIDE DEF r
    <3>2. r.st \in {"loading", "ready", "failed"} /\ (r.st = "loading" <=> r.fetch # Nothing)
      BY <3>1 DEF ListGood, ListState
    <3>3. QED
      BY <3>2 DEF r
  <2>3. \A c \in calls : c.st \in {"sent", "done", "refused"} /\ c.n \in 1 .. sent
    BY <1>1 DEF Inv, CallsGood, Call
  <2>4. ui.desk \in FloorDesks \cup {Nothing} /\ now \in Clocks /\ published \in BOOLEAN
    BY <1>1 DEF Inv, UiGood, Ui, WorldGood
  <2>5. /\ page \in {"desk", "room", "mine"} /\ DOMAIN list = ListsOf(page)
        /\ place \in [office : {Nothing, Office}, floor : {Nothing, Floor}, date : Dates]
        /\ things \in [items : {"none", "loading", "ready", "failed"}, layout : {"loading", "done"},
                       known : BOOLEAN]
    BY <1>1 DEF Inv, PageGood, Things
  <2>6. QED
    BY <2>1, <2>2, <2>3, <2>4, <2>5 DEF TypeOK
<1>2. QED
  BY InvHolds, <1>1, PTL

\* "no stale reserved/available status survives a book/cancel" (bookingApi.ts:22), for
\* the page that made the request, whatever was cached, awaited or looked at since.
THEOREM ShowsOwn == Spec => []ShownFollowsOwn
<1>1. ASSUME Inv PROVE ShownFollowsOwn
  <2> SUFFICES ASSUME NEW t \in told, t.mount = mount, t.said # "unknown",
                      \A c \in calls : c.id # t.id, NEW n \in DOMAIN list,
                      list[n].st = "ready", Covers(n, server[t.id])
               PROVE  (\E b \in list[n].shown : b.id = t.id /\ b.active) <=> t.said = "booked"
    BY DEF ShownFollowsOwn
  <2> DEFINE r == list[n]
             b0 == server[t.id]
  <2>1. t \in Firm
    BY <1>1 DEF Inv, ToldGood, Firm
  <2>2. n \in Lists /\ ListGood(n, r, server, Firm)
    BY <1>1, PageLists DEF Inv, PageGood, ListsGood
  <2>3. r.of # Nothing /\ r.st = "ready"
        /\ b0.res \in Listed(n)
        /\ (n \in MyLists \/ b0.date = r.of[3])
    BY DEF Covers
  <2> HIDE DEF r, b0
  <2>4. r.of \in KeysFor(n) /\ Tells(r.of, r.shown, server, Firm)
    BY <2>2, <2>3 DEF ListGood, Good
  <2>5. r.of[1] = n
    BY <2>4 DEF KeysFor
  <2>6. InKey(r.of, b0)
    BY <2>3, <2>5 DEF InKey
  <2>7. QED
    BY <2>1, <2>4, <2>6 DEF Tells, r, b0
<1>2. QED
  BY InvHolds, <1>1, PTL

\* A timeout never hides the message of a later request (bookingTimerRef,
\* cancelTimerRef of the desk page).
THEOREM TimersOwn == Spec => []TimerOwnsMessage
<1>1. Inv => TimerOwnsMessage
  BY DEF Inv
<1>2. QED
  BY InvHolds, <1>1, PTL

\* One request of a kind is in flight at most, and its spinner is on as long.
LEMMA OneAtMost == ASSUME NEW S, AtMostOne(S) PROVE Cardinality(S) <= 1
<1>1. CASE S = {}
  <2>1. Cardinality(S) = 0
    BY <1>1, FS_EmptySet
  <2>2. QED
    BY <2>1
<1>2. CASE S # {}
  <2>1. PICK x : S = {x}
    BY <1>2 DEF AtMostOne
  <2>2. Cardinality(S) = 1
    BY <2>1, FS_Singleton
  <2>3. QED
    BY <2>2
<1>3. QED
  BY <1>1, <1>2

\* A second click cannot send a second booking of a desk or a second cancellation, and the
\* dialog stays while its cancellation is in flight (isBooking, isCancelling, pendingCancel).
THEOREM OneInFlight == Spec => []BusyWhileInFlight
<1>1. ASSUME Inv PROVE BusyWhileInFlight
  <2>1. ui.booking \in BOOLEAN /\ ui.cancelling \in BOOLEAN
    BY <1>1 DEF Inv, UiGood, Ui
  <2>2. \A op : AtMostOne(Mine(op)) => Cardinality(Mine(op)) <= 1
    BY OneAtMost
  <2>3. QED
    BY <1>1, <2>1, <2>2 DEF Inv, Busy, BusyWhileInFlight, Mine
<1>2. QED
  BY InvHolds, <1>1, PTL
----------------------------------------------------------------------------
(* What the pages offer.  A second layer on Inv: every slot of a room lies inside its      *)
(* office day.                                                                             *)

\* A room is booked between two minutes of a day.
Slot(b) ==
    b.res \in Rooms => \E f, t \in 0 .. (Day - 1) : b.from = Instant(b.date, f) /\ b.to = Instant(b.date, t)

Slots == /\ \A i \in DOMAIN server : Slot(server[i])
         /\ \A c \in calls : c.op = "book" => Slot(c)

LEMMA DayTyped == Day \in Nat /\ Day > 0 /\ Offset \in Nat
BY TimesAssumption

\* Days do not overlap.
LEMMA DaysApart == ASSUME NEW d \in Int, NEW e \in Int, d < e PROVE d * Day + Day <= e * Day
BY DayTyped

\* The office's clock reads the minute that the instant was made of.
LEMMA OfficeMinutes ==
  ASSUME NEW d \in Int, NEW m \in 0 .. (Day - 1)
  PROVE  officeMinutesOfInstant(Instant(d, m)) = m
<1>1. (d * Day + m) % Day = m
  BY DayTyped
<1>2. d * Day \in Int
  BY DayTyped
<1> DEFINE x == d * Day
<1> HIDE DEF x
<1>3. x \in Int => x + m - Offset + Offset = x + m
  BY DayTyped
<1>4. QED
  BY <1>1, <1>2, <1>3 DEF officeMinutesOfInstant, Instant, x

\* Slots inside days d and e meet only if the days are the same, and then when their minutes do.
LEMMA InstantsMeet ==
  ASSUME NEW d \in Int, NEW e \in Int, NEW s \in 0 .. Day, NEW t \in 0 .. Day,
         NEW f \in 0 .. Day, NEW g \in 0 .. Day
  PROVE  Instant(d, s) < Instant(e, g) /\ Instant(e, f) < Instant(d, t)
            <=> d = e /\ s < g /\ f < t
<1> DEFINE x == d * Day
           y == e * Day
<1>1. x \in Int /\ y \in Int
  BY DayTyped
<1>2. (d < e => x + Day <= y) /\ (e < d => y + Day <= x) /\ (d = e => x = y)
  BY DaysApart
<1> HIDE DEF x, y
<1>3. x + s - Offset < y + g - Offset /\ y + f - Offset < x + t - Offset
        <=> d = e /\ s < g /\ f < t
  BY <1>1, <1>2, DayTyped
<1>4. QED
  BY <1>3 DEF Instant, x, y
LEMMA QuietSlots == ASSUME Slots, server' = server, calls' \subseteq calls PROVE Slots'
BY DEF Slots

LEMMA SlotSame ==
  ASSUME NEW b, NEW c, b.res = c.res, b.date = c.date, b.from = c.from, b.to = c.to, Slot(c)
  PROVE  Slot(b)
BY DEF Slot

LEMMA SendSlots ==
  ASSUME Slots, NEW op, NEW res, NEW date, NEW from, NEW to, NEW id,
         Send(op, res, date, from, to, id),
         op = "book" => Slot([res |-> res, date |-> date, from |-> from, to |-> to])
  PROVE  Slots'
<1> DEFINE c == [n |-> sent + 1, op |-> op, res |-> res, date |-> date, from |-> from,
                 to |-> to, id |-> id, mount |-> mount, st |-> "sent"]
           slot == [res |-> res, date |-> date, from |-> from, to |-> to]
<1>1. calls' = calls \cup {c} /\ server' = server
  BY DEF Send
<1>2. /\ c.op = op /\ c.res = slot.res /\ c.date = slot.date /\ c.from = slot.from /\ c.to = slot.to
  OBVIOUS
<1> HIDE DEF c, slot
<1>3. c.op = "book" => Slot(c)
  BY <1>2, SlotSame DEF slot
<1>4. QED
  BY <1>1, <1>3 DEF Slots

\* A row added to the server, or cancelled.
LEMMA ServerSlots ==
  ASSUME Inv, Slots, NEW b \in BookingRecord, b.id = Len(server) + 1, Slot(b), server' = Append(server, b)
  PROVE  \A i \in DOMAIN server' : Slot(server'[i])
<1>1. /\ server \in Seq(BookingRecord) /\ Len(server) \in Nat /\ DOMAIN server = 1 .. Len(server)
  BY ServerTyped DEF Inv, ServerGood
<1>2. /\ server' \in Seq(BookingRecord) /\ Len(server') = Len(server) + 1
      /\ \A i \in 1 .. Len(server) : server'[i] = server[i]
      /\ server'[Len(server) + 1] = b
  BY <1>1, AppendProperties
<1>3. DOMAIN server' = 1 .. (Len(server) + 1)
  BY <1>2, LenProperties
<1>4. \A i \in DOMAIN server : Slot(server[i])
  BY DEF Slots
<1>5. ASSUME NEW i \in DOMAIN server' PROVE Slot(server'[i])
  <2>1. i = Len(server) + 1 \/ i \in 1 .. Len(server)
    BY <1>1, <1>3
  <2>2. QED
    BY <1>1, <1>2, <1>4, <2>1
<1>6. QED
  BY <1>5

LEMMA ElsewhereSlots ==
  ASSUME Inv, Slots, NEW res \in Resources, NEW date \in Dates, NEW from \in Int, NEW to \in Int,
         NEW me \in BOOLEAN, Elsewhere(res, date, from, to, me),
         Slot([res |-> res, date |-> date, from |-> Instant(date, from), to |-> Instant(date, to)])
  PROVE  Slots'
<1> DEFINE b == Booking(res, date, Instant(date, from), Instant(date, to), me)
           slot == [res |-> res, date |-> date, from |-> Instant(date, from), to |-> Instant(date, to)]
<1>1. Instant(date, from) \in Int /\ Instant(date, to) \in Int
  BY InstantTyped
<1>2. b \in BookingRecord /\ b.id = Len(server) + 1
  BY <1>1, BookingTyped DEF Inv
<1>3. b.res = slot.res /\ b.date = slot.date /\ b.from = slot.from /\ b.to = slot.to
  BY DEF Booking
<1>4. server' = Append(server, b) /\ calls' = calls
  BY DEF Elsewhere
<1>5. Slot(slot)
  OBVIOUS
<1> HIDE DEF b, slot
<1>6. \A i \in DOMAIN server' : Slot(server'[i])
  BY <1>2, <1>3, <1>4, <1>5, SlotSame, ServerSlots
<1>7. QED
  BY <1>4, <1>6 DEF Slots

LEMMA ServeCallSlots == ASSUME Inv, Slots, NEW c \in calls, ServeCall(c) PROVE Slots'
<1>1. c \in Call /\ CallGood(c, server)
  BY DEF Inv, CallsGood
<1>2. c.op = "book" => Slot(c)
  BY DEF Slots
<1>3. PICK d : /\ calls' = (calls \ {c}) \cup {d} /\ d.op = c.op /\ d.res = c.res /\ d.date = c.date
               /\ d.from = c.from /\ d.to = c.to
  <2> DEFINE done == [c EXCEPT !.st = "done", !.id = IF c.op = "book" THEN Len(server) + 1 ELSE c.id]
             refused == [c EXCEPT !.st = "refused"]
  <2>1. /\ done.op = c.op /\ done.res = c.res /\ done.date = c.date /\ done.from = c.from /\ done.to = c.to
        /\ refused.op = c.op /\ refused.res = c.res /\ refused.date = c.date
        /\ refused.from = c.from /\ refused.to = c.to
    BY <1>1 DEF Call
  <2>2. calls' = (calls \ {c}) \cup {done} \/ calls' = (calls \ {c}) \cup {refused}
    BY DEF ServeCall
  <2> HIDE DEF done, refused
  <2>3. QED
    BY <2>1, <2>2
<1>4. d.op = "book" => Slot(d)
  BY <1>2, <1>3, SlotSame
<1>5. \A e \in calls' : e.op = "book" => Slot(e)
  BY <1>3, <1>4 DEF Slots
<1>6. \A i \in DOMAIN server' : Slot(server'[i])
  <2>1. CASE server' = server
    BY <2>1 DEF Slots
  <2>2. CASE c.op = "book" /\ server' = Append(server, Booking(c.res, c.date, c.from, c.to, TRUE))
    <3> DEFINE b == Booking(c.res, c.date, c.from, c.to, TRUE)
    <3>1. /\ c.res \in Resources /\ c.date \in Dates /\ c.from \in Int /\ c.to \in Int /\ TRUE \in BOOLEAN
          /\ ServerGood
      BY <1>1 DEF Call, Inv
    <3>2. b \in BookingRecord /\ b.id = Len(server) + 1
      BY <3>1, BookingTyped
    <3>3. b.res = c.res /\ b.date = c.date /\ b.from = c.from /\ b.to = c.to
      BY DEF Booking
    <3>4. server' = Append(server, b)
      BY <2>2
    <3> HIDE DEF b
    <3>5. QED
      BY <1>2, <2>2, <3>2, <3>3, <3>4, SlotSame, ServerSlots
  <2>3. CASE c.op # "book" /\ server' = [server EXCEPT ![c.id].active = FALSE]
    <3> DEFINE r == server[c.id]
               q == [r EXCEPT !.active = FALSE]
    <3>1. c.id \in DOMAIN server
      BY <1>1, <2>3 DEF CallGood, Call
    <3>2. r \in BookingRecord /\ Slot(r)
      BY <3>1, ServerTyped DEF Inv, Slots
    <3>3. server' = [server EXCEPT ![c.id] = q]
      BY <2>3
    <3> HIDE DEF r
    <3>4. q.res = r.res /\ q.date = r.date /\ q.from = r.from /\ q.to = r.to
      BY <3>2 DEF BookingRecord
    <3> HIDE DEF q
    <3>5. Slot(q)
      BY <3>2, <3>4, SlotSame
    <3>6. DOMAIN server' = DOMAIN server
          /\ \A i \in DOMAIN server : server'[i] = IF i = c.id THEN q ELSE server[i]
      BY <3>3
    <3>7. QED
      BY <3>5, <3>6 DEF Slots
  <2>4. QED
    BY <2>1, <2>2, <2>3 DEF ServeCall
<1>7. QED
  BY <1>5, <1>6 DEF Slots
LEMMA BookRoomSlots ==
  ASSUME Inv, Slots, NEW r \in Rooms, NEW s \in startTimeOptions, NEW d, BookRoom(r, s, d)
  PROVE  Slots'
<1> DEFINE len == effectiveDuration(s, d)
           end == s + len
           slot == [res |-> r, date |-> place.date, from |-> Instant(place.date, s),
                    to |-> Instant(place.date, end)]
<1>1. s \in 0 .. (Day - 1) /\ end \in 0 .. (Day - 1)
  <2>1. len \in durationOptionsFor(s)
    BY DurationTyped
  <2> HIDE DEF len
  <2>2. len \in Nat /\ s + len <= DayEnd
    BY <2>1, TimesAssumption DEF durationOptionsFor
  <2>3. QED
    BY <2>2, TimesAssumption DEF startTimeOptions
<1>2. Send("book", r, place.date, Instant(place.date, s), Instant(place.date, end), 0)
  BY DEF BookRoom
<1> HIDE DEF end
<1>3. Slot(slot)
  BY <1>1, ThingsAssumption DEF Slot
<1>4. QED
  BY <1>2, <1>3, SendSlots

LEMMA NextSlots == ASSUME Inv, Slots, [Next]_vars PROVE Slots'
<1>1. ASSUME UNCHANGED <<server, calls>> PROVE Slots'
  BY <1>1, QuietSlots
<1>2. CASE \E a \in Arrivals : Navigate(a)
  BY <1>1, <1>2 DEF Navigate
<1>3. CASE (\E ok \in BOOLEAN : OfficesAnswer(ok) \/ FloorsAnswer(ok) \/ ItemsAnswer(ok)) \/ LayoutAnswer
  BY <1>1, <1>3 DEF OfficesAnswer, FloorsAnswer, ItemsAnswer, LayoutAnswer
<1>4. CASE ChooseOffice(Office) \/ ChooseFloor \/ \E d \in Dates : ChooseDate(d)
  BY <1>1, <1>4 DEF ChooseOffice, ChooseFloor, ChooseDate
<1>5. CASE \E n \in DOMAIN list : ServeList(n) \/ Arrive(n) \/ Fail(n)
  BY <1>1, <1>5 DEF ServeList, Arrive, Fail
<1>6. ASSUME NEW d \in FloorDesks, SelectDesk(d) PROVE Slots'
  BY <1>1, <1>6 DEF SelectDesk
<1>7. ASSUME NEW d \in FloorDesks, BookDesk(d) PROVE Slots'
  <2>1. Send("book", d, place.date, Instant(place.date, 0), Instant(place.date, Day), 0)
    BY <1>7 DEF BookDesk
  <2>2. Slot([res |-> d, date |-> place.date, from |-> Instant(place.date, 0),
              to |-> Instant(place.date, Day)])
    BY ThingsAssumption DEF Slot, FloorDesks
  <2>3. QED
    BY <2>1, <2>2, SendSlots
<1>8. CASE \E r \in Rooms, s \in startTimeOptions, d \in 1 .. MaxDuration : BookRoom(r, s, d)
  BY <1>8, BookRoomSlots
<1>9. CASE \E b \in UNION {list[n].shown : n \in DOMAIN list} : CancelClicked(b)
  BY <1>1, <1>9 DEF CancelClicked
<1>10. ASSUME DismissCancel PROVE Slots'
  BY <1>1, <1>10 DEF DismissCancel
<1>11. ASSUME confirmCancel PROVE Slots'
  <2> DEFINE b == ui.dialog
  <2>1. Send("cancel", b.res, b.date, b.from, b.to, b.id)
    BY <1>11 DEF confirmCancel
  <2>2. "cancel" # "book"
    OBVIOUS
  <2> HIDE DEF b
  <2>3. QED
    BY <2>1, <2>2, SendSlots
<1>12. CASE \E c \in calls : ServeCall(c)
  BY <1>12, ServeCallSlots
<1>13. CASE \E c \in calls, ok \in BOOLEAN : Answer(c, ok)
  <2>1. server' = server /\ calls' \subseteq calls
    BY <1>13 DEF Answer
  <2>2. QED
    BY <2>1, QuietSlots
<1>14. CASE \E t \in timers : Timeout(t)
  BY <1>1, <1>14 DEF Timeout
<1>15. ASSUME NEW d \in Desks, NEW date \in Dates, NEW me \in BOOLEAN, Elsewhere(d, date, 0, Day, me)
       PROVE  Slots'
  <2>1. d \in Resources /\ 0 \in Int /\ Day \in Int
    BY DayTyped DEF Resources
  <2>2. Slot([res |-> d, date |-> date, from |-> Instant(date, 0), to |-> Instant(date, Day)])
    BY ThingsAssumption DEF Slot
  <2>3. QED
    BY <1>15, <2>1, <2>2, ElsewhereSlots
<1>16. ASSUME NEW r \in Rooms, NEW date \in Dates, NEW t \in OtherTimes, NEW me \in BOOLEAN,
              Elsewhere(r, date, t[1], t[2], me)
       PROVE  Slots'
  <2> DEFINE f == t[1]
             g == t[2]
  <2>1. f \in 0 .. (Day - 1) /\ g \in 0 .. (Day - 1)
    BY TimesAssumption
  <2>2. r \in Resources /\ f \in Int /\ g \in Int
    BY <2>1 DEF Resources
  <2>3. Elsewhere(r, date, f, g, me)
    BY <1>16
  <2> HIDE DEF f, g
  <2>4. Slot([res |-> r, date |-> date, from |-> Instant(date, f), to |-> Instant(date, g)])
    BY <2>1, ThingsAssumption DEF Slot
  <2>5. QED
    BY <2>2, <2>3, <2>4, ElsewhereSlots
<1>17. CASE SetStatus \/ Tick \/ UNCHANGED vars
  BY <1>1, <1>17 DEF SetStatus, Tick, vars
<1>18. QED
  BY <1>2, <1>3, <1>4, <1>5, <1>6, <1>7, <1>8, <1>9, <1>10, <1>11, <1>12, <1>13, <1>14, <1>15,
     <1>16, <1>17 DEF Next

LEMMA InitSlots == ASSUME Init PROVE Slots
BY DEF Init, Slots

\* The list of a day, as the page has it when it is up to date.
DayOf(kind, date) == {b \in Bookings : b.res \in kind /\ b.date = date /\ b.active}

\* The server's rows, with what both layers say of them.
LEMMA Row ==
  ASSUME Inv, Slots, NEW b \in Bookings
  PROVE  b.date \in Int /\ b.mine \in BOOLEAN /\ Slot(b)
<1>1. b \in BookingRecord /\ Slot(b)
  BY ServerTyped DEF Inv, Slots, Bookings
<1>2. QED
  BY <1>1, DatesAssumption DEF BookingRecord

LEMMA DeskOffer ==
  ASSUME NEW d \in FloorDesks, NEW date, NEW from, NEW to
  PROVE  Agree(validateBookingDate(date) /\ canBookDesk(d, DayOf(FloorDesks, date)), d, date, from, to)
<1> DEFINE bs == DayOf(FloorDesks, date)
           own(b) == b.active /\ b.mine /\ b.date = date
<1>1. d \in Desks /\ d \notin OtherFloor /\ d \notin Rooms
  BY ThingsAssumption DEF FloorDesks
<1>2. \A b : b \in bs <=> b \in Bookings /\ b.res \in Desks \ OtherFloor /\ b.date = date /\ b.active
  BY DEF DayOf, FloorDesks
<1>3. canBookDesk(d, bs) <=> d \notin OutOfService /\ \A b \in bs : b.res # d /\ ~b.mine
  <2>1. \A b \in bs : b.active
    BY <1>2
  <2> HIDE DEF bs
  <2>2. BookingOf(d, bs) = {b \in bs : b.res = d}
    BY <2>1 DEF BookingOf
  <2>3. DeskStatus(d, bs) = "available" <=> d \notin OutOfService /\ BookingOf(d, bs) = {}
    BY DEF DeskStatus
  <2>4. getMyBookingForDate(bs) = {} <=> \A b \in bs : ~b.mine
    BY <2>1 DEF getMyBookingForDate
  <2>5. QED
    BY <2>2, <2>3, <2>4 DEF canBookDesk
<1>4. Accepts(d, date, from, to, TRUE) <=>
        /\ published /\ validate_booking_date(date) /\ d \notin OutOfService
        /\ \A b \in Bookings : b.active /\ b.res = d => b.date # date
        /\ \A b \in Bookings : own(b) => b.res \notin Desks
  BY <1>1 DEF Accepts
<1>5. Unseen(d, date, from) <=>
        \/ ~published \/ ~validate_booking_date(date)
        \/ \E b \in Bookings : own(b) /\ b.res \in OtherFloor
  BY <1>1 DEF Unseen
<1> HIDE DEF bs
<1>6. canBookDesk(d, bs) /\ ~Unseen(d, date, from) => Accepts(d, date, from, to, TRUE)
  BY <1>1, <1>2, <1>3, <1>4, <1>5
<1>7. Accepts(d, date, from, to, TRUE) => canBookDesk(d, bs)
  BY <1>1, <1>2, <1>3, <1>4
<1>8. Agree(validateBookingDate(date) /\ canBookDesk(d, bs), d, date, from, to)
  BY <1>6, <1>7 DEF Agree
<1>9. QED
  BY <1>8 DEF bs

LEMMA RoomOffer ==
  ASSUME Inv, Slots, now \in Int, NEW r \in Rooms, NEW date \in Dates,
         NEW s \in 0 .. (Day - 1), NEW t \in 0 .. (Day - 1)
  PROVE  /\ canBookSlot(r, DayOf(Rooms, date), s, t)
              <=> roomSlotStatus(r, DayOf(Rooms, date), s, t) = "available"
         /\ Agree(validateBookingDate(date) /\ canBookSlot(r, DayOf(Rooms, date), s, t),
                  r, date, Instant(date, s), Instant(date, t))
<1> DEFINE bs == DayOf(Rooms, date)
           from == Instant(date, s)
           to == Instant(date, t)
           clash(b) == s < officeMinutesOfInstant(b.to) /\ t > officeMinutesOfInstant(b.from)
<1>1. r \notin Desks /\ r \notin OtherFloor
  BY ThingsAssumption
<1>2. ASSUME NEW b \in Bookings, b.res = r
      PROVE  b.from < to /\ b.to > from <=> b.date = date /\ clash(b)
  <2> DEFINE e == b.date
  <2>1. e \in Int /\ date \in Int /\ Slot(b)
    BY Row, DatesAssumption
  <2>2. PICK f \in 0 .. (Day - 1), g \in 0 .. (Day - 1) : b.from = Instant(e, f) /\ b.to = Instant(e, g)
    BY <1>2, <2>1 DEF Slot
  <2>3. officeMinutesOfInstant(b.from) = f /\ officeMinutesOfInstant(b.to) = g
    BY <2>1, <2>2, OfficeMinutes
  <2>4. s \in 0 .. Day /\ t \in 0 .. Day /\ f \in 0 .. Day /\ g \in 0 .. Day
    BY DayTyped
  <2>5. clash(b) <=> s < g /\ f < t
    BY <2>3, <2>4
  <2> HIDE DEF e, clash
  <2>6. Instant(date, s) < Instant(e, g) /\ Instant(e, f) < Instant(date, t) <=> date = e /\ s < g /\ f < t
    BY <2>1, <2>4, InstantsMeet
  <2>7. b.to > from <=> from < b.to
    <3>1. Instant(e, g) \in Int /\ Instant(date, s) \in Int
      BY <2>1, <2>4, TimesAssumption DEF Instant
    <3>2. QED
      BY <2>2, <3>1
  <2> HIDE DEF from, to
  <2>8. b.from < to /\ b.to > from <=> date = e /\ s < g /\ f < t
    BY <2>2, <2>6, <2>7 DEF from, to
  <2>9. QED
    BY <2>5, <2>8 DEF e
<1> HIDE DEF from, to
<1>3. /\ \A b : b \in bs <=> b \in Bookings /\ b.res \in Rooms /\ b.date = date /\ b.active
      /\ \A b \in bs : b.mine \in BOOLEAN
  BY Row DEF DayOf
<1> DEFINE meets(b) == b.from < to /\ b.to > from
<1>4. Accepts(r, date, from, to, TRUE) <=>
        /\ published /\ validate_booking_date(date) /\ r \notin OutOfService /\ from >= now
        /\ \A b \in Bookings : b.active /\ b.res = r => ~meets(b)
  BY <1>1 DEF Accepts
<1>5. Unseen(r, date, from) <=> ~published \/ ~validate_booking_date(date) \/ from < now
  BY <1>1 DEF Unseen
<1>6. from \in Int /\ now \in Int => (from >= now <=> ~(from < now))
  OBVIOUS
<1> HIDE DEF bs
<1>7. canBookSlot(r, bs, s, t) <=> r \notin OutOfService /\ \A b \in bs : b.res = r => ~clash(b)
  BY <1>3 DEF canBookSlot, slotConflicts, BookingOf
<1>8. roomSlotStatus(r, bs, s, t) = "available"
        <=> r \notin OutOfService /\ \A b \in bs : b.res = r => ~clash(b)
  <2> DEFINE own(m) == {b \in BookingOf(r, bs) : b.mine = m}
  <2>1. \A m \in BOOLEAN : slotConflicts(own(m), s, t) <=> \E b \in bs : b.res = r /\ b.mine = m /\ clash(b)
    BY <1>3 DEF slotConflicts, BookingOf
  <2>2. roomSlotStatus(r, bs, s, t) = "available"
          <=> r \notin OutOfService /\ ~slotConflicts(own(TRUE), s, t) /\ ~slotConflicts(own(FALSE), s, t)
    BY DEF roomSlotStatus
  <2> HIDE DEF own, clash
  <2>3. QED
    BY <1>3, <2>1, <2>2
<1>9. from \in Int
  BY InstantTyped DEF from
<1> HIDE DEF clash, meets
<1>10. (\A b \in Bookings : b.active /\ b.res = r => ~meets(b)) <=> \A b \in bs : b.res = r => ~clash(b)
  <2>1. \A b \in Bookings : b.res = r => (meets(b) <=> b.date = date /\ clash(b))
    BY <1>2 DEF meets
  <2>2. QED
    BY <1>3, <2>1
<1>11. canBookSlot(r, bs, s, t) /\ ~Unseen(r, date, from) => Accepts(r, date, from, to, TRUE)
  BY <1>4, <1>5, <1>6, <1>7, <1>9, <1>10
<1>12. Accepts(r, date, from, to, TRUE) => canBookSlot(r, bs, s, t)
  BY <1>4, <1>7, <1>10
<1>13. Agree(validateBookingDate(date) /\ canBookSlot(r, bs, s, t), r, date, from, to)
  BY <1>11, <1>12 DEF Agree
<1>14. QED
  BY <1>7, <1>8, <1>13 DEF bs, from, to

\* The two layers together, and the clock.
LEMMA OffersHold == Spec => [](Inv /\ WorldGood /\ Slots)
<1>1. Inv /\ WorldGood /\ Slots /\ [Next]_vars => (Inv /\ WorldGood /\ Slots)'
  BY NextInv, NextWorld, NextSlots
<1>2. Init => Inv /\ WorldGood /\ Slots
  BY InitInv, InitWorld, InitSlots
<1>3. QED
  BY <1>1, <1>2, PTL DEF Spec

\* On a list that is up to date, what a page offers the server refuses only for one of the
\* four reasons no page checks, and what the server takes on a day that may be picked is
\* offered (canBookDesk of bookingAvailability.ts, slotConflicts of roomTimeline.ts and
\* validateBookingDate against the server's rules, for any zones, clocks and bookings).
THEOREM OffersMatch == Spec => []OffersMatchServer
<1>1. ASSUME Inv, WorldGood, Slots PROVE OffersMatchServer
  <2> SUFFICES ASSUME NEW n \in DOMAIN list \ MyLists, list[n].of # Nothing,
                      list[n].shown = Content(list[n].of)
      PROVE  /\ n = "deskBookings" => \A d \in FloorDesks :
                    Agree(validateBookingDate(list[n].of[3]) /\ canBookDesk(d, list[n].shown),
                          d, list[n].of[3], Instant(list[n].of[3], 0), Instant(list[n].of[3], Day))
             /\ n = "roomBookings" => \A r \in Rooms, s \in startTimeOptions :
                    \A len \in durationOptionsFor(s) :
                        /\ canBookSlot(r, list[n].shown, s, s + len)
                             = (roomSlotStatus(r, list[n].shown, s, s + len) = "available")
                        /\ Agree(validateBookingDate(list[n].of[3])
                                    /\ canBookSlot(r, list[n].shown, s, s + len),
                                 r, list[n].of[3], Instant(list[n].of[3], s),
                                 Instant(list[n].of[3], s + len))
    BY DEF OffersMatchServer
  <2> DEFINE k == list[n].of
             date == k[3]
             bs == list[n].shown
             open == validateBookingDate(date)
  <2>1. PICK e \in Dates : k = <<n, Floor, e>> /\ n \in Lists \ MyLists
    <3>1. n \in Lists /\ ListGood(n, list[n], server, Firm)
      BY <1>1, PageLists DEF Inv, PageGood, ListsGood
    <3>2. k \in KeysFor(n)
      BY <3>1 DEF ListGood
    <3>3. QED
      BY <3>1, <3>2 DEF KeysFor
  <2>2. date \in Dates /\ Len(k) = 3 /\ k[1] = n
    BY <2>1
  <2>3. bs = Content(k)
    OBVIOUS
  <2> HIDE DEF k
  <2>4. bs = DayOf(Listed(n), date)
    BY <2>2, <2>3 DEF Content, DayOf
  <2> HIDE DEF bs, date
  <2>5. ASSUME n = "deskBookings", NEW d \in FloorDesks
        PROVE  Agree(open /\ canBookDesk(d, bs), d, date, Instant(date, 0), Instant(date, Day))
    <3>1. bs = DayOf(FloorDesks, date)
      BY <2>4, <2>5, ListedLists
    <3>2. QED
      BY <3>1, DeskOffer
  <2>6. ASSUME n = "roomBookings", NEW r \in Rooms, NEW s \in startTimeOptions,
               NEW len \in durationOptionsFor(s)
        PROVE  /\ canBookSlot(r, bs, s, s + len) = (roomSlotStatus(r, bs, s, s + len) = "available")
               /\ Agree(open /\ canBookSlot(r, bs, s, s + len), r, date, Instant(date, s),
                        Instant(date, s + len))
    <3> DEFINE t == s + len
    <3>1. s \in 0 .. (Day - 1) /\ t \in 0 .. (Day - 1)
      BY TimesAssumption DEF startTimeOptions, durationOptionsFor
    <3>2. bs = DayOf(Rooms, date)
      BY <2>4, <2>6, ListedLists
    <3> HIDE DEF t
    <3>3. /\ canBookSlot(r, bs, s, t) <=> roomSlotStatus(r, bs, s, t) = "available"
          /\ Agree(open /\ canBookSlot(r, bs, s, t), r, date, Instant(date, s), Instant(date, t))
      BY <1>1, <2>2, <3>1, <3>2, RoomOffer, DatesAssumption DEF WorldGood
    <3>4. canBookSlot(r, bs, s, t) \in BOOLEAN
      BY DEF canBookSlot
    <3>5. canBookSlot(r, bs, s, t) = (roomSlotStatus(r, bs, s, t) = "available")
      BY <3>3, <3>4, Zenon
    <3>6. QED
      BY <3>3, <3>5 DEF t
  <2>7. QED
    BY <2>5, <2>6, Zenon DEF bs, date, k
<1>2. QED
  BY OffersHold, <1>1, PTL
===============================================================================
