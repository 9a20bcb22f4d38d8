---------------------------- MODULE ClientCache ----------------------------
(***************************************************************************)
(* The front end's request cache (lib/api/requestCache.ts), the hooks that *)
(* read lists of the server through it, and the API functions that write   *)
(* to the server and drop cached lists afterwards.                         *)
(*                                                                         *)
(* A list's content is its version: ver[k] counts the changes of the list  *)
(* with key k on the server.  A key is a sequence, "desks:5:7" being       *)
(* <<"desks", 5, 7>>, so that "k starts with t + ':'" is "t is a prefix".  *)
(* A view is a mounted component with one list hook.                       *)
(***************************************************************************)
EXTENDS Naturals, FiniteSets, SequencesExt

CONSTANTS
    Pages,      \* what may be mounted together: functions from views to names of hooks
    Orgs, Offices, Floors, Dates, Filters,  \* what the hooks' keys are made of
    Writes,     \* the writes this client may do: a function from their names
    MaxWrites,  \* bound: own writes
    MaxOthers,  \* bound: changes made by other clients
    MaxActs,    \* bound: what the user does to views
    Absent,     \* the scope of a hook whose ids are not selected (0, "" or null)
    Nothing     \* undefined, null

ASSUME BoundsAssumption == MaxWrites \in Nat /\ MaxOthers \in Nat

VARIABLES
    mounted, \* the name in Hooks of each view's hook (never changes)
    view,    \* the state of each view
    store,   \* requestCache's Map: the fresh entries
    ver,     \* the server's lists
    write,   \* the own write in flight
    done,    \* own writes that have ended
    own,     \* history: for each list, the last own write to it that ended, see LeftCached
    others,  \* changes made by other clients
    acts     \* what the user has done to views

vars == <<mounted, view, store, ver, write, done, own, others, acts>>

----------------------------------------------------------------------------
(* The list hooks.  list names the cache namespace, scopes the ids in the  *)
(* key; cached: reads and fills the cache; absent: what the effect does    *)
(* with no ids ("skip": returns, "empty": shows an empty list, "ask": no   *)
(* such test); onFail: whether a failure keeps or empties what was shown.  *)

Hook(list, scopes, cached, absent) ==
    [list |-> list, scopes |-> scopes, cached |-> cached, absent |-> absent, onFail |-> "keep"]

FloorScopes == {<<f>> : f \in Floors}
DayScopes   == {<<f, d>> : f \in Floors, d \in Dates}
OrgScopes    == {<<o>> : o \in Orgs}
OfficeScopes == {<<o>> : o \in Offices}
FilterScopes == {<<q>> : q \in Filters}

useDesks          == Hook("desks", FloorScopes, TRUE, "skip")
useLayoutObjects  == Hook("layoutObjects", FloorScopes, TRUE, "skip")
useMeetingRooms   == Hook("rooms", FloorScopes, TRUE, "empty")
useDeskBookings   == Hook("deskBookings", DayScopes, TRUE, "empty")
useRoomBookings   == Hook("roomBookings", DayScopes, TRUE, "empty")
useMyBookings     == Hook("myBookings", FilterScopes, TRUE, "ask")
useMyRoomBookings == Hook("myRoomBookings", FilterScopes, TRUE, "ask")
useOffices        == Hook("offices", OrgScopes, TRUE, "ask")
useFloors         == Hook("floors", OfficeScopes, TRUE, "ask")
useWorkspaceSummary == Hook("summary", OrgScopes, TRUE, "empty")
useDashboardData  == Hook("floors", OfficeScopes, FALSE, "empty")
useTeamMembers    == Hook("members", OrgScopes, FALSE, "empty")
useInvitations    == Hook("invitations", OrgScopes, FALSE, "empty")
usePendingInvitations ==
    [Hook("pending", FilterScopes, FALSE, "empty") EXCEPT !.onFail = "empty"]

Hooks == [desks |-> useDesks, layoutObjects |-> useLayoutObjects, rooms |-> useMeetingRooms,
          deskBookings |-> useDeskBookings, roomBookings |-> useRoomBookings,
          myBookings |-> useMyBookings, myRoomBookings |-> useMyRoomBookings,
          offices |-> useOffices, floors |-> useFloors, summary |-> useWorkspaceSummary,
          dashboard |-> useDashboardData, members |-> useTeamMembers,
          invitations |-> useInvitations, pending |-> usePendingInvitations]

AllViews  == UNION {DOMAIN p : p \in Pages}
Views     == DOMAIN mounted
hook(v)   == Hooks[mounted[v]]
KeysOf(h) == {<<h.list>> \o s : s \in h.scopes}
KeysOn(p) == UNION {KeysOf(Hooks[p[v]]) : v \in DOMAIN p}
Keys      == KeysOn(mounted)

ASSUME PagesAssumption == \A p \in Pages : p \in [DOMAIN p -> DOMAIN Hooks]

\* null is no key, no answer of the server and no write.
ASSUME AbsentAssumption ==
    \A p \in Pages :
        /\ Absent \notin KeysOn(p)
        /\ Nothing \notin [KeysOn(p) -> Nat]
        /\ Nothing \notin [op : DOMAIN Writes, made : [KeysOn(p) -> Nat] \cup {Nothing}]

----------------------------------------------------------------------------
(* The writes.  changes: the lists the server changes; drops: what the API *)
(* function passes to invalidateCache when the answer is there.  Both are  *)
(* sets of key prefixes.                                                   *)

Write(changes, drops) == [changes |-> changes, drops |-> drops]

invalidateBookingCaches     == {<<"deskBookings">>, <<"myBookings">>}
invalidateRoomBookingCaches == {<<"roomBookings">>, <<"myRoomBookings">>}
invalidateDeskCaches(f)     == {<<"desks", f>>, <<"summary">>}
invalidateOrgScopedCaches   == {<<"offices">>, <<"summary">>, <<"floors">>, <<"desks">>,
                                <<"deskBookings">>, <<"myBookings">>}

createDeskBooking(f) ==
    Write({<<"deskBookings", f>>, <<"myBookings">>}, invalidateBookingCaches)
cancelDeskBooking(f) ==
    Write({<<"deskBookings", f>>, <<"myBookings">>}, invalidateBookingCaches)
cancelMyBooking(f) ==
    Write({<<"deskBookings", f>>, <<"myBookings">>}, invalidateBookingCaches)
createRoomBooking(f) ==
    Write({<<"roomBookings", f>>, <<"myRoomBookings">>}, invalidateRoomBookingCaches)
cancelRoomBooking(f) ==
    Write({<<"roomBookings", f>>, <<"myRoomBookings">>}, invalidateRoomBookingCaches)
createDesk(f) ==
    Write({<<"desks", f>>, <<"summary">>}, invalidateDeskCaches(f))
updateDesk(f) ==   \* its bookings carry its name
    Write({<<"desks", f>>, <<"deskBookings", f>>, <<"myBookings">>},
          invalidateDeskCaches(f) \cup invalidateBookingCaches)
\* Mutated: deleteDesk forgets the bookings it cancelled.
deleteDeskOnly(f) ==
    Write({<<"desks", f>>, <<"summary">>, <<"deskBookings", f>>, <<"myBookings">>},
          invalidateDeskCaches(f))

deleteDesk(f) ==
    Write({<<"desks", f>>, <<"summary">>, <<"deskBookings", f>>, <<"myBookings">>},
          invalidateDeskCaches(f) \cup invalidateBookingCaches)
createOffice(o) ==
    Write({<<"offices", o>>, <<"summary">>}, {<<"offices">>, <<"summary">>})
createFloor(o) ==
    Write({<<"floors", o>>, <<"summary">>}, {<<"floors", o>>, <<"summary">>})
updateFloor(o) ==
    Write({<<"floors", o>>}, {<<"floors", o>>})
setFloorStatus(o) ==
    Write({<<"floors", o>>}, updateFloor(o).drops \cup {<<"summary">>})
\* The desk and room lists carry the object's label.
updateLayoutObject(f) ==
    Write({<<"layoutObjects", f>>, <<"desks", f>>, <<"rooms", f>>}, {<<"layoutObjects", f>>})
applyEnhancePlan(f) ==
    Write({<<"layoutObjects", f>>}, {<<"layoutObjects", f>>})
undoEnhanceRun(f) ==
    Write({<<"layoutObjects", f>>}, {<<"layoutObjects", f>>})
retryEnhanceRun(f) ==
    Write({<<"layoutObjects", f>>}, {<<"layoutObjects", f>>})
\* The server provisions a desk for a desk-capable object and retires it with it.
createLayoutObject(f) ==
    Write({<<"layoutObjects", f>>, <<"summary">>, <<"desks", f>>},
          {<<"layoutObjects", f>>, <<"summary">>})
deleteLayoutObject(f) ==
    Write({<<"layoutObjects", f>>, <<"summary">>, <<"desks", f>>, <<"deskBookings", f>>,
           <<"myBookings">>},
          {<<"layoutObjects", f>>, <<"summary">>})
\* Who was a member before gets the bookings of that organisation back.
acceptInvitation ==
    Write({<<"offices">>, <<"summary">>, <<"members">>, <<"invitations">>, <<"pending">>,
           <<"myBookings">>, <<"myRoomBookings">>},
          invalidateOrgScopedCaches)
\* The summary counts the pending invitations.
createInvitation(o) ==
    Write({<<"invitations", o>>, <<"summary">>}, {})
cancelInvitation(o) ==
    Write({<<"invitations", o>>, <<"summary">>}, {})
resendInvitation(o) ==   \* another token and date
    Write({<<"invitations", o>>}, {})
\* Bookings and members carry the user's name and picture.
updateProfile ==
    Write({<<"deskBookings">>, <<"roomBookings">>, <<"myBookings">>, <<"myRoomBookings">>,
           <<"members">>}, {})
uploadAvatar == updateProfile
removeAvatar == updateProfile

\* The lists that a function leaves cached though its write changes them, in spite of
\* "Mutations invalidate affected keys" (requestCache.ts:16).
LeftCached ==
    {<<"createLayoutObject", "desks">>,
     <<"updateLayoutObject", "desks">>, <<"updateLayoutObject", "rooms">>,
     <<"deleteLayoutObject", "desks">>, <<"deleteLayoutObject", "deskBookings">>,
     <<"deleteLayoutObject", "myBookings">>,
     <<"createInvitation", "summary">>, <<"cancelInvitation", "summary">>,
     <<"acceptInvitation", "myRoomBookings">>}
    \cup {"updateProfile", "uploadAvatar", "removeAvatar"}
           \X {"deskBookings", "roomBookings", "myBookings", "myRoomBookings"}

\* The API functions that change lists, by name, with the ids they may be called with.
\* (createOrganization changes no list that was there before.)
ApiWrites ==
    [createDeskBooking |-> {createDeskBooking(f) : f \in Floors},
     cancelDeskBooking |-> {cancelDeskBooking(f) : f \in Floors},
     cancelMyBooking |-> {cancelMyBooking(f) : f \in Floors},
     createRoomBooking |-> {createRoomBooking(f) : f \in Floors},
     cancelRoomBooking |-> {cancelRoomBooking(f) : f \in Floors},
     createDesk |-> {createDesk(f) : f \in Floors},
     updateDesk |-> {updateDesk(f) : f \in Floors},
     deleteDesk |-> {deleteDesk(f) : f \in Floors},
     createOffice |-> {createOffice(o) : o \in Orgs},
     createFloor |-> {createFloor(o) : o \in Offices},
     updateFloor |-> {updateFloor(o) : o \in Offices},
     setFloorStatus |-> {setFloorStatus(o) : o \in Offices},
     updateLayoutObject |-> {updateLayoutObject(f) : f \in Floors},
     applyEnhancePlan |-> {applyEnhancePlan(f) : f \in Floors},
     undoEnhanceRun |-> {undoEnhanceRun(f) : f \in Floors},
     retryEnhanceRun |-> {retryEnhanceRun(f) : f \in Floors},
     createLayoutObject |-> {createLayoutObject(f) : f \in Floors},
     deleteLayoutObject |-> {deleteLayoutObject(f) : f \in Floors},
     acceptInvitation |-> {acceptInvitation},
     createInvitation |-> {createInvitation(o) : o \in Orgs},
     cancelInvitation |-> {cancelInvitation(o) : o \in Orgs},
     resendInvitation |-> {resendInvitation(o) : o \in Orgs},
     updateProfile |-> {updateProfile},
     uploadAvatar |-> {uploadAvatar},
     removeAvatar |-> {removeAvatar}]

ASSUME WritesAssumption ==
    \A w \in DOMAIN Writes : w \in DOMAIN ApiWrites /\ Writes[w] \in ApiWrites[w]

Covered(prefixes) == {k \in Keys : \E t \in prefixes : IsPrefix(t, k)}

\* invalidateCache for every target: an exact match or a longer key goes.
invalidateCache(targets) == [k \in Keys |-> IF k \in Covered(targets) THEN Nothing ELSE store[k]]

----------------------------------------------------------------------------
(* A list hook's state.                                                    *)

Fresh(s) ==      \* a component that has just been mounted with scope s
    [scope |-> s, due |-> TRUE, force |-> FALSE, shown |-> Nothing, loading |-> TRUE,
     failed |-> FALSE, fetch |-> Nothing, asked |-> 0]

ScopesOf(v) == hook(v).scopes \cup {Absent}
KeyOf(v)    == IF view[v].scope = Absent THEN Absent ELSE <<hook(v).list>> \o view[v].scope

Init ==
    /\ mounted \in Pages
    /\ \E scope \in [Views -> UNION {ScopesOf(v) : v \in Views}] :
          /\ \A v \in Views : scope[v] \in ScopesOf(v)
          /\ view = [v \in Views |-> Fresh(scope[v])]
    /\ store = [k \in Keys |-> Nothing]
    /\ ver = [k \in Keys |-> 0]
    /\ write = Nothing
    /\ done = 0
    /\ own = [k \in Keys |-> [ver |-> 0, at |-> 0]]
    /\ others = 0
    /\ acts = 0

server == <<ver, write, done, own, others>>

----------------------------------------------------------------------------
(* What the user does.                                                     *)

Act == acts < MaxActs /\ acts' = acts + 1

\* The component renders with other ids; the effect that follows is due.
ChangeScope(v, s) ==
    /\ Act
    /\ s # view[v].scope
    /\ view' = [view EXCEPT ![v].scope = s, ![v].due = TRUE, ![v].asked = 0]
    /\ UNCHANGED <<mounted, store, server>>

\* Mutated: refresh() that does not tell the effect to bypass the cache.
RefreshFromCache(v) ==
    /\ Act
    /\ view' = [view EXCEPT ![v].due = TRUE,
                            ![v].asked = IF KeyOf(v) = Absent THEN 0 ELSE ver[KeyOf(v)]]
    /\ UNCHANGED <<mounted, store, server>>

\* refresh(): the next effect must not read the cache.
Refresh(v) ==
    /\ Act
    /\ view' = [view EXCEPT ![v].due = TRUE, ![v].force = hook(v).cached,
                            ![v].asked = IF KeyOf(v) = Absent THEN 0 ELSE ver[KeyOf(v)]]
    /\ UNCHANGED <<mounted, store, server>>

\* Leaving the page and coming back: the fetch is cancelled, the state is new.
Remount(v, s) ==
    /\ Act
    /\ view' = [view EXCEPT ![v] = Fresh(s)]
    /\ UNCHANGED <<mounted, store, server>>

----------------------------------------------------------------------------
(* The effect and the answer.                                              *)

\* dispatch fetch_success
Show(r, what) ==
    [r EXCEPT !.shown = what, !.loading = FALSE, !.failed = FALSE]

\* Mutated: without the cancelled flag, the answer of earlier ids is shown.
RunEffectNotCancelled(v) ==
    LET k == KeyOf(v)
        r == [view[v] EXCEPT !.due = FALSE]
        hit == hook(v).cached /\ ~r.force /\ k # Absent /\ store[k] # Nothing
        ask == [r EXCEPT !.force = FALSE, !.loading = TRUE, !.failed = FALSE,
                         !.fetch = [key |-> k, ver |-> Nothing, sent |-> done]]
    IN  /\ view[v].due
        /\ view' = [view EXCEPT ![v] =
              IF k = Absent /\ hook(v).absent # "ask" THEN r
              ELSE IF hit THEN [Show(r, [key |-> k, ver |-> store[k].ver]) EXCEPT !.force = FALSE]
              ELSE ask]
        /\ UNCHANGED <<mounted, store, server, acts>>

\* The cleanup of the last effect cancels its fetch, then the effect runs.
RunEffect(v) ==
    LET k == KeyOf(v)
        r == [view[v] EXCEPT !.due = FALSE, !.fetch = Nothing]
        hit == hook(v).cached /\ ~r.force /\ k # Absent /\ store[k] # Nothing
        ask == [r EXCEPT !.force = FALSE, !.loading = TRUE, !.failed = FALSE,
                         !.fetch = [key |-> k, ver |-> Nothing, sent |-> done]]
    IN  /\ view[v].due
        /\ view' = [view EXCEPT ![v] =
              IF k = Absent /\ hook(v).absent = "skip" THEN r
              ELSE IF k = Absent /\ hook(v).absent = "empty" THEN Show(r, Nothing)
              ELSE IF hit THEN [Show(r, [key |-> k, ver |-> store[k].ver]) EXCEPT !.force = FALSE]
              ELSE ask]
        /\ UNCHANGED <<mounted, store, server, acts>>

\* The server reads the list.
Serve(v) ==
    /\ view[v].fetch # Nothing
    /\ view[v].fetch.key # Absent
    /\ view[v].fetch.ver = Nothing
    /\ view' = [view EXCEPT ![v].fetch.ver = ver[view[v].fetch.key]]
    /\ UNCHANGED <<mounted, store, server, acts>>

\* then: the answer is stored and shown.  A cancelled fetch is no longer in
\* view[v].fetch: its answer is dropped.
Arrive(v) ==
    LET f == view[v].fetch
    IN  /\ f # Nothing
        /\ f.ver # Nothing
        /\ view' = [view EXCEPT ![v] =
              [Show(view[v], [key |-> f.key, ver |-> f.ver]) EXCEPT !.fetch = Nothing]]
        /\ store' = IF hook(v).cached
                    THEN [store EXCEPT ![f.key] = [ver |-> f.ver, stored |-> done]]
                    ELSE store
        /\ UNCHANGED <<mounted, server, acts>>

\* Mutated: the error is dispatched as if it were the list.
FailShowsError(v) ==
    /\ view[v].fetch # Nothing
    /\ view' = [view EXCEPT ![v].fetch = Nothing, ![v].loading = FALSE, ![v].shown = [key |-> Absent, ver |-> 0]]
    /\ UNCHANGED <<mounted, store, server, acts>>

\* Mutated: fetch_error does not end the loading.
FailKeepsLoading(v) ==
    /\ view[v].fetch # Nothing
    /\ view' = [view EXCEPT ![v].fetch = Nothing, ![v].failed = TRUE]
    /\ UNCHANGED <<mounted, store, server, acts>>

\* catch: nothing is stored (with no ids the request is for id 0 and fails).
Fail(v) ==
    /\ view[v].fetch # Nothing
    /\ view' = [view EXCEPT ![v].fetch = Nothing, ![v].loading = FALSE, ![v].failed = TRUE,
                   ![v].shown = IF hook(v).onFail = "empty" THEN Nothing ELSE @]
    /\ UNCHANGED <<mounted, store, server, acts>>

\* The 30 s of an entry are over: getCachedValue will delete it.
Expire(k) ==
    /\ store[k] # Nothing
    /\ store' = [store EXCEPT ![k] = Nothing]
    /\ UNCHANGED <<mounted, view, server, acts>>

----------------------------------------------------------------------------
(* Writes.                                                                 *)

Bump(ks) == [k \in Keys |-> IF k \in ks THEN ver[k] + 1 ELSE ver[k]]

StartWrite(w) ==
    /\ write = Nothing
    /\ done < MaxWrites
    /\ Covered(Writes[w].changes \cup Writes[w].drops) # {}
    /\ write' = [op |-> w, made |-> Nothing]
    /\ UNCHANGED <<mounted, view, store, ver, done, own, others, acts>>

ServeWrite ==
    /\ write # Nothing
    /\ write.made = Nothing
    /\ ver' = Bump(Covered(Writes[write.op].changes))
    /\ write' = [write EXCEPT !.made = ver']
    /\ UNCHANGED <<mounted, view, store, done, own, others, acts>>

\* The answer is there: the API function drops what it names.
EndWrite ==
    /\ write # Nothing
    /\ write.made # Nothing
    /\ store' = invalidateCache(Writes[write.op].drops)
    /\ done' = done + 1
    /\ own' = [k \in Keys |-> IF /\ k \in Covered(Writes[write.op].changes)
                                 /\ <<write.op, k[1]>> \notin LeftCached
                              THEN [ver |-> write.made[k], at |-> done + 1]
                              ELSE own[k]]
    /\ write' = Nothing
    /\ UNCHANGED <<mounted, view, ver, others, acts>>

\* Refused by the server, or the answer is lost: await throws, nothing is dropped.
FailWrite ==
    /\ write # Nothing
    /\ write' = Nothing
    /\ done' = done + 1
    /\ UNCHANGED <<mounted, view, store, ver, own, others, acts>>

\* Another client changes a list.
Elsewhere(k) ==
    /\ others < MaxOthers
    /\ others' = others + 1
    /\ ver' = Bump({k})
    /\ UNCHANGED <<mounted, view, store, write, done, own, acts>>

----------------------------------------------------------------------------

Next ==
    \/ \E v \in Views : \/ Refresh(v)
                        \/ RunEffect(v)
                        \/ Serve(v)
                        \/ Arrive(v)
                        \/ Fail(v)
    \/ \E v \in Views : \E s \in ScopesOf(v) : ChangeScope(v, s) \/ Remount(v, s)
    \/ \E w \in DOMAIN Writes : StartWrite(w)
    \/ ServeWrite
    \/ EndWrite
    \/ FailWrite
    \/ \E k \in Keys : Expire(k) \/ Elsewhere(k)

Spec == Init /\ [][Next]_vars

\* React runs due effects; a request is answered or fails.
Fairness ==
    \A v \in AllViews : /\ WF_vars(v \in Views /\ RunEffect(v))
                        /\ WF_vars(v \in Views /\ Serve(v))
                        /\ WF_vars(v \in Views /\ (Arrive(v) \/ Fail(v)))

FairSpec == Spec /\ Fairness

----------------------------------------------------------------------------
(* Properties.                                                             *)

Settled(v) == ~view[v].due /\ ~view[v].loading /\ ~view[v].failed

Versions  == 0 .. (MaxWrites + MaxOthers)
Listing   == [key : Keys, ver : Versions]
Fetch     == [key : Keys \cup {Absent}, ver : Versions \cup {Nothing}, sent : 0 .. MaxWrites]
ViewState == [scope : UNION {ScopesOf(v) : v \in Views}, due : BOOLEAN, force : BOOLEAN,
              shown : Listing \cup {Nothing}, loading : BOOLEAN, failed : BOOLEAN,
              fetch : Fetch \cup {Nothing}, asked : Versions]

\* Types.  Every variable of the cache and of the views keeps its shape, and a view
\* handles the keys of its own list only.
TypeOK ==
    /\ mounted \in Pages
    /\ view \in [Views -> ViewState]
    /\ \A v \in Views :
          /\ view[v].scope \in ScopesOf(v)
          /\ view[v].shown # Nothing => view[v].shown.key \in KeysOf(hook(v))
          /\ view[v].fetch # Nothing => view[v].fetch.key \in KeysOf(hook(v)) \cup {Absent}
    /\ store \in [Keys -> [ver : Versions, stored : 0 .. MaxWrites] \cup {Nothing}]
    /\ ver \in [Keys -> Versions]
    /\ write \in [op : DOMAIN Writes, made : [Keys -> Versions] \cup {Nothing}] \cup {Nothing}
    /\ done \in 0 .. MaxWrites
    /\ own \in [Keys -> [ver : Versions, at : 0 .. MaxWrites]]
    /\ others \in 0 .. MaxOthers
    /\ acts \in Nat

\* What a view shows once it is not loading and has no error is the list of
\* the ids it was given, however the answers of earlier ids were delayed
\* (the cancelled flags of the hooks).
SettledShowsScope ==
    \A v \in Views :
        Settled(v) /\ view[v].shown # Nothing /\ view[v].scope # Absent
            => view[v].shown.key = KeyOf(v)

\* "explicit refresh() in each hook bypasses the cache" (requestCache.ts:16): what
\* a view shows after a refresh is at least as new as the list was when the
\* refresh was asked for, whatever fetch was in flight and whatever was cached.
RefreshIsFresh ==
    \A v \in Views :
        Settled(v) /\ view[v].shown # Nothing /\ view[v].scope # Absent
            => view[v].shown.ver >= view[v].asked

\* "Mutations invalidate affected keys" (requestCache.ts:16), as far as the code keeps it:
\* each API function drops every list its write changes, but for the lists of LeftCached.
\* A cached list that misses one of the client's own finished writes to it was put there
\* after the write ended, by a fetch that was in flight.
OwnWriteDropsLists ==
    \A k \in Keys :
        store[k] # Nothing /\ store[k].ver < own[k].ver => store[k].stored >= own[k].at

Loading(v) == v \in Views /\ view[v].scope # Absent /\ view[v].loading

\* A view with ids stops loading: no effect returns early
\* without settling the state and no answer is awaited that was cancelled.
StopsLoading ==
    \A v \in AllViews : Loading(v) ~> ~Loading(v)

============================================================================
