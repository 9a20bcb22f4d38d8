# WorkspaceCanvas, verified

WorkspaceCanvas is a desk- and room-booking system: a Django/PostgreSQL back end, a
React front end on which admins draw a floor plan and members book desks, and a chat bot.
This directory holds TLA+ models of its concurrent core, server and browser, the TLC runs that
check them on small instances, and TLAPS proofs of what matters for every instance.

## 1. The system

| component | state | operations | what is hard | what makes it correct |
|---|---|---|---|---|
| **Desk booking** `backend/offices/services/booking_service.py`, `signals.py`, desk and floor views | `Floor.status`, `Desk` rows (active, status), `DeskBooking` rows | book, cancel, delete or retire a desk, edit a desk, publish/unpublish a floor | two pre-checks under one row lock, two partial unique indexes, a bulk cancellation without the desk lock, signal receivers that read before they lock, full-row saves of stale copies | no double booking; bookings only on desks in service; a retired desk keeps no booking; every request ends |
| **Layout enhancement runs** `backend/offices/services/enhance_run_service.py` | `FloorLayoutObject` rows, `EnhanceRun` and `EnhanceRunOperation` rows | apply (idempotent by plan id), undo, retry; next to edits and deletion of single objects | objects read before the transaction, savepoint per operation, lost unique race, opposite lock orders | the audit log accounts for every move; a plan is applied once; undo does not lose edits |
| **Request cache and list hooks** `frontend/src/lib/api`, the `use...` list hooks and API modules of `features/*` | cache entries with an age, each mounted hook's list, loading and error | fetch, forced refresh, change of ids, remount, write and invalidate | answers late or for ids that have changed, fetches that overtake an invalidation | a settled list is the list of its ids; a refresh is fresh; a view stops loading |
| **Booking pages** `frontend/src/app/pages/DeskBookingPage.tsx`, `RoomBookingPage.tsx`, `features/bookings`, `features/rooms` | selection of office, floor and date, lists, feedback, dialog, timers, the remembered pair | arrive with a link, choose, book, cancel, leave | a request outlives the date, the page or the message it is about; office time is not browser time | what is offered the server refuses only for what no page checks; what is announced is shown; a timer belongs to its message |
| **Session, forms and routing** `frontend/src/features/auth`, `profile`, `organizations`, `invitations`, `app/router` | React tree, token in memory, refresh cookie, local and session storage, forms | sign in by password, code or provider, sign up, verify, MFA, refresh, log out, reload, choose, join and create an organisation, onboarding | handlers of several requests, refresh on 401, guards that redirect, a stored choice that is no longer true | the selection is a membership; an aged access token never signs out; a logout ends the session; one submission at a time |
| **Floor geometry and tidy engine** `frontend/src/features/layoutObjects/utils` | none (pure functions); a pass at a time in the model | snap, clamp, push aside, slide along a wall, frame a carved floor, tidy | steps that undo each other, ties settled by order, the cap on passes | tidying moves no desk onto what it did not put back, keeps desks on the floor and settles; the walls frame the floor |
| **Floor editor** `frontend/src/app/pages/FloorLayoutPage.tsx`, `features/layoutObjects/hooks`, layout-object views of `backend/offices/views.py` | objects and room on the screen, saving flags, resize timer, wizard step, tidy dialog; the stored rows | drag, keys, transform, inspect, place, delete, resize, wizard, publish, preview, apply, undo | optimistic saves in flight together, rollbacks, lost answers | the page shows what is stored; a flag lasts as long as its save; doors stay on their walls |
| **Desk provisioning** `backend/offices/views.py` | the desk linked to a layout object | provision with an object, create by hand | check-then-create against a unique index, stale full-row saves, opposite lock orders | at most one active desk per object; no active desk on a deleted or non-desk object |
| **Meeting rooms (server)** `backend/offices/services/room_booking_service.py` | `MeetingRoom`, `RoomBooking` | book a slot, cancel, edit a room | interval overlap, exclusion constraint, daylight-saving times | no overlapping active bookings; no booking at a time that does not exist |
| **Organisations and invitations (server)** `backend/accounts` | `Membership`, `Invitation` | invite, resend, cancel, accept | every status test reads a copy | an accepted invitation and its membership agree; one pending invitation per address |
| **Chat bot** `backend/chat` | `ChatLink`, `ChatConfirmToken`, processed events, audit rows | link, command, confirm, unlink | redelivery, one-shot tokens, crash between commit and audit | a confirmed write happens once; a binding is not dropped silently |
| **Accounts, sessions, MFA (server)** `backend/users` | users, verification tokens, MFA devices, challenges, recovery codes, refresh tokens | sign in, verify, challenge, refresh, resend | check-then-mark, rotation in two tabs | a one-time secret is spent once |
| rendering, setup pages, translations, admin, migrations, seed | drawing, wording, one-shot code | | | not modelled |

The first seven are modelled, the floor editor in part (section 6); the others are not.

Interactions. All back-end components share one PostgreSQL database at READ COMMITTED
and are served by several worker threads; they interact through rows, row locks and
constraints only. The chat bot calls the same booking services as the views. A layout
object owns at most one active desk; deleting or retyping it retires the desk, which
cancels its bookings through the service and again through the `Desk` signal. In the browser,
every page reads lists through the request cache and writes through the API client, which renews
the session; the session's routes decide which page is mounted. The booking pages compute what
they offer from the lists alone. The floor editor calls the geometry on every drop and the tidy
engine from a dialog, and saves through the layout-object views. `PROJECT.json` lists
under `hazards` what in this code is hard to test, at its line, with the properties that cover it.

## 2. How the code is modelled

### Server code

* A *worker* is a request thread. `pc[p]` names the SQL statement it runs next, `req[p]`
  its request, `seen[p]` the rows it has read into Python objects.
* One SQL statement is one step. Row variables hold **committed** rows. What an open
  transaction has written sits in the worker's own variables until `Commit...`, where
  it reaches the rows; a rollback drops it. READ COMMITTED means that a statement
  sees whatever is committed when it runs, hence a step reads the row variables directly.
* A row lock is derived, not stored: `Holds`/`Rows` (DeskBooking) and `saved` (EnhanceRun)
  say which rows an open transaction has locked. A statement that needs a locked row is
  not enabled. A unique index makes an `INSERT` wait for an uncommitted row with the
  same key (`InsertWaits`) and fail on a committed one.
* `model.save()` without `update_fields` writes every column of the copy: the model
  writes back what was *read*, stale or not.
* `Die(p)` is the loss of a worker or its connection at any statement: rollback.
  `Deadlocked(p)` is a cycle of waiting workers; PostgreSQL's detector fails one of them.

### Browser code

* JavaScript runs a handler to its next `await` without interruption, so that stretch is one step;
  a React effect runs in the same step as the event that makes it due.
* A request in flight is an element of a set or a field of its view. The server acts on it in a
  step of its own, the answer arrives in another, so requests overtake each other on either way.
  It may be refused or fail, and in Session and FloorEditor it may be lost before or after the
  server has acted.
* An edit that is shown before it is saved (floor editor) is in `objects` at once; the answer's
  step confirms it or takes back the fields it changed.
* A closure keeps what it captured: the values a continuation uses after an `await` are
  fields of its request, not the current state, wherever the code reads them so.
* A timer is an element of a set that may fire in any later step; clearing it removes it. An
  age (a cache entry's 30 s, a token's life) is a step that may come at any time.
* Geometry is in whole pixels and quarter turns. The engine's averages are rounded down to the
  pixel; layouts whose sizes are multiples of 12 keep them exact.

### Modules

| module | models |
|---|---|
| `BookingLedger` | what desk booking promises: open desks and live bookings, each request at one instant |
| `DeskBooking` | the booking service, cancel, retire, edit, publish, signal receivers |
| `DeskBookingProofs` | type correctness, no double booking, lock settles the desk, only open desks booked, no booking on a retired desk; DeskBooking implements BookingLedger |
| `EnhanceRunProofs` | losers replay, statuses and undos are true; EnhanceRun implements EnhanceLog |
| `ClientCacheProofs` | views show their ids, refreshes are fresh, writes drop the lists they change, and exactly which they leave |
| `BookingPagesProofs` | answers are shown, timers and spinners own their request, offers match the server's rules |
| `SessionProofs` | memberships, logout, locks of forms, valid forms, the spinner; an aged access token does not sign out |
| `FloorEditorProofs` | saving flags last as long as their saves; the page shows what is stored |
| `EnhanceTidyProofs` | what a tidy plan moves is clear; what the walls of a carved grid cover |
| `FloorTypesProofs` | what every operator of the geometry returns; types of editor, server and engine; the walls frame the floor; a plan's desks stand on it; what is on a wall keeps apart and goes with the wall and its room |
| `EnhanceLog` | what the runs promise: a log that accounts for every move |
| `EnhanceRun` | apply, undo, retry, manual edits |
| `ClientCache` | the request cache, the list hooks as views, the writes and what they invalidate |
| `BookingPages` | the three booking pages, their lists, requests, timers and time arithmetic |
| `Session` | one tab: tokens, handlers, guards, forms, selected organisation |
| `LayoutGeometry` | footprints, clamps, snapping, drops, sliding along walls |
| `FloorShape` | cutouts, the carved floor and its walls |
| `EnhanceTidy` | the tidy engine, one action per pass, and the plan made of its result |
| `FloorEditor` | the floor page around them, its requests and the server's rows |
| `MC...` | instances for TLC |

`FloorEditor` extends `EnhanceTidy`, which extends `FloorShape`, which extends `LayoutGeometry`:
the page composed with the engine it calls. `DeskBooking` implements `BookingLedger` and
`EnhanceRun` implements `EnhanceLog` through `INSTANCE ... WITH`.

### DeskBooking and the code

| action | code |
|---|---|
| `StartBook`, `RefuseBook`, `LockDesk`, `CheckDesk`, `CheckUser`, `Insert`, `CommitBook` | the view reads the floor; `create_booking_for_user`: status of that copy, `select_for_update`, the two pre-checks, `INSERT`, end of `atomic()` |
| `StartCancel`, `CancelOne` | unlocked read and status test in the view, `UPDATE` by primary key |
| `StartRetire`, `CancelAll`, `PreSave`, `SaveDesk`, `Cascade`, `CommitRetire` | `DeskDetailView.delete` (`deleteDesk`) and `_retire_active_desks` (`retireDesk`): bulk `UPDATE` of the bookings, `pre_save` `SELECT`, `UPDATE` of the desk, `post_save` bulk `UPDATE` |
| `StartPatchDesk`, `SavePatch`; `StartPatchFloor`, `SaveFloor` | full-row saves of copies |

Left out: organisations and offices as scopes (one organisation, one floor), the
uniqueness of desk codes, `maintenance` (tested like `unavailable` everywhere), past-date
checks, creation of desks. A retirement of several desks of one object retires
one (the unique constraint allows one active desk per object).

### EnhanceRun and the code

| action | code |
|---|---|
| `StartApply`, `FindPrior` | the view; the look-up of a prior run by plan id, replayed by `_replay` |
| `StartDerived` | `undo` and `retry` read the source run; `UndoOps`/`RetryOps` are the loops' filters and targets |
| `Load` | `objmap`, read before `atomic()` |
| `Skip`, `Reject`, `Save`, `SaveFails` | one operation: not available, inactive or stale; `_PatchInvalid`; applied; any other exception inside the savepoint |
| `Insert`, `Lose`, `Replay`, `Commit` | `EnhanceRun.objects.create` (in `_finalize` for undo and retry), the `IntegrityError` branch, end of `atomic()` |
| `StartEdit`, `Write` | `LayoutObjectDetailView.patch` and `delete` |

A geometry dict is a partial function on `Fields`, so `{}` and partial dicts are there,
as in `_geometry_matches`. `Validated` is what the serializer makes of an input: a value,
a folded rotation, or a rejection. `renamed` stands for every non-geometry column an edit can
change. Of the exceptions a save can raise, the deadlock is the one modelled: it is
the only one that other requests cause. The copy stays patched after it, as in the code.
Left out: the desk rows an object edit touches, creation of
objects (a run never names an object it did not plan for), hard deletes (there are none).

### ClientCache and the code

| action | code |
|---|---|
| `RunEffect` | the hook's effect: ids missing, a cached list, or a `cachedFetch`; the cleanup sets the `cancelled` flag of the one before |
| `Serve`, `Arrive`, `Fail` | the server reads the list; `.then` stores it and shows it unless cancelled; `.catch` and `.finally` |
| `Refresh` | `refresh()` of the hook: a forced fetch |
| `ChangeScope`, `Remount` | the page passes other ids; the component is unmounted and mounted |
| `StartWrite`, `ServeWrite`, `EndWrite`, `FailWrite` | an API function: the request, the server's write, `invalidateCache` of its prefixes |
| `Expire`, `Elsewhere` | 30 s pass; another client writes |

A list's content is its version, the number of changes to it on the server. A key is a sequence,
so that a prefix of the string is a prefix of the sequence. `Hooks` names every list hook with its key.
`ApiWrites` names every API function that changes a list, with what the view behind it in `src/backend`
changes and the prefixes the function invalidates, if any. `LeftCached` are the cached lists
that a function leaves alone though its write changes them; they are listed under the findings below.
`createOrganization` is not among the functions: it changes no list that was there before.
`useOffices` with no organisation has a key of its own (`offices:default`), which is one more id here;
`Absent` stands for ids that are missing.

### BookingPages and the code

| action | code |
|---|---|
| `Navigate` | a link with or without office, floor, date and desk, or Back, also with a dialog open: the router mounts a page, the one before is unmounted and its timers cleared |
| `OfficesAnswer`, `FloorsAnswer`, `ItemsAnswer`, `LayoutAnswer`, `ChooseOffice`, `ChooseFloor`, `ChooseDate` | `useBookingLocationSelection` with the restored pair; floor, desks, rooms and layout of the chosen floor |
| `ServeList`, `Arrive`, `Fail` | the booking lists, through the cache of ClientCache reduced to present or absent |
| `SelectDesk`, `BookDesk`, `BookRoom`, `CancelClicked`, `DismissCancel`, `confirmCancel` | the handlers up to their `await`, with the page's own checks as guards |
| `ServeCall`, `Answer`, `Timeout` | the server's rules (`Accepts`: the serializers, `booking_service.py`, `room_booking_service.py`), or a refusal for any other reason; what the handlers do with the answer; `bookingTimerRef` and the other timeouts |
| `Elsewhere` | a booking by somebody else, or by this user in another window |
| `SetStatus`, `Tick` | an administrator publishes the floor or makes it a draft; time goes on |

`canBookSlot`, `slotConflicts`, `startTimeOptions` and the conversion between office day and
instant are translated from `roomTimeline.ts` and its neighbours with a day of `Day` units. There is one
instant, `now`, and two days made of it: `Today` in the browser, `Here` units ahead of UTC, which the pages
check (`bookingValidation.ts:11`), and `OfficeToday` in the office, `Offset` units ahead, which the server
checks (`offices/serializers.py:525`, `:683`).

### Session and the code

| action | code |
|---|---|
| `Navigate`, `Reload` | the links a view offers, and a new document at a route; `Routes` is what the router's guards make of it |
| `SubmitLogin`, `SubmitSocial`, `SubmitMfa`, `SubmitSignup`, `VerifyEmail`, `ResendVerification`, `SetupMfa`, `ConfirmMfa`, `ConfirmLink` | the handlers of the pages of these names |
| `LoadInvite`, `Accept`, `AcceptOnDashboard`, `SwitchOrganization`, `Logout`, `Fetch` | invitations, the organisation menu, signing out, any authorised request of a page |
| `setField`, `goNext`, `goBack`, `goSkip`, `handleCreate`, `handleFinish`, `Timeout`, `StrayTimeout` | the organisation and profile wizards; the 2.2 s before onboarding is left |
| `Serve`, `Answer`, `Abandoned` | the server's part; `executeWithRetry`, `refreshAccessToken` and the rest of the handler; answers for a document that is gone |
| `AccessExpires`, `RefreshExpires`, `Revoke` | ages of tokens; a membership ended by an admin |

A handler is a job: a chain of requests with what it captured. The server's pairs of tokens,
rotation, cookies and memberships are external, taken from how the client uses them.

### LayoutGeometry, FloorShape, EnhanceTidy, FloorEditor and the code

Operators keep the names of the functions they translate (`resolveDrop`, `slideAlongWall`,
`computeFloorWallSegments`, `snapToWalls`, ...).

| action | code |
|---|---|
| `handleObjectDragEnd`, `handleCanvasKeyDown`, `handleObjectTransform`, `handleDeleteSelected`, `handleBoundaryTransformEnd`, `InspectorEditor` | the canvas handlers of `useCanvasInteractions.ts` and the saves of the inspector, with every object they move along |
| `handleLibrarySelect`, `handlePlacementMove`, `handlePlacementClick` | adding an object, and doors and windows that wait for a wall |
| `onRoomSizeChange`, `persistBoundary` | the room's size on the toolbar and its 600 ms timer |
| `goTo`, `toggleWizard`, `handlePublish`, `requestEdit`, `cancelEdit`, `confirmEdit` | the wizard, publishing and going back to draft |
| `openPreview`, `cancel`, `apply`, `undo` | the tidy dialog; the `Tidy` steps between are the engine's passes |
| `serverStep`, `answer`, `lose` | a layout-object view's read (`readRow`) and full-row save (`saveRow`), the floor view and the runs' endpoints; `useLayoutObjects` and the handlers after their `await`; a lost connection |

A *visit* is a layout with the inputs a user has for it; the visit fixes what may happen, the
network and the order are free.

## 3. What the runs check

| run | instance | states | shows |
|---|---|---|---|
| `desk_booking_all` | 2 workers, 2 desks, 1 date, 2 rows, 2 users, every request kind, symmetry | 1.6 M | `TypeOK`; `NoDoubleBooking`; `LockSettlesDesk`: after the first pre-check only the per-user index can refuse; `BookedOnlyWhenOpen`: a booking commits only on an active, available desk |
| `desk_booking_retire` | 3 workers, 1 desk, 2 rows, no desk edits | 37 k | `NoBookingOnRetiredDesk`; `LedgerSpec` (refinement of BookingLedger); `EveryRequestEnds` |
| `enhance_runs` | 2 workers, 2 objects, 1 plan, 3 batches, 3 runs, symmetry | 1.9 M | `TypeOK`; `LoserFindsWinner`: the re-raise of the `IntegrityError` is unreachable; `StatusTellsTheTruth`; `UndoRestoresOrSkips`; `LogSpec` (refinement of EnhanceLog) |
| `enhance_live` | 2 workers, 2 plans in opposite order | 109 k | `EveryRequestEnds` |
| `client_cache` | 1 view of each hook in turn, 1 own write of any kind, 1 change by another client, 3 acts of the user | 981 k | `TypeOK`; `SettledShowsScope`: a view that is not loading shows the list of its ids; `RefreshIsFresh`: nothing older answers a refresh; `OwnWriteDropsLists`: every write drops every list it changes, but those of `LeftCached`; `StopsLoading` |
| `booking_pages` | 3 desks (one out of service, one on another floor), 1 room, 3 dates, today and tomorrow bookable, 2 instants, 3 arrivals, 2 clicks, 2 own requests, 1 event elsewhere | 6.75 M | `TypeOK`; `ShownFollowsOwn`; `OffersMatchServer`: what a page offers is refused only for what no page checks, and what the server would take is offered; `TimerOwnsMessage`; `BusyWhileInFlight` |
| `session` | 1 tab, 2 users (one with MFA and no profile), 2 organisations, 4 handlers, 2 at a time, 1 fault | 1.68 M | `TypeOK`; `SelectionIsMembership`; `QuietRefresh`: an aged access token does not sign out; `LogoutEndsSession`; `OneSubmission`; `OnlyValidForms`; `LoadingHasEnd` |
| `floor_editor` | 11 visits of up to 3 edits and 1 lost connection; 8 families of layouts tidied twice | 576 k | `TypeOK`; `ScreenIsStored`, `SavingIsTold`; `SlideKeepsApart`, `WallKeepsOpenings`, `RoomKeepsOpenings` for what is on walls; `MovedDesksClear`: a desk that a plan moves or resizes meets nothing but desks put back where they were; `TidyTwiceIsOnce`, `DesksStayOnFloor` of the engine; `FloorIsFramed` |
| `desk_draft` | 2 workers, 1 desk | violation | a draft floor gets a booking although docs/064 excludes it |
| `desk_deactivation` | desk edits allowed | violation | a desk goes out of service and keeps a booking |
| `enhance_clobber` | 1 object, 3 places | violation | an undo overwrites a manual edit although docs/063 says never |
| `floor_drop` | the visit with furniture | violation | furniture is dropped on a meeting room and stays on it although docs/061 says never |

Bounds, server. Two workers are enough for every pairwise race; the retirement needs three (two
retirements and the booking that falls between them). Two desks and two users give both
unique keys a chance to collide separately; a second date adds nothing, since nothing
relates two dates. Three runs are needed for an undo of an undo and for the retry of an
operation that failed in a deadlock of two others. One geometry field with
two values is enough to tell moved from unmoved; input `2` folds onto `1` and input `3`
is rejected. Symmetry is used only in runs without liveness.

Bounds, browser. The hooks of ClientCache do not read each other, so one view sees every case; a stale
list needs one write and one change from elsewhere. In BookingPages two clicks and two requests are what
it takes for an answer to arrive under another selection, page or message; the second desk is one that
must not be offered, the third one where the user may hold a booking that no page of this floor shows.
The instants 5 and 6, with days of 6 units and the office 2 units ahead, are the last of the browser's
day and the first of the next: it is tomorrow in the office before it is in the browser, the two days
differ and then meet, and a room's first slot is past. One event elsewhere is a booking, by another user or
this one, or a change of the floor's status. In Session four handlers are enough to sign in, expire,
refresh and retry next to another one. In the floor editor a room of 240 by 240 is the smallest the code
allows and makes clamping and snapping meet; three objects are enough for an object, its
neighbour and what is behind; the families step through the thresholds (10, 14, 20, 28, 48 pixels)
from both sides. An instance starts in each of its visits.

`CHECK_DEADLOCK FALSE` is set where the bounded instance comes to rest: all row ids are used, all
desks retired, or all clicks and requests spent.

Fairness. Server: `SF_vars(Step(p))`: a request thread keeps running, and PostgreSQL queues lock
waiters first come first served, so a statement that can run again and again gets to.
It has to be strong fairness because another request may take the lock in between.
`WF_vars` on the deadlock victim: the detector runs after `deadlock_timeout`. Nothing is
assumed of `Start` (no request need come) or of `Die` (no worker need die). Browser (ClientCache):
weak fairness of a due effect (React runs it), of the server's answer and of its arrival or failure
(`fetch` ends). The pages' and the session's spinners are stated as safety instead: they have a
cause under way whose every outcome ends them (`BusyWhileInFlight`, `LoadingHasEnd`).

Mutants. Every property of a passing run has a mutated definition (`Mutated:` in the modules)
that changes the code it models the way a bug would: a dropped `select_for_update`, a missing
unique constraint, a signal that does not fire, a lost rollback, an unguarded undo, a prefix that
is not invalidated, a timer that is not cleared, a lost `finally`, a push without a clamp.

### Findings

1. `desk_draft`: the published test uses the view's copy; unpublishing in between is not seen.
2. `desk_deactivation`: `pre_save` reads `is_active` before the `UPDATE` gets the lock. Two
   deletions and a stale desk edit leave an inactive desk with an active booking.
3. `enhance_clobber`: the staleness guard reads copies loaded before the transaction.
4. `floor_drop`: `resolveDrop` pushes the dropped object clear, and the handler then clamps it into
   the room without looking again (`useCanvasInteractions.ts:291`), which may put it back on what it
   was pushed off. docs/061-floor-boundary-pan-zoom.md:223 and :237 exclude it.

### Met while modelling, not given a run

The models do what the code does in these places; the properties say where they make an exception.

Session and cache
* `AcceptInvitationPage.tsx:101`: the joined organisation is "selected" on a route outside the
  provider, where that does nothing.
* `apiClient.ts:16`: a logout with an expired access token is refused and keeps the cookie
  (docs/029-httponly-cookie-auth.md:141 expects the refresh to fail then).
* `apiClient.ts:38`: two handlers that meet an expired token refresh at once; the loser signs out.
* `useMyBookings.ts:39`: the cache is not cleared when another user signs in within 30 s.
* `requestCache.ts:95`: a fetch sent before an invalidation stores the old list after it, hence the exception
  for lists stored after the write in `OwnWriteDropsLists`.
* `requestCache.ts:16` says "Mutations invalidate affected keys". Lists that stay cached though their
  write changes them (`LeftCached`, shown to be exactly these by `LeftCachedIsExact`): after
  `createLayoutObject` the desks; `updateLayoutObject` the desks and rooms, which carry its label;
  `deleteLayoutObject` the desks, their bookings and the user's own; `createInvitation` and
  `cancelInvitation` the summary, which counts the pending ones (`teamsApi.ts:25-30` invalidates nothing);
  `acceptInvitation` the user's room bookings; `updateProfile`, `uploadAvatar`, `removeAvatar` the
  bookings, which carry the user's name and picture. The invitations and members that such a write
  changes are lists that are never cached.
* `useProfileOnboardingForm.ts:193`: a timer set by an answer that came after the page was left
  signs the tab in again.

Booking pages
* `bookingValidation.ts:47` has it that the page checks "the same rules the backend enforces". Four
  refusals have no check on the page (`Unseen`): a floor that became a draft (`booking_service.py:87`,
  `room_booking_service.py:89`); a day that is not bookable in the office's zone
  (`offices/serializers.py:525`, `:683`) though it is in the browser's (`bookingValidation.ts:11`); a room's
  slot that has begun (`serializers.py:712`), which stays offered all day; a desk of the
  user's elsewhere on that day (`booking_service.py:109-115`). The user is told by the answer.
* `RoomBookingCard.tsx:42`: the card is locked by "this room's request", but the page remembers one busy
  room only; a request for a second room unlocks the first's card.
* `useBookingLocationSelection.ts:104`: the restore of the last pair waits for its office: a user who
  chooses another office first and that office later gets the remembered floor then.

Floor editor
* `FloorMapCanvas.tsx:188`: arrow keys move objects on the review step too.
* `useCanvasInteractions.ts:215`: a wall and its openings are saved by separate requests; one that
  fails stays behind. The details save asks no saving flag.
* `useCanvasInteractions.ts:307`: a settled resize that pulls in two walls meeting in a door saves the
  door twice in one handler; the guard at :176 reads the flags of the last rendering and lets both
  through. The first answer clears the flag while the other save is in flight, and if that one is
  refused the page may show a place that is not stored. The proof of `SavingIsTold` asked
  for it; the visit `Cornered` has it, and such objects are excepted (`blurred`).
* `useWallPlacement.ts:139`: a click places at the last ghost, though the wall may be gone.
* `useFloorBoundary.ts:74`: a resize that waits for its timer is lost when the page is left. On
  the toolbar, typing "320" passes through "3", which is clamped to 240.
* `views.py:678`: a deletion beside a `PATCH` of the same object is undone by it.
* `FloorLayoutPage.tsx:262`: the toasts "published" and "draft", and the way back to the build step,
  come even when the save failed.
* `enhanceNormalize.ts:274`: `groupRows` sorts by centre and lets a desk into a row by the members that
  came before it, so of two desks with the same centre the order in the array decides. Desks of 48 by 48
  at (60,60), of 48 by 96 at (108,84) and of 48 by 48 at (156,108) become one row at y = 84; in the
  reverse order two desks at y = 48 and one below, and both outcomes are settled after a second pass.
  `computeEnhancePlan.test.ts:57` says "Determinism must not depend on input ORDER", and tests it with
  two desks. An invariant to that effect held in every family of layouts of `floor_editor`; the attempt to prove it
  led to this layout, on which TLC refutes it, and the project does not state it.
* `enhanceNormalize.ts`: a plan also depends on that order when the safety pass puts desks back;
  applying only some of the suggestions can make desks overlap; the engine stops after six passes
  whether or not it has settled.
* `enhanceNormalize.ts:573`: that a plan "never introduces an overlap" does not hold, as the proof of it
  showed: the one pass over the desks may put a desk back onto one it found clear before. Desks at
  (216,108) of 72 by 48 and at (60,108) of 156 by 48 with a plant at (48,120) of 12 by 24 are
  such a layout. `MovedDesksClear` says what the pass does keep.
* `floorShape.ts:225`: at a cutout that is thinner than a wall (72 by 12 in the run's families) the wall of
  one edge lies on the floor behind the other. `FloorIsFramed` asks for no floor
  covered only where edges are at least a wall apart (`Broad`).

Server
* `views.py:958`, `signals.py:46`: comments call the `post_save` cascade a no-op after a deletion;
  it is not, a booking can commit in between and is cancelled without a canceller.
* `views.py:485`: a boundary edit that read "published" publishes a floor that was unpublished meanwhile.
* `booking_service.py:158`, `room_booking_service.py:147`: a second cancellation overwrites who cancelled.
* `views.py:702`: deleting an object locks its desks and then the object, retyping it the other
  way round. `views.py:705`: deleting a meeting room's object leaves the room bookable.
* `offices/serializers.py:74`: room times that fall into a change of daylight-saving time.
* `accounts/serializers.py:179`, `accounts/views.py:280`: pending invitations are checked and then
  created, a resend writes a copy. `users/views.py:210`: so does resending a verification.
* `chat/services/glue.py:262`: the link is read before the token is locked, so an unlinking in between
  is not seen; line 298: the audit row follows the commit and may be missing after a crash.
  `chat/services/linking.py:82`: asking for a new link drops the binding before the new one is confirmed.

## 4. What is proved

A theorem holds for every value of the constants that satisfies the assumptions of its module.
A run above shows the same property on one instance; the inductive invariants were
checked by TLC on all states of those instances (the floor editor's in four groups of visits).

| module | theorem | states |
|---|---|---|
| `DeskBookingProofs` | `TypeCorrect` | `Spec => []TypeOK` |
| | `NeverDoubleBooked` | `Spec => []NoDoubleBooking` |
| | `DeskSettledByLock` | `Spec => []LockSettlesDesk` |
| | `OnlyOpenDesksBooked` | `Spec => BookedOnlyWhenOpen` |
| | `RetiredDesksEmpty` | with no desk edits, `Spec => []NoBookingOnRetiredDesk` |
| | `ImplementsLedger` | with no desk edits, `Spec => LedgerSpec` |
| `EnhanceRunProofs` | `TypeCorrect`, `LosersReplay` | `Spec => []TypeOK`, `Spec => []LoserFindsWinner` |
| | `StatusTrue`, `UndoRestores` | `Spec => StatusTellsTheTruth`, `Spec => UndoRestoresOrSkips` |
| | `ImplementsLog` | `Spec => LogSpec` |
| `ClientCacheProofs` | `TypeCorrect`, `ShowsScope` | `Spec => []TypeOK`, `Spec => []SettledShowsScope` |
| | `RefreshShowsNew`, `WritesDropLists` | `Spec => []RefreshIsFresh`, `Spec => []OwnWriteDropsLists` |
| | `LeftCachedIsExact` | each API function leaves cached exactly the lists that `LeftCached` says |
| `BookingPagesProofs` | `TypeCorrect`, `ShowsOwn` | `Spec => []TypeOK`, `Spec => []ShownFollowsOwn` |
| | `TimersOwn`, `OneInFlight` | `Spec => []TimerOwnsMessage`, `Spec => []BusyWhileInFlight` |
| | `OffersMatch` | `Spec => []OffersMatchServer` |
| `SessionProofs` | `TypeCorrect`, `ShowsMembership` | `Spec => []TypeOK`, `Spec => []SelectionIsMembership` |
| | `LogoutEnds`, `LocksOwn` | `Spec => []LogoutEndsSession`, `Spec => []OneSubmission` |
| | `SendsValid`, `SpinnerStops` | `Spec => []OnlyValidForms`, `Spec => []LoadingHasEnd` |
| | `RefreshIsQuiet` | `Spec => []QuietRefresh` |
| `FloorEditorProofs` | `FlagsTellSaves`, `PageShowsStored` | `Spec => []SavingIsTold`, `Spec => []ScreenIsStored` |
| `EnhanceTidyProofs` | `PlansMoveClear` | `Spec => []MovedDesksClear` |
| `FloorTypesProofs` | `TypeCorrect`, `FloorsFramed` | `Spec => []TypeOK`, `Spec => []FloorIsFramed` |
| | `DesksOnFloor` | `Spec => []DesksStayOnFloor` |
| | `SlidesKeepApart` | `Spec => SlideKeepsApart` |
| | `WallsKeepOpenings`, `RoomsKeepOpenings` | `Spec => WallKeepsOpenings`, `Spec => RoomKeepsOpenings` |

### What the theorems assume of the constants

Each assumption is named where its constant is declared, and TLC evaluates it in every run.

* Kinds of requests are known, admins are users (DeskBooking, EnhanceRun). `None`, `Nothing` and
  `Absent` are `null` and so no id, user, organisation, key or answer.
* EnhanceRun, `ValidatedAssumption`: the serializer folds or rejects an input, and what is stored has
  been through it and comes out as it is; batches are not empty, as the serializer asks.
* BookingPages, `TimesAssumption`: an office's day opens and closes within one day and it is up to a day
  ahead of UTC, the browser anywhere; other clients' room times are times of one office day
  (`offices/serializers.py:670-678`: two `TimeField`s and a date). `DatesAssumption`: today, in the browser, may be picked at any of
  the instants. `ThingsAssumption`: what is out of service or on another floor is one of the desks or
  rooms. `ArrivalsAssumption`: the office and floor of a link exist, its desk may not; only links to the
  desk page name one; what was remembered may be gone.
* ClientCache, `PagesAssumption`, `WritesAssumption`: a page mounts list hooks of the code and calls
  API functions of the code, each by its name and as the code has it.
* Session, `UsersAssumption`, `EntriesAssumption`: memberships are sets of organisations, links lead to
  routes of the router. Organisation ids are numbers, since the first one is taken by order.
* FloorEditor and the geometry: thresholds are numbers, the least size of an object is above 0 and not
  above that of a room, which is not above the greatest.
  A wall is at least two pixels thick (`BOUNDARY_WALL_THICKNESS` is 18; half of it decides
  at corners). `VisitsAssumption`: the objects of a visit have the fields of `LayoutObject` and are numbered (ids are names
  here, only a new one has to differ), and the inspector edits width, height and rotation.
  `InputsAssumption`: pointers, keys and number fields give whole pixels, and what is on the floor at first,
  what is added and what a transformer's handles leave has a size (`calculateTransformResult` keeps it at
  `MIN_OBJECT_SIZE` or more). Room and inspector fields may hold any whole number, also none
  that is a size: what becomes of those is what `TypeCorrect` is about.

### Desk booking

`NoDoubleBooking` is not inductive: that the row a transaction is about to
commit clashes with nothing follows from what *other* open transactions may do. The
strengthening goes in layers:

* `BasicInv`: types; a request that has a step has the fields that step uses (`ReqTyped`); two
  requests never share a row id (`RowIds`); cancelled rows of open transactions belong
  to their desk (`RowsOwned`); two workers never hold one desk (`LockMutex`).
* `BookInv` adds that the desk of a booking stays available while its lock is held
  (`DeskStaysOpen`), `LockSettlesDesk`, its counterpart for the user key after the
  `INSERT` (`InsertSettlesUser`), and `NoDoubleBooking`.
* `RetireInv`, for instances without desk edits (`NoDeskEdits`), adds that `wasActive` is
  false only if the desk is already retired (`SkipsOnlyRetired`), that a retirement about to
  commit has every active booking of its desk in its write set (`SweepComplete`), and
  `NoBookingOnRetiredDesk`. The refinement is then one lemma per action: each step is a
  step of the ledger or leaves it alone.

The restriction to instances without desk edits is needed: `desk_deactivation` is the
counterexample otherwise.

### Layout enhancement runs

The invariant follows one run from its request to its commit. `RunIdsOwned` and `PlanOwned` say that
its id and, at the `INSERT`, its plan are its own, which is why a loser finds a winner. `SavedMutex`
is the row lock of a save. `RowsFollowOps`, `RowsTellSaves` and `SingleOps` say that the rows so far are
those of the operations done, in order, that exactly the objects with an applied row are written, and,
for an object with one operation, where the copy stands before and after it. `RunsSound` and
`DerivedFromParent` carry this over to logged runs: what an undo or a retry sets out to do is what its
parent's rows leave. A commit is then one step of EnhanceLog that moves what its rows name, and
every other step but an edit is a stutter of it. `VictimNotSaved` is the one place where the lock order
matters: the deadlock detector never fails a save of an object that the run already holds.

### Request cache

A view's flags decide which answers it may still take. Once its effect has run only answers for its
own key are awaited (`AwaitsScope`); after a refresh the cache is bypassed and the awaited answer is
not older than the refresh (`AwaitsFresh`). For the writes, `Counted` says that every change of a list is one
that was counted, and the lemmas of the last part decide for each write and each hook, by the first parts of their keys,
whether its prefixes cover the list. They do it both ways, which is `LeftCachedIsExact`: a function that
leaves a list it changes is in `LeftCached`, and nothing else is. So the exceptions of
`OwnWriteDropsLists` can neither be too wide nor miss a function of `ApiWrites`.

### Booking pages

Four views of one booking have to agree: the server's row, the request about it that is in flight, what
the client was told, and every list, cached, awaited or shown, it may be in. A list is `Good` if its rows
are the server's, at most with a cancellation it has not seen (`Shape`), and if it says of every booking what
the client was told and no cancellation in flight can change (`Tells`, `Firm`). Answers invalidate
before they tell, so each step keeps that for every list at once. TLC, asked for this invariant with a third
click, showed that the history `told` forgot a cancellation when the answer of its booking came later; the
model was corrected before the proof.

`OffersMatch` adds a second layer: every row of a room lies between two minutes of its office day
(`Slots`). Then an instant's office minutes are the minutes it was made of, bookings of two days never
meet, and the page's comparison of minutes (`slotConflicts`) is the server's comparison of instants. What
is left of the server's checks after the page's own are the four of `Unseen`, so the property needs no
assumption on how the two clocks stand to each other.

### Session

`Settled` is what rendering establishes from any tree, so that each step is shown to keep only what holds
*before* rendering (`Good`): a tree is authenticated exactly with a user, a form is locked exactly while its
own submission is under way, a spinner has a handler that ends it, a wizard's fields are valid past
their steps, and after a logout nothing that waits can bring the session back (`Harmless`). Beside it the
server's memberships and pairs (`ServerGood`), the stored choice (`StorageGood`) and history (`HistGood`).

`RefreshIsQuiet` says why an aged access token is renewed in silence: the tab's token is of a pair whose
refresh token is in the cookie, unspent unless the answer that replaces it is under way (`CookieLives`);
a pair that was issued is presented by nobody before its answer has come (`Unused`); a handler that is
alone presents the cookie (`Renews`); and a retry presents the pair it was just given (`Presents`).

### Floor editor

`SavingIsTold` needs that of an object whose answers can be told apart only one save is in flight
(`SavesAlone`); the guard of `persistObjectPatch` keeps it. The attempt to prove it without exceptions
led to the door that is saved twice (section 3).

`ScreenIsStored` speaks of objects with no request in flight only, so the invariant has to say what happens
while there is one. `Agree` does: of an object that is not excepted at most one request is in flight,
and `Held` relates the page's object, the row, and what the request sends, takes back or answers with, stage by
stage. A save that waits or was refused has the row with its body on the screen and the row's old fields to
put back; one that is done has the row on the screen. `SavingIsTold` is what makes a guarded handler
find no other request. Three facts carry it:

* `Wholes`: every object, row, request, plan and run has its fields and names stored objects, an id is
  at one place of the list, and a new object is not listed before its answer.
* `Keys`: one tidy or undo is in flight at a time, and a plan's key is that of a logged run only if
  its answer is on the way or was lost. So what a replay answers with concerns only excepted objects: a
  replay brings rows as they are now, not as the page's plan has them.
* Every step is one of a few kinds (`SavesMade`, `Sends`, `Quiet`, a stage, an answer), and each kind is
  shown once to keep the three invariants, however the handler computed where an object goes.

### Tidy engine and carved floor

`MovedDesksClear` is about the end of a computation of many passes. Its invariant `TidyInv` says what each
pass leaves: a footprint at every place of the list of the same object as before (`RectsKept`), only
desks and walls elsewhere than given (`OthersStay`), and of the safety pass that the desks up
to `turn` are `Settled`: they stand as given, or collide with nothing but desks that do. Putting one
desk back keeps the others settled, because it then is itself one that stands as given. The passes
before the last may compute any sizes and places: nothing else of them matters.

`FloorIsFramed` is proved for any grid with increasing lines (`IsGrid`), any set of floor cells inside it and
any thickness above one; the lines of a room with cutouts make such a grid (`CarvedGrid`).

* *No gap.* An edge with floor on one side is in a run of its line, and the run is a maximal stretch of one
  side (`UprightSides`, `LevelSides`, `RunThrough`); its wall spans the run.
* *No floor covered.* A wall that meets a cell can reach it only from a line next to it, when edges are a
  wall's thickness apart (`OneColumn`, `RunColumn`); there it lies on the side away from the floor
  (`UprightClear`), and its ends are drawn out at a corner only where the pixel half a wall on is not floor
  (`LevelClear`).

Both are about integers: that places are whole pixels and sizes positive is `TypeOK`, proved next.

### Types of the floor

`TypeOK` says nothing of what is stored, on its way or planned, so the invariant is `Typing`: the same of the room
that waits for its timer, of rows, ghosts and logged runs, and of every field that a request sends, takes back or
answers with; and that each id keeps the type it has in `stored`, since doors and windows may have no size.
`FloorTypesProofs` shows it in three parts.

* *Operators.* What each snap, clamp, push, slide and carried door makes of an object on whole pixels is the
  same object in another place (`MovedTo`), or with another size (`ReshapedTo`). A fold over a list is out
  of the provers' reach as such. The model writes those it needs as recursive functions of a number, and
  `StepsTaken` and `StepsKeep` show once that such a function has values and that what each step keeps, the last value has (`Leads`: a function whose
  value at k + 1 is a step from that at k). A minimum over a set asks that the set is finite, hence the lemmas on
  faces, gaps and spans (`VerticalFaces`, `EndOfSpans`).
* *Editor and server.* One lemma per handler, request and answer, each by what it sends.
* *Engine.* A group of desks is placed in boxes of one standard size, an average that lies between
  the sizes that were averaged (`SumBounds`, `Average`); a run that is fuller than its wall gets narrower desks, never
  below `MIN_OBJECT_SIZE` (`FitRun`), and a stretched one has no more than its wall (`Length`).

`DesksStayOnFloor` follows from two facts about the same boxes. In the room: `InRoom`, which holds through every pass,
says that when all desks fit, each has a size that fits and is where it was given or in the room, because
every placed box ends with a clamp to the room (`Kept`). Off the cutouts: a cutout is never moved
(`OthersStay`), a settled desk that was moved does not collide with its footprint (`Settled`), and what is cut
from the floor is a part of that footprint when the cutout is not turned (`OffCutouts`).

### What is on a wall

`SlideKeepsApart`, `WallKeepsOpenings` and `RoomKeepsOpenings` are about single steps, from any state the invariants
`Wholes`, `Inv` and `Typing` allow. Each proof has the same two halves, and is in the last parts of `FloorTypesProofs`.

* *Who acts.* A new request with a handler's name was sent by that handler (`WhoSends`), only the room's two handlers
  change the room (`WhoResizes`), and an object has after the step the fields of the one change that was made
  of it (`ChangedAfter`). So what the properties say of requests and of the next state is a statement about the geometry.
* *Where it goes.* A slide is clamped to the gap its opening is in, whose ends are a largest and a smallest number of
  what the neighbours take (`GapKeeps`); a stretch ends between the same two (`StretchedKeeps`). A wall and what is on
  it keep their distances when they move together (`MovedTogether`); turned, a half turn
  included (`Rotated`), and scaled, a middle keeps its share of the length (`ShareWithin`, `MountedStays`). What fits a wall of the room is nearer to that wall than to
  the other three (`NearestSide`), so it is carried by it. A share that is rounded down falls short of its wall's near end by
  less than a pixel, and two shares that are rounded keep their distance up to one (`ShareGrows`, `SharesApart`).

The pixels the properties allow are those of the code's roundings, and cannot be less: layouts of odd lengths reach them.
Half a length is taken with a floor, so neighbours that touch may overlap by half a pixel on either side
(slack 2, in half pixels); a share is rounded by itself (slack 1 for a wall, 2 for two doors of a room). The proof of
`RoomKeepsOpenings` needs that the opening is longer than one pixel: in a corner of the room the middle of a shorter one is as
near to the other wall, and may be carried by that one.

### Only model-checked

* Liveness: `EveryRequestEnds` of both services and `StopsLoading`. Fairness and `ENABLED` are beyond the prover.
* `TidyTwiceIsOnce`: that a plan which settled plans nothing more compares two computations of many passes; it
  needs that the engine's choices (`CHOOSE` of a last desk, first rows) are the same on equal footprints.

## 5. Plan

Proofs next:

1. `TidyTwiceIsOnce`, pass by pass.
2. Renewal beside another handler: which of two handlers loses (`apiClient.ts:38`), as a theorem about pairs.

Then the server components that are left, each one module in the style of section 2:
`LayoutObject` (provisioning and retiring, at most one active desk per object), `RoomBooking`
(half-open slots, the exclusion constraint, daylight saving as a function checked on bounded
inputs), `Invitations` (accepted exactly when the membership was granted), `ChatConfirm` ("exactly
once" stated about BookingLedger), `Mfa`.

## 6. Not modelled

* Desk provisioning, room bookings on the server, invitations on the server, the chat bot, accounts
  and MFA on the server: within reach, in the plan. BookingPages has
  the server's booking rules, each request at one instant; in Session the server is external and reduced
  to what the client can tell.
* Booking pages: zones are constant (the times a change to daylight saving leaves out,
  `office_local_to_utc`, are not refused); one floor is shown (desks of another floor that `useDesks` keeps after a
  failed load are not), and the other floor is published; cached desks, rooms and layouts are taken as answers that come at
  once; what is out of service stays so; others cancel nothing. Refusals for membership and
  throttling are the server's refusal for any reason; the shortest and longest slot the server takes
  (`ROOM_BOOKING_MIN_MINUTES`, `ROOM_BOOKING_MAX_MINUTES`) are taken to be the page's. A mounted page is taken to render when time goes on. After a failed
  refetch a page keeps rows that may be stale: `ShownFollowsOwn` speaks of lists that are ready only.
* Floor editor: the retry of a tidy (`useEnhanceTidy.ts:199-216`; the server's side of it is in
  EnhanceRun), and leaving or refreshing the page during a visit. Turns that are not a multiple of
  90 degrees: TLC and the provers have only integers.
* Two tabs of one browser; the session composed with the cache (ClientCache has one user).
* Rendering, setup pages, translations, admin, migrations and the demo seed: drawing and wording, or
  generated and one-shot code without concurrency of its own.
