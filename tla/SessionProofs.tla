----------------------------- MODULE SessionProofs -----------------------------
(***************************************************************************)
(* What Session guarantees for any users, organisations, entries and       *)
(* bounds.  The inductive invariant ties the tree, the handlers that wait  *)
(* and the server's pairs together.  Rendering is the same in every step:  *)
(* what holds of a tree before it is rendered is stated apart (Good), and  *)
(* what rendering adds is shown once (Settled).                            *)
(***************************************************************************)
EXTENDS Session, SequenceTheorems, FiniteSetTheorems, WellFoundedInduction, TLAPS

Views  == Routes \cup {"spinner", "onboarding", "orgSetup"}
Values == {"empty", "ok", "bad"}
Form   == [at : {"idle", "verifying", "loading", "ready", "error", "done", "accepted"}, step : 0 .. LastStep,
           first : Values, second : Values, busy : BOOLEAN, social : BOOLEAN]
Timers == {Nothing} \cup [what : {"leave"}, user : {Nothing}] \cup [what : {"complete"}, user : UserType]
Backs  == {Nothing, "invite"}

Tree == [status : {"loading", "authenticated", "unauthenticated"}, user : UserType \cup {Nothing},
         token : Nat, route : Routes, back : Backs, challenge : Users \cup {Nothing},
         chosen : Orgs \cup {Nothing} \cup Remembered, view : Views, form : Form, mount : Nat \ {0},
         timer : Timers, stray : SUBSET UserType]

\* A tree, rendered or not: who is signed in, and which view a timeout belongs to.
TreeGood(t, n) ==
    /\ t \in Tree /\ t.token <= n
    /\ t.status = "authenticated" => t.user # Nothing
    /\ t.status = "unauthenticated" => t.user = Nothing
    /\ t.timer # Nothing => t.timer.what = IF t.view = "invite" THEN "leave" ELSE "complete"
    /\ t.timer # Nothing => t.view \in {"invite", "onboarding"}

\* What rendering establishes: the guards have nothing left to do.
Settled(t) ==
    /\ ~(t.status = "authenticated" /\ t.route \in Guest)
    /\ ~(t.status = "unauthenticated" /\ t.route \in Protected)
    /\ ~(t.route = "work" /\ hasShell(t) /\ Selected(t) = Nothing)
    /\ t.view = ViewOf(t)
    /\ t.view = "invite" => t.timer = LeaveTimer(t)

Kinds == SignIns \cup {"boot", "form", "page", "invite", "accept", "join", "org", "profile", "logout", "gone"}
Requests == {"refresh", "signin", "me", "public", "get", "post", "avatar", "logout"}

\* A handler is a record of these fields.
Handler(j) == j \in [n : Nat, kind : Kinds, arg : {j.arg}, from : Nat, req : {j.req},
                     stage : {"first", "refresh", "retry"}, tok : Nat, ck : Nat,
                     st : {"sent", "ok", "unauthorized", "refused"}, got : {j.got}, back : Backs,
                     alone : BOOLEAN]

\* Which requests each handler makes.
Asks(j) ==
    \/ j.kind = "boot" /\ j.req \in {"refresh", "me"} /\ j.from = 0
    \/ j.kind \in SignIns /\ j.req \in {"signin", "me"}
    \/ j.kind = "form" /\ j.req \in {"public", "post"}
    \/ j.kind = "page" /\ j.req \in {"public", "post", "get"}
    \/ j.kind = "invite" /\ j.req = "get"
    \/ j.kind \in {"accept", "join", "org"} /\ j.req \in {"post", "me"}
    \/ j.kind = "profile" /\ j.req \in {"post", "avatar"}
    \/ j.kind = "logout" /\ j.req = "logout"
    \/ j.kind = "gone" /\ j.req # "me"

\* What an accepted request was given: a pair, a user, or that MFA is asked for.
Given(j, n) ==
    j.st = "ok" =>
        /\ Asked(j) = "refresh" => j.got \in 1 .. n
        /\ Asked(j) = "signin" => j.got = Nothing \/ j.got \in 1 .. n
        /\ j.stage # "refresh" /\ (j.req \in {"me", "avatar"} \/ j.kind = "profile") => j.got \in UserType

Valid(f) == f.first = "ok" /\ f.second # "bad"

HandlerGood(j, n, k) ==
    /\ Handler(j) /\ j.req \in Requests /\ Asks(j) /\ Given(j, n)
    /\ j.n \in 1 .. k /\ j.tok <= n /\ j.ck <= n
    /\ j.stage # "first" => j.req \notin NoRefreshPaths
    /\ j.req = "signin" => j.arg \in Users
    /\ j.kind \in {"org", "profile"} => Valid(j.arg)

HandlersGood(J, n, k, m) == \A j \in J : HandlerGood(j, n, k) /\ j.from <= m

\* The submissions of the form that is mounted, and the locks of the form.
Own(J, m)    == {j \in J : j.from = m /\ j.kind \notin {"page", "invite", "logout", "gone"}}
OwnForms(J, m)  == {j \in Own(J, m) : j.kind # "social"}
OwnSocial(J, m) == {j \in Own(J, m) : j.kind = "social"}
AtMostOne(S) == \A x, y \in S : x = y
Locked(f, J, m) ==
    /\ f.busy <=> OwnForms(J, m) # {}
    /\ f.social <=> OwnSocial(J, m) # {}
    /\ AtMostOne(OwnForms(J, m)) /\ AtMostOne(OwnSocial(J, m))

\* The view a submission belongs to while it is mounted.  Asking for the user again
\* unmounts the shell.
OnView(J, m, v, status) ==
    \A j \in J : j.from = m =>
        /\ j.kind = "join" => v = "app"
        /\ j.kind = "org" => v = "orgSetup"
        /\ j.kind = "profile" => v = "onboarding"
        /\ j.kind \in {"join", "org"} /\ j.req = "me" => status = "loading"

\* A wizard's fields are valid past the steps that ask for them.
Wizards(v, f) ==
    v \in {"orgSetup", "onboarding"} => /\ f.step > 1 => f.first = "ok"
                                        /\ f.step > 3 => f.second # "bad"

Settles(j) == j.kind = "boot" \/ (j.kind \in {"accept", "join", "org"} /\ j.req = "me")
SpinnerEnds(status, J) == status = "loading" => \E j \in J : Settles(j)

\* After a logout nothing that waits can bring the session back, but a sign-in.
Harmless(j) ==
    \/ j.kind = "gone"
    \/ j.req \in {"signin", "public"}
    \/ j.kind = "invite" /\ j.tok = 0 /\ j.stage = "first" /\ j.st # "unauthorized"
    \/ j.kind = "boot" /\ j.req = "refresh" /\ j.ck = 0 /\ j.st # "ok"
Out(out, t, J, ck) ==
    out => /\ ck = 0 /\ t.token = 0 /\ t.status # "authenticated" /\ t.user = Nothing /\ t.stray = {}
           /\ \A j \in J : Harmless(j)

\* A tree and the handlers, with n pairs issued, k handlers made, cookie ck and the logout bit.
Good(t, J, n, k, ck, out) ==
    /\ TreeGood(t, n)
    /\ HandlersGood(J, n, k, t.mount)
    /\ Locked(t.form, J, t.mount)
    /\ OnView(J, t.mount, t.view, t.status)
    /\ Wizards(t.view, t.form)
    /\ SpinnerEnds(t.status, J)
    /\ Out(out, t, J, ck)
    /\ ck \in 0 .. n

PairType == [user : Users, access : BOOLEAN, refresh : BOOLEAN, aged : BOOLEAN]
ServerGood ==
    /\ issued \in Seq(PairType) /\ members \in [Users -> SUBSET Orgs]
    /\ complete \subseteq Users /\ invited \in BOOLEAN

StorageGood ==
    /\ storage \in [org : Orgs \cup {Nothing} \cup Remembered, invite : BOOLEAN]
    /\ hasShell(tab) => storage.org = Selected(tab)

HistGood == /\ hist \in [out : BOOLEAN, expiry : {hist.expiry}]
            /\ made \in Nat \ {0}

Whole == Good(tab, jobs, Len(issued), made, jar, hist.out)
Inv == Whole /\ Settled(tab) /\ ServerGood /\ StorageGood /\ HistGood
----------------------------------------------------------------------------
(* The selected organisation.                                              *)

\* Among some organisations there is a first.
LEMMA LeastExists ==
    ASSUME NEW S \in SUBSET Nat, S # {}
    PROVE  \E o \in S : \A p \in S : o <= p
<1> DEFINE R == OpToRel(<, Nat)
<1>1. \E o \in S : \A p \in S : <<p, o>> \notin R
  <2>1. IsWellFoundedOn(R, Nat)
    BY NatLessThanWellFounded, Zenon DEF R
  <2> HIDE DEF R
  <2>2. QED
    BY <2>1, WFMin
<1>2. PICK o \in S : \A p \in S : <<p, o>> \notin R
  BY <1>1
<1>3. \A p \in S : ~(p < o)
  BY <1>2, Zenon DEF OpToRel
<1>4. QED
  BY <1>3

\* FirstOrg is one of the organisations it is given.
LEMMA FirstOrgIn ==
    ASSUME NEW orgs \in SUBSET Orgs, orgs # {}
    PROVE  FirstOrg(orgs) \in orgs
<1>1. \E o \in orgs : \A p \in orgs : o <= p
  BY LeastExists, OrgsAreNumbers
<1>2. QED
  BY <1>1 DEF FirstOrg

\* The selection of a tree with a user is one of the user's organisations, or null without any.
LEMMA SelectedIn ==
    ASSUME NEW t \in Tree, t.user \in UserType
    PROVE  /\ Selected(t) \in t.user.orgs \cup {Nothing}
           /\ Selected(t) = Nothing <=> t.user.orgs = {}
           /\ Selected(t) \in Orgs \cup {Nothing}
<1>1. t.user.orgs \in SUBSET Orgs /\ Nothing \notin t.user.orgs
  BY NothingAssumption DEF UserType
<1>2. CASE t.user.orgs = {}
  BY <1>1, <1>2 DEF Selected, FirstOrg
<1>3. CASE t.user.orgs # {}
  <2>1. FirstOrg(t.user.orgs) \in t.user.orgs
    BY <1>1, <1>3, FirstOrgIn
  <2>2. QED
    BY <1>1, <1>3, <2>1 DEF Selected
<1>4. QED
  BY <1>2, <1>3

----------------------------------------------------------------------------
(* Rendering.                                                              *)

LEMMA NewFormType ==
    ASSUME NEW v
    PROVE  /\ NewForm(v) \in Form /\ NewForm(v).step = 0
           /\ ~NewForm(v).busy /\ ~NewForm(v).social
           /\ NewForm(v).at # "accepted"
BY DEF NewForm, Form, LastStep, Values

\* A user is not null.
LEMMA SomeUser == ASSUME NEW u \in UserType PROVE u # Nothing
BY NothingAssumption

LEMMA ViewType == ASSUME NEW t \in Tree PROVE ViewOf(t) \in Views
BY DEF ViewOf, Views, Tree

\* Trees that differ at most in the route, the way back and the selection.
Alike(r, t) ==
    /\ r.status = t.status /\ r.user = t.user /\ r.token = t.token /\ r.challenge = t.challenge
    /\ r.view = t.view /\ r.form = t.form /\ r.mount = t.mount /\ r.timer = t.timer /\ r.stray = t.stray

\* The guards change the route, the way back and the selection, and leave nothing to do.
LEMMA GuardsSettle ==
    ASSUME NEW t \in Tree, NEW r, storage.org \in Orgs \cup {Nothing} \cup Remembered,
           r = WorkspaceRequiredRoute(SelectedOrganizationProvider(ProtectedRoute(GuestOnlyRoute(t))))
    PROVE  /\ r \in Tree /\ Alike(r, t)
           /\ ~(r.status = "authenticated" /\ r.route \in Guest)
           /\ ~(r.status = "unauthenticated" /\ r.route \in Protected)
           /\ ~(r.route = "work" /\ hasShell(r) /\ Selected(r) = Nothing)
<1> DEFINE a == GuestOnlyRoute(t)
           b == ProtectedRoute(a)
           c == SelectedOrganizationProvider(b)
<1>1. /\ a \in Tree /\ Alike(a, t)
      /\ ~(a.status = "authenticated" /\ a.route \in Guest)
  BY DEF GuestOnlyRoute, Tree, Routes, Guest, Protected, Alike
<1> HIDE DEF a
<1>2. /\ b \in Tree /\ Alike(b, a)
      /\ ~(b.status = "authenticated" /\ b.route \in Guest)
      /\ ~(b.status = "unauthenticated" /\ b.route \in Protected)
  <2>1. CASE a.status = "unauthenticated" /\ a.route \in Protected
    <3>1. b = [a EXCEPT !.route = "login", !.back = Nothing]
      BY <2>1 DEF ProtectedRoute
    <3>2. b \in Tree /\ Alike(b, a) /\ b.route = "login" /\ b.status = "unauthenticated"
      BY <1>1, <2>1, <3>1 DEF Tree, Alike, Routes, Guest, Backs
    <3>3. QED
      BY <3>2 DEF Protected
  <2>2. CASE ~(a.status = "unauthenticated" /\ a.route \in Protected)
    <3>1. b = a
      BY <2>2 DEF ProtectedRoute
    <3>2. QED
      BY <1>1, <2>2, <3>1 DEF Alike
  <2>3. QED
    BY <2>1, <2>2
<1> HIDE DEF b
<1>3. /\ c \in Tree /\ Alike(c, b) /\ c.route = b.route
  BY <1>2 DEF SelectedOrganizationProvider, Tree, Alike
<1> HIDE DEF c
<1>4. r = WorkspaceRequiredRoute(c)
  BY DEF a, b, c
<1>5. /\ r \in Tree /\ Alike(r, c)
      /\ ~(r.status = "authenticated" /\ r.route \in Guest)
      /\ ~(r.status = "unauthenticated" /\ r.route \in Protected)
      /\ ~(r.route = "work" /\ hasShell(r) /\ Selected(r) = Nothing)
  <2>1. CASE c.route = "work" /\ hasShell(c) /\ Selected(c) = Nothing
    <3>1. r = [c EXCEPT !.route = "app"]
      BY <1>4, <2>1 DEF WorkspaceRequiredRoute
    <3>2. r \in Tree /\ Alike(r, c) /\ r.route = "app" /\ r.status = "authenticated"
      BY <1>3, <2>1, <3>1 DEF Tree, Alike, Routes, Protected, hasShell
    <3>3. QED
      BY <3>2 DEF Guest
  <2>2. CASE ~(c.route = "work" /\ hasShell(c) /\ Selected(c) = Nothing)
    <3>1. r = c
      BY <1>4, <2>2 DEF WorkspaceRequiredRoute
    <3>2. QED
      BY <1>2, <1>3, <2>2, <3>1 DEF Alike
  <2>3. QED
    BY <2>1, <2>2
<1>6. Alike(r, t)
  BY <1>1, <1>2, <1>3, <1>5 DEF Alike
<1>7. QED
  BY <1>5, <1>6

\* A page stays as it is, but for the timeout of the invitation's, or another one mounts.
LEMMA MountedIs ==
    ASSUME NEW r \in Tree, NEW m, m = Mounted(r)
    PROVE  /\ m \in Tree
           /\ m.status = r.status /\ m.user = r.user /\ m.token = r.token /\ m.stray = r.stray
           /\ m.route = r.route /\ m.chosen = r.chosen /\ m.view = ViewOf(r)
           /\ \/ /\ m.view = r.view /\ m.mount = r.mount /\ m.form = r.form
                 /\ m.timer = IF m.view = "invite" THEN LeaveTimer(r) ELSE r.timer
              \/ /\ m.view # r.view /\ m.mount = r.mount + 1 /\ m.form = NewForm(m.view)
                 /\ m.timer = Nothing
<1>0. LeaveTimer(r) \in Timers
  BY DEF LeaveTimer, Timers
<1>1. CASE ViewOf(r) = r.view /\ r.view = "invite"
  <2>1. m = [r EXCEPT !.timer = LeaveTimer(r)]
    BY <1>1 DEF Mounted
  <2>2. QED
    BY <1>0, <1>1, <2>1 DEF Tree
<1>2. CASE ViewOf(r) = r.view /\ r.view # "invite"
  <2>1. m = r
    BY <1>2 DEF Mounted
  <2>2. QED
    BY <1>2, <2>1
<1>3. CASE ViewOf(r) # r.view
  <2> DEFINE v == ViewOf(r)
             f == NewForm(v)
  <2>1. m = [r EXCEPT !.view = v, !.form = f, !.timer = Nothing, !.mount = r.mount + 1]
    BY <1>3 DEF Mounted
  <2>2. v \in Views /\ f \in Form /\ Nothing \in Timers /\ v # r.view
    BY <1>3, ViewType, NewFormType DEF Timers
  <2> HIDE DEF v, f
  <2>3. /\ m.status = r.status /\ m.user = r.user /\ m.token = r.token /\ m.stray = r.stray
        /\ m.route = r.route /\ m.chosen = r.chosen /\ m.view = v
        /\ m.mount = r.mount + 1 /\ m.form = f /\ m.timer = Nothing
    BY <2>1 DEF Tree
  <2>4. r.mount + 1 \in Nat \ {0}
    BY DEF Tree
  <2> DEFINE next == r.mount + 1
  <2> HIDE DEF next
  <2>5. m = [r EXCEPT !.view = v, !.form = f, !.timer = Nothing, !.mount = next] /\ next \in Nat \ {0}
    BY <2>1, <2>4 DEF next
  <2>6. m \in Tree
    BY <2>2, <2>5 DEF Tree
  <2>7. QED
    BY <2>2, <2>3, <2>6 DEF v, f
<1>4. QED
  BY <1>1, <1>2, <1>3
\* Rendering leaves the token in memory alone.
LEMMA TokenKept ==
    ASSUME StorageGood, NEW t \in Tree, NEW invite, Render(t, invite)
    PROVE  tab'.token = t.token
<1> DEFINE r == WorkspaceRequiredRoute(SelectedOrganizationProvider(ProtectedRoute(GuestOnlyRoute(t))))
<1>1. r \in Tree /\ Alike(r, t)
  BY GuardsSettle DEF StorageGood
<1>2. tab' = Mounted(r)
  BY DEF Render, Rendered
<1> HIDE DEF r
<1>3. tab'.token = r.token
  BY <1>1, <1>2, MountedIs
<1>4. QED
  BY <1>1, <1>3 DEF Alike

\* A page that mounts has no handler yet, whatever the number of its mount was for.
LEMMA NoneYet ==
    ASSUME NEW J, NEW n, NEW k, NEW m \in Nat, HandlersGood(J, n, k, m)
    PROVE  Own(J, m + 1) = {} /\ \A j \in J : j.from # m + 1 /\ j.from <= m + 1
<1>1. \A j \in J : j.from \in Nat /\ j.from <= m
  BY DEF HandlersGood, HandlerGood, Handler
<1>2. \A j \in J : j.from # m + 1 /\ j.from <= m + 1
  BY <1>1
<1>3. QED
  BY <1>2 DEF Own

\* Rendering keeps what holds of a tree and the handlers, and settles it.
LEMMA RenderGood ==
    ASSUME NEW t, NEW J, NEW n, NEW k, NEW ck, NEW out, NEW m,
           storage.org \in Orgs \cup {Nothing} \cup Remembered,
           Good(t, J, n, k, ck, out), m = Rendered(t)
    PROVE  Good(m, J, n, k, ck, out) /\ Settled(m)
<1> DEFINE r == WorkspaceRequiredRoute(SelectedOrganizationProvider(ProtectedRoute(GuestOnlyRoute(t))))
<1>1. TreeGood(t, n) /\ t \in Tree
  BY DEF Good, TreeGood
<1>2. /\ r \in Tree /\ Alike(r, t)
      /\ ~(r.status = "authenticated" /\ r.route \in Guest)
      /\ ~(r.status = "unauthenticated" /\ r.route \in Protected)
      /\ ~(r.route = "work" /\ hasShell(r) /\ Selected(r) = Nothing)
  BY <1>1, GuardsSettle
<1>3. m = Mounted(r)
  BY DEF Rendered
<1> HIDE DEF r
<1>4. /\ m \in Tree
      /\ m.status = r.status /\ m.user = r.user /\ m.token = r.token /\ m.stray = r.stray
      /\ m.route = r.route /\ m.chosen = r.chosen /\ m.view = ViewOf(r)
      /\ \/ /\ m.view = r.view /\ m.mount = r.mount /\ m.form = r.form
            /\ m.timer = IF m.view = "invite" THEN LeaveTimer(r) ELSE r.timer
         \/ /\ m.view # r.view /\ m.mount = r.mount + 1 /\ m.form = NewForm(m.view)
            /\ m.timer = Nothing
  BY <1>2, <1>3, MountedIs
<1>5. Settled(m)
  <2>1. ViewOf(m) = ViewOf(r) /\ Selected(m) = Selected(r) /\ (hasShell(m) <=> hasShell(r))
    BY <1>4 DEF ViewOf, Selected, hasShell
  <2>2. m.view = "invite" => m.timer = LeaveTimer(m)
    BY <1>4, NewFormType DEF LeaveTimer
  <2>3. QED
    BY <1>2, <1>4, <2>1, <2>2 DEF Settled
<1>6. TreeGood(m, n)
  <2>1. /\ m.token = t.token /\ m.status = t.status /\ m.user = t.user
        /\ r.timer = t.timer /\ r.view = t.view
    BY <1>2, <1>4 DEF Alike
  <2>2. LeaveTimer(r) # Nothing => LeaveTimer(r).what = "leave"
    BY DEF LeaveTimer
  <2>3. m.timer # Nothing => /\ m.timer.what = IF m.view = "invite" THEN "leave" ELSE "complete"
                             /\ m.view \in {"invite", "onboarding"}
    BY <1>1, <1>4, <2>1, <2>2 DEF TreeGood
  <2>4. QED
    BY <1>1, <1>4, <2>1, <2>3 DEF TreeGood
<1>7. /\ HandlersGood(J, n, k, m.mount) /\ Locked(m.form, J, m.mount)
      /\ OnView(J, m.mount, m.view, m.status) /\ Wizards(m.view, m.form)
  <2>1. CASE m.view = r.view /\ m.mount = r.mount /\ m.form = r.form
    <3>1. m.view = t.view /\ m.mount = t.mount /\ m.form = t.form /\ m.status = t.status
      BY <1>2, <1>4, <2>1 DEF Alike
    <3>2. QED
      BY <3>1 DEF Good
  <2>2. CASE m.mount = r.mount + 1 /\ m.form = NewForm(m.view)
    <3>1. m.mount = t.mount + 1 /\ t.mount \in Nat
      BY <1>1, <1>2, <2>2 DEF Alike, Tree
    <3>2. HandlersGood(J, n, k, t.mount)
      BY DEF Good
    <3>3. Own(J, m.mount) = {} /\ \A j \in J : j.from # m.mount /\ j.from <= m.mount
      BY <3>1, <3>2, NoneYet
    <3>4. HandlersGood(J, n, k, m.mount)
      BY <3>2, <3>3 DEF HandlersGood
    <3>5. Locked(m.form, J, m.mount)
      BY <2>2, <3>3, NewFormType DEF Locked, OwnForms, OwnSocial, AtMostOne
    <3>6. OnView(J, m.mount, m.view, m.status)
      BY <3>3 DEF OnView
    <3>7. Wizards(m.view, m.form)
      BY <2>2, NewFormType DEF Wizards
    <3>8. QED
      BY <3>4, <3>5, <3>6, <3>7
  <2>3. QED
    BY <1>4, <2>1, <2>2
<1>8. SpinnerEnds(m.status, J) /\ Out(out, m, J, ck) /\ ck \in 0 .. n
  BY <1>2, <1>4 DEF Good, Alike, SpinnerEnds, Out
<1>9. QED
  BY <1>5, <1>6, <1>7, <1>8 DEF Good

\* What a settled page shows: the shell's pages are for a signed-in user.
ShellViews == Protected \cup {"onboarding", "orgSetup"}

LEMMA ShellView ==
    ASSUME NEW t \in Tree, NEW n, TreeGood(t, n), Settled(t), t.view \in ShellViews
    PROVE  t.status = "authenticated" /\ t.route \in Protected /\ hasShell(t) /\ t.user \in UserType
<1>1. t.view = ViewOf(t) /\ t.route \in Routes
  BY DEF Settled, Tree
<1>2. t.route # "invite" /\ t.status # "loading"
  BY <1>1 DEF ViewOf, ShellViews, Protected
<1>3. t.route \in Protected
  BY <1>1, <1>2 DEF ViewOf, ShellViews, Protected, Routes, Guest
<1>4. t.status = "authenticated"
  BY <1>2, <1>3 DEF Settled, Tree
<1>5. t.user \in UserType
  BY <1>4 DEF TreeGood, Tree
<1>6. QED
  BY <1>3, <1>4, <1>5 DEF hasShell
----------------------------------------------------------------------------
(* Handlers come and go.                                                   *)

\* The number of a pair, and of a handler, stay known.
LEMMA MoreIsGood ==
    ASSUME NEW t, NEW J, NEW n \in Nat, NEW k \in Nat, NEW ck, NEW out, NEW n2 \in Nat, NEW k2 \in Nat,
           n <= n2, k <= k2, Good(t, J, n, k, ck, out)
    PROVE  Good(t, J, n2, k2, ck, out)
<1>1. TreeGood(t, n2)
  BY DEF Good, TreeGood, Tree
<1>2. ASSUME NEW j \in J PROVE HandlerGood(j, n2, k2) /\ j.from <= t.mount
  <2>1. HandlerGood(j, n, k) /\ j.from <= t.mount
    BY DEF Good, HandlersGood
  <2>2. j.n \in 1 .. k2 /\ j.tok <= n2 /\ j.ck <= n2
    BY <2>1 DEF HandlerGood, Handler
  <2>3. Given(j, n2)
    BY <2>1 DEF HandlerGood, Given
  <2>4. QED
    BY <2>1, <2>2, <2>3 DEF HandlerGood
<1>3. HandlersGood(J, n2, k2, t.mount)
  BY <1>2 DEF HandlersGood
<1>4. QED
  BY <1>1, <1>3 DEF Good

\* No handler of the page that is mounted waits for the user after its own request:
\* the shell is gone while it does.
LEMMA NoneWaitsForUser ==
    ASSUME NEW t, NEW J, NEW n, NEW k, NEW ck, NEW out, Good(t, J, n, k, ck, out), Settled(t),
           NEW j \in J, j.from = t.mount, j.kind \in {"join", "org"}
    PROVE  j.req # "me"
<1>1. t \in Tree /\ TreeGood(t, n)
  BY DEF Good, TreeGood
<1>2. t.view \in {"app", "orgSetup"}
  BY DEF Good, OnView
<1>3. t.status = "authenticated"
  BY <1>1, <1>2, ShellView DEF ShellViews, Protected
<1>4. QED
  BY <1>3 DEF Good, OnView

\* The locks when a handler has ended.
LEMMA EndsLocked ==
    ASSUME NEW f, NEW g, NEW J, NEW m, NEW j \in J, Locked(f, J, m),
           g.busy <=> f.busy /\ j \notin OwnForms(J, m),
           g.social <=> f.social /\ j \notin OwnSocial(J, m)
    PROVE  Locked(g, J \ {j}, m)
<1>1. OwnForms(J \ {j}, m) = OwnForms(J, m) \ {j} /\ OwnSocial(J \ {j}, m) = OwnSocial(J, m) \ {j}
  BY DEF OwnForms, OwnSocial, Own
<1>2. AtMostOne(OwnForms(J, m)) /\ AtMostOne(OwnSocial(J, m))
  BY DEF Locked
<1>3. AtMostOne(OwnForms(J \ {j}, m)) /\ AtMostOne(OwnSocial(J \ {j}, m))
  BY <1>1, <1>2 DEF AtMostOne
<1>4. g.busy <=> OwnForms(J \ {j}, m) # {}
  BY <1>1, <1>2 DEF Locked, AtMostOne
<1>5. g.social <=> OwnSocial(J \ {j}, m) # {}
  BY <1>1, <1>2 DEF Locked, AtMostOne
<1>6. QED
  BY <1>3, <1>4, <1>5 DEF Locked

\* The locks when a handler has gone on.
LEMMA ContinuesLocked ==
    ASSUME NEW f, NEW J, NEW m, NEW j \in J, NEW i, Locked(f, J, m), i.from = j.from, i.kind = j.kind
    PROVE  Locked(f, (J \ {j}) \cup {i}, m)
<1> DEFINE K == (J \ {j}) \cup {i}
<1>1. OwnForms(K, m) = (OwnForms(J, m) \ {j}) \cup (IF j \in OwnForms(J, m) THEN {i} ELSE {})
  BY DEF OwnForms, Own
<1>2. OwnSocial(K, m) = (OwnSocial(J, m) \ {j}) \cup (IF j \in OwnSocial(J, m) THEN {i} ELSE {})
  BY DEF OwnSocial, Own
<1>3. AtMostOne(OwnForms(J, m)) /\ AtMostOne(OwnSocial(J, m))
  BY DEF Locked
<1> HIDE DEF K
<1>4. AtMostOne(OwnForms(K, m)) /\ AtMostOne(OwnSocial(K, m))
  BY <1>1, <1>2, <1>3 DEF AtMostOne
<1>5. OwnForms(K, m) # {} <=> OwnForms(J, m) # {}
  BY <1>1, <1>3 DEF AtMostOne
<1>6. OwnSocial(K, m) # {} <=> OwnSocial(J, m) # {}
  BY <1>2, <1>3 DEF AtMostOne
<1>7. Locked(f, K, m)
  BY <1>4, <1>5, <1>6 DEF Locked
<1>8. QED
  BY <1>7 DEF K

\* A handler has ended, and left tree t2.
LEMMA EndsGood ==
    ASSUME NEW t, NEW J, NEW n, NEW k, NEW ck, NEW out, Good(t, J, n, k, ck, out), Settled(t),
           NEW j \in J, NEW t2, NEW ck2, NEW out2,
           TreeGood(t2, n), t2.mount = t.mount, t2.view = t.view,
           t2.form.step = t.form.step, t2.form.first = t.form.first, t2.form.second = t.form.second,
           t2.form.busy <=> t.form.busy /\ j \notin OwnForms(J, t.mount),
           t2.form.social <=> t.form.social /\ j \notin OwnSocial(J, t.mount),
           t2.status = "loading" => t.status = "loading" /\ ~Settles(j),
           Out(out2, t2, J \ {j}, ck2), ck2 \in 0 .. n
    PROVE  Good(t2, J \ {j}, n, k, ck2, out2)
<1>1. HandlersGood(J \ {j}, n, k, t2.mount)
  BY DEF Good, HandlersGood
<1>2. Locked(t2.form, J \ {j}, t2.mount)
  BY EndsLocked DEF Good
<1>3. OnView(J \ {j}, t2.mount, t2.view, t2.status)
  BY NoneWaitsForUser DEF Good, OnView
<1>4. Wizards(t2.view, t2.form)
  BY DEF Good, Wizards
<1>5. SpinnerEnds(t2.status, J \ {j})
  BY DEF Good, SpinnerEnds
<1>6. QED
  BY <1>1, <1>2, <1>3, <1>4, <1>5 DEF Good

\* A handler has gone on, as i, and left tree t2.
LEMMA ContinuesGood ==
    ASSUME NEW t, NEW J, NEW n, NEW k, NEW ck, NEW out, Good(t, J, n, k, ck, out), Settled(t),
           NEW j \in J, NEW i, NEW t2, NEW ck2, NEW out2,
           HandlerGood(i, n, k), i.from = j.from, i.kind = j.kind,
           TreeGood(t2, n), t2.mount = t.mount, t2.view = t.view, t2.form = t.form,
           t2.status = "loading" => (t.status = "loading" /\ (Settles(j) => Settles(i))) \/ Settles(i),
           i.kind \in {"join", "org"} /\ i.req = "me" => j.req = "me" \/ t2.status = "loading",
           Out(out2, t2, (J \ {j}) \cup {i}, ck2), ck2 \in 0 .. n
    PROVE  Good(t2, (J \ {j}) \cup {i}, n, k, ck2, out2)
<1> DEFINE K == (J \ {j}) \cup {i}
<1>1. HandlersGood(K, n, k, t2.mount)
  BY DEF Good, HandlersGood
<1>2. Locked(t2.form, K, t2.mount)
  BY ContinuesLocked DEF Good
<1>3. OnView(K, t2.mount, t2.view, t2.status)
  BY NoneWaitsForUser DEF Good, OnView
<1>4. Wizards(t2.view, t2.form)
  BY DEF Good, Wizards
<1>5. SpinnerEnds(t2.status, K)
  BY DEF Good, SpinnerEnds
<1> HIDE DEF K
<1>6. Good(t2, K, n, k, ck2, out2)
  BY <1>1, <1>2, <1>3, <1>4, <1>5 DEF Good, K
<1>7. QED
  BY <1>6 DEF K
\* Handler i is j with a request, which presents the token of tree t, or none, and a cookie.
Requested(i, t, j, req, stage, cookie) ==
    /\ Handler(i) /\ i.req = req /\ i.stage = stage /\ i.st = "sent" /\ i.ck = cookie
    /\ i.n = j.n /\ i.kind = j.kind /\ i.from = j.from /\ i.arg = j.arg /\ i.alone = j.alone
    /\ i.tok \in {0, t.token}
    /\ stage = "retry" /\ req \notin NoRefreshPaths => i.tok = t.token

\* A request of a handler: what it presents, and that it waits.
LEMMA RequestIs ==
    ASSUME NEW t, t.token \in Nat, NEW j, Handler(j), NEW req \in Requests, NEW stage \in {"first", "refresh", "retry"},
           NEW cookie \in Nat, NEW i, i = Request(t, j, req, stage, cookie)
    PROVE  Requested(i, t, j, req, stage, cookie)
<1> DEFINE tok == IF stage = "refresh" \/ req \in {"refresh", "signin"} THEN 0 ELSE t.token
<1>1. i = [j EXCEPT !.req = req, !.stage = stage, !.tok = tok, !.ck = cookie, !.st = "sent", !.got = Nothing]
  BY DEF Request, buildHeaders, Handler
<1>2. tok \in {0, t.token} /\ tok \in Nat /\ (stage = "retry" /\ req \notin NoRefreshPaths => tok = t.token)
  BY DEF NoRefreshPaths
<1> HIDE DEF tok
<1>3. /\ i.req = req /\ i.stage = stage /\ i.st = "sent" /\ i.ck = cookie /\ i.got = Nothing
      /\ i.n = j.n /\ i.kind = j.kind /\ i.from = j.from /\ i.arg = j.arg /\ i.alone = j.alone /\ i.tok = tok
  BY <1>1 DEF Handler
<1>4. Handler(i)
  BY <1>1, <1>2, <1>3 DEF Handler
<1>5. QED
  BY <1>2, <1>3, <1>4 DEF Requested

LEMMA RequestGood ==
    ASSUME NEW n \in Nat, NEW k, NEW t, TreeGood(t, n), NEW j, HandlerGood(j, n, k),
           NEW req \in Requests, NEW stage \in {"first", "refresh", "retry"},
           NEW cookie \in 0 .. n, NEW i, i = Request(t, j, req, stage, cookie), Asks(i),
           stage # "first" => req \notin NoRefreshPaths,
           req = "signin" => j.arg \in Users
    PROVE  HandlerGood(i, n, k) /\ Requested(i, t, j, req, stage, cookie)
<1>1. t.token \in Nat /\ t.token <= n /\ cookie \in Nat /\ cookie <= n
  BY DEF TreeGood, Tree
<1>2. Requested(i, t, j, req, stage, cookie)
  <2>1. Handler(j)
    BY DEF HandlerGood
  <2>2. QED
    BY <1>1, <2>1, RequestIs
<1>3. Given(i, n)
  BY <1>2 DEF Given, Requested
<1>4. QED
  BY <1>1, <1>2, <1>3 DEF HandlerGood, Requested

\* An answer of the server, which may have issued a pair.
LEMMA AnsweredGood ==
    ASSUME NEW t, NEW J, NEW n \in Nat, NEW k \in Nat, NEW ck, NEW out, Good(t, J, n, k, ck, out), Settled(t),
           NEW j \in J, NEW n2 \in Nat, n <= n2,
           NEW st \in {"ok", "unauthorized", "refused"}, NEW got, NEW i, i = [j EXCEPT !.st = st, !.got = got],
           st = "ok" => /\ Asked(j) = "refresh" => got \in 1 .. n2
                        /\ Asked(j) = "signin" => got = Nothing \/ got \in 1 .. n2
                        /\ j.stage # "refresh" /\ (j.req \in {"me", "avatar"} \/ j.kind = "profile") => got \in UserType,
           out => \/ j.kind = "gone" \/ j.req \in {"signin", "public"}
                  \/ j.kind = "invite" /\ (j.tok = 0 /\ j.stage = "first" => st # "unauthorized")
                  \/ j.kind = "boot" /\ (j.req = "refresh" /\ j.ck = 0 => st # "ok")
    PROVE  Good(t, (J \ {j}) \cup {i}, n2, k, ck, out)
<1>0. Good(t, J, n2, k, ck, out)
  BY MoreIsGood
<1>1. HandlerGood(j, n2, k)
  BY <1>0 DEF Good, HandlersGood
<1>2. Handler(j)
  BY <1>1 DEF HandlerGood
<1>3. /\ i.n = j.n /\ i.kind = j.kind /\ i.from = j.from /\ i.arg = j.arg /\ i.req = j.req
      /\ i.stage = j.stage /\ i.tok = j.tok /\ i.ck = j.ck /\ i.st = st /\ i.got = got
  BY <1>2 DEF Handler
<1>4. Handler(i)
  BY <1>2, <1>3 DEF Handler
<1>5. Given(i, n2)
  BY <1>3 DEF Given, Asked
<1>6. Asks(i)
  BY <1>1, <1>3 DEF HandlerGood, Asks
<1>7. HandlerGood(i, n2, k)
  BY <1>1, <1>3, <1>4, <1>5, <1>6 DEF HandlerGood
<1>8. Settles(j) => Settles(i)
  BY <1>3 DEF Settles
<1>9. Out(out, t, (J \ {j}) \cup {i}, ck)
  <2> SUFFICES ASSUME out PROVE Out(out, t, (J \ {j}) \cup {i}, ck)
    BY DEF Out
  <2>1. Out(out, t, J, ck)
    BY DEF Good
  <2>2. Harmless(j)
    BY <2>1 DEF Out
  <2>3. Harmless(i)
    BY <1>1, <1>3, <2>2 DEF Harmless, HandlerGood, Asks
  <2>4. QED
    BY <2>1, <2>3 DEF Out
<1>10. TreeGood(t, n2) /\ ck \in 0 .. n2
  BY <1>0 DEF Good
<1>11. QED
  BY <1>0, <1>3, <1>7, <1>8, <1>9, <1>10, ContinuesGood

----------------------------------------------------------------------------
(* A handler starts.                                                       *)

\* The handlers that were waiting are not alone any more: nothing else of them changes.
Quiet(j) == [j EXCEPT !.alone = FALSE]

LEMMA QuietIs ==
    ASSUME NEW j, Handler(j), NEW i, i = Quiet(j)
    PROVE  /\ Handler(i) /\ i.n = j.n /\ i.kind = j.kind /\ i.from = j.from /\ i.arg = j.arg /\ i.req = j.req
           /\ i.stage = j.stage /\ i.tok = j.tok /\ i.ck = j.ck /\ i.st = j.st /\ i.got = j.got
<1>1. /\ i.n = j.n /\ i.kind = j.kind /\ i.from = j.from /\ i.arg = j.arg /\ i.req = j.req
      /\ i.stage = j.stage /\ i.tok = j.tok /\ i.ck = j.ck /\ i.st = j.st /\ i.got = j.got
  BY DEF Handler, Quiet
<1>2. Handler(i)
  BY <1>1 DEF Handler, Quiet
<1>3. QED
  BY <1>1, <1>2

\* Q are the handlers of J, quiet.
Echoes(Q, J) ==
    /\ \A q \in Q : \E j \in J : q = Quiet(j) /\ q.from = j.from /\ q.kind = j.kind
    /\ \A j \in J : \E q \in Q : q.from = j.from /\ q.kind = j.kind

\* The locks when handler r has started beside those waiting.
LEMMA StartsLocked ==
    ASSUME NEW f, NEW g, NEW J, NEW Q, NEW m, NEW r, Locked(f, J, m), r.from = m, r.kind # "gone",
           Echoes(Q, J),
           \/ r.kind \in {"page", "invite", "logout"} /\ g = f
           \/ /\ r.kind = "social" /\ ~f.social
              /\ g.busy = f.busy /\ g.social
           \/ /\ r.kind \notin {"page", "invite", "logout", "social"} /\ ~f.busy
              /\ g.social = f.social /\ g.busy
    PROVE  Locked(g, Q \cup {r}, m)
<1> DEFINE K == Q \cup {r}
<1>1. OwnForms(K, m) = OwnForms(Q, m) \cup (IF r.kind \in {"page", "invite", "logout", "social"} THEN {} ELSE {r})
  BY DEF OwnForms, Own
<1>2. OwnSocial(K, m) = OwnSocial(Q, m) \cup (IF r.kind = "social" THEN {r} ELSE {})
  BY DEF OwnSocial, Own
<1>3. OwnForms(Q, m) # {} <=> OwnForms(J, m) # {}
  BY DEF OwnForms, Own, Echoes
<1>4. OwnSocial(Q, m) # {} <=> OwnSocial(J, m) # {}
  BY DEF OwnSocial, Own, Echoes
<1>5. AtMostOne(OwnForms(Q, m)) /\ AtMostOne(OwnSocial(Q, m))
  <2>1. ASSUME NEW x \in Q, NEW y \in Q, x \in OwnForms(Q, m) /\ y \in OwnForms(Q, m) PROVE x = y
    <3>1. PICK a \in J : x = Quiet(a) /\ x.from = a.from /\ x.kind = a.kind
      BY DEF Echoes
    <3>2. PICK b \in J : y = Quiet(b) /\ y.from = b.from /\ y.kind = b.kind
      BY DEF Echoes
    <3>3. a \in OwnForms(J, m) /\ b \in OwnForms(J, m)
      BY <2>1, <3>1, <3>2 DEF OwnForms, Own
    <3>4. QED
      BY <3>1, <3>2, <3>3 DEF Locked, AtMostOne
  <2>2. ASSUME NEW x \in Q, NEW y \in Q, x \in OwnSocial(Q, m) /\ y \in OwnSocial(Q, m) PROVE x = y
    <3>1. PICK a \in J : x = Quiet(a) /\ x.from = a.from /\ x.kind = a.kind
      BY DEF Echoes
    <3>2. PICK b \in J : y = Quiet(b) /\ y.from = b.from /\ y.kind = b.kind
      BY DEF Echoes
    <3>3. a \in OwnSocial(J, m) /\ b \in OwnSocial(J, m)
      BY <2>2, <3>1, <3>2 DEF OwnSocial, Own
    <3>4. QED
      BY <3>1, <3>2, <3>3 DEF Locked, AtMostOne
  <2>3. QED
    BY <2>1, <2>2 DEF AtMostOne, OwnForms, OwnSocial, Own
<1> HIDE DEF K
<1>6. AtMostOne(OwnForms(K, m)) /\ AtMostOne(OwnSocial(K, m))
  BY <1>1, <1>2, <1>3, <1>4, <1>5 DEF AtMostOne, Locked
<1>7. (g.busy <=> OwnForms(K, m) # {}) /\ (g.social <=> OwnSocial(K, m) # {})
  BY <1>1, <1>2, <1>3, <1>4 DEF Locked
<1>8. Locked(g, K, m)
  BY <1>6, <1>7 DEF Locked
<1>9. QED
  BY <1>8 DEF K
\* A step that renders tree t: what holds of t holds of what is shown, and the storage follows.
LEMMA RenderKeeps ==
    ASSUME StorageGood, NEW t, NEW invite \in BOOLEAN, Render(t, invite),
           Good(t, jobs', Len(issued'), made', jar', hist'.out)
    PROVE  Whole' /\ Settled(tab)' /\ StorageGood'
<1>1. tab' = Rendered(t)
  BY DEF Render
<1>2. storage.org \in Orgs \cup {Nothing} \cup Remembered
  BY DEF StorageGood
<1>3. Good(tab', jobs', Len(issued'), made', jar', hist'.out) /\ Settled(tab')
  BY <1>1, <1>2, RenderGood
<1>4. tab' \in Tree /\ TreeGood(tab', Len(issued'))
  BY <1>3 DEF Good, TreeGood
<1>5. hasShell(tab') => tab'.user \in UserType
  BY <1>4 DEF hasShell, TreeGood, Tree
<1>6. hasShell(tab') => Selected(tab') \in Orgs \cup {Nothing}
  BY <1>4, <1>5, SelectedIn
<1>7. storage' = [org |-> IF hasShell(tab') THEN Selected(tab') ELSE storage.org,
                  invite |-> invite \/ (tab'.view = "invite" /\ tab'.form.at = "loading")]
  BY DEF Render
<1>8. /\ storage' \in [org : Orgs \cup {Nothing} \cup Remembered, invite : BOOLEAN]
      /\ hasShell(tab') => storage'.org = Selected(tab')
  BY <1>2, <1>6, <1>7
<1>9. QED
  BY <1>3, <1>8 DEF Whole, StorageGood

\* The handlers a page starts, each with its first request.
Starts == {<<"login", "signin">>, <<"social", "signin">>, <<"mfa", "signin">>, <<"form", "public">>, <<"form", "post">>,
           <<"page", "public">>, <<"page", "post">>, <<"page", "get">>, <<"invite", "get">>, <<"accept", "post">>,
           <<"join", "post">>, <<"org", "post">>, <<"profile", "post">>, <<"logout", "logout">>}

\* A handler as it starts.
LEMMA JobIs ==
    ASSUME NEW kind \in Kinds, NEW arg, NEW mount \in Nat, NEW j, j = Job(kind, arg, mount), made \in Nat,
           tab.back \in Backs
    PROVE  /\ Handler(j) /\ j.n = made + 1 /\ j.kind = kind /\ j.arg = arg /\ j.from = mount
           /\ j.tok = 0 /\ j.ck = 0 /\ j.st = "sent" /\ j.stage = "first"
<1> DEFINE alone == jobs = {}
<1>1. j = [n |-> made + 1, kind |-> kind, arg |-> arg, from |-> mount, req |-> Nothing, stage |-> "first",
           tok |-> 0, ck |-> 0, st |-> "sent", got |-> Nothing, back |-> tab.back, alone |-> alone]
  BY DEF Job
<1>2. alone \in BOOLEAN
  OBVIOUS
<1> HIDE DEF alone
<1>3. /\ j.n = made + 1 /\ j.kind = kind /\ j.arg = arg /\ j.from = mount /\ j.req = Nothing
      /\ j.tok = 0 /\ j.ck = 0 /\ j.st = "sent" /\ j.stage = "first" /\ j.got = Nothing
  BY <1>1
<1>4. Handler(j)
  BY <1>1, <1>2, <1>3 DEF Handler
<1>5. QED
  BY <1>3, <1>4
LEMMA FirstRequestIs ==
    ASSUME NEW n \in Nat, NEW t, TreeGood(t, n), NEW kind \in Kinds, NEW arg, NEW req \in Requests, made \in Nat,
           jar \in 0 .. n, tab.back \in Backs, NEW r, r = Request(t, Job(kind, arg, t.mount), req, "first", jar)
    PROVE  /\ Handler(r) /\ r.n = made + 1 /\ r.kind = kind /\ r.arg = arg /\ r.from = t.mount /\ r.req = req
           /\ r.stage = "first" /\ r.st = "sent" /\ r.ck = jar /\ r.tok \in {0, t.token}
<1> DEFINE j == Job(kind, arg, t.mount)
<1>1. t.mount \in Nat /\ t.token \in Nat /\ jar \in Nat
  BY DEF TreeGood, Tree
<1>2. Handler(j) /\ j.n = made + 1 /\ j.kind = kind /\ j.arg = arg /\ j.from = t.mount
  BY <1>1, JobIs
<1>3. r = Request(t, j, req, "first", jar)
  OBVIOUS
<1> HIDE DEF j
<1>4. Requested(r, t, j, req, "first", jar)
  BY <1>1, <1>2, <1>3, RequestIs
<1>5. QED
  BY <1>2, <1>4 DEF Requested

\* A page starts a handler, in a tree that differs from the one shown in a lock at most.
LEMMA StartKeeps ==
    ASSUME Inv, NEW t, NEW kind, NEW arg, NEW req, <<kind, req>> \in Starts, Start(t, kind, arg, req),
           TreeGood(t, Len(issued)),
           t.mount = tab.mount, t.view = tab.view, t.status = tab.status, t.user = tab.user, t.token = tab.token,
           t.stray = tab.stray, t.form.step = tab.form.step, t.form.first = tab.form.first,
           t.form.second = tab.form.second,
           \/ kind \in {"page", "invite", "logout"} /\ t.form = tab.form
           \/ kind = "social" /\ ~tab.form.social /\ t.form.busy = tab.form.busy /\ t.form.social
           \/ /\ kind \notin {"page", "invite", "logout", "social"}
              /\ ~tab.form.busy /\ t.form.social = tab.form.social /\ t.form.busy,
           req = "signin" => arg \in Users,
           kind \in {"org", "profile"} => Valid(arg),
           kind = "join" => tab.view = "app",
           kind = "org" => tab.view = "orgSetup",
           kind = "profile" => tab.view = "onboarding",
           hist.out => req \in {"signin", "public"} \/ kind = "invite"
    PROVE  Inv'
<1> DEFINE n == Len(issued)
           r == Request(t, Job(kind, arg, t.mount), req, "first", jar)
           Q == {Quiet(k) : k \in jobs}
<1>1. /\ Good(tab, jobs, n, made, jar, hist.out) /\ Settled(tab) /\ ServerGood /\ StorageGood /\ HistGood
      /\ n \in Nat
  BY DEF Inv, Whole, ServerGood
<1>2. /\ made' = made + 1 /\ jobs' = Q \cup {r} /\ Render(t, storage.invite)
      /\ UNCHANGED <<jar, server, faults, lossy, hist>>
  BY DEF Start, Quiet
<1>3. kind \in Kinds /\ req \in Requests
  BY DEF Starts, Kinds, SignIns, Requests
<1>4. made \in Nat /\ jar \in 0 .. n /\ tab.back \in Backs /\ tab \in Tree
  BY <1>1 DEF HistGood, Good, TreeGood, Tree
<1>5. /\ Handler(r) /\ r.n = made + 1 /\ r.kind = kind /\ r.arg = arg /\ r.from = t.mount /\ r.req = req
      /\ r.stage = "first" /\ r.st = "sent" /\ r.ck = jar /\ r.tok \in {0, t.token}
  BY <1>1, <1>3, <1>4, FirstRequestIs
<1>6. HandlerGood(r, n, made + 1)
  <2>1. Asks(r)
    BY <1>5 DEF Starts, Asks, SignIns
  <2>2. Given(r, n)
    BY <1>5 DEF Given
  <2>3. r.tok <= n /\ r.ck <= n
    BY <1>1, <1>4, <1>5 DEF TreeGood, Tree
  <2>4. r.n \in 1 .. made + 1
    BY <1>4, <1>5
  <2>5. QED
    BY <1>3, <1>5, <2>1, <2>2, <2>3, <2>4 DEF HandlerGood
<1> HIDE DEF n, r, Q
<1>7. \A j \in jobs : HandlerGood(j, n, made + 1) /\ Handler(j) /\ j.from <= tab.mount
  <2>1. Good(tab, jobs, n, made + 1, jar, hist.out)
    BY <1>1, <1>4, MoreIsGood
  <2>2. QED
    BY <2>1 DEF Good, HandlersGood, HandlerGood
<1>8. ASSUME NEW j \in jobs
      PROVE  /\ HandlerGood(Quiet(j), n, made + 1)
             /\ Quiet(j).from = j.from /\ Quiet(j).kind = j.kind /\ Quiet(j).req = j.req
             /\ Settles(j) => Settles(Quiet(j))
             /\ Harmless(j) => Harmless(Quiet(j))
  <2> DEFINE i == Quiet(j)
  <2>1. HandlerGood(j, n, made + 1) /\ Handler(j)
    BY <1>7
  <2>2. /\ Handler(i) /\ i.n = j.n /\ i.kind = j.kind /\ i.from = j.from /\ i.arg = j.arg /\ i.req = j.req
        /\ i.stage = j.stage /\ i.tok = j.tok /\ i.ck = j.ck /\ i.st = j.st /\ i.got = j.got
    BY <2>1, QuietIs
  <2> HIDE DEF i
  <2>3. HandlerGood(i, n, made + 1)
    BY <2>1, <2>2 DEF HandlerGood, Asks, Given, Asked
  <2>4. Settles(j) => Settles(i)
    BY <2>2 DEF Settles
  <2>5. Harmless(j) => Harmless(i)
    BY <2>2 DEF Harmless
  <2>6. QED
    BY <2>2, <2>3, <2>4, <2>5 DEF i
<1>9. /\ \A q \in Q : \E j \in jobs : q = Quiet(j)
      /\ \A j \in jobs : Quiet(j) \in Q
  BY DEF Q
<1>10. HandlersGood(Q \cup {r}, n, made + 1, t.mount)
  <2>1. r.from <= t.mount
    BY <1>5 DEF Handler
  <2>2. QED
    BY <1>6, <1>7, <1>8, <1>9, <2>1 DEF HandlersGood
<1>11. Locked(t.form, Q \cup {r}, t.mount)
  <2>1. Locked(tab.form, jobs, t.mount)
    BY <1>1 DEF Good
  <2>2. Echoes(Q, jobs)
    BY <1>8, <1>9 DEF Echoes
  <2>3. kind # "gone"
    BY DEF Starts
  <2>4. \/ r.kind \in {"page", "invite", "logout"} /\ t.form = tab.form
        \/ r.kind = "social" /\ ~tab.form.social /\ t.form.busy = tab.form.busy /\ t.form.social
        \/ /\ r.kind \notin {"page", "invite", "logout", "social"}
           /\ ~tab.form.busy /\ t.form.social = tab.form.social /\ t.form.busy
    BY <1>5
  <2>5. r.from = t.mount /\ r.kind # "gone"
    BY <1>5, <2>3
  <2>6. QED
    BY <2>1, <2>2, <2>4, <2>5, StartsLocked
<1>12. OnView(Q \cup {r}, t.mount, t.view, t.status)
  <2>1. OnView(Q, t.mount, t.view, t.status)
    BY <1>1, <1>8, <1>9 DEF Good, OnView
  <2>2. req # "me"
    BY DEF Starts
  <2>3. QED
    BY <1>5, <2>1, <2>2 DEF OnView
<1>13. Wizards(t.view, t.form)
  BY <1>1 DEF Good, Wizards
<1>14. SpinnerEnds(t.status, Q \cup {r})
  BY <1>1, <1>8, <1>9 DEF Good, SpinnerEnds
<1>15. Out(hist.out, t, Q \cup {r}, jar)
  <2>1. CASE ~hist.out
    BY <2>1 DEF Out
  <2>2. CASE hist.out
    <3>1. Out(hist.out, tab, jobs, jar)
      BY <1>1 DEF Good
    <3>2. Harmless(r)
      BY <1>5, <2>2, <3>1 DEF Harmless, Out
    <3>3. QED
      BY <1>8, <1>9, <3>1, <3>2 DEF Out
  <2>3. QED
    BY <1>1, <2>1, <2>2 DEF HistGood
<1>16. Good(t, Q \cup {r}, n, made + 1, jar, hist.out)
  BY <1>4, <1>10, <1>11, <1>12, <1>13, <1>14, <1>15 DEF Good, n
<1>17. Good(t, jobs', Len(issued'), made', jar', hist'.out)
  BY <1>2, <1>16 DEF n, server
<1>18. Whole' /\ Settled(tab)' /\ StorageGood'
  BY <1>1, <1>2, <1>17, RenderKeeps DEF StorageGood
<1>19. ServerGood' /\ HistGood'
  BY <1>1, <1>2 DEF ServerGood, HistGood, server
<1>20. QED
  BY <1>18, <1>19 DEF Inv
\* A button that starts a submission is offered while the form is not locked.
LEMMA Unlocked ==
    ASSUME NEW v, NEW c, Pressed(v, c),
           <<v, c>> \in {<<"login", "password">>, <<"signup", "register">>, <<"mfa", "code">>, <<"verify", "resend">>,
                         <<"mfaSetup", "confirm">>, <<"link", "link">>, <<"invite", "accept">>, <<"app", "join">>,
                         <<"orgSetup", "create">>, <<"onboarding", "finish">>}
    PROVE  ~tab.form.busy
<1>1. tab.view = v /\ c \in PageControls(tab)
  BY DEF Pressed
<1>2. CASE v = "login" /\ c = "password"
  BY <1>1, <1>2 DEF PageControls, LoginPage, SocialLoginButtons, Unless
<1>3. CASE v = "signup" /\ c = "register"
  BY <1>1, <1>3 DEF PageControls, SignupPage, SocialLoginButtons, Unless
<1>4. CASE v = "mfa" /\ c = "code"
  BY <1>1, <1>4 DEF PageControls, MfaChallengePage, Unless
<1>5. CASE v = "verify" /\ c = "resend"
  BY <1>1, <1>5 DEF PageControls, VerifyEmailPage, Unless
<1>6. CASE v = "mfaSetup" /\ c = "confirm"
  BY <1>1, <1>6 DEF PageControls, MfaSetupPage, Unless
<1>7. CASE v = "link" /\ c = "link"
  BY <1>1, <1>7 DEF PageControls, LinkChatPage, Unless
<1>8. CASE v = "invite" /\ c = "accept"
  BY <1>1, <1>8 DEF PageControls, AcceptInvitationPage, Unless
<1>9. CASE v = "app" /\ c = "join"
  BY <1>1, <1>9 DEF PageControls, PendingInvitationsPrompt, Unless
<1>10. CASE v = "orgSetup" /\ c = "create"
  BY <1>1, <1>10 DEF PageControls, OrganizationSetupFlow, Unless
<1>11. CASE v = "onboarding" /\ c = "finish"
  BY <1>1, <1>11 DEF PageControls, ProfileOnboardingCarousel, Unless
<1>12. QED
  BY <1>2, <1>3, <1>4, <1>5, <1>6, <1>7, <1>8, <1>9, <1>10, <1>11

\* Only the form is another.
LEMMA FormChanges ==
    ASSUME NEW n, NEW t, TreeGood(t, n), NEW f \in Form, NEW t2, t2 = [t EXCEPT !.form = f]
    PROVE  /\ TreeGood(t2, n) /\ t2.form = f
           /\ t2.mount = t.mount /\ t2.view = t.view /\ t2.status = t.status /\ t2.user = t.user
           /\ t2.token = t.token /\ t2.stray = t.stray /\ t2.route = t.route /\ t2.chosen = t.chosen
           /\ t2.timer = t.timer
<1>1. t \in Tree
  BY DEF TreeGood
<1>2. /\ t2.form = f
      /\ t2.mount = t.mount /\ t2.view = t.view /\ t2.status = t.status /\ t2.user = t.user
      /\ t2.token = t.token /\ t2.stray = t.stray /\ t2.route = t.route /\ t2.chosen = t.chosen
      /\ t2.timer = t.timer
  BY <1>1 DEF Tree
<1>3. t2 \in Tree
  BY <1>1 DEF Tree
<1>4. QED
  BY <1>2, <1>3 DEF TreeGood

\* The form of a submission is locked, and nothing else has changed.
LEMMA BusyIs ==
    ASSUME Inv
    PROVE  /\ TreeGood(Busy, Len(issued))
           /\ Busy.mount = tab.mount /\ Busy.view = tab.view /\ Busy.status = tab.status /\ Busy.user = tab.user
           /\ Busy.token = tab.token /\ Busy.stray = tab.stray
           /\ Busy.form.step = tab.form.step /\ Busy.form.first = tab.form.first
           /\ Busy.form.second = tab.form.second
           /\ Busy.form.social = tab.form.social /\ Busy.form.busy
<1> DEFINE f == [tab.form EXCEPT !.busy = TRUE]
<1>1. TreeGood(tab, Len(issued)) /\ tab.form \in Form /\ tab \in Tree
  BY DEF Inv, Whole, Good, TreeGood, Tree
<1>2. /\ f \in Form /\ f.step = tab.form.step /\ f.first = tab.form.first /\ f.second = tab.form.second
      /\ f.social = tab.form.social /\ f.busy
  BY <1>1 DEF Form
<1>3. Busy = [tab EXCEPT !.form = f]
  BY <1>1 DEF Busy, Tree
<1> HIDE DEF f
<1>4. QED
  BY <1>1, <1>2, <1>3, FormChanges

\* A submission starts.
LEMMA SubmitKeeps ==
    ASSUME Inv, NEW kind, NEW arg, NEW req, <<kind, req>> \in Starts, Start(Busy, kind, arg, req), ~tab.form.busy,
           kind \notin {"page", "invite", "logout", "social"},
           req = "signin" => arg \in Users,
           kind \in {"org", "profile"} => Valid(arg),
           kind = "join" => tab.view = "app",
           kind = "org" => tab.view = "orgSetup",
           kind = "profile" => tab.view = "onboarding",
           hist.out => req \in {"signin", "public"}
    PROVE  Inv'
<1> DEFINE t == Busy
<1>1. /\ TreeGood(t, Len(issued))
      /\ t.mount = tab.mount /\ t.view = tab.view /\ t.status = tab.status /\ t.user = tab.user
      /\ t.token = tab.token /\ t.stray = tab.stray
      /\ t.form.step = tab.form.step /\ t.form.first = tab.form.first
      /\ t.form.second = tab.form.second
      /\ t.form.social = tab.form.social /\ t.form.busy
  BY BusyIs
<1>2. Start(t, kind, arg, req)
  OBVIOUS
<1> HIDE DEF t
<1>3. QED
  BY <1>1, <1>2, StartKeeps

\* After a logout no page of the shell is shown and nobody is signed in.
LEMMA OutIsOut ==
    ASSUME Inv, hist.out
    PROVE  tab.view \notin ShellViews /\ tab.user = Nothing /\ ~hasShell(tab)
<1>1. Out(hist.out, tab, jobs, jar) /\ tab \in Tree /\ TreeGood(tab, Len(issued)) /\ Settled(tab)
  BY DEF Inv, Whole, Good, TreeGood
<1>2. tab.user = Nothing /\ tab.status # "authenticated"
  BY <1>1 DEF Out
<1>3. QED
  BY <1>1, <1>2, ShellView DEF hasShell
LEMMA SubmitLoginKeeps == ASSUME Inv, NEW u \in Users, SubmitLogin(u) PROVE Inv'
<1>1. Pressed("login", "password") /\ Start(Busy, "login", u, "signin")
  BY DEF SubmitLogin
<1>2. ~tab.form.busy
  BY <1>1, Unlocked
<1>3. QED
  BY <1>1, <1>2, SubmitKeeps DEF Starts

LEMMA SubmitSocialKeeps == ASSUME Inv, NEW u \in Users, SubmitSocial(u) PROVE Inv'
<1> DEFINE f == [tab.form EXCEPT !.social = TRUE]
           t == [tab EXCEPT !.form.social = TRUE]
<1>1. ~tab.form.social /\ Start(t, "social", u, "signin")
  BY DEF SubmitSocial, Pressed, PageControls, LoginPage, SignupPage, SocialLoginButtons, Unless
<1>2. TreeGood(tab, Len(issued)) /\ tab.form \in Form /\ tab \in Tree
  BY DEF Inv, Whole, Good, TreeGood, Tree
<1>3. /\ f \in Form /\ f.step = tab.form.step /\ f.first = tab.form.first /\ f.second = tab.form.second
      /\ f.busy = tab.form.busy /\ f.social
  BY <1>2 DEF Form
<1>4. t = [tab EXCEPT !.form = f]
  BY <1>2 DEF Tree
<1> HIDE DEF f, t
<1>5. /\ TreeGood(t, Len(issued)) /\ t.form = f
      /\ t.mount = tab.mount /\ t.view = tab.view /\ t.status = tab.status /\ t.user = tab.user
      /\ t.token = tab.token /\ t.stray = tab.stray
  BY <1>2, <1>3, <1>4, FormChanges
<1>6. QED
  BY <1>1, <1>3, <1>5, StartKeeps DEF Starts

LEMMA SubmitMfaKeeps == ASSUME Inv, SubmitMfa PROVE Inv'
<1>1. Pressed("mfa", "code") /\ Start(Busy, "mfa", tab.challenge, "signin")
  BY DEF SubmitMfa
<1>2. ~tab.form.busy
  BY <1>1, Unlocked
<1>3. tab.challenge # Nothing
  BY <1>1 DEF Pressed, PageControls, MfaChallengePage, Unless
<1>4. tab.challenge \in Users
  BY <1>3 DEF Inv, Whole, Good, TreeGood, Tree
<1>5. QED
  BY <1>1, <1>2, <1>4, SubmitKeeps DEF Starts

LEMMA SubmitSignupKeeps == ASSUME Inv, SubmitSignup PROVE Inv'
<1>1. Pressed("signup", "register") /\ Start(Busy, "form", Nothing, "public")
  BY DEF SubmitSignup
<1>2. ~tab.form.busy
  BY <1>1, Unlocked
<1>3. QED
  BY <1>1, <1>2, SubmitKeeps DEF Starts

LEMMA ResendVerificationKeeps == ASSUME Inv, ResendVerification PROVE Inv'
<1>1. Pressed("verify", "resend") /\ Start(Busy, "form", Nothing, "public")
  BY DEF ResendVerification
<1>2. ~tab.form.busy
  BY <1>1, Unlocked
<1>3. QED
  BY <1>1, <1>2, SubmitKeeps DEF Starts

LEMMA ConfirmMfaKeeps == ASSUME Inv, ConfirmMfa PROVE Inv'
<1>1. Pressed("mfaSetup", "confirm") /\ Start(Busy, "form", Nothing, "post") /\ tab.view = "mfaSetup"
  BY DEF ConfirmMfa, Pressed
<1>2. ~tab.form.busy
  BY <1>1, Unlocked
<1>3. ~hist.out
  BY <1>1, OutIsOut DEF ShellViews, Protected
<1>4. QED
  BY <1>1, <1>2, <1>3, SubmitKeeps DEF Starts

LEMMA ConfirmLinkKeeps == ASSUME Inv, ConfirmLink PROVE Inv'
<1>1. Pressed("link", "link") /\ Start(Busy, "form", Nothing, "post") /\ tab.view = "link"
  BY DEF ConfirmLink, Pressed
<1>2. ~tab.form.busy
  BY <1>1, Unlocked
<1>3. ~hist.out
  BY <1>1, OutIsOut DEF ShellViews, Protected
<1>4. QED
  BY <1>1, <1>2, <1>3, SubmitKeeps DEF Starts

LEMMA AcceptKeeps == ASSUME Inv, Accept PROVE Inv'
<1>1. Pressed("invite", "accept") /\ Start(Busy, "accept", Nothing, "post")
  BY DEF Accept
<1>2. ~tab.form.busy
  BY <1>1, Unlocked
<1>3. tab.user # Nothing
  BY <1>1 DEF Pressed, PageControls, AcceptInvitationPage
<1>4. ~hist.out
  BY <1>3, OutIsOut
<1>5. QED
  BY <1>1, <1>2, <1>4, SubmitKeeps DEF Starts

LEMMA AcceptOnDashboardKeeps == ASSUME Inv, AcceptOnDashboard PROVE Inv'
<1>1. Pressed("app", "join") /\ Start(Busy, "join", Nothing, "post") /\ tab.view = "app"
  BY DEF AcceptOnDashboard, Pressed
<1>2. ~tab.form.busy
  BY <1>1, Unlocked
<1>3. ~hist.out
  BY <1>1, OutIsOut DEF ShellViews, Protected
<1>4. QED
  BY <1>1, <1>2, <1>3, SubmitKeeps DEF Starts

\* What a wizard sends at its last step is valid.
LEMMA LastIsValid ==
    ASSUME Inv, tab.view \in {"orgSetup", "onboarding"}, tab.form.step = LastStep
    PROVE  Valid(Fields)
<1>1. Wizards(tab.view, tab.form)
  BY DEF Inv, Whole, Good
<1>2. QED
  BY <1>1 DEF Wizards, Valid, Fields, LastStep

LEMMA handleCreateKeeps == ASSUME Inv, handleCreate PROVE Inv'
<1>1. Pressed("orgSetup", "create") /\ Start(Busy, "org", Fields, "post") /\ tab.view = "orgSetup"
  BY DEF handleCreate, Pressed
<1>2. ~tab.form.busy
  BY <1>1, Unlocked
<1>3. tab.form.step = LastStep
  BY <1>1 DEF Pressed, PageControls, OrganizationSetupFlow, WizardControls, Unless
<1>4. Valid(Fields)
  BY <1>1, <1>3, LastIsValid
<1>5. ~hist.out
  BY <1>1, OutIsOut DEF ShellViews
<1>6. QED
  BY <1>1, <1>2, <1>4, <1>5, SubmitKeeps DEF Starts

LEMMA handleFinishKeeps == ASSUME Inv, handleFinish PROVE Inv'
<1>1. Pressed("onboarding", "finish") /\ Start(Busy, "profile", Fields, "post") /\ tab.view = "onboarding"
  BY DEF handleFinish, Pressed
<1>2. ~tab.form.busy
  BY <1>1, Unlocked
<1>3. tab.form.step = LastStep
  BY <1>1 DEF Pressed, PageControls, ProfileOnboardingCarousel, WizardControls, Unless
<1>4. Valid(Fields)
  BY <1>1, <1>3, LastIsValid
<1>5. ~hist.out
  BY <1>1, OutIsOut DEF ShellViews
<1>6. QED
  BY <1>1, <1>2, <1>4, <1>5, SubmitKeeps DEF Starts

\* A request that locks no form.
LEMMA LoadKeeps ==
    ASSUME Inv, NEW kind, NEW req, <<kind, req>> \in Starts, Start(tab, kind, Nothing, req),
           kind \in {"page", "invite", "logout"},
           hist.out => req = "public" \/ kind = "invite"
    PROVE  Inv'
<1>1. TreeGood(tab, Len(issued))
  BY DEF Inv, Whole, Good
<1>2. req # "signin"
  BY DEF Starts
<1>3. QED
  BY <1>1, <1>2, StartKeeps

LEMMA LoadsKeep == ASSUME Inv, VerifyEmail \/ SetupMfa \/ LoadInvite \/ Fetch \/ Logout PROVE Inv'
<1>1. CASE VerifyEmail
  BY <1>1, LoadKeeps DEF VerifyEmail, Starts
<1>2. CASE SetupMfa
  <2>1. Start(tab, "page", Nothing, "post") /\ tab.view = "mfaSetup"
    BY <1>2 DEF SetupMfa, Loading
  <2>2. ~hist.out
    BY <2>1, OutIsOut DEF ShellViews, Protected
  <2>3. QED
    BY <2>1, <2>2, LoadKeeps DEF Starts
<1>3. CASE LoadInvite
  BY <1>3, LoadKeeps DEF LoadInvite, Starts
<1>4. CASE Fetch
  <2>1. Start(tab, "page", Nothing, "get") /\ ~hist.out
    BY <1>4, OutIsOut DEF Fetch
  <2>2. QED
    BY <2>1, LoadKeeps DEF Starts
<1>5. CASE Logout
  <2>1. Start(tab, "logout", Nothing, "logout") /\ ~hist.out
    BY <1>5, OutIsOut DEF Logout
  <2>2. QED
    BY <2>1, LoadKeeps DEF Starts
<1>6. QED
  BY <1>1, <1>2, <1>3, <1>4, <1>5
----------------------------------------------------------------------------
(* Steps that send nothing.                                                *)

\* The tree changes where its page and its form do not.
LEMMA TurnsKeep ==
    ASSUME Inv, NEW t, Render(t, storage.invite), UNCHANGED <<jar, jobs, server, made, hist>>,
           TreeGood(t, Len(issued)), t.mount = tab.mount, t.view = tab.view, t.form = tab.form,
           t.status = "loading" => tab.status = "loading",
           Out(hist.out, t, jobs, jar)
    PROVE  Inv'
<1> DEFINE n == Len(issued)
<1>1. Good(tab, jobs, n, made, jar, hist.out) /\ Settled(tab) /\ ServerGood /\ StorageGood /\ HistGood
  BY DEF Inv, Whole
<1>2. HandlersGood(jobs, n, made, t.mount) /\ Locked(t.form, jobs, t.mount) /\ Wizards(t.view, t.form)
  BY <1>1 DEF Good
<1>3. OnView(jobs, t.mount, t.view, t.status)
  BY <1>1, NoneWaitsForUser DEF Good, OnView
<1>4. SpinnerEnds(t.status, jobs) /\ jar \in 0 .. n
  BY <1>1 DEF Good, SpinnerEnds
<1>5. Good(t, jobs, n, made, jar, hist.out)
  BY <1>2, <1>3, <1>4 DEF Good
<1>6. Good(t, jobs', Len(issued'), made', jar', hist'.out)
  BY <1>5 DEF server
<1>7. storage.invite \in BOOLEAN
  BY <1>1 DEF StorageGood
<1>8. Whole' /\ Settled(tab)' /\ StorageGood'
  BY <1>1, <1>6, <1>7, RenderKeeps
<1>9. ServerGood' /\ HistGood'
  BY <1>1 DEF ServerGood, HistGood, server
<1>10. QED
  BY <1>8, <1>9 DEF Inv

LEMMA NavigateKeeps == ASSUME Inv, NEW r \in Routes, Navigate(r) PROVE Inv'
<1> DEFINE b == IF tab.view = "invite" /\ tab.form.at = "ready" THEN "invite"
                ELSE IF tab.view = "signup" /\ tab.form.at = "done" THEN tab.back ELSE Nothing
           t == [tab EXCEPT !.route = r, !.back = b]
<1>1. TreeGood(tab, Len(issued)) /\ tab \in Tree /\ Out(hist.out, tab, jobs, jar)
  BY DEF Inv, Whole, Good, TreeGood
<1>2. Render(t, storage.invite) /\ UNCHANGED <<jar, jobs, server, made, hist>>
  BY <1>1 DEF Navigate, Tree
<1>3. b \in Backs
  BY <1>1 DEF Backs, Tree
<1> HIDE DEF b
<1>4. /\ t \in Tree /\ t.mount = tab.mount /\ t.view = tab.view /\ t.form = tab.form /\ t.status = tab.status
      /\ t.user = tab.user /\ t.token = tab.token /\ t.stray = tab.stray /\ t.timer = tab.timer
  BY <1>1, <1>3 DEF Tree
<1> HIDE DEF t
<1>5. TreeGood(t, Len(issued)) /\ Out(hist.out, t, jobs, jar)
  BY <1>1, <1>4 DEF TreeGood, Out
<1>6. QED
  BY <1>2, <1>4, <1>5, TurnsKeep

LEMMA SwitchOrganizationKeeps == ASSUME Inv, NEW o \in Orgs, SwitchOrganization(o) PROVE Inv'
<1> DEFINE t == [tab EXCEPT !.chosen = o, !.route = "app"]
<1>1. TreeGood(tab, Len(issued)) /\ tab \in Tree /\ Out(hist.out, tab, jobs, jar)
  BY DEF Inv, Whole, Good, TreeGood
<1>2. Render(t, storage.invite) /\ UNCHANGED <<jar, jobs, server, made, hist>>
  BY DEF SwitchOrganization
<1>3. "app" \in Routes
  BY DEF Routes, Protected
<1>4. /\ t \in Tree /\ t.mount = tab.mount /\ t.view = tab.view /\ t.form = tab.form /\ t.status = tab.status
      /\ t.user = tab.user /\ t.token = tab.token /\ t.stray = tab.stray /\ t.timer = tab.timer
  BY <1>1, <1>3 DEF Tree
<1> HIDE DEF t
<1>5. TreeGood(t, Len(issued)) /\ Out(hist.out, t, jobs, jar)
  BY <1>1, <1>4 DEF TreeGood, Out
<1>6. QED
  BY <1>2, <1>4, <1>5, TurnsKeep

\* After a logout no timeout is set.
LEMMA TimeoutIsIn == ASSUME Inv, tab.timer # Nothing PROVE ~hist.out
<1>1. TreeGood(tab, Len(issued)) /\ Settled(tab)
  BY DEF Inv, Whole, Good
<1>2. CASE tab.view = "onboarding"
  BY <1>2, OutIsOut DEF ShellViews
<1>3. CASE tab.view = "invite"
  BY <1>1, <1>3, OutIsOut DEF Settled, LeaveTimer
<1>4. QED
  BY <1>1, <1>2, <1>3 DEF TreeGood

LEMMA TimeoutKeeps == ASSUME Inv, Timeout PROVE Inv'
<1>1. TreeGood(tab, Len(issued)) /\ tab \in Tree /\ tab.timer # Nothing /\ ~hist.out
  BY TimeoutIsIn DEF Inv, Whole, Good, TreeGood, Timeout
<1>2. UNCHANGED <<jar, jobs, server, made, hist>>
  BY DEF Timeout
<1>3. CASE tab.timer.what = "leave"
  <2> DEFINE t == [tab EXCEPT !.route = "app"]
  <2>1. Render(t, storage.invite)
    BY <1>3 DEF Timeout
  <2>2. "app" \in Routes
    BY DEF Routes, Protected
  <2>3. /\ t \in Tree /\ t.mount = tab.mount /\ t.view = tab.view /\ t.form = tab.form /\ t.status = tab.status
        /\ t.user = tab.user /\ t.token = tab.token /\ t.stray = tab.stray /\ t.timer = tab.timer
    BY <1>1, <2>2 DEF Tree
  <2> HIDE DEF t
  <2>4. TreeGood(t, Len(issued)) /\ Out(hist.out, t, jobs, jar)
    BY <1>1, <2>3 DEF TreeGood, Out
  <2>5. QED
    BY <1>2, <2>1, <2>3, <2>4, TurnsKeep
<1>4. CASE tab.timer.what # "leave"
  <2> DEFINE u == tab.timer.user
             t == [tab EXCEPT !.timer = Nothing, !.status = "authenticated", !.user = u]
  <2>1. u \in UserType
    BY <1>1, <1>4 DEF Tree, Timers
  <2>2. Render(t, storage.invite)
    BY <1>1, <1>4 DEF Timeout, SignedIn, Tree
  <2> HIDE DEF u
  <2>3. /\ t \in Tree /\ t.mount = tab.mount /\ t.view = tab.view /\ t.form = tab.form
        /\ t.status = "authenticated" /\ t.user = u /\ t.token = tab.token /\ t.timer = Nothing
    BY <1>1, <2>1 DEF Tree, Timers
  <2> HIDE DEF t
  <2>4. TreeGood(t, Len(issued)) /\ Out(hist.out, t, jobs, jar)
    BY <1>1, <2>1, <2>3, SomeUser DEF TreeGood, Out
  <2>5. QED
    BY <1>2, <2>2, <2>3, <2>4, TurnsKeep
<1>5. QED
  BY <1>3, <1>4

LEMMA StrayTimeoutKeeps == ASSUME Inv, NEW u \in tab.stray, StrayTimeout(u) PROVE Inv'
<1> DEFINE t == [tab EXCEPT !.stray = tab.stray \ {u}, !.status = "authenticated", !.user = u]
<1>1. TreeGood(tab, Len(issued)) /\ tab \in Tree /\ Out(hist.out, tab, jobs, jar)
  BY DEF Inv, Whole, Good, TreeGood
<1>2. u \in UserType /\ ~hist.out
  BY <1>1 DEF Tree, Out
<1>3. Render(t, storage.invite) /\ UNCHANGED <<jar, jobs, server, made, hist>>
  BY <1>1 DEF StrayTimeout, SignedIn, Tree
<1>4. /\ t.mount = tab.mount /\ t.view = tab.view /\ t.form = tab.form
      /\ t.status = "authenticated" /\ t.user = u /\ t.token = tab.token /\ t.timer = tab.timer
  BY <1>1 DEF Tree
<1>5. t \in Tree
  BY <1>1, <1>2 DEF Tree
<1> HIDE DEF t
<1>6. TreeGood(t, Len(issued)) /\ Out(hist.out, t, jobs, jar)
  BY <1>1, <1>2, <1>4, <1>5, SomeUser DEF TreeGood, Out
<1>7. QED
  BY <1>3, <1>4, <1>6, TurnsKeep

----------------------------------------------------------------------------
(* The wizards.                                                            *)

\* A wizard's form changes, and stays valid past the steps that ask for its fields.
LEMMA StepKeeps ==
    ASSUME Inv, NEW f \in Form, Step(f), tab.view \in {"orgSetup", "onboarding"},
           f.busy = tab.form.busy, f.social = tab.form.social, Wizards(tab.view, f)
    PROVE  Inv'
<1> DEFINE n == Len(issued)
           t == [tab EXCEPT !.form = f]
<1>1. Good(tab, jobs, n, made, jar, hist.out) /\ Settled(tab) /\ ServerGood /\ StorageGood /\ HistGood
  BY DEF Inv, Whole
<1>2. tab' = t /\ UNCHANGED <<jar, storage, jobs, server, made, hist>>
  BY DEF Step
<1>3. /\ TreeGood(t, n) /\ t.form = f
      /\ t.mount = tab.mount /\ t.view = tab.view /\ t.status = tab.status /\ t.user = tab.user
      /\ t.token = tab.token /\ t.stray = tab.stray /\ t.route = tab.route /\ t.chosen = tab.chosen
      /\ t.timer = tab.timer
  BY <1>1, FormChanges DEF Good
<1> HIDE DEF t
<1>4. Locked(t.form, jobs, t.mount)
  BY <1>1, <1>3 DEF Good, Locked
<1>5. Out(hist.out, t, jobs, jar)
  BY <1>1, <1>3 DEF Good, Out
<1>6. Good(t, jobs, n, made, jar, hist.out)
  BY <1>1, <1>3, <1>4, <1>5 DEF Good
<1>7. Settled(t) /\ Selected(t) = Selected(tab) /\ (hasShell(t) <=> hasShell(tab))
  BY <1>1, <1>3 DEF Settled, Selected, hasShell, ViewOf
<1>8. Whole' /\ Settled(tab)'
  BY <1>2, <1>6, <1>7 DEF Whole, server
<1>9. StorageGood'
  BY <1>1, <1>2, <1>7 DEF StorageGood
<1>10. ServerGood' /\ HistGood'
  BY <1>1, <1>2 DEF ServerGood, HistGood, server
<1>11. QED
  BY <1>8, <1>9, <1>10 DEF Inv

LEMMA WizardsKeep ==
    ASSUME Inv,
           \/ \E x \in {"first", "second"}, v \in Values : setField(x, v)
           \/ goNext \/ goBack \/ goSkip
    PROVE  Inv'
<1> DEFINE g == tab.form
<1>1. g \in Form /\ Wizards(tab.view, g)
  BY DEF Inv, Whole, Good, TreeGood, Tree
<1>2. ASSUME NEW v \in Values, setField("first", v) PROVE Inv'
  <2> DEFINE f == [g EXCEPT !.first = v]
  <2>1. Step(f) /\ tab.view \in {"orgSetup", "onboarding"} /\ g.step = 1
    BY <1>1, <1>2 DEF setField, Typeable, Form
  <2>2. f \in Form /\ f.busy = g.busy /\ f.social = g.social /\ f.step = 1
    BY <1>1, <2>1 DEF Form
  <2>3. Wizards(tab.view, f)
    BY <2>2 DEF Wizards
  <2>4. QED
    BY <2>1, <2>2, <2>3, StepKeeps
<1>3. ASSUME NEW v \in Values, setField("second", v) PROVE Inv'
  <2> DEFINE f == [g EXCEPT !.second = v]
  <2>1. Step(f) /\ tab.view \in {"orgSetup", "onboarding"} /\ g.step = 3
    BY <1>1, <1>3 DEF setField, Typeable, Form
  <2>2. f \in Form /\ f.busy = g.busy /\ f.social = g.social /\ f.step = 3 /\ f.first = g.first
    BY <1>1, <2>1 DEF Form
  <2>3. Wizards(tab.view, f)
    BY <1>1, <2>1, <2>2 DEF Wizards
  <2>4. QED
    BY <2>1, <2>2, <2>3, StepKeeps
<1>4. CASE goNext
  <2> DEFINE f == [g EXCEPT !.step = g.step + 1]
  <2>1. Step(f) /\ StepIsValid(g) /\ tab.view \in {"orgSetup", "onboarding"}
    BY <1>1, <1>4 DEF goNext, Wizard, Pressed, Form
  <2>2. g.step # LastStep
    BY <1>4 DEF goNext, Wizard, Pressed, PageControls, OrganizationSetupFlow, ProfileOnboardingCarousel,
                WizardControls, Unless
  <2>3. g.step \in 0 .. 4 /\ g.step + 1 \in 0 .. LastStep
    BY <1>1, <2>2 DEF Form, LastStep
  <2>4. /\ f \in Form /\ f.busy = g.busy /\ f.social = g.social /\ f.step = g.step + 1
        /\ f.first = g.first /\ f.second = g.second
    BY <1>1, <2>3 DEF Form
  <2>5. Wizards(tab.view, f)
    BY <1>1, <2>1, <2>3, <2>4 DEF Wizards, StepIsValid
  <2>6. QED
    BY <2>1, <2>4, <2>5, StepKeeps
<1>5. CASE goBack
  <2> DEFINE f == [g EXCEPT !.step = g.step - 1]
  <2>1. Step(f) /\ tab.view \in {"orgSetup", "onboarding"}
    BY <1>1, <1>5 DEF goBack, Wizard, Pressed, Form
  <2>2. g.step # 0
    BY <1>5 DEF goBack, Wizard, Pressed, PageControls, OrganizationSetupFlow, ProfileOnboardingCarousel,
                WizardControls, Unless, LastStep
  <2>3. g.step \in 0 .. 4 /\ g.step - 1 \in 0 .. LastStep
    BY <1>1, <2>2 DEF Form, LastStep
  <2>4. /\ f \in Form /\ f.busy = g.busy /\ f.social = g.social /\ f.step = g.step - 1
        /\ f.first = g.first /\ f.second = g.second
    BY <1>1, <2>3 DEF Form
  <2>5. Wizards(tab.view, f)
    BY <1>1, <2>3, <2>4 DEF Wizards
  <2>6. QED
    BY <2>1, <2>4, <2>5, StepKeeps
<1>6. CASE goSkip
  <2> DEFINE f == [g EXCEPT !.step = g.step + 1, !.second = "empty"]
  <2>1. Step(f) /\ tab.view = "orgSetup"
    BY <1>1, <1>6 DEF goSkip, Pressed, Form
  <2>2. g.step = 3
    BY <1>6, <2>1 DEF goSkip, Pressed, PageControls, OrganizationSetupFlow, WizardControls, Unless
  <2>3. /\ f \in Form /\ f.busy = g.busy /\ f.social = g.social /\ f.step = 4
        /\ f.first = g.first /\ f.second = "empty"
    <3> DEFINE last == g.step + 1
    <3>1. last = 4 /\ last \in 0 .. LastStep /\ "empty" \in Values
      BY <2>2 DEF LastStep, Values
    <3>2. f = [g EXCEPT !.step = last, !.second = "empty"]
      OBVIOUS
    <3> HIDE DEF last, f
    <3>3. f.busy = g.busy /\ f.social = g.social /\ f.step = 4 /\ f.first = g.first /\ f.second = "empty"
      BY <1>1, <3>1, <3>2 DEF Form
    <3>4. f \in Form
      BY <1>1, <3>1, <3>2 DEF Form
    <3>5. QED
      BY <3>3, <3>4
  <2>4. Wizards(tab.view, f)
    BY <1>1, <2>1, <2>2, <2>3 DEF Wizards
  <2>5. QED
    BY <2>1, <2>3, <2>4, StepKeeps
<1>7. QED
  BY <1>2, <1>3, <1>4, <1>5, <1>6
----------------------------------------------------------------------------
(* The server.                                                             *)

\* The server has answered, and may have issued a pair.
LEMMA ServedKeeps ==
    ASSUME Inv, NEW j \in jobs, NEW st \in {"ok", "unauthorized", "refused"}, NEW got, jobs' = Answered(j, st, got),
           UNCHANGED <<tab, jar, storage, made, hist>>, ServerGood', Len(issued) <= Len(issued'),
           st = "ok" => /\ Asked(j) = "refresh" => got \in 1 .. Len(issued')
                        /\ Asked(j) = "signin" => got = Nothing \/ got \in 1 .. Len(issued')
                        /\ j.stage # "refresh" /\ (j.req \in {"me", "avatar"} \/ j.kind = "profile") => got \in UserType,
           hist.out => \/ j.kind = "gone" \/ j.req \in {"signin", "public"}
                       \/ j.kind = "invite" /\ (j.tok = 0 /\ j.stage = "first" => st # "unauthorized")
                       \/ j.kind = "boot" /\ (j.req = "refresh" /\ j.ck = 0 => st # "ok")
    PROVE  Inv'
<1> DEFINE n == Len(issued)
           n2 == Len(issued')
           i == [j EXCEPT !.st = st, !.got = got]
           K == (jobs \ {j}) \cup {i}
<1>1. Good(tab, jobs, n, made, jar, hist.out) /\ Settled(tab) /\ StorageGood /\ HistGood /\ made \in Nat
  BY DEF Inv, Whole, HistGood
<1>2. n \in Nat /\ n2 \in Nat /\ n <= n2
  BY DEF Inv, ServerGood
<1>3. jobs' = K
  BY DEF Answered
<1>4. /\ st = "ok" => /\ Asked(j) = "refresh" => got \in 1 .. n2
                      /\ Asked(j) = "signin" => got = Nothing \/ got \in 1 .. n2
                      /\ j.stage # "refresh" /\ (j.req \in {"me", "avatar"} \/ j.kind = "profile") => got \in UserType
      /\ i = [j EXCEPT !.st = st, !.got = got]
  OBVIOUS
<1>5. Good(tab, K, n2, made, jar, hist.out)
  <2> HIDE DEF n, n2, i
  <2> USE DEF K
  <2>1. QED
    BY <1>1, <1>2, <1>4, AnsweredGood
<1>6. Whole'
  BY <1>3, <1>5 DEF Whole
<1>7. Settled(tab)' /\ StorageGood' /\ HistGood'
  BY <1>1 DEF Settled, StorageGood, HistGood
<1>8. QED
  BY <1>6, <1>7 DEF Inv

\* What a waiting handler may ask after a logout.
LEMMA OutAsks ==
    ASSUME Inv, NEW j \in jobs, hist.out
    PROVE  \/ j.kind = "gone" \/ j.req \in {"signin", "public"}
           \/ j.kind = "invite" /\ j.tok = 0 /\ j.stage = "first" /\ j.st # "unauthorized" /\ j.req = "get"
           \/ j.kind = "boot" /\ j.req = "refresh" /\ j.ck = 0 /\ j.st # "ok"
<1>1. Harmless(j) /\ Asks(j)
  BY DEF Inv, Whole, Good, Out, HandlersGood, HandlerGood
<1>2. QED
  BY <1>1 DEF Harmless, Asks, SignIns

\* What Inv says of one handler.
LEMMA OneHandler ==
    ASSUME Inv, NEW j \in jobs
    PROVE  /\ HandlerGood(j, Len(issued), made) /\ Handler(j) /\ Asks(j) /\ Given(j, Len(issued)) /\ j.req \in Requests
           /\ j.ck \in Nat /\ j.ck <= Len(issued) /\ j.tok \in Nat /\ j.tok <= Len(issued)
           /\ j.from \in Nat /\ j.from <= tab.mount
           /\ j.stage \in {"first", "refresh", "retry"} /\ j.back \in Backs
           /\ Len(issued) \in Nat
<1>1. /\ HandlerGood(j, Len(issued), made) /\ j.from <= tab.mount
  BY DEF Inv, Whole, Good, HandlersGood
<1>2. /\ Handler(j) /\ Asks(j) /\ Given(j, Len(issued)) /\ j.req \in Requests
      /\ j.ck <= Len(issued) /\ j.tok <= Len(issued)
  BY <1>1 DEF HandlerGood
<1>3. /\ j.ck \in Nat /\ j.tok \in Nat /\ j.from \in Nat
      /\ j.stage \in {"first", "refresh", "retry"} /\ j.back \in Backs
  BY <1>2 DEF Handler
<1>4. Len(issued) \in Nat
  BY DEF Inv, ServerGood
<1>5. QED
  BY <1>1, <1>2, <1>3, <1>4

\* The pair a token is of, and its user.
LEMMA CallerIs ==
    ASSUME Inv, NEW j \in jobs, Knows(j)
    PROVE  Caller(j) \in Users /\ UserRecord(Caller(j)) \in UserType
<1>1. j.tok \in 1 .. Len(issued)
  BY OneHandler DEF Knows
<1>2. issued \in Seq(PairType) /\ members \in [Users -> SUBSET Orgs]
  BY DEF Inv, ServerGood
<1>3. issued[j.tok] \in PairType
  BY <1>1, <1>2
<1>4. Caller(j) \in Users
  BY <1>3 DEF Caller, PairType
<1>5. members[Caller(j)] \in SUBSET Orgs
  BY <1>2, <1>4
<1>6. QED
  BY <1>4, <1>5 DEF UserRecord, UserType

LEMMA PairIs == ASSUME NEW u \in Users PROVE Pair(u) \in PairType
BY DEF Pair, PairType

LEMMA ServeRefreshKeeps == ASSUME Inv, NEW j \in jobs, ServeRefresh(j) PROVE Inv'
<1>1. /\ UNCHANGED <<tab, jar, storage, members, complete, invited, made, hist>> /\ Asked(j) = "refresh"
  BY DEF ServeRefresh
<1>2. /\ issued \in Seq(PairType) /\ members \in [Users -> SUBSET Orgs]
      /\ complete \subseteq Users /\ invited \in BOOLEAN
  BY DEF Inv, ServerGood
<1>3. CASE j.ck # 0 /\ issued[j.ck].refresh
  <2> DEFINE s == [issued EXCEPT ![j.ck].refresh = FALSE]
             p == Pair(issued[j.ck].user)
  <2>1. issued' = Append(s, p) /\ jobs' = Answered(j, "ok", Len(issued'))
    BY <1>3 DEF ServeRefresh
  <2>2. j.ck \in 1 .. Len(issued)
    BY <1>3, OneHandler
  <2>3. issued[j.ck] \in PairType
    BY <1>2, <2>2
  <2>4. p \in PairType
    BY <2>3, PairIs DEF PairType
  <2>5. s \in Seq(PairType) /\ Len(s) = Len(issued)
    <3> DEFINE q == [issued[j.ck] EXCEPT !.refresh = FALSE]
    <3>1. q \in PairType
      BY <2>3 DEF PairType
    <3>2. s = [issued EXCEPT ![j.ck] = q]
      OBVIOUS
    <3> HIDE DEF q, s
    <3>3. QED
      BY <1>2, <2>2, <3>1, <3>2, ExceptSeq
  <2> HIDE DEF s, p
  <2>6. issued' \in Seq(PairType) /\ Len(issued') = Len(issued) + 1
    BY <2>1, <2>4, <2>5, AppendProperties
  <2>7. ServerGood'
    BY <1>1, <1>2, <2>6 DEF ServerGood
  <2>8. Len(issued) <= Len(issued') /\ Len(issued') \in 1 .. Len(issued')
    BY <1>2, <2>6
  <2>9. Asked(j) # "signin" /\ (j.stage # "refresh" => j.req = "refresh")
    BY <1>1 DEF Asked
  <2>10. j.stage # "refresh" => j.req \notin {"me", "avatar"} /\ j.kind # "profile"
    BY <2>9, OneHandler DEF Asks
  <2>11. hist.out => j.kind = "gone" \/ j.req \in {"signin", "public"}
    <3>1. j.stage = "refresh" => j.req \notin NoRefreshPaths
      BY OneHandler DEF HandlerGood
    <3>2. QED
      BY <1>3, <2>9, <3>1, OutAsks DEF NoRefreshPaths
  <2> DEFINE got == Len(issued')
  <2>12. jobs' = Answered(j, "ok", got) /\ got \in 1 .. Len(issued')
    BY <2>1, <2>8
  <2> HIDE DEF got
  <2>13. QED
    BY <1>1, <2>7, <2>8, <2>9, <2>10, <2>11, <2>12, ServedKeeps
<1>4. CASE ~(j.ck # 0 /\ issued[j.ck].refresh)
  <2>1. issued' = issued /\ jobs' = Answered(j, "unauthorized", Nothing)
    BY <1>4 DEF ServeRefresh
  <2>2. ServerGood' /\ Len(issued) <= Len(issued')
    BY <1>1, <1>2, <2>1 DEF ServerGood
  <2>3. hist.out => j.kind = "gone" \/ j.req \in {"signin", "public"} \/ j.kind = "boot"
    BY <1>1, OutAsks DEF Asked
  <2>4. QED
    BY <1>1, <2>1, <2>2, <2>3, ServedKeeps
<1>5. QED
  BY <1>3, <1>4
LEMMA ServeSignInKeeps == ASSUME Inv, NEW j \in jobs, ServeSignIn(j) PROVE Inv'
<1>1. /\ UNCHANGED <<tab, jar, storage, members, complete, invited, made, hist>> /\ j.req = "signin"
  BY DEF ServeSignIn
<1>2. /\ issued \in Seq(PairType) /\ members \in [Users -> SUBSET Orgs]
      /\ complete \subseteq Users /\ invited \in BOOLEAN
  BY DEF Inv, ServerGood
<1>3. j.arg \in Users /\ Asked(j) # "refresh" /\ j.kind # "profile"
  <2>1. j.stage # "refresh"
    BY <1>1, OneHandler DEF HandlerGood, NoRefreshPaths
  <2>2. QED
    BY <1>1, <2>1, OneHandler DEF HandlerGood, Asked, Asks, SignIns
<1>4. CASE j.kind # "mfa" /\ j.arg \in MfaUsers
  <2>1. issued' = issued /\ jobs' = Answered(j, "ok", Nothing)
    BY <1>4 DEF ServeSignIn
  <2>2. ServerGood' /\ Len(issued) <= Len(issued')
    BY <1>1, <1>2, <2>1 DEF ServerGood
  <2>3. QED
    BY <1>1, <1>3, <2>1, <2>2, ServedKeeps
<1>5. CASE ~(j.kind # "mfa" /\ j.arg \in MfaUsers)
  <2> DEFINE p == Pair(j.arg)
             got == Len(issued')
  <2>1. issued' = Append(issued, p) /\ jobs' = Answered(j, "ok", got) /\ p \in PairType
    BY <1>3, <1>5, PairIs DEF ServeSignIn
  <2> HIDE DEF p
  <2>2. issued' \in Seq(PairType) /\ Len(issued') = Len(issued) + 1
    BY <1>2, <2>1, AppendProperties
  <2>3. ServerGood' /\ Len(issued) <= Len(issued') /\ got \in 1 .. Len(issued')
    BY <1>1, <1>2, <2>2 DEF ServerGood
  <2> HIDE DEF got
  <2>4. QED
    BY <1>1, <1>3, <2>1, <2>3, ServedKeeps
<1>6. QED
  BY <1>4, <1>5

LEMMA ServeUnauthorizedKeeps == ASSUME Inv, NEW j \in jobs, ServeUnauthorized(j) PROVE Inv'
<1>1. /\ UNCHANGED <<tab, jar, storage, server, made, hist>> /\ jobs' = Answered(j, "unauthorized", Nothing)
      /\ Asked(j) \notin {"refresh", "signin", "public"}
      /\ Asked(j) = "get" /\ j.kind = "invite" => j.tok # 0
  BY DEF ServeUnauthorized
<1>2. ServerGood' /\ Len(issued) <= Len(issued')
  BY <1>1 DEF Inv, ServerGood, server
<1>3. hist.out => \/ j.kind = "gone" \/ j.req \in {"signin", "public"}
                  \/ j.kind = "invite" /\ ~(j.tok = 0 /\ j.stage = "first")
  BY <1>1, OutAsks DEF Asked
<1>4. QED
  BY <1>1, <1>2, <1>3, ServedKeeps

LEMMA ServeLogoutKeeps == ASSUME Inv, NEW j \in jobs, ServeLogout(j) PROVE Inv'
<1>1. /\ UNCHANGED <<tab, jar, storage, members, complete, invited, made, hist>>
      /\ jobs' = Answered(j, "ok", Nothing) /\ j.req = "logout"
      /\ issued' = IF j.ck = 0 THEN issued ELSE [issued EXCEPT ![j.ck].refresh = FALSE]
  BY DEF ServeLogout
<1>2. /\ issued \in Seq(PairType) /\ members \in [Users -> SUBSET Orgs]
      /\ complete \subseteq Users /\ invited \in BOOLEAN
  BY DEF Inv, ServerGood
<1>3. issued' \in Seq(PairType) /\ Len(issued') = Len(issued)
  <2>1. CASE j.ck = 0
    BY <1>1, <1>2, <2>1
  <2>2. CASE j.ck # 0
    <3> DEFINE q == [issued[j.ck] EXCEPT !.refresh = FALSE]
    <3>1. j.ck \in 1 .. Len(issued)
      BY <2>2, OneHandler
    <3>2. issued[j.ck] \in PairType
      BY <1>2, <3>1
    <3>3. q \in PairType
      BY <3>2 DEF PairType
    <3>4. issued' = [issued EXCEPT ![j.ck] = q]
      BY <1>1, <2>2
    <3> HIDE DEF q
    <3>5. QED
      BY <1>2, <3>1, <3>3, <3>4, ExceptSeq
  <2>3. QED
    BY <2>1, <2>2
<1>4. ServerGood' /\ Len(issued) <= Len(issued')
  BY <1>1, <1>2, <1>3 DEF ServerGood
<1>5. j.kind \in {"logout", "gone"} /\ Asked(j) # "signin" /\ (j.stage # "refresh") /\ Asked(j) # "refresh"
  <2>1. j.stage # "refresh"
    BY <1>1, OneHandler DEF HandlerGood, NoRefreshPaths
  <2>2. QED
    BY <1>1, <2>1, OneHandler DEF Asks, Asked
<1>6. hist.out => j.kind = "gone"
  BY <1>1, OutAsks
<1>7. QED
  BY <1>1, <1>4, <1>5, <1>6, ServedKeeps

LEMMA ServeGetKeeps == ASSUME Inv, NEW j \in jobs, ServeGet(j) PROVE Inv'
<1>1. /\ UNCHANGED <<tab, jar, storage, server, made, hist>> /\ j.stage # "refresh" /\ Asked(j) = j.req
  BY DEF ServeGet, Asked
<1>2. ServerGood' /\ Len(issued) <= Len(issued')
  BY <1>1 DEF Inv, ServerGood, server
<1>3. CASE j.req \in {"me", "avatar"} /\ Knows(j) /\ jobs' = Answered(j, "ok", UserRecord(Caller(j)))
  <2> DEFINE got == UserRecord(Caller(j))
  <2>1. got \in UserType /\ jobs' = Answered(j, "ok", got)
    BY <1>3, CallerIs
  <2> HIDE DEF got
  <2>2. hist.out => j.kind = "gone"
    BY <1>3, OutAsks
  <2>3. QED
    BY <1>1, <1>2, <1>3, <2>1, <2>2, ServedKeeps
<1>4. CASE j.req \in {"get", "public"} /\ jobs' = Answered(j, "ok", Nothing)
  <2>1. j.kind \notin {"profile", "boot"}
    BY <1>4, OneHandler DEF Asks
  <2>2. hist.out => j.kind \in {"gone", "invite"} \/ j.req \in {"signin", "public"}
    BY <2>1, OutAsks
  <2>3. QED
    BY <1>1, <1>2, <1>4, <2>1, <2>2, ServedKeeps
<1>5. QED
  BY <1>3, <1>4 DEF ServeGet

LEMMA ServePostKeeps == ASSUME Inv, NEW j \in jobs, ServePost(j) PROVE Inv'
<1>1. /\ UNCHANGED <<tab, jar, storage, issued, made, hist>> /\ j.stage # "refresh" /\ Asked(j) = "post" /\ j.req = "post"
      /\ Knows(j)
  BY DEF ServePost, Asked
<1>2. /\ issued \in Seq(PairType) /\ members \in [Users -> SUBSET Orgs]
      /\ complete \subseteq Users /\ invited \in BOOLEAN
  BY DEF Inv, ServerGood
<1>3. Caller(j) \in Users /\ UserRecord(Caller(j)) \in UserType
  BY <1>1, CallerIs
<1>4. Len(issued) <= Len(issued')
  BY <1>1, <1>2
<1>5. hist.out => j.kind = "gone"
  BY <1>1, OutAsks
<1>6. CASE /\ j.kind = "profile"
           /\ complete' = complete \cup {Caller(j)}
           /\ jobs' = Answered(j, "ok", [UserRecord(Caller(j)) EXCEPT !.complete = TRUE])
           /\ UNCHANGED <<members, invited>>
  <2> DEFINE got == [UserRecord(Caller(j)) EXCEPT !.complete = TRUE]
  <2>1. got \in UserType /\ jobs' = Answered(j, "ok", got)
    BY <1>3, <1>6 DEF UserType
  <2> HIDE DEF got
  <2>2. ServerGood'
    BY <1>1, <1>2, <1>3, <1>6 DEF ServerGood
  <2>3. QED
    BY <1>1, <1>4, <1>5, <2>1, <2>2, ServedKeeps
<1>7. CASE /\ j.kind \in {"org", "accept", "join", "form", "page"} /\ jobs' = Answered(j, "ok", Nothing)
           /\ UNCHANGED complete
  <2>1. members' \in [Users -> SUBSET Orgs] /\ invited' \in BOOLEAN
    <3>1. CASE j.kind = "org"
      <4>1. PICK o \in Orgs : members' = [members EXCEPT ![Caller(j)] = @ \cup {o}]
        BY <3>1 DEF ServePost
      <4>2. invited' = invited
        BY <3>1 DEF ServePost
      <4>3. QED
        BY <1>2, <1>3, <4>1, <4>2
    <3>2. CASE j.kind \in {"accept", "join"}
      <4>1. members' = [members EXCEPT ![Invitee] = @ \cup {InvitedTo}] /\ invited' = FALSE
        BY <3>2 DEF ServePost
      <4>2. QED
        BY <1>2, <4>1, UsersAssumption
    <3>3. CASE j.kind \in {"form", "page"}
      BY <1>2, <3>3 DEF ServePost
    <3>4. QED
      BY <1>7, <3>1, <3>2, <3>3
  <2>2. ServerGood'
    BY <1>1, <1>2, <1>7, <2>1 DEF ServerGood
  <2>3. QED
    BY <1>1, <1>4, <1>5, <1>7, <2>2, ServedKeeps
<1>8. QED
  BY <1>6, <1>7 DEF ServePost

LEMMA ServeRefusedKeeps == ASSUME Inv, NEW j \in jobs, ServeRefused(j) PROVE Inv'
<1>1. /\ UNCHANGED <<tab, jar, storage, server, made, hist>> /\ jobs' = Answered(j, "refused", Nothing)
  BY DEF ServeRefused
<1>2. ServerGood' /\ Len(issued) <= Len(issued')
  BY <1>1 DEF Inv, ServerGood, server
<1>3. hist.out => j.kind \in {"gone", "invite", "boot"} \/ j.req \in {"signin", "public"}
  BY OutAsks
<1>4. QED
  BY <1>1, <1>2, <1>3, ServedKeeps
\* Tokens expire, memberships end, an answer finds its document gone: the tree stays as it is.
LEMMA ExpiryKeeps ==
    ASSUME Inv, NEW m \in 1 .. Len(issued), AccessExpires(m) \/ RefreshExpires(m)
    PROVE  Inv'
<1>1. UNCHANGED <<tab, jar, storage, jobs, members, complete, invited, made, hist>>
  BY DEF AccessExpires, RefreshExpires
<1>2. issued \in Seq(PairType) /\ issued[m] \in PairType
  BY DEF Inv, ServerGood
<1>3. issued' \in Seq(PairType) /\ Len(issued') = Len(issued)
  <2>1. CASE AccessExpires(m)
    <3> DEFINE p == [issued[m] EXCEPT !.access = FALSE]
    <3>1. p \in PairType /\ issued' = [issued EXCEPT ![m] = p]
      BY <1>2, <2>1 DEF PairType, AccessExpires
    <3> HIDE DEF p
    <3>2. QED
      BY <1>2, <3>1, ExceptSeq
  <2>2. CASE RefreshExpires(m)
    <3> DEFINE p == [issued[m] EXCEPT !.access = FALSE, !.refresh = FALSE, !.aged = TRUE]
    <3>1. p \in PairType
      BY <1>2 DEF PairType
    <3>2. issued' = [issued EXCEPT ![m] = p]
      BY <1>2, <2>2 DEF RefreshExpires
    <3> HIDE DEF p
    <3>3. QED
      BY <1>2, <3>1, <3>2, ExceptSeq
  <2>3. QED
    BY <2>1, <2>2
<1>4. QED
  BY <1>1, <1>3 DEF Inv, Whole, Settled, ServerGood, StorageGood, HistGood

LEMMA RevokeKeeps == ASSUME Inv, NEW u \in Users, NEW o \in Orgs, Revoke(u, o) PROVE Inv'
<1>1. UNCHANGED <<tab, jar, storage, jobs, issued, complete, invited, made, hist>>
  BY DEF Revoke
<1>2. members' = [members EXCEPT ![u] = @ \ {o}] /\ members \in [Users -> SUBSET Orgs]
  BY DEF Revoke, Inv, ServerGood
<1>3. members' \in [Users -> SUBSET Orgs]
  BY <1>2
<1>4. QED
  BY <1>1, <1>3 DEF Inv, Whole, Settled, ServerGood, StorageGood, HistGood

LEMMA AbandonedKeeps == ASSUME Inv, NEW j \in jobs, Abandoned(j) PROVE Inv'
<1>1. /\ j.kind = "gone" /\ jobs' = jobs \ {j}
      /\ UNCHANGED <<tab, jar, storage, issued, members, complete, invited, made, hist>>
  BY DEF Abandoned, server
<1>2. Good(tab, jobs, Len(issued), made, jar, hist.out) /\ Settled(tab)
  BY DEF Inv, Whole
<1>3. j \notin OwnForms(jobs, tab.mount) /\ j \notin OwnSocial(jobs, tab.mount) /\ ~Settles(j)
  BY <1>1 DEF OwnForms, OwnSocial, Own, Settles
<1>4. /\ TreeGood(tab, Len(issued)) /\ Out(hist.out, tab, jobs \ {j}, jar) /\ jar \in 0 .. Len(issued)
      /\ tab.form.busy \in BOOLEAN /\ tab.form.social \in BOOLEAN
  BY <1>2 DEF Good, Out, TreeGood, Tree, Form
<1>5. Good(tab, jobs \ {j}, Len(issued), made, jar, hist.out)
  BY <1>2, <1>3, <1>4, EndsGood
<1>6. Whole'
  BY <1>1, <1>5 DEF Whole
<1>7. QED
  BY <1>1, <1>6 DEF Inv, Settled, ServerGood, StorageGood, HistGood

\* A document is opened again: what was sent may still be served, and the cookie is tried.
LEMMA BootIs ==
    ASSUME Inv, NEW b, b = [Boot EXCEPT !.n = made + 1, !.ck = jar, !.alone = (jobs = {})]
    PROVE  /\ HandlerGood(b, Len(issued), made + 1) /\ b.from = 0 /\ b.kind = "boot" /\ b.req = "refresh"
           /\ b.ck = jar /\ b.st = "sent"
<1>1. made \in Nat /\ jar \in 0 .. Len(issued) /\ Len(issued) \in Nat
  BY DEF Inv, Whole, Good, HistGood, ServerGood
<1> DEFINE alone == jobs = {}
<1>2. alone \in BOOLEAN
  OBVIOUS
<1>3. b = [n |-> made + 1, kind |-> "boot", arg |-> Nothing, from |-> 0, req |-> "refresh", stage |-> "first",
           tok |-> 0, ck |-> jar, st |-> "sent", got |-> Nothing, back |-> Nothing, alone |-> alone]
  BY DEF Boot
<1> HIDE DEF alone
<1>4. /\ b.n = made + 1 /\ b.kind = "boot" /\ b.from = 0 /\ b.req = "refresh" /\ b.stage = "first"
      /\ b.tok = 0 /\ b.ck = jar /\ b.st = "sent" /\ b.got = Nothing /\ b.arg = Nothing
  BY ONLY <1>3
<1>5. Handler(b)
  BY <1>1, <1>2, <1>3, <1>4 DEF Handler, Kinds, Backs
<1>6. b.n \in 1 .. made + 1 /\ b.tok <= Len(issued) /\ b.ck <= Len(issued)
  BY <1>1, <1>4
<1>7. QED
  BY <1>4, <1>5, <1>6 DEF HandlerGood, Asks, Given, Requests
\* The tree of a new document, loading.
LEMMA NewTabIs ==
    ASSUME NEW r \in Routes, NEW mount \in Nat \ {0}, NEW t, NEW n \in Nat,
           t = [status |-> "loading", user |-> Nothing, token |-> 0, route |-> r, back |-> Nothing,
                challenge |-> Nothing, chosen |-> Nothing, view |-> IF r = "invite" THEN r ELSE "spinner",
                form |-> NewForm(IF r = "invite" THEN r ELSE "spinner"), mount |-> mount,
                timer |-> Nothing, stray |-> {}]
    PROVE  /\ TreeGood(t, n) /\ Settled(t) /\ ~hasShell(t) /\ Wizards(t.view, t.form)
           /\ t.status = "loading" /\ t.user = Nothing /\ t.token = 0 /\ t.stray = {} /\ t.mount = mount
           /\ ~t.form.busy /\ ~t.form.social
<1> DEFINE v == IF r = "invite" THEN r ELSE "spinner"
           f == NewForm(v)
<1>1. f \in Form /\ f.step = 0 /\ ~f.busy /\ ~f.social /\ f.at # "accepted"
  BY NewFormType
<1>2. v \in Views /\ v \notin {"onboarding", "orgSetup"} /\ (v = "invite" <=> r = "invite")
      /\ v = IF r = "invite" THEN "invite" ELSE "spinner"
  BY DEF Views, Routes
<1>3. t = [status |-> "loading", user |-> Nothing, token |-> 0, route |-> r, back |-> Nothing,
           challenge |-> Nothing, chosen |-> Nothing, view |-> v, form |-> f, mount |-> mount,
           timer |-> Nothing, stray |-> {}]
  OBVIOUS
<1> HIDE DEF f, v
<1>4. /\ t.status = "loading" /\ t.user = Nothing /\ t.token = 0 /\ t.stray = {} /\ t.mount = mount
      /\ t.route = r /\ t.view = v /\ t.form = f /\ t.timer = Nothing /\ t.chosen = Nothing /\ t.back = Nothing
      /\ t.challenge = Nothing
  BY ONLY <1>3
<1>5. t \in Tree
  BY <1>1, <1>2, <1>3 DEF Tree, Backs, Timers
<1>6. TreeGood(t, n)
  BY <1>4, <1>5 DEF TreeGood
<1>7. ~hasShell(t)
  BY <1>4 DEF hasShell
<1>8. Settled(t)
  BY <1>1, <1>2, <1>4, <1>7 DEF Settled, ViewOf, LeaveTimer
<1>9. QED
  BY <1>1, <1>2, <1>4, <1>6, <1>7, <1>8 DEF Wizards

\* A document that is gone leaves what it sent.
LEMMA GoneGood ==
    ASSUME NEW n \in Nat, NEW k \in Nat, NEW j, HandlerGood(j, n, k), j.req # "me", NEW i, i = [j EXCEPT !.kind = "gone"]
    PROVE  HandlerGood(i, n, k + 1) /\ i.kind = "gone" /\ i.from = j.from
<1>1. Handler(j) /\ j.n \in 1 .. k /\ j.tok <= n /\ j.ck <= n
  BY DEF HandlerGood
<1>2. /\ i.kind = "gone" /\ i.n = j.n /\ i.from = j.from /\ i.arg = j.arg /\ i.req = j.req
      /\ i.stage = j.stage /\ i.tok = j.tok /\ i.ck = j.ck /\ i.st = j.st /\ i.got = j.got
  BY <1>1 DEF Handler
<1>3. Handler(i)
  BY <1>1, <1>2 DEF Handler, Kinds
<1>4. Given(i, n)
  BY <1>2 DEF HandlerGood, Given, Asked
<1>5. i.n \in 1 .. k + 1 /\ i.tok <= n /\ i.ck <= n
  BY <1>1, <1>2
<1>6. QED
  BY <1>2, <1>3, <1>4, <1>5 DEF HandlerGood, Asks

LEMMA ReloadKeeps == ASSUME Inv, NEW r \in Entries, Reload(r) PROVE Inv'
<1> DEFINE n == Len(issued)
           G == {[j EXCEPT !.kind = "gone"] : j \in {k \in jobs : k.st = "sent" /\ k.req # "me"}}
           b == [Boot EXCEPT !.n = made + 1, !.ck = jar, !.alone = (jobs = {})]
           t == NewTab(r)
<1>1. /\ made' = made + 1 /\ tab' = t /\ jobs' = G \cup {b}
      /\ storage' = [storage EXCEPT !.invite = @ \/ r = "invite"]
      /\ UNCHANGED <<jar, issued, members, complete, invited, hist>>
  BY DEF Reload, server
<1>2. /\ Good(tab, jobs, n, made, jar, hist.out) /\ ServerGood /\ StorageGood /\ HistGood
      /\ n \in Nat /\ made \in Nat \ {0} /\ tab.mount \in Nat \ {0} /\ jar \in 0 .. n
  BY DEF Inv, Whole, ServerGood, HistGood, Good, TreeGood, Tree
<1>3. r \in Routes /\ tab.mount + 1 \in Nat \ {0}
  BY <1>2, EntriesAssumption
<1>4. /\ TreeGood(t, n) /\ Settled(t) /\ ~hasShell(t) /\ Wizards(t.view, t.form)
      /\ t.status = "loading" /\ t.user = Nothing /\ t.token = 0 /\ t.stray = {} /\ t.mount = tab.mount + 1
      /\ ~t.form.busy /\ ~t.form.social
  BY <1>2, <1>3, NewTabIs DEF NewTab
<1>5. /\ HandlerGood(b, n, made + 1) /\ b.from = 0 /\ b.kind = "boot" /\ b.req = "refresh"
      /\ b.ck = jar /\ b.st = "sent"
  BY BootIs
<1>6. \A g \in G : /\ HandlerGood(g, n, made + 1) /\ g.kind = "gone" /\ g.from \in Nat /\ g.from <= tab.mount
  <2> SUFFICES ASSUME NEW j \in jobs, j.req # "me"
               PROVE  LET g == [j EXCEPT !.kind = "gone"] IN
                      HandlerGood(g, n, made + 1) /\ g.kind = "gone" /\ g.from \in Nat /\ g.from <= tab.mount
    OBVIOUS
  <2>1. HandlerGood(j, n, made) /\ j.from <= tab.mount /\ j.from \in Nat
    BY OneHandler
  <2>2. QED
    BY <1>2, <2>1, GoneGood
<1> HIDE DEF n, G, b, t
<1>7. HandlersGood(G \cup {b}, n, made + 1, t.mount)
  BY <1>2, <1>4, <1>5, <1>6 DEF HandlersGood
<1>8. Own(G \cup {b}, t.mount) = {}
  BY <1>2, <1>4, <1>5, <1>6 DEF Own
<1>9. Locked(t.form, G \cup {b}, t.mount)
  BY <1>4, <1>8 DEF Locked, OwnForms, OwnSocial, AtMostOne
<1>10. OnView(G \cup {b}, t.mount, t.view, t.status)
  BY <1>2, <1>4, <1>5, <1>6 DEF OnView
<1>11. SpinnerEnds(t.status, G \cup {b})
  BY <1>5 DEF SpinnerEnds, Settles
<1>12. Out(hist.out, t, G \cup {b}, jar)
  BY <1>2, <1>4, <1>5, <1>6 DEF Good, Out, Harmless
<1>13. Good(t, G \cup {b}, n, made + 1, jar, hist.out)
  BY <1>2, <1>4, <1>7, <1>9, <1>10, <1>11, <1>12 DEF Good
<1>14. Whole' /\ Settled(tab)'
  BY <1>1, <1>4, <1>13 DEF Whole, n
<1>15. StorageGood'
  BY <1>1, <1>2, <1>4 DEF StorageGood
<1>16. ServerGood' /\ HistGood'
  BY <1>1, <1>2 DEF ServerGood, HistGood
<1>17. QED
  BY <1>14, <1>15, <1>16 DEF Inv
----------------------------------------------------------------------------
(* Answers.                                                                *)

\* Handler j of J has ended, and left t2 of the page of t: its locks are open.
Left(t, t2, J, j) ==
    /\ t2.mount = t.mount /\ t2.view = t.view
    /\ t2.form.step = t.form.step /\ t2.form.first = t.form.first /\ t2.form.second = t.form.second
    /\ t2.form.busy <=> t.form.busy /\ j \notin OwnForms(J, t.mount)
    /\ t2.form.social <=> t.form.social /\ j \notin OwnSocial(J, t.mount)

SamePage(t2, t) == t2.mount = t.mount /\ t2.view = t.view /\ t2.form = t.form /\ t2.timer = t.timer

SameUser(t2, t) == t2.status = t.status /\ t2.user = t.user /\ t2.token = t.token /\ t2.stray = t.stray

\* History keeps the shape of its record.
HistLike(h) == h \in [out : BOOLEAN, expiry : {h.expiry}]

\* Handler j is over: the handlers that are left, the token in memory, and history.
Over(j, token, h) == jobs' = jobs \ {j} /\ tab'.token = token /\ hist' = h

LEMMA EndsKeeps ==
    ASSUME Inv, NEW j \in jobs, NEW t2, NEW invite \in BOOLEAN, NEW h, Ends(j, t2, invite, h), HistLike(h),
           UNCHANGED <<server, made>>, jar' \in 0 .. Len(issued),
           TreeGood(t2, Len(issued)), Left(tab, t2, jobs, j),
           t2.status = "loading" => tab.status = "loading" /\ ~Settles(j),
           Out(h.out, t2, jobs \ {j}, jar')
    PROVE  Inv' /\ Over(j, t2.token, h)
<1> DEFINE n == Len(issued)
           ck2 == jar'
           K == jobs \ {j}
<1>1. Good(tab, jobs, n, made, jar, hist.out) /\ Settled(tab) /\ ServerGood /\ StorageGood /\ HistGood
  BY DEF Inv, Whole
<1>2. jobs' = K /\ Render(t2, invite) /\ hist' = h /\ jar' = ck2 /\ ck2 \in 0 .. n
  BY DEF Ends
<1>3. TreeGood(t2, n) /\ Out(h.out, t2, K, ck2)
  OBVIOUS
<1>4. Good(t2, K, n, made, ck2, h.out)
  <2> HIDE DEF n, ck2
  <2> USE DEF K
  <2>1. QED
    BY <1>1, <1>2, <1>3, EndsGood DEF Left
<1>5. Good(t2, jobs', Len(issued'), made', jar', hist'.out)
  <2> HIDE DEF K
  <2>1. QED
    BY <1>2, <1>4 DEF server
<1>6. Whole' /\ Settled(tab)' /\ StorageGood'
  BY <1>1, <1>2, <1>5, RenderKeeps
<1>7. ServerGood' /\ HistGood'
  BY <1>1, <1>2 DEF ServerGood, HistGood, HistLike, server
<1>8. tab'.token = t2.token
  BY <1>1, <1>2, <1>3, TokenKept DEF TreeGood
<1>9. QED
  BY <1>2, <1>6, <1>7, <1>8 DEF Inv, Over

\* A handler goes on with another request, or with the same again.
GoesOn(j, req) ==
    \/ req = j.req /\ req # "signin"
    \/ req = "me" /\ j.kind \in SignIns \cup {"boot", "accept", "join", "org"}
    \/ req = "avatar" /\ j.kind = "profile"

\* Handler j goes on as i; a retry presents the token it was given.
Onward(j, token, stage) ==
    \E i : /\ jobs' = (jobs \ {j}) \cup {i}
           /\ i.kind = j.kind /\ i.alone = j.alone /\ i.st = "sent" /\ i.ck = jar' /\ i.stage = stage
           /\ stage = "retry" => i.tok = token
           /\ tab'.token = token

LEMMA ContinuesKeeps ==
    ASSUME Inv, NEW j \in jobs, NEW t2, NEW req, NEW stage \in {"first", "refresh", "retry"},
           Continues(j, t2, req, stage), GoesOn(j, req), HistLike(hist'), ~hist'.out,
           UNCHANGED <<server, made>>, jar' \in 0 .. Len(issued),
           stage # "first" => req \notin NoRefreshPaths,
           TreeGood(t2, Len(issued)), SamePage(t2, tab),
           t2.status = "loading" => tab.status = "loading" \/ (j.kind \in {"accept", "join", "org"} /\ req = "me"),
           j.kind \in {"join", "org"} /\ req = "me" => j.req = "me" \/ t2.status = "loading"
    PROVE  Inv' /\ Onward(j, t2.token, stage)
<1> DEFINE n == Len(issued)
           ck2 == jar'
           i == Request(t2, j, req, stage, ck2)
           K == (jobs \ {j}) \cup {i}
           out == hist'.out
<1>1. /\ Good(tab, jobs, n, made, jar, hist.out) /\ Settled(tab) /\ ServerGood /\ StorageGood /\ HistGood
      /\ n \in Nat
  BY DEF Inv, Whole, ServerGood
<1>2. jobs' = K /\ Render(t2, storage.invite) /\ ck2 \in 0 .. n
  BY DEF Continues
<1>3. /\ HandlerGood(j, n, made) /\ Handler(j) /\ Asks(j) /\ j.req \in Requests
  BY OneHandler
<1>4. req \in Requests
  BY <1>3 DEF GoesOn, Requests
<1>5. j.kind \in Kinds
  BY <1>3 DEF Handler
<1>6. Requested(i, t2, j, req, stage, ck2)
  <2>1. t2.token \in Nat /\ ck2 \in Nat
    BY <1>1, <1>2 DEF TreeGood, Tree
  <2> HIDE DEF ck2
  <2> DEFINE i2 == Request(t2, j, req, stage, ck2)
  <2>2. Requested(i2, t2, j, req, stage, ck2)
    <3> DEFINE x == i2
    <3>1. x = Request(t2, j, req, stage, ck2)
      OBVIOUS
    <3> HIDE DEF x
    <3>2. Requested(x, t2, j, req, stage, ck2)
      BY <1>3, <1>4, <2>1, <3>1, RequestIs
    <3>3. QED
      BY <3>2 DEF x
  <2>3. QED
    BY <2>2
<1>7. i.kind = j.kind /\ i.from = j.from /\ i.req = req
  BY <1>6 DEF Requested
<1>8. Asks(i)
  BY <1>3, <1>7 DEF Asks, GoesOn, SignIns
<1>9. HandlerGood(i, n, made)
  <2>1. i = Request(t2, j, req, stage, ck2) /\ TreeGood(t2, n) /\ (req = "signin" => j.arg \in Users)
    BY DEF GoesOn
  <2> HIDE DEF i, n, ck2
  <2>2. QED
    BY <1>1, <1>2, <1>3, <1>4, <1>8, <2>1, RequestGood
<1> HIDE DEF i
<1>10. Good(t2, K, n, made, ck2, out)
  <2>1. Settles(j) => Settles(i)
    BY <1>7 DEF Settles, GoesOn, SignIns
  <2>2. j.kind \in {"accept", "join", "org"} /\ req = "me" => Settles(i)
    BY <1>7 DEF Settles
  <2>3. t2.status = "loading" => (tab.status = "loading" /\ (Settles(j) => Settles(i))) \/ Settles(i)
    BY <2>1, <2>2
  <2>4. i.kind \in {"join", "org"} /\ i.req = "me" => j.req = "me" \/ t2.status = "loading"
    BY <1>7
  <2>5. Out(out, t2, (jobs \ {j}) \cup {i}, ck2) /\ TreeGood(t2, n)
    BY DEF Out
  <2>6. t2.mount = tab.mount /\ t2.view = tab.view /\ t2.form = tab.form
    BY DEF SamePage
  <2> HIDE DEF n, ck2, out
  <2>7. QED
    BY <1>1, <1>2, <1>7, <1>9, <2>3, <2>4, <2>5, <2>6, ContinuesGood
<1>11. Good(t2, jobs', Len(issued'), made', jar', hist'.out)
  <2> HIDE DEF K
  <2>1. QED
    BY <1>2, <1>10 DEF server
<1>12. Whole' /\ Settled(tab)' /\ StorageGood'
  BY <1>1, <1>2, <1>11, RenderKeeps DEF StorageGood
<1>13. ServerGood' /\ HistGood'
  BY <1>1 DEF ServerGood, HistGood, HistLike, server
<1>14. tab'.token = t2.token
  BY <1>1, <1>2, TokenKept DEF TreeGood
<1>15. Onward(j, t2.token, stage)
  <2> HIDE DEF ck2
  <2>1. jobs' = K /\ (stage = "retry" => i.tok = t2.token)
    BY <1>2, <1>6 DEF Requested
  <2>2. i.kind = j.kind /\ i.alone = j.alone /\ i.st = "sent" /\ i.ck = ck2 /\ i.stage = stage
    BY <1>6 DEF Requested
  <2>3. QED
    BY <1>14, <2>1, <2>2 DEF Onward, K, ck2
<1>16. QED
  BY <1>12, <1>13, <1>15 DEF Inv
(* What the transformers of a tree do.                                     *)

LEMMA SubmissionEndedIs ==
    ASSUME NEW n, NEW t, TreeGood(t, n), NEW J, NEW j \in J, j.kind \notin {"logout", "gone"}, NEW ok \in BOOLEAN,
           NEW t2, t2 = SubmissionEnded(j, t, ok)
    PROVE  TreeGood(t2, n) /\ Left(t, t2, J, j) /\ SameUser(t2, t)
<1> DEFINE busy == IF j.kind \in {"social", "invite", "page"} THEN t.form.busy ELSE FALSE
           social == IF j.kind = "social" THEN FALSE ELSE t.form.social
           at == IF j.kind \in {"invite", "page"} THEN IF ok THEN "ready" ELSE "error"
                 ELSE IF ok /\ t.view # "verify" THEN "done"
                 ELSE IF t.view = "link" THEN "error" ELSE t.form.at
           f == [t.form EXCEPT !.busy = busy, !.social = social, !.at = at]
<1>1. t \in Tree /\ t.form \in Form
  BY DEF TreeGood, Tree
<1>2. CASE j.from # t.mount
  <2>1. t2 = t
    BY <1>2 DEF SubmissionEnded
  <2>2. j \notin OwnForms(J, t.mount) /\ j \notin OwnSocial(J, t.mount)
    BY <1>2 DEF OwnForms, OwnSocial, Own
  <2>3. t.form.busy \in BOOLEAN /\ t.form.social \in BOOLEAN
    BY <1>1 DEF Form
  <2>4. QED
    BY <2>1, <2>2, <2>3 DEF Left, SameUser
<1>3. CASE j.from = t.mount
  <2>1. t2 = [t EXCEPT !.form = f]
    BY <1>1, <1>3 DEF SubmissionEnded, Tree, Form
  <2>2. busy \in BOOLEAN /\ social \in BOOLEAN /\ at \in {"idle", "verifying", "loading", "ready", "error", "done", "accepted"}
    BY <1>1 DEF Form
  <2>3. /\ busy <=> t.form.busy /\ j \notin OwnForms(J, t.mount)
        /\ social <=> t.form.social /\ j \notin OwnSocial(J, t.mount)
    <3>1. t.form.busy \in BOOLEAN /\ t.form.social \in BOOLEAN
      BY <1>1 DEF Form
    <3>2. j \in OwnForms(J, t.mount) <=> j.kind \notin {"social", "invite", "page"}
      BY <1>3 DEF OwnForms, Own
    <3>3. j \in OwnSocial(J, t.mount) <=> j.kind = "social"
      BY <1>3 DEF OwnSocial, Own
    <3>4. QED
      BY <3>1, <3>2, <3>3
  <2> HIDE DEF busy, social, at
  <2>4. /\ f \in Form /\ f.step = t.form.step /\ f.first = t.form.first /\ f.second = t.form.second
        /\ f.busy = busy /\ f.social = social
    BY <1>1, <2>2 DEF Form
  <2> HIDE DEF f
  <2>5. /\ TreeGood(t2, n) /\ t2.form = f
        /\ t2.mount = t.mount /\ t2.view = t.view /\ t2.status = t.status /\ t2.user = t.user
        /\ t2.token = t.token /\ t2.stray = t.stray
    BY <2>1, <2>4, FormChanges
  <2>6. QED
    BY <2>3, <2>4, <2>5 DEF Left, SameUser
<1>4. QED
  BY <1>2, <1>3

\* Who is signed in changes, with what is known of them: the page stays.
LEMMA SignedInIs ==
    ASSUME NEW n, NEW t, TreeGood(t, n), NEW u \in UserType, NEW t2, t2 = SignedIn(t, u)
    PROVE  /\ TreeGood(t2, n) /\ SamePage(t2, t)
           /\ t2.status = "authenticated" /\ t2.user = u /\ t2.token = t.token /\ t2.stray = t.stray
<1>1. t \in Tree
  BY DEF TreeGood
<1>2. /\ SamePage(t2, t)
      /\ t2.status = "authenticated" /\ t2.user = u /\ t2.token = t.token /\ t2.stray = t.stray
  BY <1>1 DEF SignedIn, SamePage, Tree
<1>3. t2 \in Tree
  BY <1>1 DEF SignedIn, Tree
<1>4. QED
  BY <1>2, <1>3, SomeUser DEF TreeGood, SamePage

LEMMA SignedOutIs ==
    ASSUME NEW n \in Nat, NEW t, TreeGood(t, n), NEW t2, t2 = SignedOut(t)
    PROVE  /\ TreeGood(t2, n) /\ SamePage(t2, t)
           /\ t2.status = "unauthenticated" /\ t2.user = Nothing /\ t2.token = 0 /\ t2.stray = t.stray
<1>1. t \in Tree
  BY DEF TreeGood
<1>2. /\ SamePage(t2, t)
      /\ t2.status = "unauthenticated" /\ t2.user = Nothing /\ t2.token = 0 /\ t2.stray = t.stray
  BY <1>1 DEF SignedOut, SamePage, Tree
<1>3. t2 \in Tree
  BY <1>1 DEF SignedOut, Tree
<1>4. QED
  BY <1>2, <1>3 DEF TreeGood, SamePage

LEMMA LoggedOutIs ==
    ASSUME NEW n \in Nat, NEW t, TreeGood(t, n), NEW t2, t2 = LoggedOut(t)
    PROVE  /\ TreeGood(t2, n) /\ SamePage(t2, t)
           /\ t2.status = "unauthenticated" /\ t2.user = Nothing /\ t2.token = 0 /\ t2.stray = t.stray
<1> DEFINE s == SignedOut(t)
<1>1. /\ TreeGood(s, n) /\ SamePage(s, t)
      /\ s.status = "unauthenticated" /\ s.user = Nothing /\ s.token = 0 /\ s.stray = t.stray
  BY SignedOutIs
<1>2. t2 = [s EXCEPT !.route = "login", !.back = Nothing]
  BY DEF LoggedOut
<1> HIDE DEF s
<1>3. s \in Tree /\ "login" \in Routes /\ Nothing \in Backs
  BY <1>1 DEF TreeGood, Routes, Guest, Backs
<1>4. /\ t2.status = s.status /\ t2.user = s.user /\ t2.token = s.token /\ t2.stray = s.stray
      /\ SamePage(t2, s)
  BY <1>2, <1>3 DEF Tree, SamePage
<1>5. t2 \in Tree
  BY <1>2, <1>3 DEF Tree
<1>6. QED
  BY <1>1, <1>4, <1>5 DEF TreeGood, SamePage

\* Where the tree is sent, and which sign-in waits for a code.
LEMMA SentIs ==
    ASSUME NEW n, NEW t, TreeGood(t, n), NEW d \in Routes, NEW c \in Users \cup {Nothing}, NEW t2,
           t2 = [t EXCEPT !.route = d, !.challenge = c, !.back = Nothing]
    PROVE  TreeGood(t2, n) /\ SamePage(t2, t) /\ SameUser(t2, t)
<1>1. t \in Tree /\ Nothing \in Backs
  BY DEF TreeGood, Backs
<1>2. SameUser(t2, t) /\ SamePage(t2, t)
  BY <1>1 DEF Tree, SamePage, SameUser
<1>3. t2 \in Tree
  BY <1>1 DEF Tree
<1>4. QED
  BY <1>2, <1>3 DEF TreeGood, SamePage, SameUser

LEMMA TokenIs ==
    ASSUME NEW n \in Nat, NEW t, TreeGood(t, n), NEW k \in 0 .. n, NEW t2, t2 = [t EXCEPT !.token = k]
    PROVE  /\ TreeGood(t2, n) /\ SamePage(t2, t)
           /\ t2.status = t.status /\ t2.user = t.user /\ t2.token = k /\ t2.stray = t.stray
<1>1. t \in Tree /\ k \in Nat /\ k <= n
  BY DEF TreeGood
<1>2. /\ t2.status = t.status /\ t2.user = t.user /\ t2.token = k /\ t2.stray = t.stray
      /\ SamePage(t2, t)
  BY <1>1 DEF Tree, SamePage
<1>3. t2 \in Tree
  BY <1>1 DEF Tree
<1>4. QED
  BY <1>1, <1>2, <1>3 DEF TreeGood, SamePage

LEMMA RefreshingIs ==
    ASSUME NEW n, NEW t, TreeGood(t, n), NEW t2, t2 = Refreshing(t)
    PROVE  /\ TreeGood(t2, n) /\ SamePage(t2, t)
           /\ t2.status = "loading" /\ t2.user = t.user /\ t2.token = t.token /\ t2.stray = t.stray
<1>1. t \in Tree
  BY DEF TreeGood
<1>2. /\ t2.status = "loading" /\ t2.user = t.user /\ t2.token = t.token /\ t2.stray = t.stray
      /\ SamePage(t2, t)
  BY <1>1 DEF Tree, SamePage, Refreshing
<1>3. t2 \in Tree
  BY <1>1 DEF Tree, Refreshing
<1>4. QED
  BY <1>2, <1>3 DEF TreeGood, SamePage
\* A handler with no lock of the page leaves it as it is.
LEMMA LeftAlone ==
    ASSUME NEW n, NEW t, TreeGood(t, n), NEW J, NEW j, j \notin Own(J, t.mount), NEW t2, SamePage(t2, t)
    PROVE  Left(t, t2, J, j)
<1>1. t.form.busy \in BOOLEAN /\ t.form.social \in BOOLEAN
  BY DEF TreeGood, Tree, Form
<1>2. QED
  BY <1>1 DEF Left, SamePage, OwnForms, OwnSocial

LEMMA LeftThrough ==
    ASSUME NEW t, NEW s, NEW t2, NEW J, NEW j,
           \/ SamePage(s, t) /\ Left(s, t2, J, j)
           \/ Left(t, s, J, j) /\ SamePage(t2, s)
    PROVE  Left(t, t2, J, j)
BY DEF Left, SamePage

\* refreshUser has ended.
LEMMA AfterRefreshUserKeeps ==
    ASSUME Inv, NEW j \in jobs, j.req = "me", j.kind \notin SignIns, j.kind # "gone", NEW t, TreeGood(t, Len(issued)),
           SamePage(t, tab), t.status # "loading", NEW h, HistLike(h), ~h.out, AfterRefreshUser(j, t, h),
           UNCHANGED <<server, made>>, jar' \in 0 .. Len(issued)
    PROVE  Inv' /\ Over(j, t.token, h)
<1> DEFINE n == Len(issued)
<1>1. /\ Good(tab, jobs, n, made, jar, hist.out) /\ Settled(tab) /\ TreeGood(tab, n) /\ tab \in Tree
      /\ storage.invite \in BOOLEAN
  BY DEF Inv, Whole, Good, TreeGood, StorageGood
<1>2. ASSUME NEW t2, NEW invite \in BOOLEAN, Ends(j, t2, invite, h), TreeGood(t2, n), t2.status = t.status,
             Left(tab, t2, jobs, j), t2.token = t.token
      PROVE  Inv' /\ Over(j, t.token, h)
  BY <1>2, EndsKeeps DEF Out
<1>3. ASSUME NEW invite \in BOOLEAN, Ends(j, t, invite, h), j.from # tab.mount PROVE Inv' /\ Over(j, t.token, h)
  <2>1. Left(tab, t, jobs, j)
    BY <1>1, <1>3, LeftAlone DEF Own
  <2>2. QED
    BY <1>2, <1>3, <2>1
<1>4. CASE j.kind = "accept"
  <2>1. CASE j.from # t.mount
    <3>1. Ends(j, t, FALSE, h) /\ j.from # tab.mount
      BY <1>4, <2>1 DEF AfterRefreshUser, SamePage
    <3>2. QED
      BY <1>3, <3>1
  <2>2. CASE j.from = t.mount
    <3> DEFINE f == [t.form EXCEPT !.busy = FALSE, !.at = "accepted"]
               t2 == [t EXCEPT !.form.busy = FALSE, !.form.at = "accepted"]
    <3>1. Ends(j, t2, FALSE, h)
      BY <1>4, <2>2 DEF AfterRefreshUser
    <3>2. t \in Tree /\ t.form \in Form /\ t.form = tab.form /\ t.mount = tab.mount /\ t.view = tab.view
      BY DEF TreeGood, Tree, SamePage
    <3>3. t2 = [t EXCEPT !.form = f]
      BY <3>2 DEF Tree, Form
    <3>4. /\ f \in Form /\ f.step = t.form.step /\ f.first = t.form.first /\ f.second = t.form.second
          /\ ~f.busy /\ f.social = t.form.social
      BY <3>2 DEF Form
    <3> HIDE DEF f, t2
    <3>5. TreeGood(t2, n) /\ t2.form = f /\ t2.mount = t.mount /\ t2.view = t.view /\ t2.status = t.status
               /\ t2.token = t.token
      BY <3>3, <3>4, FormChanges
    <3>6. j \in OwnForms(jobs, tab.mount) /\ j \notin OwnSocial(jobs, tab.mount) /\ tab.form.social \in BOOLEAN
      BY <1>4, <2>2, <3>2 DEF OwnForms, OwnSocial, Own, Form
    <3>7. Left(tab, t2, jobs, j)
      BY <3>2, <3>4, <3>5, <3>6 DEF Left
    <3>8. QED
      BY <1>2, <3>1, <3>5, <3>7
  <2>3. QED
    BY <2>1, <2>2
<1>5. CASE j.kind = "join"
  <2>1. j.from # tab.mount
    BY <1>1, <1>5, NoneWaitsForUser
  <2>2. setSelectedOrganizationId(j, t, InvitedTo) = t
    BY <2>1 DEF setSelectedOrganizationId, SamePage
  <2>3. Ends(j, t, FALSE, h)
    BY <1>5, <2>2 DEF AfterRefreshUser
  <2>4. QED
    BY <1>3, <2>1, <2>3
<1>6. CASE j.kind \in {"org", "boot"}
  <2>1. j.from # tab.mount
    BY <1>1, <1>6, NoneWaitsForUser, OneHandler DEF Asks, SignIns, Tree
  <2>2. Ends(j, t, storage.invite, h)
    BY <1>6 DEF AfterRefreshUser
  <2>3. QED
    BY <1>1, <1>3, <2>1, <2>2
<1>7. QED
  BY <1>4, <1>5, <1>6 DEF AfterRefreshUser

\* A page's own request has ended, in tree t.
LEMMA PageEndsKeeps ==
    ASSUME Inv, NEW j \in jobs, j.kind \notin {"logout", "gone"}, NEW t, NEW ok \in BOOLEAN, NEW h, HistLike(h),
           TreeGood(t, Len(issued)), SamePage(t, tab),
           Ends(j, SubmissionEnded(j, t, ok), storage.invite, h),
           t.status = "loading" => tab.status = "loading" /\ ~Settles(j),
           Out(h.out, t, jobs \ {j}, jar'),
           UNCHANGED <<server, made>>, jar' \in 0 .. Len(issued)
    PROVE  Inv' /\ Over(j, t.token, h)
<1> DEFINE t2 == SubmissionEnded(j, t, ok)
           K == jobs \ {j}
           ck2 == jar'
<1>1. storage.invite \in BOOLEAN /\ Ends(j, t2, storage.invite, h) /\ Out(h.out, t, K, ck2)
  BY DEF Inv, StorageGood
<1>2. TreeGood(t2, Len(issued)) /\ Left(t, t2, jobs, j) /\ SameUser(t2, t)
  BY SubmissionEndedIs
<1> HIDE DEF t2
<1>3. Left(tab, t2, jobs, j)
  BY <1>2, LeftThrough
<1>4. Out(h.out, t2, K, ck2)
  BY <1>1, <1>2 DEF Out, SameUser
<1>5. QED
  BY <1>1, <1>2, <1>3, <1>4, EndsKeeps DEF SameUser
\* The cookie of an answer names a pair.
LEMMA CookieIs ==
    ASSUME Inv, NEW j \in jobs, j.kind # "gone", NEW lost \in BOOLEAN, SetCookie(j, lost)
    PROVE  /\ jar' \in 0 .. Len(issued)
           /\ hist.out /\ jar' # 0 => j.st = "ok" /\ ~lost /\ j.req = "signin" /\ j.got # Nothing
           /\ ~lost /\ j.st = "ok" /\ j.req = "logout" /\ Asked(j) = "logout" => jar' = 0
<1>1. jar \in 0 .. Len(issued) /\ Len(issued) \in Nat
  BY DEF Inv, Whole, Good, ServerGood
<1>2. j.st = "ok" /\ Asked(j) \in {"refresh", "signin"} /\ j.got # Nothing => j.got \in 1 .. Len(issued)
  BY OneHandler DEF Given
<1>3. jar' \in 0 .. Len(issued)
  BY <1>1, <1>2 DEF SetCookie
<1>4. ASSUME hist.out, jar' # 0 PROVE j.st = "ok" /\ ~lost /\ j.req = "signin" /\ j.got # Nothing
  <2>1. jar = 0
    BY <1>4 DEF Inv, Whole, Good, Out
  <2>2. ~lost /\ j.st = "ok" /\ Asked(j) \in {"refresh", "signin"} /\ j.got # Nothing
    BY <1>4, <2>1 DEF SetCookie
  <2>3. Asked(j) # "refresh"
    <3>1. j.stage = "refresh" => j.req \notin NoRefreshPaths
      BY OneHandler DEF HandlerGood
    <3>2. QED
      BY <1>4, <2>2, <3>1, OutAsks DEF Asked, NoRefreshPaths
  <2>4. QED
    BY <2>2, <2>3 DEF Asked
<1>5. ~lost /\ j.st = "ok" /\ j.req = "logout" /\ Asked(j) = "logout" => jar' = 0
  BY DEF SetCookie
<1>6. QED
  BY <1>3, <1>4, <1>5
\* A request has failed for good, in the tree shown or signed out by an expiry.
LEMMA ThrowsKeeps ==
    ASSUME Inv, NEW j \in jobs, j.kind # "gone", j.req # "refresh", NEW t, TreeGood(t, Len(issued)), SamePage(t, tab),
           t.status = "loading" => tab.status = "loading",
           NEW h, HistLike(h), h.out = hist.out, Throws(j, t, h),
           Out(h.out, t, jobs \ {j}, jar'),
           UNCHANGED <<server, made>>, jar' \in 0 .. Len(issued)
    PROVE  Inv' /\ (Over(j, 0, h) \/ Over(j, t.token, h))
<1> DEFINE n == Len(issued)
           K == jobs \ {j}
           ck2 == jar'
<1>1. /\ n \in Nat /\ Asks(j) /\ tab \in Tree /\ TreeGood(tab, n) /\ Out(h.out, t, K, ck2)
      /\ storage.invite \in BOOLEAN
  BY OneHandler DEF Inv, Whole, Good, TreeGood, StorageGood
<1>2. CASE j.req = "me" /\ j.kind \in SignIns
  <2> DEFINE s == [t EXCEPT !.token = 0]
  <2>1. Ends(j, SubmissionEnded(j, s, FALSE), storage.invite, h)
    BY <1>2 DEF Throws
  <2>2. /\ TreeGood(s, n) /\ SamePage(s, t)
        /\ s.status = t.status /\ s.user = t.user /\ s.token = 0 /\ s.stray = t.stray
    BY <1>1, TokenIs
  <2> HIDE DEF s
  <2>3. SamePage(s, tab)
    BY <2>2 DEF SamePage
  <2>4. Out(h.out, s, K, ck2)
    BY <1>1, <2>2 DEF Out
  <2>5. j.kind \notin {"logout", "gone"} /\ ~Settles(j)
    BY <1>2 DEF SignIns, Settles
  <2>6. QED
    BY <2>1, <2>2, <2>3, <2>4, <2>5, PageEndsKeeps
<1>3. CASE j.req = "me" /\ j.kind \notin SignIns
  <2> DEFINE s == SignedOut(t)
  <2>1. AfterRefreshUser(j, s, h)
    BY <1>3 DEF Throws
  <2>2. TreeGood(s, n) /\ SamePage(s, t) /\ s.status = "unauthenticated" /\ s.token = 0
    BY <1>1, SignedOutIs
  <2> HIDE DEF s
  <2>3. SamePage(s, tab)
    BY <2>2 DEF SamePage
  <2>4. ~h.out
    BY <1>3, OutAsks DEF HistLike
  <2>5. QED
    BY <1>3, <2>1, <2>2, <2>3, <2>4, AfterRefreshUserKeeps
<1>4. CASE j.req = "logout"
  <2> DEFINE s == LoggedOut(t)
  <2>1. Ends(j, s, storage.invite, h)
    BY <1>4 DEF Throws
  <2>2. /\ TreeGood(s, n) /\ SamePage(s, t)
        /\ s.status = "unauthenticated" /\ s.token = 0
    BY <1>1, LoggedOutIs
  <2> HIDE DEF s
  <2>3. SamePage(s, tab)
    BY <2>2 DEF SamePage
  <2>4. ~h.out
    BY <1>4, OutAsks DEF HistLike
  <2>5. j.kind = "logout"
    BY <1>1, <1>4 DEF Asks
  <2>6. Left(tab, s, jobs, j)
    BY <1>1, <2>3, <2>5, LeftAlone DEF Own
  <2>7. Out(h.out, s, K, ck2)
    BY <2>4 DEF Out
  <2>8. QED
    BY <1>1, <2>1, <2>2, <2>6, <2>7, EndsKeeps
<1>5. CASE j.req \notin {"me", "logout"}
  <2>1. Ends(j, SubmissionEnded(j, t, FALSE), storage.invite, h)
    BY <1>5 DEF Throws
  <2>2. j.kind \notin {"logout", "gone"} /\ ~Settles(j)
    BY <1>1, <1>5 DEF Asks, SignIns, Settles
  <2>3. QED
    BY <2>1, <2>2, PageEndsKeeps
<1>6. QED
  BY <1>2, <1>3, <1>4, <1>5 DEF Throws

\* A refresh was refused, or its answer lost.
\* What history keeps of it.
Expired(j) == [hist EXCEPT !.expiry = [alone |-> j.alone /\ tab.token # 0, ck |-> j.ck]]

LEMMA ExpiresKeeps ==
    ASSUME Inv, NEW j \in jobs, j.kind # "gone", j.req # "refresh", Expires(j),
           UNCHANGED <<server, made>>, jar' \in 0 .. Len(issued), hist.out => jar' = 0
    PROVE  Inv' /\ Over(j, 0, Expired(j))
<1> DEFINE n == Len(issued)
           t == SignedOut(tab)
           e == [alone |-> j.alone /\ tab.token # 0, ck |-> j.ck]
           h == [hist EXCEPT !.expiry = e]
           K == jobs \ {j}
           ck2 == jar'
<1>1. /\ n \in Nat /\ TreeGood(tab, n) /\ Out(hist.out, tab, jobs, jar)
      /\ hist \in [out : BOOLEAN, expiry : {hist.expiry}]
  BY OneHandler DEF Inv, Whole, Good, HistGood
<1>2. /\ TreeGood(t, n) /\ SamePage(t, tab)
      /\ t.status = "unauthenticated" /\ t.user = Nothing /\ t.token = 0 /\ t.stray = tab.stray
  BY <1>1, SignedOutIs
<1>3. Throws(j, t, h)
  BY DEF Expires
<1> HIDE DEF t
<1>4. h = Expired(j) /\ h.out = hist.out /\ HistLike(h)
  <2> HIDE DEF e
  <2>1. h = [out |-> hist.out, expiry |-> e]
    BY <1>1
  <2>2. QED
    BY <1>1, <2>1 DEF HistLike, Expired, e
<1> HIDE DEF h
<1>5. Out(h.out, t, K, ck2)
  BY <1>1, <1>2, <1>4 DEF Out
<1>6. QED
  BY <1>2, <1>3, <1>4, <1>5, ThrowsKeeps
\* The document's own refresh has ended, or one before a retry.
Refreshes(j, ok) ==
    \/ ok /\ j.stage = "refresh" /\ Onward(j, j.got, "retry") /\ hist' = hist
    \/ ok /\ j.stage = "first" /\ Onward(j, j.got, "first") /\ hist' = hist
    \/ ~ok /\ j.stage = "refresh" /\ Over(j, 0, Expired(j))
    \/ ~ok /\ j.stage = "first" /\ Over(j, 0, hist)

LEMMA RefreshAnswerKeeps ==
    ASSUME Inv, NEW j \in jobs, j.kind # "gone", NEW lost \in BOOLEAN, RefreshAnswer(j, lost)
    PROVE  Inv' /\ Refreshes(j, j.st = "ok" /\ ~lost)
<1> DEFINE n == Len(issued)
           ok == j.st = "ok" /\ ~lost
<1>1. /\ Asked(j) = "refresh" /\ UNCHANGED <<server, made>> /\ SetCookie(j, lost)
  BY DEF RefreshAnswer
<1>2. /\ n \in Nat /\ TreeGood(tab, n) /\ tab \in Tree /\ Out(hist.out, tab, jobs, jar) /\ HistLike(hist)
      /\ storage.invite \in BOOLEAN /\ Settled(tab)
  BY OneHandler DEF Inv, Whole, Good, TreeGood, HistGood, HistLike, StorageGood
<1>3. jar' \in 0 .. n /\ (hist.out /\ ~ok => jar' = 0)
  BY <1>1, CookieIs
<1>4. j.stage = "refresh" => j.req \notin NoRefreshPaths /\ j.req \notin {"refresh", "signin"}
  BY OneHandler DEF HandlerGood, NoRefreshPaths
<1>5. j.stage = "first" => j.req = "refresh" /\ j.kind = "boot" /\ j.from = 0
  BY <1>1, OneHandler DEF Asked, Asks, SignIns
<1>6. CASE ok /\ (\/ j.stage = "refresh" /\ Continues(j, [tab EXCEPT !.token = j.got], j.req, "retry") /\ hist' = hist
                  \/ j.stage = "first" /\ Continues(j, [tab EXCEPT !.token = j.got], "me", "first") /\ hist' = hist)
  <2> DEFINE t == [tab EXCEPT !.token = j.got]
  <2>1. j.got \in 0 .. n
    BY <1>1, <1>6, OneHandler DEF Given
  <2>2. /\ TreeGood(t, n) /\ SamePage(t, tab) /\ t.status = tab.status /\ t.token = j.got
    BY <1>2, <2>1, TokenIs
  <2>3. ~hist'.out /\ HistLike(hist')
    BY <1>2, <1>4, <1>5, <1>6, OutAsks DEF HistLike, NoRefreshPaths
  <2>4. CASE j.stage = "refresh" /\ Continues(j, t, j.req, "retry")
    <3>1. GoesOn(j, j.req)
      BY <1>4, <2>4 DEF GoesOn
    <3> HIDE DEF t
    <3>2. Inv' /\ Onward(j, t.token, "retry")
      BY <1>1, <1>3, <1>4, <2>2, <2>3, <2>4, <3>1, ContinuesKeeps
    <3>3. QED
      BY <1>4, <1>6, <2>2, <2>4, <3>2 DEF Refreshes
  <2>5. CASE j.stage = "first" /\ Continues(j, t, "me", "first")
    <3>1. GoesOn(j, "me") /\ j.kind = "boot"
      BY <1>5, <2>5 DEF GoesOn
    <3> HIDE DEF t
    <3>2. Inv' /\ Onward(j, t.token, "first")
      BY <1>1, <1>3, <2>2, <2>3, <2>5, <3>1, ContinuesKeeps
    <3>3. QED
      BY <1>6, <2>2, <2>5, <3>2 DEF Refreshes
  <2>6. QED
    BY <1>6, <2>4, <2>5
<1>7. CASE ~ok /\ j.stage = "refresh" /\ Expires(j)
  <2>1. Inv' /\ Over(j, 0, Expired(j))
    BY <1>1, <1>3, <1>4, <1>7, ExpiresKeeps
  <2>2. QED
    BY <1>7, <2>1 DEF Refreshes
<1>8. CASE ~ok /\ j.stage = "first" /\ Ends(j, SignedOut(tab), storage.invite, hist)
  <2> DEFINE t == SignedOut(tab)
             K == jobs \ {j}
             ck2 == jar'
  <2>1. /\ TreeGood(t, n) /\ SamePage(t, tab)
        /\ t.status = "unauthenticated" /\ t.user = Nothing /\ t.token = 0 /\ t.stray = tab.stray
    BY <1>2, SignedOutIs
  <2>2. Ends(j, t, storage.invite, hist)
    BY <1>8
  <2> HIDE DEF t
  <2>3. j \notin Own(jobs, tab.mount)
    BY <1>2, <1>5, <1>8 DEF Own, Tree
  <2>4. Left(tab, t, jobs, j)
    BY <1>2, <2>1, <2>3, LeftAlone
  <2>5. Out(hist.out, t, K, ck2)
    BY <1>2, <1>3, <1>8, <2>1 DEF Out
  <2>6. Inv' /\ Over(j, t.token, hist)
    BY <1>1, <1>2, <1>3, <2>1, <2>2, <2>4, <2>5, EndsKeeps
  <2>7. QED
    BY <1>8, <2>1, <2>6 DEF Refreshes
<1>9. QED
  BY <1>6, <1>7, <1>8 DEF RefreshAnswer

\* A sign-in, a refreshUser or a page's own request has been answered as it was meant to be.
Succeeded(j) ==
    \/ j.req # "logout" /\ (j.req = "signin" => j.got = Nothing) /\ Over(j, tab.token, hist)
    \/ j.req = "logout" /\ \E h : Over(j, 0, h) /\ h.expiry = hist.expiry
    \/ j.req = "signin" /\ j.got # Nothing /\ Onward(j, j.got, "first") /\ hist'.expiry = hist.expiry
    \/ j.req \notin {"logout", "signin"} /\ Onward(j, tab.token, "first") /\ hist' = hist

LEMMA SucceedsKeeps ==
    ASSUME Inv, NEW j \in jobs, j.kind # "gone", Asked(j) # "refresh", j.st = "ok", Succeeds(j),
           UNCHANGED <<server, made>>, SetCookie(j, FALSE)
    PROVE  Inv' /\ Succeeded(j)
<1> DEFINE n == Len(issued)
           K == jobs \ {j}
           ck2 == jar'
<1>1. /\ n \in Nat /\ TreeGood(tab, n) /\ tab \in Tree /\ Out(hist.out, tab, jobs, jar) /\ HistLike(hist)
      /\ storage.invite \in BOOLEAN /\ Settled(tab) /\ Good(tab, jobs, n, made, jar, hist.out)
  BY OneHandler DEF Inv, Whole, Good, TreeGood, HistGood, HistLike, StorageGood
<1>2. /\ Asks(j) /\ j.back \in Backs /\ j.stage # "refresh" /\ Asked(j) = j.req /\ j.req # "refresh"
  BY OneHandler DEF Asked
<1>3. /\ j.req \in {"me", "avatar"} \/ j.kind = "profile" => j.got \in UserType
      /\ j.req = "signin" => (j.got = Nothing \/ j.got \in 1 .. n) /\ j.arg \in Users
  BY <1>2, OneHandler DEF Given, HandlerGood
<1>4. /\ jar' \in 0 .. n
      /\ hist.out /\ ~(j.req = "signin" /\ j.got # Nothing) => jar' = 0
      /\ j.req = "logout" => jar' = 0
  BY <1>2, CookieIs
<1>5. CASE j.req = "me" /\ j.kind \in SignIns
  <2>1. PICK d \in {Destination(j), "app"} :
              Ends(j, [SignedIn(SubmissionEnded(j, tab, TRUE), j.got) EXCEPT !.route = d, !.back = Nothing],
                   storage.invite, hist)
    BY <1>2, <1>5 DEF Succeeds, SignIns
  <2> DEFINE s == SubmissionEnded(j, tab, TRUE)
             a == SignedIn(s, j.got)
             t == [a EXCEPT !.route = d, !.back = Nothing]
  <2>2. d \in Routes
    BY <1>2, <2>1 DEF Destination, Backs, Routes, Protected
  <2>3. TreeGood(s, n) /\ Left(tab, s, jobs, j) /\ s.token = tab.token
    <3>1. TreeGood(s, n) /\ Left(tab, s, jobs, j) /\ SameUser(s, tab)
      BY <1>1, <1>5, SubmissionEndedIs DEF SignIns
    <3>2. QED
      BY <3>1 DEF SameUser
  <2> HIDE DEF s
  <2>4. TreeGood(a, n) /\ SamePage(a, s) /\ a.status = "authenticated" /\ a.token = s.token
    BY <1>3, <1>5, <2>3, SignedInIs
  <2>5. Ends(j, t, storage.invite, hist)
    BY <2>1 DEF s
  <2> HIDE DEF a
  <2>6. TreeGood(t, n) /\ SamePage(t, a) /\ t.status = "authenticated" /\ t.token = a.token
    <3>1. a \in Tree /\ Nothing \in Backs
      BY <2>4 DEF TreeGood, Backs
    <3>2. /\ t.status = a.status /\ t.user = a.user /\ t.token = a.token
          /\ SamePage(t, a)
      BY <3>1 DEF Tree, SamePage
    <3>3. t \in Tree
      BY <2>2, <3>1 DEF Tree
    <3>4. QED
      BY <2>4, <3>2, <3>3 DEF TreeGood, SamePage
  <2> HIDE DEF t
  <2>7. Left(tab, t, jobs, j)
    BY <2>3, <2>4, <2>6 DEF Left, SamePage
  <2>8. ~hist.out
    BY <1>5, OutAsks
  <2>9. Out(hist.out, t, K, ck2)
    BY <2>8 DEF Out
  <2>10. Inv' /\ Over(j, t.token, hist)
    BY <1>1, <1>4, <2>5, <2>6, <2>7, <2>9, EndsKeeps
  <2>11. QED
    BY <1>5, <2>3, <2>4, <2>6, <2>10 DEF Succeeded
<1>6. CASE j.req = "me" /\ j.kind \notin SignIns
  <2> DEFINE t == SignedIn(tab, j.got)
  <2>1. AfterRefreshUser(j, t, hist)
    BY <1>2, <1>6 DEF Succeeds, Asks
  <2>2. TreeGood(t, n) /\ SamePage(t, tab) /\ t.status = "authenticated" /\ t.token = tab.token
    BY <1>1, <1>3, <1>6, SignedInIs
  <2>3. ~hist.out
    BY <1>6, OutAsks DEF HistLike
  <2> HIDE DEF t
  <2>4. Inv' /\ Over(j, t.token, hist)
    BY <1>1, <1>4, <1>6, <2>1, <2>2, <2>3, AfterRefreshUserKeeps
  <2>5. QED
    BY <1>6, <2>2, <2>4 DEF Succeeded
<1>7. CASE j.req = "signin" /\ j.got = Nothing
  <2> DEFINE s == SubmissionEnded(j, tab, TRUE)
             c == j.arg
             t == [s EXCEPT !.route = "mfa", !.challenge = c, !.back = Nothing]
  <2>1. Ends(j, t, storage.invite, hist) /\ j.kind \in SignIns
    BY <1>2, <1>7 DEF Succeeds, Asks, SignIns
  <2>2. TreeGood(s, n) /\ Left(tab, s, jobs, j) /\ SameUser(s, tab)
    <3>1. j.kind \notin {"logout", "gone"}
      BY <2>1 DEF SignIns
    <3>2. QED
      BY <1>1, <3>1, SubmissionEndedIs
  <2> HIDE DEF s
  <2> DEFINE d == "mfa"
  <2>3. d \in Routes /\ c \in Users \cup {Nothing} /\ t = [s EXCEPT !.route = d, !.challenge = c, !.back = Nothing]
    BY <1>3, <1>7 DEF Routes, Guest
  <2> HIDE DEF c, t, d
  <2>4. TreeGood(t, n) /\ SamePage(t, s) /\ SameUser(t, s)
    BY <2>2, <2>3, SentIs
  <2>5. Left(tab, t, jobs, j)
    BY <2>2, <2>4, LeftThrough
  <2>6. Out(hist.out, t, K, ck2)
    BY <1>1, <1>4, <1>7, <2>2, <2>4 DEF Out, SameUser
  <2>7. ~Settles(j)
    BY <2>1 DEF Settles, SignIns
  <2>8. Inv' /\ Over(j, t.token, hist)
    BY <1>1, <1>4, <2>1, <2>2, <2>4, <2>5, <2>6, <2>7, EndsKeeps DEF SameUser
  <2>9. QED
    BY <1>7, <2>2, <2>4, <2>8 DEF Succeeded, SameUser
<1>8. CASE j.req = "signin" /\ j.got # Nothing
  <2> DEFINE t == [tab EXCEPT !.token = j.got]
  <2>1. Continues(j, t, "me", "first") /\ hist' = [hist EXCEPT !.out = FALSE] /\ j.kind \in SignIns
    BY <1>2, <1>8 DEF Succeeds, Asks, SignIns
  <2>2. j.got \in 0 .. n
    BY <1>3, <1>8
  <2>3. TreeGood(t, n) /\ SamePage(t, tab) /\ t.status = tab.status /\ t.token = j.got
    BY <1>1, <2>2, TokenIs
  <2>4. ~hist'.out /\ HistLike(hist') /\ hist'.expiry = hist.expiry
    <3>1. hist' = [out |-> FALSE, expiry |-> hist.expiry]
      BY <1>1, <2>1 DEF HistLike
    <3>2. QED
      BY <3>1 DEF HistLike
  <2>5. GoesOn(j, "me") /\ j.kind \notin {"accept", "join", "org"}
    BY <2>1 DEF GoesOn, SignIns
  <2> HIDE DEF t
  <2>6. Inv' /\ Onward(j, t.token, "first")
    BY <1>4, <2>1, <2>3, <2>4, <2>5, ContinuesKeeps
  <2>7. QED
    BY <1>8, <2>3, <2>4, <2>6 DEF Succeeded
<1>9. CASE j.req = "logout"
  <2> DEFINE t == LoggedOut(tab)
             o == jobs = {j} /\ tab.stray = {}
             h == [hist EXCEPT !.out = o]
  <2>1. Ends(j, t, storage.invite, h)
    BY <1>2, <1>9 DEF Succeeds, Asks
  <2>2. /\ TreeGood(t, n) /\ SamePage(t, tab)
        /\ t.status = "unauthenticated" /\ t.user = Nothing /\ t.token = 0 /\ t.stray = tab.stray
    BY <1>1, LoggedOutIs
  <2> HIDE DEF t
  <2>3. j.kind = "logout"
    BY <1>2, <1>9 DEF Asks
  <2>4. Left(tab, t, jobs, j)
    BY <1>1, <2>2, <2>3, LeftAlone DEF Own
  <2>5. o \in BOOLEAN /\ (o => K = {} /\ t.stray = {})
    BY <2>2
  <2> HIDE DEF o
  <2>6. h.out = o /\ HistLike(h) /\ h.expiry = hist.expiry
    <3>1. h = [out |-> o, expiry |-> hist.expiry]
      BY <1>1 DEF HistLike
    <3>2. QED
      BY <2>5, <3>1 DEF HistLike
  <2> HIDE DEF h
  <2>7. Out(h.out, t, K, ck2)
    BY <1>4, <1>9, <2>2, <2>5, <2>6 DEF Out
  <2>8. Inv' /\ Over(j, t.token, h)
    BY <1>1, <1>4, <2>1, <2>2, <2>4, <2>6, <2>7, EndsKeeps
  <2>9. QED
    BY <1>9, <2>2, <2>6, <2>8 DEF Succeeded
<1>10. CASE j.kind \in {"accept", "join", "org"} /\ j.req = "post"
  <2> DEFINE t == Refreshing(tab)
  <2>1. Continues(j, t, "me", "first") /\ hist' = hist
    BY <1>10 DEF Succeeds
  <2>2. TreeGood(t, n) /\ SamePage(t, tab) /\ t.status = "loading" /\ t.token = tab.token
    BY <1>1, RefreshingIs
  <2>3. ~hist'.out /\ HistLike(hist')
    BY <1>1, <1>10, <2>1, OutAsks
  <2>4. GoesOn(j, "me")
    BY <1>10 DEF GoesOn
  <2> HIDE DEF t
  <2>5. Inv' /\ Onward(j, t.token, "first")
    BY <1>4, <1>10, <2>1, <2>2, <2>3, <2>4, ContinuesKeeps
  <2>6. QED
    BY <1>10, <2>1, <2>2, <2>5 DEF Succeeded
<1>11. CASE j.kind = "profile" /\ j.req = "post" /\ Continues(j, tab, "avatar", "first") /\ hist' = hist
  <2>1. SamePage(tab, tab)
    BY DEF SamePage
  <2>2. ~hist'.out /\ HistLike(hist')
    BY <1>1, <1>11, OutAsks
  <2>3. GoesOn(j, "avatar")
    BY <1>11 DEF GoesOn
  <2>4. Inv' /\ Onward(j, tab.token, "first")
    BY <1>1, <1>4, <1>11, <2>1, <2>2, <2>3, ContinuesKeeps
  <2>5. QED
    BY <1>11, <2>4 DEF Succeeded
<1>12. CASE j.kind = "profile" /\ Ends(j, Completing(j), storage.invite, hist)
  <2> DEFINE t == Completing(j)
  <2>1. j.got \in UserType /\ ~hist.out /\ ~Settles(j)
    BY <1>2, <1>3, <1>12, OutAsks DEF Asks, SignIns, Settles
  <2>2. TreeGood(t, n) /\ Left(tab, t, jobs, j) /\ t.status = tab.status /\ t.token = tab.token
    <3>1. CASE j.from = tab.mount
      <4> DEFINE f == [tab.form EXCEPT !.busy = FALSE]
                 x == [what |-> "complete", user |-> j.got]
      <4>1. t = [tab EXCEPT !.form = f, !.timer = x]
        BY <1>1, <3>1 DEF Completing, Tree, Form
      <4>2. tab.form \in Form /\ tab.view = "onboarding"
        BY <1>1, <1>12, <3>1 DEF Tree, Good, OnView
      <4>3. /\ f \in Form /\ f.step = tab.form.step /\ f.first = tab.form.first /\ f.second = tab.form.second
            /\ ~f.busy /\ f.social = tab.form.social
        BY <4>2 DEF Form
      <4>4. x \in Timers /\ x.what = "complete"
        BY <2>1 DEF Timers
      <4> HIDE DEF f, x
      <4>5. /\ t.form = f /\ t.timer = x /\ t.mount = tab.mount /\ t.view = tab.view /\ t.status = tab.status
            /\ t.user = tab.user /\ t.token = tab.token
        BY <1>1, <4>1 DEF Tree
      <4>6. t \in Tree
        BY <1>1, <4>1, <4>3, <4>4 DEF Tree
      <4> HIDE DEF t
      <4>7. TreeGood(t, n)
        BY <1>1, <4>2, <4>4, <4>5, <4>6 DEF TreeGood
      <4>8. j \in OwnForms(jobs, tab.mount) /\ j \notin OwnSocial(jobs, tab.mount) /\ tab.form.social \in BOOLEAN
        BY <1>12, <3>1, <4>2 DEF OwnForms, OwnSocial, Own, Form
      <4>9. Left(tab, t, jobs, j)
        BY <4>3, <4>5, <4>8 DEF Left
      <4>10. QED
        BY <4>5, <4>7, <4>9
    <3>2. CASE j.from # tab.mount
      <4> DEFINE y == tab.stray \cup {j.got}
      <4>1. t = [tab EXCEPT !.stray = y]
        BY <1>1, <3>2 DEF Completing, Tree
      <4>2. y \in SUBSET UserType
        BY <1>1, <2>1 DEF Tree
      <4> HIDE DEF y
      <4>3. SamePage(t, tab) /\ t.status = tab.status /\ t.user = tab.user /\ t.token = tab.token
        BY <1>1, <4>1 DEF SamePage, Tree
      <4>4. t \in Tree
        BY <1>1, <4>1, <4>2 DEF Tree
      <4> HIDE DEF t
      <4>5. TreeGood(t, n)
        BY <1>1, <4>3, <4>4 DEF TreeGood, SamePage
      <4>6. Left(tab, t, jobs, j)
        BY <1>1, <3>2, <4>3, LeftAlone DEF Own
      <4>7. QED
        BY <4>3, <4>5, <4>6
    <3>3. QED
      BY <3>1, <3>2
  <2>3. Out(hist.out, t, K, ck2)
    BY <2>1 DEF Out
  <2>4. Ends(j, t, storage.invite, hist)
    BY <1>12
  <2> HIDE DEF t
  <2>5. Inv' /\ Over(j, t.token, hist)
    BY <1>1, <1>4, <2>1, <2>2, <2>3, <2>4, EndsKeeps
  <2>6. j.req \notin {"logout", "signin"}
    BY <1>2, <1>12 DEF Asks, SignIns
  <2>7. QED
    BY <2>2, <2>5, <2>6 DEF Succeeded
<1>13. CASE j.kind \in {"form", "invite", "page"} /\ Ends(j, SubmissionEnded(j, tab, TRUE), storage.invite, hist)
  <2>1. SamePage(tab, tab) /\ ~Settles(j) /\ j.kind \notin {"logout", "gone"} /\ j.req # "signin"
    BY <1>2, <1>13 DEF SamePage, Settles, Asks, SignIns
  <2>2. Out(hist.out, tab, K, ck2)
    BY <1>1, <1>4, <2>1 DEF Out
  <2>3. Inv' /\ Over(j, tab.token, hist)
    BY <1>1, <1>4, <1>13, <2>1, <2>2, PageEndsKeeps
  <2>4. j.req # "logout"
    BY <1>2, <1>13 DEF Asks, SignIns
  <2>5. QED
    BY <2>1, <2>3, <2>4 DEF Succeeded
<1>14. QED
  BY <1>5, <1>6, <1>7, <1>8, <1>9, <1>10, <1>11, <1>12, <1>13 DEF Succeeds
\* Any other request has been answered, or its answer lost.
Retries(j, lost) ==
    \/ ~lost /\ j.st = "unauthorized" /\ j.stage = "first" /\ Onward(j, tab.token, "refresh") /\ hist' = hist
    \/ ~lost /\ j.st = "unauthorized" /\ j.stage = "retry" /\ Over(j, 0, Expired(j))
    \/ ~lost /\ j.st = "ok" /\ Succeeded(j)
    \/ (lost \/ j.st # "ok") /\ (Over(j, 0, hist) \/ Over(j, tab.token, hist))

LEMMA RetryKeeps ==
    ASSUME Inv, NEW j \in jobs, j.kind # "gone", NEW lost \in BOOLEAN, executeWithRetry(j, lost)
    PROVE  Inv' /\ Retries(j, lost)
<1> DEFINE again == ~lost /\ j.st = "unauthorized" /\ j.req \notin NoRefreshPaths
           K == jobs \ {j}
           ck2 == jar'
<1>1. Asked(j) # "refresh" /\ UNCHANGED <<server, made>> /\ SetCookie(j, lost)
  BY DEF executeWithRetry
<1>2. /\ TreeGood(tab, Len(issued)) /\ Out(hist.out, tab, jobs, jar) /\ HistLike(hist) /\ SamePage(tab, tab)
  BY DEF Inv, Whole, Good, HistGood, HistLike, SamePage
<1>3. /\ jar' \in 0 .. Len(issued)
      /\ hist.out /\ jar' # 0 => j.st = "ok" /\ ~lost
  BY <1>1, CookieIs
<1>4. j.req # "refresh"
  BY <1>1 DEF Asked
<1>5. CASE again /\ j.stage = "first" /\ Continues(j, tab, j.req, "refresh") /\ hist' = hist
  <2>1. ~hist'.out /\ HistLike(hist')
    BY <1>2, <1>5, OutAsks DEF HistLike, NoRefreshPaths
  <2>2. GoesOn(j, j.req)
    BY <1>5 DEF GoesOn, NoRefreshPaths
  <2>3. Inv' /\ Onward(j, tab.token, "refresh")
    BY <1>1, <1>2, <1>3, <1>5, <2>1, <2>2, ContinuesKeeps
  <2>4. QED
    BY <1>5, <2>3 DEF Retries
<1>6. CASE again /\ j.stage = "retry" /\ Expires(j)
  <2>1. Inv' /\ Over(j, 0, Expired(j))
    BY <1>1, <1>3, <1>4, <1>6, ExpiresKeeps
  <2>2. QED
    BY <1>6, <2>1 DEF Retries
<1>7. CASE j.st = "ok" /\ ~lost /\ Succeeds(j)
  <2>1. SetCookie(j, FALSE)
    BY <1>1, <1>7 DEF SetCookie
  <2>2. Inv' /\ Succeeded(j)
    BY <1>1, <1>7, <2>1, SucceedsKeeps
  <2>3. QED
    BY <1>7, <2>2 DEF Retries
<1>8. CASE (j.st # "ok" \/ lost) /\ Throws(j, tab, hist)
  <2>1. Out(hist.out, tab, K, ck2)
    BY <1>2, <1>3, <1>8 DEF Out
  <2>2. Inv' /\ (Over(j, 0, hist) \/ Over(j, tab.token, hist))
    BY <1>1, <1>2, <1>3, <1>4, <1>8, <2>1, ThrowsKeeps
  <2>3. QED
    BY <1>8, <2>2 DEF Retries
<1>9. QED
  BY <1>5, <1>6, <1>7, <1>8 DEF executeWithRetry

----------------------------------------------------------------------------
(* The invariant.                                                          *)

LEMMA InitInv == ASSUME Init PROVE Inv
<1> DEFINE n == Len(issued)
           b == [Boot EXCEPT !.ck = jar]
<1>1. PICK r \in Entries :
          tab = [status |-> "loading", user |-> Nothing, token |-> 0, route |-> r, back |-> Nothing,
                 challenge |-> Nothing, chosen |-> Nothing, view |-> IF r = "invite" THEN r ELSE "spinner",
                 form |-> NewForm(IF r = "invite" THEN r ELSE "spinner"), mount |-> 1,
                 timer |-> Nothing, stray |-> {}]
  BY DEF Init
<1>2. issued \in Seq(PairType) /\ n \in Nat
  <2>1. CASE issued = << >>
    BY <2>1
  <2>2. CASE issued # << >>
    <3>1. PICK u \in Users : issued = <<[Pair(u) EXCEPT !.access = FALSE]>>
      BY <2>2 DEF Init
    <3> DEFINE p == [Pair(u) EXCEPT !.access = FALSE]
    <3>2. p \in PairType
      <4> DEFINE q == Pair(u)
      <4>1. q \in PairType
        BY <3>1, PairIs
      <4> HIDE DEF q
      <4>2. [q EXCEPT !.access = FALSE] \in PairType
        BY <4>1 DEF PairType
      <4>3. QED
        BY <4>2 DEF q
    <3> HIDE DEF p
    <3>3. issued = <<p>>
      BY <3>1 DEF p
    <3>4. QED
      BY <3>2, <3>3
  <2>3. QED
    BY <2>1, <2>2
<1>3. ServerGood
  BY <1>2, UsersAssumption DEF Init, ServerGood
<1>4. HistGood
  BY DEF Init, HistGood
<1>5. r \in Routes /\ jar = n /\ jobs = {b} /\ made = 1 /\ ~hist.out
  BY <1>1, EntriesAssumption DEF Init
<1>6. /\ TreeGood(tab, n) /\ Settled(tab) /\ ~hasShell(tab) /\ Wizards(tab.view, tab.form)
      /\ tab.status = "loading" /\ tab.user = Nothing /\ tab.token = 0 /\ tab.stray = {} /\ tab.mount = 1
      /\ ~tab.form.busy /\ ~tab.form.social
  <2> DEFINE mount == 1
  <2>1. mount \in Nat \ {0}
    OBVIOUS
  <2>2. tab = [status |-> "loading", user |-> Nothing, token |-> 0, route |-> r, back |-> Nothing,
               challenge |-> Nothing, chosen |-> Nothing, view |-> IF r = "invite" THEN r ELSE "spinner",
               form |-> NewForm(IF r = "invite" THEN r ELSE "spinner"), mount |-> mount,
               timer |-> Nothing, stray |-> {}]
    BY <1>1
  <2> HIDE DEF mount, n
  <2>3. /\ TreeGood(tab, n) /\ Settled(tab) /\ ~hasShell(tab) /\ Wizards(tab.view, tab.form)
        /\ tab.status = "loading" /\ tab.user = Nothing /\ tab.token = 0 /\ tab.stray = {} /\ tab.mount = mount
        /\ ~tab.form.busy /\ ~tab.form.social
    BY <1>2, <1>5, <2>1, <2>2, NewTabIs
  <2>4. QED
    BY <2>3 DEF mount
<1>7. StorageGood
  <2>1. storage \in [org : Remembered, invite : {tab.route = "invite"}]
    BY DEF Init
  <2>2. QED
    BY <1>6, <2>1 DEF StorageGood
<1>8. HandlerGood(b, n, made) /\ b.from = 0 /\ b.kind = "boot"
  <2> DEFINE alone == TRUE
  <2>1. b = [n |-> 1, kind |-> "boot", arg |-> Nothing, from |-> 0, req |-> "refresh", stage |-> "first",
             tok |-> 0, ck |-> jar, st |-> "sent", got |-> Nothing, back |-> Nothing, alone |-> alone]
    <3>1. Boot = [n |-> 1, kind |-> "boot", arg |-> Nothing, from |-> 0, req |-> "refresh", stage |-> "first",
                  tok |-> 0, ck |-> 0, st |-> "sent", got |-> Nothing, back |-> Nothing, alone |-> alone]
      BY DEF Boot
    <3> HIDE DEF alone
    <3>2. QED
      BY <3>1
  <2>0. alone \in BOOLEAN
    OBVIOUS
  <2> HIDE DEF alone
  <2> HIDE DEF b
  <2>2. /\ b.n = 1 /\ b.kind = "boot" /\ b.from = 0 /\ b.req = "refresh" /\ b.stage = "first"
        /\ b.tok = 0 /\ b.ck = jar /\ b.st = "sent" /\ b.got = Nothing /\ b.arg = Nothing
    BY ONLY <2>1
  <2>3. Handler(b)
    BY <1>2, <1>5, <2>0, <2>1, <2>2 DEF Handler, Kinds, Backs
  <2>4. QED
    BY <1>2, <1>5, <2>2, <2>3 DEF HandlerGood, Asks, Given, Requests
<1> HIDE DEF b
<1>9. HandlersGood(jobs, n, made, tab.mount)
  BY <1>5, <1>6, <1>8 DEF HandlersGood
<1>10. Own(jobs, tab.mount) = {}
  BY <1>5, <1>6, <1>8 DEF Own
<1>11. Locked(tab.form, jobs, tab.mount)
  BY <1>6, <1>10 DEF Locked, OwnForms, OwnSocial, AtMostOne
<1>12. OnView(jobs, tab.mount, tab.view, tab.status) /\ SpinnerEnds(tab.status, jobs)
  BY <1>5, <1>6, <1>8 DEF OnView, SpinnerEnds, Settles
<1>13. Out(hist.out, tab, jobs, jar) /\ jar \in 0 .. n
  BY <1>2, <1>5 DEF Out
<1>14. Whole
  BY <1>6, <1>9, <1>11, <1>12, <1>13 DEF Whole, Good
<1>15. QED
  BY <1>3, <1>4, <1>6, <1>7, <1>14 DEF Inv

LEMMA NextInv == ASSUME Inv, [Next]_vars PROVE Inv'
<1>1. ASSUME NEW j \in jobs, Serve(j) \/ Abandoned(j) PROVE Inv'
  <2>1. CASE ServeRefresh(j)
    BY <2>1, ServeRefreshKeeps
  <2>2. CASE ServeSignIn(j)
    BY <2>2, ServeSignInKeeps
  <2>3. CASE ServeUnauthorized(j)
    BY <2>3, ServeUnauthorizedKeeps
  <2>4. CASE ServeLogout(j)
    BY <2>4, ServeLogoutKeeps
  <2>5. CASE ServeGet(j)
    BY <2>5, ServeGetKeeps
  <2>6. CASE ServePost(j)
    BY <2>6, ServePostKeeps
  <2>7. CASE ServeRefused(j)
    BY <2>7, ServeRefusedKeeps
  <2>8. CASE Abandoned(j)
    BY <2>8, AbandonedKeeps
  <2>9. QED
    BY <1>1, <2>1, <2>2, <2>3, <2>4, <2>5, <2>6, <2>7, <2>8 DEF Serve
<1>2. ASSUME NEW j \in jobs, NEW lost \in BOOLEAN, Answer(j, lost) PROVE Inv'
  <2>1. CASE j.kind # "gone" /\ RefreshAnswer(j, lost)
    BY <2>1, RefreshAnswerKeeps
  <2>2. CASE j.kind # "gone" /\ executeWithRetry(j, lost)
    BY <2>2, RetryKeeps
  <2>3. QED
    BY <1>2, <2>1, <2>2 DEF Answer
<1>3. ASSUME NEW r \in Routes, Navigate(r) PROVE Inv'
  BY <1>3, NavigateKeeps
<1>4. ASSUME NEW r \in Entries, Reload(r) PROVE Inv'
  BY <1>4, ReloadKeeps
<1>5. ASSUME NEW u \in Users, SubmitLogin(u) \/ SubmitSocial(u) PROVE Inv'
  BY <1>5, SubmitLoginKeeps, SubmitSocialKeeps
<1>6. CASE SubmitMfa \/ SubmitSignup \/ ResendVerification \/ ConfirmMfa \/ ConfirmLink
  BY <1>6, SubmitMfaKeeps, SubmitSignupKeeps, ResendVerificationKeeps, ConfirmMfaKeeps, ConfirmLinkKeeps
<1>7. CASE VerifyEmail \/ SetupMfa \/ LoadInvite \/ Fetch \/ Logout
  BY <1>7, LoadsKeep
<1>8. CASE Accept \/ AcceptOnDashboard
  BY <1>8, AcceptKeeps, AcceptOnDashboardKeeps
<1>9. ASSUME NEW o \in Orgs, SwitchOrganization(o) PROVE Inv'
  BY <1>9, SwitchOrganizationKeeps
<1>10. ASSUME NEW x \in {"first", "second"}, NEW v \in {"empty", "ok", "bad"}, setField(x, v) PROVE Inv'
  BY <1>10, WizardsKeep DEF Values
<1>11. CASE goNext \/ goBack \/ goSkip
  BY <1>11, WizardsKeep
<1>12. CASE handleCreate \/ handleFinish
  BY <1>12, handleCreateKeeps, handleFinishKeeps
<1>13. CASE Timeout
  BY <1>13, TimeoutKeeps
<1>14. ASSUME NEW u \in tab.stray, StrayTimeout(u) PROVE Inv'
  BY <1>14, StrayTimeoutKeeps
<1>15. ASSUME NEW m \in 1 .. Len(issued), AccessExpires(m) \/ RefreshExpires(m) PROVE Inv'
  BY <1>15, ExpiryKeeps
<1>16. ASSUME NEW u \in Users, NEW o \in Orgs, Revoke(u, o) PROVE Inv'
  BY <1>16, RevokeKeeps
<1>17. CASE UNCHANGED vars
  BY <1>17 DEF Inv, Whole, Settled, ServerGood, StorageGood, HistGood, vars, hasShell, Selected, ViewOf, LeaveTimer
<1>18. QED
  BY <1>1, <1>2, <1>3, <1>4, <1>5, <1>6, <1>7, <1>8, <1>9, <1>10, <1>11, <1>12, <1>13, <1>14, <1>15, <1>16, <1>17
     DEF Next

LEMMA InvHolds == Spec => []Inv
<1>1. Init => Inv
  BY InitInv
<1>2. Inv /\ [Next]_vars => Inv'
  BY NextInv
<1>3. QED
  BY <1>1, <1>2, PTL DEF Spec
----------------------------------------------------------------------------
(* The properties.                                                         *)

\* The auth state, the route and the tokens of a tree fit together, and the view is the route's
\* (AuthContext, the router's guards).
THEOREM TypeCorrect == Spec => []TypeOK
<1>1. ASSUME Inv PROVE TypeOK
  <2>1. /\ tab \in Tree /\ TreeGood(tab, Len(issued)) /\ Settled(tab) /\ jar \in 0 .. Len(issued) /\ Len(issued) \in Nat
    BY <1>1 DEF Inv, Whole, Good, TreeGood, ServerGood
  <2>2. ASSUME NEW j \in jobs
        PROVE  j.n \in 1 .. made /\ j.stage \in {"first", "refresh", "retry"} /\ j.from <= tab.mount
    BY <1>1, OneHandler DEF HandlerGood
  <2>3. tab.token \in 0 .. Len(issued)
    BY <2>1 DEF TreeGood, Tree
  <2>4. QED
    BY <2>1, <2>2, <2>3 DEF TypeOK, TreeGood, Tree, Settled
<1>2. QED
  BY InvHolds, <1>1, PTL

\* Whatever localStorage remembered, the pages work for a membership of the user shown, or for
\* none only without one, and storage holds the same (SelectedOrganizationProvider).
THEOREM ShowsMembership == Spec => []SelectionIsMembership
<1>1. ASSUME Inv PROVE SelectionIsMembership
  <2> SUFFICES ASSUME hasShell(tab)
               PROVE  /\ Selected(tab) \in tab.user.orgs \cup {Nothing}
                      /\ Selected(tab) = Nothing <=> tab.user.orgs = {}
                      /\ storage.org = Selected(tab)
    BY DEF SelectionIsMembership
  <2>1. tab \in Tree /\ tab.user \in UserType /\ storage.org = Selected(tab)
    BY <1>1 DEF Inv, Whole, Good, TreeGood, Tree, StorageGood, hasShell
  <2>2. QED
    BY <2>1, SelectedIn
<1>2. QED
  BY InvHolds, <1>1, PTL

\* After a logout that the server has carried out with nothing else under way there is no
\* cookie, no token and no user until the next sign-in (handleLogout, logoutUser).
THEOREM LogoutEnds == Spec => []LogoutEndsSession
<1>1. Inv => LogoutEndsSession
  BY DEF Inv, Whole, Good, Out, LogoutEndsSession
<1>2. QED
  BY InvHolds, <1>1, PTL

LEMMA OneAtMost == ASSUME NEW S, AtMostOne(S) PROVE Cardinality(S) <= 1
<1>1. CASE S = {}
  <2>1. Cardinality(S) = 0
    BY <1>1, FS_EmptySet
  <2>2. QED
    BY <2>1
<1>2. CASE S # {}
  <2>1. PICK x : S = {x}
    BY <1>2 DEF AtMostOne
  <2>2. Cardinality(S) = 1
    BY <2>1, FS_Singleton
  <2>3. QED
    BY <2>2
<1>3. QED
  BY <1>1, <1>2

\* A form is locked exactly while a submission of its own is under way: none is sent twice, and
\* none that ended, or that another form sent, leaves it locked (isSubmitting, isSocialSubmitting).
THEOREM LocksOwn == Spec => []OneSubmission
<1>1. ASSUME Inv PROVE OneSubmission
  <2> DEFINE own == Own(jobs, tab.mount)
             forms == OwnForms(jobs, tab.mount)
             social == OwnSocial(jobs, tab.mount)
  <2>1. Locked(tab.form, jobs, tab.mount) /\ tab.form.busy \in BOOLEAN /\ tab.form.social \in BOOLEAN
    BY <1>1 DEF Inv, Whole, Good, TreeGood, Tree, Form
  <2>2. forms = {j \in own : j.kind # "social"} /\ social = own \ forms /\ (social # {} <=> own # forms)
    BY DEF OwnForms, OwnSocial
  <2>3. Cardinality(forms) <= 1 /\ Cardinality(social) <= 1
    BY <2>1, OneAtMost DEF Locked
  <2>4. tab.form.busy = (forms # {}) /\ tab.form.social = (social # {})
    BY <2>1 DEF Locked
  <2>5. own = {j \in jobs : j.from = tab.mount /\ j.kind \notin {"page", "invite", "logout", "gone"}}
    BY DEF Own
  <2> HIDE DEF own, forms, social
  <2>6. tab.form.social = (own # forms)
    BY <2>2, <2>4
  <2>7. QED
    BY <2>2, <2>3, <2>4, <2>5, <2>6 DEF OneSubmission
<1>2. QED
  BY InvHolds, <1>1, PTL

\* A wizard sends only fields that pass validation, whatever was typed, skipped and gone back to
\* (validateCurrentStep, goSkip, goBack).
THEOREM SendsValid == Spec => []OnlyValidForms
<1>1. Inv => OnlyValidForms
  BY OneHandler DEF HandlerGood, Valid, OnlyValidForms
<1>2. QED
  BY InvHolds, <1>1, PTL

\* While the tree loads, a request whose answer settles it is under way (bootstrap, refreshUser).
THEOREM SpinnerStops == Spec => []LoadingHasEnd
<1>1. Inv => LoadingHasEnd
  BY DEF Inv, Whole, Good, SpinnerEnds, Settles, LoadingHasEnd
<1>2. QED
  BY InvHolds, <1>1, PTL

(***************************************************************************)
(* Why an aged access token does not sign out.  The tab's token is of a    *)
(* pair whose refresh token is in the cookie, not spent unless the answer  *)
(* that replaces it is under way; a handler that is alone presents it; and *)
(* the request that is retried presents the pair it was just given.        *)
(***************************************************************************)
\* Pair k of S can still be renewed, or its refresh token has aged.
Live(S, k) == S[k].refresh \/ S[k].aged

\* The server has replaced or ended pair k for handler j.
Spends(j, k) == j.ck = k /\ j.st = "ok" /\ (Asked(j) = "refresh" \/ j.req = "logout")

\* Handler j waits for the answer that brings a new pair.
Brings(j) == j.st = "ok" /\ Asked(j) \in {"refresh", "signin"} /\ j.got # Nothing

CookieLives(token, ck, J, S) == token # 0 => ck # 0 /\ (Live(S, ck) \/ \E j \in J : Spends(j, ck))

\* Nobody else has a pair before its answer has come.
Unused(j, ck, J, S) ==
    Brings(j) => /\ Live(S, j.got) /\ ck # j.got
                 /\ \A k \in J : k.ck # j.got /\ (Brings(k) /\ k.got = j.got => k = j)

Alone(j) == j.alone /\ j.kind # "gone"

\* A refresh is refused for want of a cookie that lives, and only so.
Renews(j, token, ck, S, lost) ==
    j.stage = "refresh" =>
        /\ j.st # "refused"
        /\ Alone(j) => /\ j.ck = ck
                       /\ j.st = "unauthorized" /\ token # 0 /\ ~lost => ck # 0 /\ S[ck].aged

\* What a retry presents the server accepts.
Presents(j, S) ==
    /\ j.stage = "retry" => j.tok # 0 /\ S[j.tok].access /\ j.st # "unauthorized"
    /\ j.stage = "refresh" /\ j.st = "ok" => S[j.got].access

Silent(token, ck, J, S, lost) ==
    /\ ~lost => CookieLives(token, ck, J, S)
    /\ \A j \in J : /\ Unused(j, ck, J, S)
                    /\ Alone(j) => J = {j}
                    /\ Renews(j, token, ck, S, lost)
                    /\ Presents(j, S)

\* The expiry that history remembers was due.
Due(e, n, S, lost) ==
    e # Nothing => \/ ~e.alone
                   \/ lost
                   \/ e.ck \in 1 .. n /\ S[e.ck].aged

SilentInv ==
    /\ Silent(tab.token, jar, jobs, issued, lossy)
    /\ Due(hist.expiry, Len(issued), issued, lossy)
    /\ lossy \in BOOLEAN
----------------------------------------------------------------------------
(* Handlers and pairs, apart from the tree.                                *)

\* The numbers in a handler are of pairs that are issued.
Numbered(J, n) ==
    \A j \in J : /\ j.ck \in 0 .. n /\ j.tok \in 0 .. n
                 /\ Brings(j) => j.got \in 1 .. n
                 /\ j.stage = "refresh" /\ j.st = "ok" => j.got \in 1 .. n
                 /\ j.stage = "refresh" => Asked(j) = "refresh"

\* The server answers handler j as i; it may replace j's pair, of the n of S, and issue another.
Replies(i, j, n, S, S2) ==
    /\ j.st = "sent" /\ i.st # "sent"
    /\ i.kind = j.kind /\ i.alone = j.alone /\ i.stage = j.stage /\ i.req = j.req /\ i.ck = j.ck /\ i.tok = j.tok
    /\ \A x \in 1 .. n : /\ S2[x].aged = S[x].aged /\ S2[x].access = S[x].access
                         /\ S2[x].refresh = S[x].refresh \/ Spends(i, x)
    /\ Brings(i) => i.got = n + 1 /\ S2[i.got].refresh /\ S2[i.got].access
    /\ i.st = "unauthorized" /\ i.stage = "refresh" => j.ck = 0 \/ ~S[j.ck].refresh
    /\ i.stage = "refresh" => i.st # "refused" /\ (i.st = "ok" => Brings(i))
    /\ i.st = "unauthorized" /\ i.stage = "retry" => ~(j.tok # 0 /\ S[j.tok].access)

LEMMA AnswersSilent ==
    ASSUME NEW token, NEW n \in Nat, NEW ck \in 0 .. n, NEW J, NEW S, NEW lost, NEW S2, NEW j \in J, NEW i,
           Silent(token, ck, J, S, lost), Numbered(J, n), Replies(i, j, n, S, S2)
    PROVE  Silent(token, ck, (J \ {j}) \cup {i}, S2, lost)
<1> USE DEF Replies
<1> DEFINE K == (J \ {j}) \cup {i}
<1>1. /\ ~Brings(j) /\ \A x : ~Spends(j, x)
      /\ j.ck \in 0 .. n /\ j.tok \in 0 .. n
  BY DEF Brings, Spends, Numbered
<1>2. \A x \in 1 .. n : Live(S, x) => Live(S2, x) \/ Spends(i, x)
  BY DEF Live
<1>3. ASSUME ~lost, token # 0 PROVE ck # 0 /\ (Live(S2, ck) \/ \E k \in K : Spends(k, ck))
  <2>1. ck # 0 /\ (Live(S, ck) \/ \E k \in J : Spends(k, ck))
    BY <1>3 DEF Silent, CookieLives
  <2>2. QED
    BY <1>1, <1>2, <2>1
<1>4. ASSUME NEW k \in K PROVE Unused(k, ck, K, S2)
  <2> SUFFICES ASSUME Brings(k) PROVE Unused(k, ck, K, S2)
    BY DEF Unused
  <2>1. \A x \in J : x.ck \in 0 .. n /\ (Brings(x) => x.got \in 1 .. n)
    BY DEF Numbered
  <2>2. CASE k = i
    <3>1. k.got = n + 1 /\ Live(S2, k.got)
      BY <2>2 DEF Live
    <3>2. \A x \in K : x.ck # n + 1 /\ (Brings(x) /\ x.got = n + 1 => x = k)
      BY <1>1, <2>1, <2>2
    <3>3. QED
      BY <3>1, <3>2 DEF Unused
  <2>3. CASE k # i
    <3>1. k \in J /\ Unused(k, ck, J, S) /\ k.got \in 1 .. n
      BY <2>1, <2>3 DEF Silent
    <3>2. /\ Live(S, k.got) /\ ck # k.got
          /\ \A x \in J : x.ck # k.got /\ (Brings(x) /\ x.got = k.got => x = k)
      BY <3>1 DEF Unused
    <3>3. ~Spends(i, k.got)
      BY <3>2 DEF Spends
    <3>4. Live(S2, k.got)
      BY <1>2, <3>1, <3>2, <3>3
    <3>5. \A x \in K : x.ck # k.got /\ (Brings(x) /\ x.got = k.got => x = k)
      BY <3>1, <3>2
    <3>6. QED
      BY <3>2, <3>4, <3>5 DEF Unused
  <2>4. QED
    BY <2>2, <2>3
<1>5. ASSUME NEW k \in K, Alone(k) PROVE K = {k} /\ k = i /\ J = {j}
  <2>1. k = i
    <3>1. CASE k \in J /\ k # j
      BY <1>5, <3>1 DEF Silent
    <3>2. QED
      BY <3>1
  <2>2. Alone(j)
    BY <1>5, <2>1 DEF Alone
  <2>3. J = {j}
    BY <2>2 DEF Silent
  <2>4. QED
    BY <2>1, <2>3
<1>6. ASSUME NEW k \in K PROVE Renews(k, token, ck, S2, lost)
  <2>1. CASE k \in J /\ k # j
    <3>1. ~Alone(k)
      BY <1>5, <2>1
    <3>2. QED
      BY <2>1, <3>1 DEF Silent, Renews
  <2>2. CASE k = i
    <3> SUFFICES ASSUME k.stage = "refresh", Alone(k)
                 PROVE  /\ k.ck = ck
                        /\ k.st = "unauthorized" /\ token # 0 /\ ~lost => ck # 0 /\ S2[ck].aged
      BY <2>2 DEF Renews
    <3>1. J = {j} /\ Alone(j) /\ Renews(j, token, ck, S, lost) /\ j.ck = ck
      BY <1>5, <2>2 DEF Silent, Renews, Alone
    <3>2. ASSUME k.st = "unauthorized", token # 0, ~lost PROVE ck # 0 /\ S2[ck].aged
      <4>1. ck # 0 /\ Live(S, ck)
        BY <1>1, <3>1, <3>2 DEF Silent, CookieLives
      <4>2. ~S[ck].refresh
        BY <2>2, <3>1, <3>2, <4>1
      <4>3. QED
        BY <4>1, <4>2 DEF Live
    <3>3. QED
      BY <2>2, <3>1, <3>2
  <2>3. QED
    BY <2>1, <2>2
<1>7. ASSUME NEW k \in K PROVE Presents(k, S2)
  <2>1. CASE k \in J /\ k # j
    <3>1. Presents(k, S) /\ k.tok \in 0 .. n /\ (k.stage = "refresh" /\ k.st = "ok" => k.got \in 1 .. n)
      BY <2>1 DEF Silent, Numbered
    <3>2. QED
      BY <3>1 DEF Presents
  <2>2. CASE k = i
    <3>1. Presents(j, S)
      BY DEF Silent
    <3>2. QED
      BY <1>1, <2>2, <3>1 DEF Presents
  <2>3. QED
    BY <2>1, <2>2
<1> HIDE DEF K
<1>8. Silent(token, ck, K, S2, lost)
  BY <1>3, <1>4, <1>5, <1>6, <1>7 DEF Silent, CookieLives
<1>9. QED
  BY <1>8 DEF K
\* A handler is over; it took the answer's cookie, or the tree has no token any more.
LEMMA EndsSilent ==
    ASSUME NEW token, NEW n \in Nat, NEW ck, NEW J, NEW S, NEW lost, NEW j \in J, NEW token2, NEW ck2, NEW lost2,
           Silent(token, ck, J, S, lost), Numbered(J, n), lost => lost2,
           \/ ck2 = ck /\ (token2 = 0 \/ lost2 \/ (token2 = token /\ ~Spends(j, ck)))
           \/ ck2 = 0 /\ token2 = 0
    PROVE  Silent(token2, ck2, J \ {j}, S, lost2)
<1> DEFINE K == J \ {j}
<1>1. ~lost2 => CookieLives(token2, ck2, K, S)
  BY DEF Silent, CookieLives
<1>2. ASSUME NEW k \in K PROVE Unused(k, ck2, K, S) /\ ~Alone(k) /\ Presents(k, S)
  <2>1. k \in J /\ k # j /\ Unused(k, ck, J, S) /\ Presents(k, S) /\ ~Alone(k)
    BY DEF Silent
  <2>2. Brings(k) => k.got # 0
    BY <2>1 DEF Numbered
  <2>3. Unused(k, ck2, K, S)
    BY <2>1, <2>2 DEF Unused
  <2>4. QED
    BY <2>1, <2>3
<1>3. ASSUME NEW k \in K PROVE Renews(k, token2, ck2, S, lost2)
  BY <1>2 DEF Silent, Renews
<1> HIDE DEF K
<1>4. Silent(token2, ck2, K, S, lost2)
  BY <1>1, <1>2, <1>3 DEF Silent
<1>5. QED
  BY <1>4 DEF K

\* A handler goes on: in the same tree, or with the pair it was given.
LEMMA ContinuesSilent ==
    ASSUME NEW token, NEW n \in Nat, NEW ck, NEW J, NEW S, NEW lost, NEW j \in J, NEW i, NEW token2, NEW ck2,
           Silent(token, ck, J, S, lost), Numbered(J, n),
           i.kind = j.kind, i.alone = j.alone, i.st = "sent", i.ck = ck2,
           i.stage = "retry" => j.stage = "refresh" /\ j.st = "ok" /\ i.tok = j.got,
           \/ ck2 = ck /\ token2 = token /\ ~Spends(j, ck)
           \/ Brings(j) /\ ck2 = j.got /\ token2 = j.got
    PROVE  Silent(token2, ck2, (J \ {j}) \cup {i}, S, lost)
<1> DEFINE K == (J \ {j}) \cup {i}
<1>1. ~Brings(i) /\ \A x : ~Spends(i, x)
  BY DEF Brings, Spends
<1>2. Unused(j, ck, J, S) /\ Presents(j, S) /\ (Brings(j) => j.got # 0)
  BY DEF Silent, Numbered
<1>3. ~lost => CookieLives(token2, ck2, K, S)
  BY <1>1, <1>2 DEF Silent, CookieLives, Unused
<1>4. ASSUME NEW k \in K PROVE Unused(k, ck2, K, S)
  <2>1. CASE k = i
    BY <1>1, <2>1 DEF Unused
  <2>2. CASE k # i
    <3> SUFFICES ASSUME Brings(k) PROVE Unused(k, ck2, K, S)
      BY DEF Unused
    <3>1. k \in J /\ k # j /\ Unused(k, ck, J, S)
      BY <2>2 DEF Silent
    <3>2. /\ Live(S, k.got) /\ ck # k.got
          /\ \A x \in J : x.ck # k.got /\ (Brings(x) /\ x.got = k.got => x = k)
      BY <3>1 DEF Unused
    <3>3. ck2 # k.got
      BY <3>1, <3>2
    <3>4. \A x \in K : x.ck # k.got /\ (Brings(x) /\ x.got = k.got => x = k)
      BY <1>1, <3>2, <3>3
    <3>5. QED
      BY <3>2, <3>3, <3>4 DEF Unused
  <2>3. QED
    BY <2>1, <2>2
<1>5. ASSUME NEW k \in K, Alone(k) PROVE K = {k} /\ k = i
  <2>1. k = i
    BY <1>5 DEF Silent
  <2>2. Alone(j)
    BY <1>5, <2>1 DEF Alone
  <2>3. J = {j}
    BY <2>2 DEF Silent
  <2>4. QED
    BY <2>1, <2>3
<1>6. ASSUME NEW k \in K PROVE Renews(k, token2, ck2, S, lost)
  <2>1. CASE k = i
    BY <2>1 DEF Renews
  <2>2. CASE k # i
    <3>1. k \in J /\ ~Alone(k)
      BY <1>5, <2>2
    <3>2. QED
      BY <3>1 DEF Silent, Renews
  <2>3. QED
    BY <2>1, <2>2
<1>7. ASSUME NEW k \in K PROVE Presents(k, S)
  <2>1. CASE k = i
    <3>1. i.stage = "retry" => j.got # 0
      <4> SUFFICES ASSUME i.stage = "retry" PROVE j.got # 0
        OBVIOUS
      <4>1. j.stage = "refresh" /\ j.st = "ok"
        OBVIOUS
      <4>2. QED
        BY <4>1 DEF Numbered
    <3>2. QED
      BY <1>2, <2>1, <3>1 DEF Presents
  <2>2. CASE k # i
    BY <2>2 DEF Silent
  <2>3. QED
    BY <2>1, <2>2
<1> HIDE DEF K
<1>8. Silent(token2, ck2, K, S, lost)
  BY <1>3, <1>4, <1>5, <1>6, <1>7 DEF Silent
<1>9. QED
  BY <1>8 DEF K

\* Handler q is k, which is not alone any more.
Twin(q, k) ==
    /\ q = Quiet(k) /\ ~q.alone
    /\ q.kind = k.kind /\ q.req = k.req /\ q.stage = k.stage /\ q.tok = k.tok /\ q.ck = k.ck
    /\ q.st = k.st /\ q.got = k.got

\* Handler r starts beside those that wait.
LEMMA StartsSilent ==
    ASSUME NEW token, NEW n \in Nat, NEW ck, NEW J, NEW S, NEW lost, NEW Q, NEW r,
           Silent(token, ck, J, S, lost), Numbered(J, n),
           \A q \in Q : \E k \in J : Twin(q, k),
           \A k \in J : \E q \in Q : Twin(q, k),
           r.st = "sent", r.stage = "first", r.ck = ck, r.alone => J = {}
    PROVE  Silent(token, ck, Q \cup {r}, S, lost)
<1> DEFINE K == Q \cup {r}
<1>1. ~Brings(r) /\ \A x : ~Spends(r, x)
  BY DEF Brings, Spends
<1>2. \A q, k : Twin(q, k) => (Brings(q) <=> Brings(k)) /\ \A x : Spends(q, x) <=> Spends(k, x)
  BY DEF Twin, Brings, Spends, Asked
<1>3. ~lost => CookieLives(token, ck, K, S)
  BY <1>2 DEF Silent, CookieLives
<1>4. ASSUME NEW q \in K PROVE Unused(q, ck, K, S)
  <2>1. CASE q = r
    BY <1>1, <2>1 DEF Unused
  <2>2. CASE q # r
    <3> SUFFICES ASSUME Brings(q) PROVE Unused(q, ck, K, S)
      BY DEF Unused
    <3>1. PICK k \in J : Twin(q, k)
      BY <2>2
    <3>2. Brings(k) /\ Unused(k, ck, J, S) /\ q.got = k.got /\ q = Quiet(k)
      BY <1>2, <3>1 DEF Silent, Twin
    <3>3. /\ Live(S, k.got) /\ ck # k.got
          /\ \A x \in J : x.ck # k.got /\ (Brings(x) /\ x.got = k.got => x = k)
      BY <3>2 DEF Unused
    <3>4. ASSUME NEW x \in Q PROVE x.ck # k.got /\ (Brings(x) /\ x.got = k.got => x = q)
      <4>1. PICK y \in J : Twin(x, y)
        OBVIOUS
      <4>2. x.ck = y.ck /\ x.got = y.got /\ x = Quiet(y) /\ (Brings(x) <=> Brings(y))
        BY <1>2, <4>1 DEF Twin
      <4>3. QED
        BY <3>2, <3>3, <4>2
    <3>5. r.ck # k.got
      BY <3>3
    <3>6. QED
      BY <1>1, <3>2, <3>3, <3>4, <3>5 DEF Unused
  <2>3. QED
    BY <2>1, <2>2
<1>5. ASSUME NEW q \in K, Alone(q) PROVE K = {q} /\ q = r
  <2>1. \A x \in Q : ~x.alone
    BY DEF Twin
  <2>2. q = r /\ J = {}
    BY <1>5, <2>1 DEF Alone
  <2>3. QED
    BY <2>2
<1>6. ASSUME NEW q \in K PROVE Renews(q, token, ck, S, lost) /\ Presents(q, S)
  <2>1. CASE q = r
    BY <2>1 DEF Renews, Presents
  <2>2. CASE q # r
    <3>1. PICK k \in J : Twin(q, k)
      BY <2>2
    <3>2. ~Alone(q) /\ Renews(k, token, ck, S, lost) /\ Presents(k, S)
      BY <1>5, <2>2 DEF Silent
    <3>3. QED
      BY <3>1, <3>2 DEF Renews, Presents, Twin
  <2>3. QED
    BY <2>1, <2>2
<1> HIDE DEF K
<1>7. Silent(token, ck, K, S, lost)
  BY <1>3, <1>4, <1>5, <1>6 DEF Silent
<1>8. QED
  BY <1>7 DEF K

\* A new document has no token; what was sent may still be served.
LEMMA ReloadsSilent ==
    ASSUME NEW token, NEW ck, NEW J, NEW S, NEW lost, NEW G, NEW b,
           Silent(token, ck, J, S, lost),
           \A g \in G : \E k \in J : g.stage = k.stage /\ g.tok = k.tok /\ g.st = "sent" /\ g.kind = "gone",
           b.st = "sent", b.stage = "first", b.alone => J = {}
    PROVE  Silent(0, ck, G \cup {b}, S, lost)
<1> DEFINE K == G \cup {b}
<1>1. ASSUME NEW g \in K PROVE Unused(g, ck, K, S)
  BY DEF Unused, Brings
<1>2. ASSUME NEW g \in K, Alone(g) PROVE K = {g} /\ g = b
  BY <1>2 DEF Alone
<1>3. ASSUME NEW g \in K PROVE Renews(g, 0, ck, S, lost) /\ Presents(g, S)
  <2>1. CASE g = b
    BY <2>1 DEF Renews, Presents
  <2>2. CASE g # b
    <3>1. PICK k \in J : g.stage = k.stage /\ g.tok = k.tok /\ g.st = "sent" /\ g.kind = "gone"
      BY <2>2
    <3>2. Presents(k, S)
      BY DEF Silent
    <3>3. QED
      BY <3>1, <3>2 DEF Renews, Presents, Alone
  <2>3. QED
    BY <2>1, <2>2
<1> HIDE DEF K
<1>4. Silent(0, ck, K, S, lost)
  BY <1>1, <1>2, <1>3 DEF Silent, CookieLives
<1>5. QED
  BY <1>4 DEF K
----------------------------------------------------------------------------
(* The steps.                                                              *)

\* What Inv says of the numbers.
LEMMA Counted ==
    ASSUME Inv
    PROVE  /\ Numbered(jobs, Len(issued)) /\ Len(issued) \in Nat /\ jar \in 0 .. Len(issued)
           /\ issued \in Seq(PairType)
<1>1. Len(issued) \in Nat /\ jar \in 0 .. Len(issued) /\ issued \in Seq(PairType)
  BY DEF Inv, Whole, Good, ServerGood
<1>2. ASSUME NEW j \in jobs
      PROVE  /\ j.ck \in 0 .. Len(issued) /\ j.tok \in 0 .. Len(issued)
             /\ Brings(j) => j.got \in 1 .. Len(issued)
             /\ j.stage = "refresh" /\ j.st = "ok" => j.got \in 1 .. Len(issued)
             /\ j.stage = "refresh" => Asked(j) = "refresh"
  <2>1. /\ j.ck \in Nat /\ j.ck <= Len(issued) /\ j.tok \in Nat /\ j.tok <= Len(issued)
        /\ Given(j, Len(issued))
    BY OneHandler
  <2>2. j.stage = "refresh" => Asked(j) = "refresh"
    BY DEF Asked
  <2>3. QED
    BY <1>1, <2>1, <2>2 DEF Given, Brings
<1>3. QED
  BY <1>1, <1>2 DEF Numbered

\* A step that has nothing to do with the tokens.
LEMMA TurnsSilent ==
    ASSUME SilentInv, UNCHANGED <<jar, jobs, issued, lossy, hist>>, tab'.token = tab.token
    PROVE  SilentInv'
BY DEF SilentInv

\* What is rendered has the token of the tree.
LEMMA RendersSilent ==
    ASSUME Inv, SilentInv, NEW t \in Tree, NEW invite, Render(t, invite), t.token = tab.token,
           UNCHANGED <<jar, jobs, issued, lossy, hist>>
    PROVE  SilentInv'
<1>1. tab'.token = tab.token
  BY TokenKept DEF Inv
<1>2. QED
  BY <1>1, TurnsSilent

LEMMA TurningSilent ==
    ASSUME Inv, SilentInv,
           \/ \E r \in Routes : Navigate(r)
           \/ \E o \in Orgs : SwitchOrganization(o)
           \/ Timeout \/ \E u \in tab.stray : StrayTimeout(u)
    PROVE  SilentInv'
<1>1. tab \in Tree
  BY DEF Inv, Whole, Good, TreeGood
<1>2. ASSUME NEW r \in Routes, Navigate(r) PROVE SilentInv'
  <2> DEFINE b == IF tab.view = "invite" /\ tab.form.at = "ready" THEN "invite"
                  ELSE IF tab.view = "signup" /\ tab.form.at = "done" THEN tab.back ELSE Nothing
             t == [tab EXCEPT !.route = r, !.back = b]
  <2>1. Render(t, storage.invite) /\ UNCHANGED <<jar, jobs, issued, lossy, hist>>
    BY <1>1, <1>2 DEF Navigate, Tree, server
  <2>2. b \in Backs
    BY <1>1 DEF Backs, Tree
  <2> HIDE DEF b
  <2>3. t \in Tree /\ t.token = tab.token
    BY <1>1, <2>2 DEF Tree
  <2> HIDE DEF t
  <2>4. QED
    BY <2>1, <2>3, RendersSilent
<1>3. ASSUME NEW o \in Orgs, SwitchOrganization(o) PROVE SilentInv'
  <2> DEFINE t == [tab EXCEPT !.chosen = o, !.route = "app"]
  <2>1. Render(t, storage.invite) /\ UNCHANGED <<jar, jobs, issued, lossy, hist>>
    BY <1>3 DEF SwitchOrganization, server
  <2>2. "app" \in Routes
    BY DEF Routes, Protected
  <2>3. t \in Tree /\ t.token = tab.token
    BY <1>1, <2>2 DEF Tree
  <2> HIDE DEF t
  <2>4. QED
    BY <2>1, <2>3, RendersSilent
<1>4. CASE Timeout
  <2>1. UNCHANGED <<jar, jobs, issued, lossy, hist>> /\ tab.timer # Nothing
    BY <1>4 DEF Timeout, server
  <2>2. CASE tab.timer.what = "leave"
    <3> DEFINE t == [tab EXCEPT !.route = "app"]
    <3>1. Render(t, storage.invite)
      BY <1>4, <2>2 DEF Timeout
    <3>2. "app" \in Routes
      BY DEF Routes, Protected
    <3>3. t \in Tree /\ t.token = tab.token
      BY <1>1, <3>2 DEF Tree
    <3> HIDE DEF t
    <3>4. QED
      BY <2>1, <3>1, <3>3, RendersSilent
  <2>3. CASE tab.timer.what # "leave"
    <3> DEFINE u == tab.timer.user
               t == [tab EXCEPT !.timer = Nothing, !.status = "authenticated", !.user = u]
    <3>1. u \in UserType
      BY <1>1, <2>1, <2>3 DEF Tree, Timers
    <3>2. Render(t, storage.invite)
      BY <1>1, <1>4, <2>3 DEF Timeout, SignedIn, Tree
    <3> HIDE DEF u
    <3>3. t \in Tree /\ t.token = tab.token
      BY <1>1, <3>1 DEF Tree, Timers
    <3> HIDE DEF t
    <3>4. QED
      BY <2>1, <3>2, <3>3, RendersSilent
  <2>4. QED
    BY <2>2, <2>3
<1>5. ASSUME NEW u \in tab.stray, StrayTimeout(u) PROVE SilentInv'
  <2> DEFINE t == [tab EXCEPT !.stray = tab.stray \ {u}, !.status = "authenticated", !.user = u]
  <2>1. u \in UserType
    BY <1>1 DEF Tree
  <2>2. Render(t, storage.invite) /\ UNCHANGED <<jar, jobs, issued, lossy, hist>>
    BY <1>1, <1>5 DEF StrayTimeout, SignedIn, Tree, server
  <2>3. t.token = tab.token
    BY <1>1 DEF Tree
  <2>4. t \in Tree
    BY <1>1, <2>1 DEF Tree
  <2> HIDE DEF t
  <2>5. QED
    BY <2>2, <2>3, <2>4, RendersSilent
<1>6. QED
  BY <1>2, <1>3, <1>4, <1>5

LEMMA TypingSilent ==
    ASSUME Inv, SilentInv,
           \/ \E x \in {"first", "second"}, v \in Values : setField(x, v)
           \/ goNext \/ goBack \/ goSkip
    PROVE  SilentInv'
<1>1. \E f : Step(f)
  BY DEF setField, goNext, goBack, goSkip
<1>2. PICK f : Step(f)
  BY <1>1
<1>3. tab' = [tab EXCEPT !.form = f] /\ UNCHANGED <<jar, jobs, issued, lossy, hist>>
  BY <1>2 DEF Step, server
<1>4. tab'.token = tab.token
  BY <1>3 DEF Inv, Whole, Good, TreeGood, Tree
<1>5. QED
  BY <1>3, <1>4, TurnsSilent

\* A handler starts.
LEMMA StartSilent ==
    ASSUME Inv, SilentInv, NEW t, NEW kind \in Kinds, NEW arg, NEW req \in Requests, Start(t, kind, arg, req),
           TreeGood(t, Len(issued)), t.token = tab.token
    PROVE  SilentInv'
<1> DEFINE n == Len(issued)
           j == Job(kind, arg, t.mount)
           r == Request(t, j, req, "first", jar)
           Q == {Quiet(k) : k \in jobs}
<1>1. /\ jobs' = Q \cup {r} /\ Render(t, storage.invite) /\ UNCHANGED <<jar, issued, lossy, hist>>
  BY DEF Start, Quiet, server
<1>2. /\ Numbered(jobs, n) /\ n \in Nat /\ jar \in 0 .. n
      /\ Silent(tab.token, jar, jobs, issued, lossy) /\ Due(hist.expiry, n, issued, lossy)
  BY Counted DEF SilentInv
<1>3. t \in Tree /\ t.token \in Nat /\ t.mount \in Nat /\ jar \in Nat
  BY <1>2 DEF TreeGood, Tree
<1>4. tab'.token = tab.token
  BY <1>1, <1>3, TokenKept DEF Inv
<1>5. made \in Nat /\ tab.back \in Backs
  BY DEF Inv, Whole, Good, HistGood, TreeGood, Tree
<1>6. Handler(j) /\ (j.alone <=> jobs = {})
  <2>1. Handler(j)
    BY <1>3, <1>5, JobIs
  <2>2. j.alone <=> jobs = {}
    <3> DEFINE alone == jobs = {}
    <3>1. j = [n |-> made + 1, kind |-> kind, arg |-> arg, from |-> t.mount, req |-> Nothing, stage |-> "first",
               tok |-> 0, ck |-> 0, st |-> "sent", got |-> Nothing, back |-> tab.back, alone |-> alone]
      BY DEF Job
    <3> HIDE DEF alone, j
    <3>2. j.alone = alone
      BY ONLY <3>1
    <3>3. QED
      BY <3>2 DEF alone
  <2>3. QED
    BY <2>1, <2>2
<1>7. r.st = "sent" /\ r.stage = "first" /\ r.ck = jar /\ r.alone = j.alone
  <2> HIDE DEF j
  <2>1. Requested(r, t, j, req, "first", jar)
    BY <1>3, <1>6, RequestIs
  <2>2. QED
    BY <2>1 DEF Requested
<1> HIDE DEF j, r
<1>8. ASSUME NEW k \in jobs PROVE Twin(Quiet(k), k)
  <2>1. Handler(k)
    BY OneHandler
  <2> DEFINE q == Quiet(k)
  <2>2. /\ q.kind = k.kind /\ q.req = k.req /\ q.stage = k.stage /\ q.tok = k.tok /\ q.ck = k.ck
        /\ q.st = k.st /\ q.got = k.got
    BY <2>1, QuietIs
  <2>3. ~q.alone
    BY <2>1 DEF Quiet, Handler
  <2>4. QED
    BY <2>2, <2>3 DEF Twin
<1>9. /\ \A q \in Q : \E k \in jobs : Twin(q, k)
      /\ \A k \in jobs : \E q \in Q : Twin(q, k)
  BY <1>8
<1> HIDE DEF Q, n
<1>10. Silent(tab.token, jar, Q \cup {r}, issued, lossy)
  BY <1>2, <1>6, <1>7, <1>9, StartsSilent
<1>11. QED
  BY <1>1, <1>2, <1>4, <1>10 DEF SilentInv, n

LEMMA SubmissionsSilent ==
    ASSUME Inv, SilentInv,
           \/ \E u \in Users : SubmitLogin(u) \/ SubmitSocial(u)
           \/ SubmitMfa \/ SubmitSignup \/ ResendVerification \/ ConfirmMfa \/ ConfirmLink
           \/ VerifyEmail \/ SetupMfa \/ LoadInvite \/ Fetch
           \/ Accept \/ AcceptOnDashboard \/ Logout \/ handleCreate \/ handleFinish
    PROVE  SilentInv'
<1> DEFINE social == [tab EXCEPT !.form.social = TRUE]
<1>1. \E t \in {tab, Busy, social} : \E kind \in Kinds, req \in Requests : \E arg : Start(t, kind, arg, req)
  BY DEF SubmitLogin, SubmitSocial, SubmitMfa, SubmitSignup, ResendVerification, ConfirmMfa, ConfirmLink,
         VerifyEmail, SetupMfa, LoadInvite, Fetch, Accept, AcceptOnDashboard, Logout, handleCreate, handleFinish,
         Kinds, SignIns, Requests
<1>2. TreeGood(tab, Len(issued)) /\ tab \in Tree /\ tab.form \in Form
  BY DEF Inv, Whole, Good, TreeGood, Tree
<1>3. TreeGood(Busy, Len(issued)) /\ Busy.token = tab.token
  BY BusyIs
<1>4. TreeGood(social, Len(issued)) /\ social.token = tab.token
  <2> DEFINE f == [tab.form EXCEPT !.social = TRUE]
  <2>1. f \in Form /\ social = [tab EXCEPT !.form = f]
    BY <1>2 DEF Form, Tree
  <2> HIDE DEF f, social
  <2>2. QED
    BY <1>2, <2>1, FormChanges
<1> HIDE DEF social
<1>5. QED
  BY <1>1, <1>2, <1>3, <1>4, StartSilent
\* The server has answered.
LEMMA ServedSilent ==
    ASSUME Inv, SilentInv, NEW j \in jobs, j.st = "sent",
           NEW st \in {"ok", "unauthorized", "refused"}, NEW got, jobs' = Answered(j, st, got),
           UNCHANGED <<tab, jar, lossy, hist>>, Len(issued') \in Nat, Len(issued) <= Len(issued'),
           \A x \in 1 .. Len(issued) :
               /\ issued'[x].aged = issued[x].aged /\ issued'[x].access = issued[x].access
               /\ \/ issued'[x].refresh = issued[x].refresh
                  \/ j.ck = x /\ st = "ok" /\ (Asked(j) = "refresh" \/ j.req = "logout"),
           st = "ok" /\ Asked(j) \in {"refresh", "signin"} /\ got # Nothing
               => got = Len(issued) + 1 /\ issued'[got].refresh /\ issued'[got].access,
           st = "unauthorized" /\ j.stage = "refresh" => j.ck = 0 \/ ~issued[j.ck].refresh,
           j.stage = "refresh" => st # "refused" /\ (st = "ok" => got # Nothing),
           st = "unauthorized" /\ j.stage = "retry" => ~Knows(j)
    PROVE  SilentInv'
<1> DEFINE n == Len(issued)
           i == [j EXCEPT !.st = st, !.got = got]
           K == (jobs \ {j}) \cup {i}
<1>1. /\ Numbered(jobs, n) /\ n \in Nat /\ jar \in 0 .. n
      /\ Silent(tab.token, jar, jobs, issued, lossy) /\ Due(hist.expiry, n, issued, lossy)
  BY Counted DEF SilentInv
<1>2. Handler(j)
  BY OneHandler
<1>3. /\ i.kind = j.kind /\ i.alone = j.alone /\ i.stage = j.stage /\ i.req = j.req /\ i.ck = j.ck /\ i.tok = j.tok
      /\ i.st = st /\ i.got = got
  BY <1>2 DEF Handler
<1>4. jobs' = K
  BY DEF Answered
<1> HIDE DEF i, n
<1>5. Asked(i) = Asked(j)
  BY <1>3 DEF Asked
<1>6. \A x \in 1 .. n : /\ issued'[x].aged = issued[x].aged /\ issued'[x].access = issued[x].access
                        /\ issued'[x].refresh = issued[x].refresh \/ Spends(i, x)
  BY <1>3, <1>5 DEF Spends, n
<1>7. Brings(i) => i.got = n + 1 /\ issued'[i.got].refresh /\ issued'[i.got].access
  BY <1>3, <1>5 DEF Brings, n
<1>8. i.stage = "refresh" => i.st # "refused" /\ (i.st = "ok" => Brings(i))
  BY <1>3, <1>5 DEF Brings, Asked
<1>9. Replies(i, j, n, issued, issued')
  BY <1>3, <1>6, <1>7, <1>8 DEF Replies, Knows
<1>10. Silent(tab.token, jar, K, issued', lossy)
  BY <1>1, <1>9, AnswersSilent
<1> HIDE DEF K
<1>11. Due(hist.expiry, Len(issued'), issued', lossy)
  BY <1>1, <1>6 DEF Due, n
<1>12. QED
  BY <1>4, <1>10, <1>11 DEF SilentInv

LEMMA ServesSilent ==
    ASSUME Inv, SilentInv, NEW j \in jobs, Serve(j)
    PROVE  SilentInv'
<1> DEFINE n == Len(issued)
<1>1. /\ n \in Nat /\ issued \in Seq(PairType) /\ j.ck \in 0 .. n
      /\ \A k \in Nat : k # Nothing
  BY Counted, NothingAssumption DEF Numbered
<1>2. /\ j.stage = "refresh" => Asked(j) = "refresh" /\ j.req \notin NoRefreshPaths
      /\ j.stage # "refresh" => Asked(j) = j.req
  BY OneHandler DEF Asked, HandlerGood
<1>3. CASE ServeRefresh(j)
  <2>1. /\ j.st = "sent" /\ Asked(j) = "refresh" /\ UNCHANGED <<tab, jar, lossy, hist>>
    BY <1>3 DEF ServeRefresh
  <2>2. CASE j.ck # 0 /\ issued[j.ck].refresh
    <3> DEFINE q == [issued[j.ck] EXCEPT !.refresh = FALSE]
               s == [issued EXCEPT ![j.ck] = q]
               p == Pair(issued[j.ck].user)
               got == Len(issued')
    <3>1. issued' = Append(s, p) /\ jobs' = Answered(j, "ok", got)
      BY <1>3, <2>2 DEF ServeRefresh
    <3>2. j.ck \in 1 .. n /\ issued[j.ck] \in PairType
      BY <1>1, <2>2
    <3>3. /\ q \in PairType /\ q.aged = issued[j.ck].aged /\ q.access = issued[j.ck].access
          /\ p \in PairType /\ p.refresh /\ p.access
      BY <3>2 DEF PairType, Pair
    <3> HIDE DEF q, p
    <3>4. s \in Seq(PairType) /\ Len(s) = n /\ \A x \in 1 .. n : s[x] = IF x = j.ck THEN q ELSE issued[x]
      BY <1>1, <3>2, <3>3, ExceptSeq
    <3> HIDE DEF s
    <3>5. /\ Len(issued') = n + 1 /\ issued'[n + 1] = p
          /\ \A x \in 1 .. n : issued'[x] = s[x]
      BY <1>1, <3>1, <3>3, <3>4, AppendProperties
    <3>6. got = n + 1 /\ got # Nothing /\ Len(issued') \in Nat /\ n <= Len(issued')
      BY <1>1, <3>5
    <3>7. issued'[got].refresh /\ issued'[got].access
      BY <3>3, <3>5, <3>6
    <3>8. \A x \in 1 .. n :
             /\ issued'[x].aged = issued[x].aged /\ issued'[x].access = issued[x].access
             /\ \/ issued'[x].refresh = issued[x].refresh
                \/ j.ck = x /\ "ok" = "ok" /\ (Asked(j) = "refresh" \/ j.req = "logout")
      BY <2>1, <3>3, <3>4, <3>5
    <3> HIDE DEF got
    <3>9. QED
      BY <2>1, <3>1, <3>6, <3>7, <3>8, ServedSilent
  <2>3. CASE ~(j.ck # 0 /\ issued[j.ck].refresh)
    <3>1. issued' = issued /\ jobs' = Answered(j, "unauthorized", Nothing)
      BY <1>3, <2>3 DEF ServeRefresh
    <3>2. j.stage # "retry"
      BY <1>2, <2>1, OneHandler DEF HandlerGood, NoRefreshPaths
    <3>3. QED
      BY <1>1, <2>1, <2>3, <3>1, <3>2, ServedSilent
  <2>4. QED
    BY <2>2, <2>3
<1>4. CASE ServeSignIn(j)
  <2>1. /\ j.st = "sent" /\ j.req = "signin" /\ UNCHANGED <<tab, jar, lossy, hist>>
        /\ j.stage # "refresh" /\ j.stage # "retry"
    BY <1>2, <1>4, OneHandler DEF ServeSignIn, NoRefreshPaths, HandlerGood
  <2>2. CASE j.kind # "mfa" /\ j.arg \in MfaUsers
    <3>1. issued' = issued /\ jobs' = Answered(j, "ok", Nothing)
      BY <1>4, <2>2 DEF ServeSignIn
    <3>2. QED
      BY <1>1, <2>1, <3>1, ServedSilent
  <2>3. CASE ~(j.kind # "mfa" /\ j.arg \in MfaUsers)
    <3> DEFINE p == Pair(j.arg)
               got == Len(issued')
    <3>1. issued' = Append(issued, p) /\ jobs' = Answered(j, "ok", got)
      BY <1>4, <2>3 DEF ServeSignIn
    <3>2. p \in PairType /\ p.refresh /\ p.access
      <4>1. j.arg \in Users
        BY <2>1, OneHandler DEF HandlerGood
      <4>2. QED
        BY <4>1 DEF PairType, Pair
    <3> HIDE DEF p
    <3>3. /\ Len(issued') = n + 1 /\ issued'[n + 1] = p
          /\ \A x \in 1 .. n : issued'[x] = issued[x]
      BY <1>1, <3>1, <3>2, AppendProperties
    <3>4. got = n + 1 /\ Len(issued') \in Nat /\ n <= Len(issued')
      BY <1>1, <3>3
    <3>5. issued'[got].refresh /\ issued'[got].access
      BY <3>2, <3>3, <3>4
    <3> HIDE DEF got
    <3>6. QED
      BY <2>1, <3>1, <3>3, <3>4, <3>5, ServedSilent
  <2>4. QED
    BY <2>2, <2>3
<1>5. CASE ServeUnauthorized(j)
  <2>1. /\ j.st = "sent" /\ UNCHANGED <<tab, jar, lossy, hist, issued>> /\ jobs' = Answered(j, "unauthorized", Nothing)
        /\ Asked(j) # "refresh" /\ ~Knows(j)
    BY <1>5 DEF ServeUnauthorized, server
  <2>2. j.stage # "refresh"
    BY <1>2, <2>1
  <2>3. QED
    BY <1>1, <2>1, <2>2, ServedSilent
<1>6. CASE ServeLogout(j)
  <2>1. /\ j.st = "sent" /\ UNCHANGED <<tab, jar, lossy, hist>> /\ jobs' = Answered(j, "ok", Nothing)
        /\ j.req = "logout"
        /\ issued' = IF j.ck = 0 THEN issued ELSE [issued EXCEPT ![j.ck].refresh = FALSE]
    BY <1>6 DEF ServeLogout
  <2>2. j.stage # "refresh"
    BY <1>2, <2>1 DEF NoRefreshPaths
  <2>3. /\ Len(issued') = n
        /\ \A x \in 1 .. n :
             /\ issued'[x].aged = issued[x].aged /\ issued'[x].access = issued[x].access
             /\ \/ issued'[x].refresh = issued[x].refresh
                \/ j.ck = x /\ "ok" = "ok" /\ (Asked(j) = "refresh" \/ j.req = "logout")
    <3>1. CASE j.ck = 0
      BY <2>1, <3>1
    <3>2. CASE j.ck # 0
      <4> DEFINE q == [issued[j.ck] EXCEPT !.refresh = FALSE]
      <4>1. j.ck \in 1 .. n /\ issued[j.ck] \in PairType /\ issued' = [issued EXCEPT ![j.ck] = q]
        BY <1>1, <2>1, <3>2
      <4>2. q \in PairType /\ q.aged = issued[j.ck].aged /\ q.access = issued[j.ck].access
        BY <4>1 DEF PairType
      <4> HIDE DEF q
      <4>3. Len(issued') = n /\ \A x \in 1 .. n : issued'[x] = IF x = j.ck THEN q ELSE issued[x]
        BY <1>1, <4>1, <4>2, ExceptSeq
      <4>4. QED
        BY <2>1, <4>2, <4>3
    <3>3. QED
      BY <3>1, <3>2
  <2>4. Len(issued') \in Nat /\ n <= Len(issued')
    BY <1>1, <2>3
  <2>5. QED
    BY <2>1, <2>2, <2>3, <2>4, ServedSilent
<1>7. CASE ServeGet(j)
  <2>1. j.st = "sent" /\ j.stage # "refresh" /\ UNCHANGED <<tab, jar, lossy, hist, issued>>
    BY <1>7 DEF ServeGet, server
  <2>2. Asked(j) \notin {"refresh", "signin"} /\ \E got : jobs' = Answered(j, "ok", got)
    BY <1>7, <2>1 DEF ServeGet, Asked
  <2>3. QED
    BY <1>1, <2>1, <2>2, ServedSilent
<1>8. CASE ServePost(j)
  <2>1. j.st = "sent" /\ j.stage # "refresh" /\ UNCHANGED <<tab, jar, lossy, hist, issued>>
    BY <1>8 DEF ServePost
  <2>2. Asked(j) \notin {"refresh", "signin"} /\ \E got : jobs' = Answered(j, "ok", got)
    BY <1>8, <2>1 DEF ServePost, Asked
  <2>3. QED
    BY <1>1, <2>1, <2>2, ServedSilent
<1>9. CASE ServeRefused(j)
  <2>1. /\ j.st = "sent" /\ Asked(j) # "refresh" /\ UNCHANGED <<tab, jar, lossy, hist, issued>>
        /\ jobs' = Answered(j, "refused", Nothing)
    BY <1>9 DEF ServeRefused, server
  <2>2. j.stage # "refresh"
    BY <1>2, <2>1
  <2>3. QED
    BY <1>1, <2>1, <2>2, ServedSilent
<1>10. QED
  BY <1>3, <1>4, <1>5, <1>6, <1>7, <1>8, <1>9 DEF Serve
\* A token ages: while no refresh is under way, or after the seven days of an idle cookie.
LEMMA ExpirySilent ==
    ASSUME Inv, SilentInv, NEW m \in 1 .. Len(issued), AccessExpires(m) \/ RefreshExpires(m)
    PROVE  SilentInv'
<1> DEFINE n == Len(issued)
<1>1. /\ n \in Nat /\ issued \in Seq(PairType) /\ issued[m] \in PairType /\ Numbered(jobs, n) /\ jar \in 0 .. n
      /\ Silent(tab.token, jar, jobs, issued, lossy) /\ Due(hist.expiry, n, issued, lossy)
  BY Counted DEF SilentInv
<1>2. UNCHANGED <<tab, jar, jobs, lossy, hist>>
  BY DEF AccessExpires, RefreshExpires
<1>3. CASE AccessExpires(m)
  <2> DEFINE q == [issued[m] EXCEPT !.access = FALSE]
  <2>1. issued' = [issued EXCEPT ![m] = q] /\ \A j \in jobs : j.stage = "first"
    BY <1>3 DEF AccessExpires
  <2>2. q \in PairType /\ q.aged = issued[m].aged /\ q.refresh = issued[m].refresh
    BY <1>1 DEF PairType
  <2> HIDE DEF q
  <2>3. Len(issued') = n /\ \A x \in 1 .. n : issued'[x] = IF x = m THEN q ELSE issued[x]
    BY <1>1, <2>1, <2>2, ExceptSeq
  <2>4. \A x \in 1 .. n : issued'[x].aged = issued[x].aged /\ issued'[x].refresh = issued[x].refresh
    BY <2>2, <2>3
  <2> DEFINE S2 == issued'
  <2>5. \A x \in 1 .. n : Live(S2, x) = Live(issued, x)
    BY <2>4 DEF Live
  <2> HIDE DEF S2
  <2>6. ~lossy => CookieLives(tab.token, jar, jobs, S2)
    BY <1>1, <2>5 DEF Silent, CookieLives
  <2>7. ASSUME NEW j \in jobs PROVE /\ Unused(j, jar, jobs, S2) /\ (Alone(j) => jobs = {j})
                                    /\ Renews(j, tab.token, jar, S2, lossy) /\ Presents(j, S2)
    <3>1. Unused(j, jar, jobs, issued) /\ (Alone(j) => jobs = {j}) /\ (Brings(j) => j.got \in 1 .. n)
      BY <1>1 DEF Silent, Numbered
    <3>2. Unused(j, jar, jobs, S2)
      BY <2>5, <3>1 DEF Unused
    <3>3. Renews(j, tab.token, jar, S2, lossy) /\ Presents(j, S2)
      BY <2>1 DEF Renews, Presents
    <3>4. QED
      BY <3>1, <3>2, <3>3
  <2>8. Silent(tab.token, jar, jobs, S2, lossy)
    BY <2>6, <2>7 DEF Silent
  <2>9. Due(hist.expiry, n, issued', lossy)
    BY <1>1, <2>4 DEF Due
  <2>10. QED
    BY <1>2, <2>3, <2>8, <2>9 DEF SilentInv, S2
<1>4. CASE RefreshExpires(m)
  <2> DEFINE q == [issued[m] EXCEPT !.access = FALSE, !.refresh = FALSE, !.aged = TRUE]
  <2>1. issued' = [issued EXCEPT ![m] = q] /\ jobs = {}
    BY <1>4 DEF RefreshExpires
  <2>2. q \in PairType /\ q.aged
    BY <1>1 DEF PairType
  <2> HIDE DEF q
  <2>3. Len(issued') = n /\ \A x \in 1 .. n : issued'[x] = IF x = m THEN q ELSE issued[x]
    BY <1>1, <2>1, <2>2, ExceptSeq
  <2>4. \A x \in 1 .. n : issued[x].aged => issued'[x].aged
    BY <2>2, <2>3
  <2> DEFINE S2 == issued'
  <2>5. \A x \in 1 .. n : Live(issued, x) => Live(S2, x)
    BY <2>2, <2>3 DEF Live
  <2> HIDE DEF S2
  <2>6. Silent(tab.token, jar, jobs, S2, lossy)
    BY <1>1, <2>1, <2>5 DEF Silent, CookieLives
  <2>7. Due(hist.expiry, n, issued', lossy)
    BY <1>1, <2>4 DEF Due
  <2>8. QED
    BY <1>2, <2>3, <2>6, <2>7 DEF SilentInv, S2
<1>5. QED
  BY <1>3, <1>4

LEMMA AbandonedSilent == ASSUME Inv, SilentInv, NEW j \in jobs, Abandoned(j) PROVE SilentInv'
<1> DEFINE n == Len(issued)
<1>1. /\ n \in Nat /\ Numbered(jobs, n) /\ jar \in 0 .. n
      /\ Silent(tab.token, jar, jobs, issued, lossy) /\ Due(hist.expiry, n, issued, lossy)
  BY Counted DEF SilentInv
<1>2. jobs' = jobs \ {j} /\ lossy' = TRUE /\ UNCHANGED <<tab, jar, issued, hist>>
  BY DEF Abandoned, server
<1> DEFINE lost == TRUE
           ck2 == jar
           token2 == tab.token
<1>3. /\ lossy => lost
      /\ ck2 = jar /\ (token2 = 0 \/ lost \/ (token2 = tab.token /\ ~Spends(j, jar)))
  OBVIOUS
<1>4. lossy' = lost /\ Due(hist.expiry, n, issued, lost)
  BY <1>2 DEF Due
<1> HIDE DEF lost, ck2, token2
<1>5. Silent(token2, ck2, jobs \ {j}, issued, lost)
  BY <1>1, <1>3, EndsSilent
<1>6. QED
  BY <1>2, <1>4, <1>5 DEF SilentInv, ck2, token2

LEMMA ReloadSilent == ASSUME Inv, SilentInv, NEW r \in Entries, Reload(r) PROVE SilentInv'
<1> DEFINE G == {[j EXCEPT !.kind = "gone"] : j \in {k \in jobs : k.st = "sent" /\ k.req # "me"}}
           alone == jobs = {}
           b == [Boot EXCEPT !.n = made + 1, !.ck = jar, !.alone = alone]
<1>1. tab' = NewTab(r) /\ jobs' = G \cup {b} /\ UNCHANGED <<jar, issued, lossy, hist>>
  BY DEF Reload, server
<1>2. tab'.token = 0
  BY <1>1 DEF NewTab
<1>3. \A g \in G : \E k \in jobs : g.stage = k.stage /\ g.tok = k.tok /\ g.st = "sent" /\ g.kind = "gone"
  <2> SUFFICES ASSUME NEW k \in jobs, k.st = "sent"
               PROVE  LET g == [k EXCEPT !.kind = "gone"] IN
                      g.stage = k.stage /\ g.tok = k.tok /\ g.st = "sent" /\ g.kind = "gone"
    OBVIOUS
  <2>1. Handler(k)
    BY OneHandler
  <2>2. QED
    BY <2>1 DEF Handler
<1>4. b.st = "sent" /\ b.stage = "first" /\ (b.alone => jobs = {})
  <2> DEFINE next == made + 1
  <2> HIDE DEF alone, next
  <2>1. b = [n |-> next, kind |-> "boot", arg |-> Nothing, from |-> 0, req |-> "refresh", stage |-> "first",
             tok |-> 0, ck |-> jar, st |-> "sent", got |-> Nothing, back |-> Nothing, alone |-> alone]
    <3> DEFINE yes == TRUE
    <3>1. Boot = [n |-> 1, kind |-> "boot", arg |-> Nothing, from |-> 0, req |-> "refresh", stage |-> "first",
                  tok |-> 0, ck |-> 0, st |-> "sent", got |-> Nothing, back |-> Nothing, alone |-> yes]
      BY DEF Boot
    <3>2. b = [Boot EXCEPT !.n = next, !.ck = jar, !.alone = alone]
      BY DEF next
    <3> HIDE DEF yes, b
    <3>3. QED
      BY ONLY <3>1, <3>2
  <2> HIDE DEF b
  <2>2. b.st = "sent" /\ b.stage = "first" /\ b.alone = alone
    BY ONLY <2>1
  <2>3. QED
    BY <2>2 DEF alone
<1> HIDE DEF G, b
<1>5. Silent(0, jar, G \cup {b}, issued, lossy)
  BY <1>3, <1>4, ReloadsSilent DEF SilentInv
<1>6. QED
  BY <1>1, <1>2, <1>5 DEF SilentInv

\* A handler is over, in tree token and with the cookie of the answer.
LEMMA OverSilent ==
    ASSUME Inv, SilentInv, NEW j \in jobs, NEW token, NEW h, Over(j, token, h), issued' = issued,
           lossy' \in BOOLEAN, lossy => lossy', Due(h.expiry, Len(issued), issued, lossy'),
           \/ jar' = jar /\ (token = 0 \/ lossy' \/ (token = tab.token /\ ~Spends(j, jar)))
           \/ jar' = 0 /\ token = 0
    PROVE  SilentInv'
<1> DEFINE n == Len(issued)
           ck2 == jar'
           lost == lossy'
<1>1. /\ n \in Nat /\ Numbered(jobs, n) /\ jar \in 0 .. n /\ Silent(tab.token, jar, jobs, issued, lossy)
  BY Counted DEF SilentInv
<1>2. /\ lossy => lost
      /\ \/ ck2 = jar /\ (token = 0 \/ lost \/ (token = tab.token /\ ~Spends(j, jar)))
         \/ ck2 = 0 /\ token = 0
  OBVIOUS
<1> HIDE DEF ck2, lost, n
<1>3. Silent(token, ck2, jobs \ {j}, issued, lost)
  BY <1>1, <1>2, EndsSilent
<1>4. QED
  BY <1>3 DEF SilentInv, Over, ck2, lost

\* A handler goes on, in the same tree or with the pair it was given.
LEMMA OnwardSilent ==
    ASSUME Inv, SilentInv, NEW j \in jobs, NEW token, NEW stage, Onward(j, token, stage), issued' = issued,
           lossy' = lossy, hist'.expiry = hist.expiry,
           stage = "retry" => j.stage = "refresh" /\ j.st = "ok" /\ token = j.got,
           \/ jar' = jar /\ token = tab.token /\ ~Spends(j, jar)
           \/ Brings(j) /\ jar' = j.got /\ token = j.got
    PROVE  SilentInv'
<1> DEFINE n == Len(issued)
           ck2 == jar'
<1>1. /\ n \in Nat /\ Numbered(jobs, n) /\ jar \in 0 .. n /\ Silent(tab.token, jar, jobs, issued, lossy)
  BY Counted DEF SilentInv
<1>2. PICK i : /\ jobs' = (jobs \ {j}) \cup {i}
               /\ i.kind = j.kind /\ i.alone = j.alone /\ i.st = "sent" /\ i.ck = ck2 /\ i.stage = stage
               /\ stage = "retry" => i.tok = token
               /\ tab'.token = token
  BY DEF Onward
<1>3. /\ i.stage = "retry" => j.stage = "refresh" /\ j.st = "ok" /\ i.tok = j.got
      /\ \/ ck2 = jar /\ token = tab.token /\ ~Spends(j, jar)
         \/ Brings(j) /\ ck2 = j.got /\ token = j.got
  BY <1>2
<1> HIDE DEF ck2, n
<1>4. Silent(token, ck2, (jobs \ {j}) \cup {i}, issued, lossy)
  BY <1>1, <1>2, <1>3, ContinuesSilent
<1>5. QED
  BY <1>2, <1>4 DEF SilentInv, ck2
LEMMA RefreshAnswerSilent ==
    ASSUME Inv, SilentInv, NEW j \in jobs, j.kind # "gone", NEW lost \in BOOLEAN, RefreshAnswer(j, lost)
    PROVE  SilentInv'
<1> DEFINE n == Len(issued)
           ok == j.st = "ok" /\ ~lost
<1>1. /\ Asked(j) = "refresh" /\ issued' = issued /\ SetCookie(j, lost) /\ (lost \/ j.st # "sent")
      /\ lossy' = (lossy \/ lost) /\ lossy' \in BOOLEAN
  BY DEF RefreshAnswer, server, Lost
<1>2. Refreshes(j, ok)
  BY RefreshAnswerKeeps
<1>3. /\ Renews(j, tab.token, jar, issued, lossy) /\ Due(hist.expiry, n, issued, lossy)
      /\ \A k \in Nat : k # Nothing
  BY NothingAssumption DEF SilentInv, Silent
<1>4. Handler(j) /\ Given(j, n) /\ jar \in 0 .. n /\ n \in Nat
  BY OneHandler, Counted
<1>5. Due(hist.expiry, n, issued, lossy')
  BY <1>1, <1>3 DEF Due
<1>6. CASE ok
  <2>1. Brings(j) /\ jar' = j.got
    <3>1. j.got \in 1 .. n
      BY <1>1, <1>4, <1>6 DEF Given
    <3>2. j.got # Nothing
      BY <1>3, <3>1
    <3>3. QED
      BY <1>1, <1>6, <3>2 DEF Brings, SetCookie
  <2>2. /\ lossy' = lossy /\ hist' = hist
        /\ \/ j.stage = "refresh" /\ Onward(j, j.got, "retry")
           \/ Onward(j, j.got, "first")
    <3>1. lossy' = lossy
      BY <1>1, <1>6 DEF SilentInv
    <3>2. QED
      BY <1>2, <1>6, <3>1 DEF Refreshes
  <2>3. QED
    BY <1>1, <1>6, <2>1, <2>2, OnwardSilent
<1>7. CASE ~ok
  <2>1. jar' = jar \/ jar' = 0
    BY <1>1, <1>7 DEF SetCookie
  <2>2. CASE Over(j, 0, hist)
    BY <1>1, <1>5, <2>1, <2>2, OverSilent
  <2>3. CASE j.stage = "refresh" /\ Over(j, 0, Expired(j))
    <3> DEFINE h == Expired(j)
               alone == j.alone /\ tab.token # 0
               e == [alone |-> alone, ck |-> j.ck]
    <3>1. h.expiry = e
      <4>1. hist \in [out : BOOLEAN, expiry : {hist.expiry}]
        BY DEF Inv, HistGood
      <4> HIDE DEF e
      <4>2. [hist EXCEPT !.expiry = e].expiry = e
        BY <4>1
      <4>3. QED
        BY <4>2 DEF Expired, e
    <3>2. e.alone = alone /\ e.ck = j.ck
      <4> HIDE DEF alone
      <4>1. QED
        OBVIOUS
    <3>3. ASSUME alone, ~lossy' PROVE e.ck \in 1 .. n /\ issued[e.ck].aged
      <4>1. j.st = "unauthorized" /\ ~lossy /\ Alone(j)
        BY <1>1, <1>3, <1>4, <1>7, <2>3, <3>3 DEF Handler, Renews, Alone
      <4>2. jar # 0 /\ issued[jar].aged /\ j.ck = jar
        BY <1>3, <2>3, <3>3, <4>1 DEF Renews
      <4>3. QED
        BY <1>4, <3>2, <4>2
    <3> HIDE DEF e
    <3>4. Due(e, n, issued, lossy')
      BY <3>2, <3>3 DEF Due
    <3>5. Due(h.expiry, n, issued, lossy')
      BY <3>1, <3>4
    <3> HIDE DEF h
    <3>6. Over(j, 0, h)
      BY <2>3 DEF h
    <3>7. QED
      BY <1>1, <2>1, <3>5, <3>6, OverSilent
  <2>4. QED
    BY <1>2, <1>7, <2>2, <2>3 DEF Refreshes
<1>8. QED
  BY <1>6, <1>7

LEMMA RetrySilent ==
    ASSUME Inv, SilentInv, NEW j \in jobs, j.kind # "gone", NEW lost \in BOOLEAN, executeWithRetry(j, lost)
    PROVE  SilentInv'
<1> DEFINE n == Len(issued)
<1>1. /\ Asked(j) # "refresh" /\ issued' = issued /\ SetCookie(j, lost) /\ (lost \/ j.st # "sent")
      /\ lossy' = (lossy \/ lost) /\ lossy' \in BOOLEAN
  BY DEF executeWithRetry, server, Lost
<1>2. Retries(j, lost)
  BY RetryKeeps
<1>3. /\ Presents(j, issued) /\ Due(hist.expiry, n, issued, lossy)
  BY DEF SilentInv, Silent
<1>4. Due(hist.expiry, n, issued, lossy')
  BY <1>1, <1>3 DEF Due
<1>5. Asked(j) = j.req
  BY <1>1 DEF Asked
<1>6. CASE ~lost /\ j.st = "unauthorized" /\ j.stage = "first" /\ Onward(j, tab.token, "refresh") /\ hist' = hist
  <2>1. jar' = jar /\ ~Spends(j, jar) /\ lossy' = lossy
    BY <1>1, <1>6 DEF SetCookie, Spends, SilentInv
  <2>2. QED
    BY <1>1, <1>6, <2>1, OnwardSilent
<1>7. CASE ~lost /\ j.st = "unauthorized" /\ j.stage = "retry"
  BY <1>3, <1>7 DEF Presents
<1>8. CASE ~lost /\ j.st = "ok" /\ Succeeded(j)
  <2>1. lossy' = lossy
    BY <1>1, <1>8 DEF SilentInv
  <2>2. CASE j.req # "logout" /\ (j.req = "signin" => j.got = Nothing) /\ Over(j, tab.token, hist)
    <3>1. jar' = jar /\ ~Spends(j, jar)
      BY <1>1, <1>5, <1>8, <2>2 DEF SetCookie, Spends
    <3>2. QED
      BY <1>1, <1>4, <2>1, <2>2, <3>1, OverSilent
  <2>3. CASE j.req = "logout" /\ \E h : Over(j, 0, h) /\ h.expiry = hist.expiry
    <3>1. PICK h : Over(j, 0, h) /\ h.expiry = hist.expiry
      BY <2>3
    <3>2. jar' = 0
      BY <1>1, <1>5, <1>8, <2>3 DEF SetCookie
    <3>3. Due(h.expiry, n, issued, lossy')
      BY <1>4, <3>1
    <3>4. QED
      BY <1>1, <2>1, <3>1, <3>2, <3>3, OverSilent
  <2>4. CASE j.req = "signin" /\ j.got # Nothing /\ Onward(j, j.got, "first") /\ hist'.expiry = hist.expiry
    <3>1. Brings(j) /\ jar' = j.got
      BY <1>1, <1>5, <1>8, <2>4 DEF Brings, SetCookie
    <3>2. QED
      BY <1>1, <2>1, <2>4, <3>1, OnwardSilent
  <2>5. CASE j.req \notin {"logout", "signin"} /\ Onward(j, tab.token, "first") /\ hist' = hist
    <3>1. jar' = jar /\ ~Spends(j, jar)
      BY <1>1, <1>5, <1>8, <2>5 DEF SetCookie, Spends
    <3>2. QED
      BY <1>1, <2>1, <2>5, <3>1, OnwardSilent
  <2>6. QED
    BY <1>8, <2>2, <2>3, <2>4, <2>5 DEF Succeeded
<1>9. CASE (lost \/ j.st # "ok") /\ (Over(j, 0, hist) \/ Over(j, tab.token, hist))
  <2>1. jar' = jar /\ (lossy' \/ ~Spends(j, jar))
    BY <1>1, <1>9 DEF SetCookie, Spends
  <2>2. lossy => lossy'
    BY <1>1
  <2>3. QED
    BY <1>1, <1>4, <1>9, <2>1, <2>2, OverSilent
<1>10. QED
  BY <1>2, <1>6, <1>7, <1>8, <1>9 DEF Retries

----------------------------------------------------------------------------
(* The invariant and the property.                                         *)

LEMMA InitSilent == ASSUME Init PROVE SilentInv
<1> DEFINE b == [Boot EXCEPT !.ck = jar]
           yes == TRUE
<1>1. jobs = {b} /\ tab.token = 0 /\ hist.expiry = Nothing
  BY DEF Init
<1>0. lossy \in BOOLEAN
  <2>1. lossy = FALSE
    BY DEF Init
  <2>2. QED
    BY <2>1
<1>2. b.st = "sent" /\ b.stage = "first"
  <2>1. Boot = [n |-> 1, kind |-> "boot", arg |-> Nothing, from |-> 0, req |-> "refresh", stage |-> "first",
                tok |-> 0, ck |-> 0, st |-> "sent", got |-> Nothing, back |-> Nothing, alone |-> yes]
    BY DEF Boot
  <2> HIDE DEF yes
  <2>2. b = [n |-> 1, kind |-> "boot", arg |-> Nothing, from |-> 0, req |-> "refresh", stage |-> "first",
             tok |-> 0, ck |-> jar, st |-> "sent", got |-> Nothing, back |-> Nothing, alone |-> yes]
    BY <2>1
  <2> HIDE DEF b
  <2>3. QED
    BY ONLY <2>2
<1> HIDE DEF b
<1>3. Silent(tab.token, jar, jobs, issued, lossy)
  BY <1>1, <1>2 DEF Silent, CookieLives, Unused, Brings, Alone, Renews, Presents
<1>4. QED
  BY <1>0, <1>1, <1>3 DEF SilentInv, Due

LEMMA NextSilent == ASSUME Inv, SilentInv, [Next]_vars PROVE SilentInv'
<1>1. ASSUME NEW j \in jobs, Serve(j) \/ Abandoned(j) PROVE SilentInv'
  BY <1>1, ServesSilent, AbandonedSilent
<1>2. ASSUME NEW j \in jobs, NEW lost \in BOOLEAN, Answer(j, lost) PROVE SilentInv'
  BY <1>2, RefreshAnswerSilent, RetrySilent DEF Answer
<1>3. ASSUME NEW r \in Offers(tab) \cap Routes, Navigate(r) PROVE SilentInv'
  BY <1>3, TurningSilent
<1>4. ASSUME NEW r \in Entries, Reload(r) PROVE SilentInv'
  BY <1>4, ReloadSilent
<1>5. CASE \E u \in Users : SubmitLogin(u) \/ SubmitSocial(u)
  BY <1>5, SubmissionsSilent
<1>6. CASE SubmitMfa \/ SubmitSignup \/ ResendVerification \/ ConfirmMfa \/ ConfirmLink
  BY <1>6, SubmissionsSilent
<1>7. CASE VerifyEmail \/ SetupMfa \/ LoadInvite \/ Fetch \/ Accept \/ AcceptOnDashboard \/ Logout
  BY <1>7, SubmissionsSilent
<1>8. ASSUME NEW o \in Orgs, SwitchOrganization(o) PROVE SilentInv'
  BY <1>8, TurningSilent
<1>9. ASSUME NEW x \in {"first", "second"}, NEW v \in {"empty", "ok", "bad"}, setField(x, v) PROVE SilentInv'
  BY <1>9, TypingSilent DEF Values
<1>10. CASE goNext \/ goBack \/ goSkip
  BY <1>10, TypingSilent
<1>11. CASE handleCreate \/ handleFinish
  BY <1>11, SubmissionsSilent
<1>12. CASE Timeout \/ \E u \in tab.stray : StrayTimeout(u)
  BY <1>12, TurningSilent
<1>13. ASSUME NEW m \in 1 .. Len(issued), AccessExpires(m) \/ RefreshExpires(m) PROVE SilentInv'
  BY <1>13, ExpirySilent
<1>14. ASSUME NEW u \in Users, NEW o \in Orgs, Revoke(u, o) PROVE SilentInv'
  BY <1>14, TurnsSilent DEF Revoke
<1>15. CASE UNCHANGED vars
  BY <1>15, TurnsSilent DEF vars
<1>16. QED
  BY <1>1, <1>2, <1>3, <1>4, <1>5, <1>6, <1>7, <1>8, <1>9, <1>10, <1>11, <1>12, <1>13, <1>14, <1>15 DEF Next

\* When no other handler was at work and no answer was lost, a user who holds a token is signed
\* out by an expiry only after the refresh cookie's own seven days (executeWithRetry).
THEOREM RefreshIsQuiet == Spec => []QuietRefresh
<1>1. Init => Inv /\ SilentInv
  BY InitInv, InitSilent
<1>2. (Inv /\ SilentInv) /\ [Next]_vars => (Inv /\ SilentInv)'
  BY NextInv, NextSilent
<1>3. Inv /\ SilentInv => QuietRefresh
  BY DEF SilentInv, Due, QuietRefresh
<1>4. QED
  BY <1>1, <1>2, <1>3, PTL DEF Spec
=============================================================================
