------------------------------ MODULE Session ------------------------------
(***************************************************************************)
(* Signing in and out in the browser: AuthContext, the API client with its *)
(* refresh and retry, the router's guards, the selected organisation, and  *)
(* the pages that change any of these (sign-in, sign-up, verification,     *)
(* MFA, onboarding, the organisation wizard, invitations, chat link).      *)
(*                                                                         *)
(* A handler is a job: a chain of requests, each sent, served and answered *)
(* in steps of its own; what runs between two of them is one step.         *)
(***************************************************************************)
EXTENDS Integers, Sequences, FiniteSets

CONSTANTS
    Users, MfaUsers, NewUsers,  \* all; those with MFA; those without a profile
    Orgs,                       \* numbers, in the order the server lists them
    MemberOf,                   \* the organisations of each user at the start
    Invitee, InvitedTo,         \* a pending invitation
    Remembered,                 \* what localStorage's organisation may be
    Entries,                    \* the routes a document may be opened at
    MaxJobs, MaxParallel, MaxIssued, MaxActs, MaxFaults,    \* bounds
    Nothing

ASSUME OrgsAreNumbers == Orgs \subseteq Nat

ASSUME UsersAssumption ==
    MemberOf \in [Users -> SUBSET Orgs] /\ Invitee \in Users /\ InvitedTo \in Orgs

VARIABLES
    tab,        \* the React tree: auth state, token in memory, route, view and its form
    jar,        \* the refresh cookie: the number of an issued pair, 0 if none
    storage,    \* localStorage's organisation and sessionStorage's invitation
    jobs,       \* handlers that wait for an answer
    issued,     \* the server's pairs of an access and a refresh token
    members, complete, invited,  \* the server: memberships, profiles, the open invitation
    made, acts, faults,     \* counted: handlers, other steps of users, refusals and losses
    lossy,      \* history: an answer was lost
    hist        \* history: what the properties ask about earlier steps

vars == <<tab, jar, storage, jobs, issued, members, complete, invited, made, acts, faults, lossy, hist>>
server == <<issued, members, complete, invited>>

Guest     == {"login", "signup", "verify", "mfa"}
Protected == {"app", "offices", "mfaSetup", "link", "work"}
Routes    == Guest \cup Protected \cup {"invite"}

ASSUME EntriesAssumption == Entries \subseteq Routes

----------------------------------------------------------------------------
(* The tree.                                                               *)

UserRecord(u) == [id |-> u, orgs |-> members[u], complete |-> u \in complete]
UserType == [id : Users, orgs : SUBSET Orgs, complete : BOOLEAN]

\* null is no organisation, no user and no number.
ASSUME NothingAssumption == Nothing \notin Orgs \cup UserType \cup Nat

FirstOrg(orgs) == IF orgs = {} THEN Nothing ELSE CHOOSE o \in orgs : \A p \in orgs : o <= p

\* Mutated: the stored choice is believed.
SelectedAsStored(t) == IF t.chosen # Nothing THEN t.chosen ELSE FirstOrg(t.user.orgs)

\* The effective selection: the choice while it is an active membership.
Selected(t) == IF t.chosen \in t.user.orgs THEN t.chosen ELSE FirstOrg(t.user.orgs)

\* AppLayout with the organisation provider is mounted.
hasShell(t) == t.status = "authenticated" /\ t.route \in Protected

GuestOnlyRoute(t) == IF t.status = "authenticated" /\ t.route \in Guest THEN [t EXCEPT !.route = "app"] ELSE t
ProtectedRoute(t) == IF t.status = "unauthenticated" /\ t.route \in Protected
                     THEN [t EXCEPT !.route = "login", !.back = Nothing] ELSE t
WorkspaceRequiredRoute(t) ==
    IF t.route = "work" /\ hasShell(t) /\ Selected(t) = Nothing THEN [t EXCEPT !.route = "app"] ELSE t

SelectedOrganizationProvider(t) ==
    IF hasShell(t) /\ ~hasShell(tab) THEN [t EXCEPT !.chosen = storage.org] ELSE t

\* What is rendered at a route.
ViewOf(t) ==
    IF t.route = "invite" THEN "invite"
    ELSE IF t.status = "loading" THEN "spinner"
    ELSE IF t.route = "app" /\ ~t.user.complete THEN "onboarding"
    ELSE IF t.route = "offices" /\ t.user.orgs = {} THEN "orgSetup"
    ELSE t.route

NewForm(v) ==
    [at |-> CASE v = "verify" -> "verifying" [] v \in {"mfaSetup", "invite"} -> "loading" [] OTHER -> "idle",
     step |-> 0, first |-> "empty", second |-> "empty", busy |-> FALSE, social |-> FALSE]

\* The post-accept effect: leave for the dashboard, once there is a user.
LeaveTimer(t) == IF t.form.at = "accepted" /\ t.user # Nothing THEN [what |-> "leave", user |-> Nothing] ELSE Nothing

\* Mutated: a page that unmounts leaves its timeout behind.
MountedKeepsTimer(t) ==
    LET v == ViewOf(t) IN
    IF v = t.view THEN IF v = "invite" THEN [t EXCEPT !.timer = LeaveTimer(t)] ELSE t
    ELSE [t EXCEPT !.view = v, !.form = NewForm(v), !.mount = t.mount + 1]

\* Another view mounts with a fresh form, and clears the timeout of the one before.
Mounted(t) ==
    LET v == ViewOf(t) IN
    IF v = t.view THEN IF v = "invite" THEN [t EXCEPT !.timer = LeaveTimer(t)] ELSE t
    ELSE [t EXCEPT !.view = v, !.form = NewForm(v), !.timer = Nothing, !.mount = t.mount + 1]

Rendered(t) ==
    Mounted(WorkspaceRequiredRoute(SelectedOrganizationProvider(ProtectedRoute(GuestOnlyRoute(t)))))

\* The new tree, and what its effects write to the storages.
Render(t, invite) ==
    /\ tab' = Rendered(t)
    /\ storage' = [org |-> IF hasShell(tab') THEN Selected(tab') ELSE storage.org,
                   invite |-> invite \/ (tab'.view = "invite" /\ tab'.form.at = "loading")]

----------------------------------------------------------------------------
(* AuthContext.                                                            *)

SignedIn(t, user) == [t EXCEPT !.status = "authenticated", !.user = user]

\* Mutated: the user or the status is forgotten.
SignedOutKeepsUser(t)   == [t EXCEPT !.token = 0, !.status = "unauthenticated"]
SignedOutKeepsStatus(t) == [t EXCEPT !.token = 0, !.user = Nothing]

\* markUnauthenticated, and the catch branches of bootstrap and refreshUser
SignedOut(t) == [t EXCEPT !.token = 0, !.status = "unauthenticated", !.user = Nothing]

\* logoutUser, after its request, and handleLogout
LoggedOut(t) == [SignedOut(t) EXCEPT !.route = "login", !.back = Nothing]

\* refreshUser, before its request
Refreshing(t) == [t EXCEPT !.status = "loading"]

----------------------------------------------------------------------------
(* Requests.                                                               *)

\* Mutated: the retry sends the headers of the first attempt.
buildHeadersOnce(t, j) == IF j.stage = "retry" THEN j.tok ELSE t.token

\* The access token a request presents.
buildHeaders(t, j) == t.token

\* Job j goes on with a request; the browser adds the cookie.
Request(t, j, req, stage, cookie) ==
    LET k == [j EXCEPT !.req = req, !.stage = stage] IN
    [k EXCEPT !.tok = IF stage = "refresh" \/ req \in {"refresh", "signin"} THEN 0 ELSE buildHeaders(t, k),
              !.ck = cookie, !.st = "sent", !.got = Nothing]

NoRefreshPaths == {"refresh", "signin", "logout", "public"}

Job(kind, arg, mount) ==
    [n |-> made + 1, kind |-> kind, arg |-> arg, from |-> mount, req |-> Nothing, stage |-> "first",
     tok |-> 0, ck |-> 0, st |-> "sent", got |-> Nothing, back |-> tab.back, alone |-> jobs = {}]

\* A handler starts in tree t.
Start(t, kind, arg, req) ==
    /\ made < MaxJobs /\ Cardinality(jobs) < MaxParallel
    /\ made' = made + 1
    /\ jobs' = {[k EXCEPT !.alone = FALSE] : k \in jobs}
               \cup {Request(t, Job(kind, arg, t.mount), req, "first", jar)}
    /\ Render(t, storage.invite)
    /\ UNCHANGED <<jar, server, faults, lossy, hist>>

Busy == [tab EXCEPT !.form.busy = TRUE]

----------------------------------------------------------------------------
(* The server.                                                             *)

Asked(j) == IF j.stage = "refresh" THEN "refresh" ELSE j.req

Knows(j)  == j.tok # 0 /\ issued[j.tok].access
Caller(j) == issued[j.tok].user

Pair(u) == [user |-> u, access |-> TRUE, refresh |-> TRUE, aged |-> FALSE]

Answered(j, st, got) == (jobs \ {j}) \cup {[j EXCEPT !.st = st, !.got = got]}

\* CookieTokenRefreshView: the cookie's token is replaced and blacklisted.
ServeRefresh(j) ==
    /\ j.st = "sent" /\ Asked(j) = "refresh"
    /\ IF j.ck # 0 /\ issued[j.ck].refresh
       THEN /\ Len(issued) < MaxIssued
            /\ issued' = Append([issued EXCEPT ![j.ck].refresh = FALSE], Pair(issued[j.ck].user))
            /\ jobs' = Answered(j, "ok", Len(issued'))
       ELSE issued' = issued /\ jobs' = Answered(j, "unauthorized", Nothing)
    /\ UNCHANGED <<tab, jar, storage, members, complete, invited, made, acts, faults, lossy, hist>>

\* Sign-in by password, provider token or MFA code.
ServeSignIn(j) ==
    /\ j.st = "sent" /\ j.req = "signin"
    /\ IF j.kind # "mfa" /\ j.arg \in MfaUsers
       THEN issued' = issued /\ jobs' = Answered(j, "ok", Nothing)
       ELSE /\ Len(issued) < MaxIssued
            /\ issued' = Append(issued, Pair(j.arg))
            /\ jobs' = Answered(j, "ok", Len(issued'))
    /\ UNCHANGED <<tab, jar, storage, members, complete, invited, made, acts, faults, lossy, hist>>

\* JWTAuthentication: a dead token is refused even where none is needed.
ServeUnauthorized(j) ==
    /\ j.st = "sent"
    /\ Asked(j) \notin {"refresh", "signin", "public"} /\ ~Knows(j)
    /\ Asked(j) = "get" /\ j.kind = "invite" => j.tok # 0
    /\ jobs' = Answered(j, "unauthorized", Nothing)
    /\ UNCHANGED <<tab, jar, storage, server, made, acts, faults, lossy, hist>>

ServeLogout(j) ==
    /\ j.st = "sent" /\ j.req = "logout" /\ Knows(j)
    /\ issued' = IF j.ck = 0 THEN issued ELSE [issued EXCEPT ![j.ck].refresh = FALSE]
    /\ jobs' = Answered(j, "ok", Nothing)
    /\ UNCHANGED <<tab, jar, storage, members, complete, invited, made, acts, faults, lossy, hist>>

ServeGet(j) ==
    /\ j.st = "sent" /\ j.stage # "refresh"
    /\ \/ j.req \in {"me", "avatar"} /\ Knows(j) /\ jobs' = Answered(j, "ok", UserRecord(Caller(j)))
       \/ j.req = "get" /\ (Knows(j) \/ (j.kind = "invite" /\ j.tok = 0)) /\ jobs' = Answered(j, "ok", Nothing)
       \/ j.req = "public" /\ jobs' = Answered(j, "ok", Nothing)
    /\ UNCHANGED <<tab, jar, storage, server, made, acts, faults, lossy, hist>>

ServePost(j) ==
    /\ j.st = "sent" /\ j.req = "post" /\ j.stage # "refresh" /\ Knows(j)
    /\ \/ /\ j.kind = "profile"
          /\ complete' = complete \cup {Caller(j)}
          /\ jobs' = Answered(j, "ok", [UserRecord(Caller(j)) EXCEPT !.complete = TRUE])
          /\ UNCHANGED <<members, invited>>
       \/ /\ j.kind = "org" /\ members[Caller(j)] # Orgs
          /\ \E o \in Orgs \ (members[Caller(j)] \cup {InvitedTo}) :
                members' = [members EXCEPT ![Caller(j)] = @ \cup {o}]
          /\ jobs' = Answered(j, "ok", Nothing)
          /\ UNCHANGED <<complete, invited>>
       \/ /\ j.kind \in {"accept", "join"} /\ invited /\ Caller(j) = Invitee
          /\ members' = [members EXCEPT ![Invitee] = @ \cup {InvitedTo}]
          /\ invited' = FALSE
          /\ jobs' = Answered(j, "ok", Nothing)
          /\ UNCHANGED complete
       \/ /\ j.kind \in {"form", "page"} /\ jobs' = Answered(j, "ok", Nothing)
          /\ UNCHANGED <<members, complete, invited>>
    /\ UNCHANGED <<tab, jar, storage, issued, made, acts, faults, lossy, hist>>

\* Any other refusal: a wrong password or code, a taken name, a throttle, an error.
ServeRefused(j) ==
    /\ j.st = "sent" /\ Asked(j) # "refresh"
    /\ faults < MaxFaults /\ faults' = faults + 1
    /\ jobs' = Answered(j, "refused", Nothing)
    /\ UNCHANGED <<tab, jar, storage, server, made, acts, lossy, hist>>

----------------------------------------------------------------------------
(* Answers.  executeWithRetry, refreshStoredTokens, and what each handler  *)
(* does next.                                                              *)

\* The handler is over, and left tree t.
Ends(j, t, invite, h) ==
    /\ jobs' = jobs \ {j}
    /\ Render(t, invite)
    /\ hist' = h

Continues(j, t, req, stage) ==
    /\ jobs' = (jobs \ {j}) \cup {Request(t, j, req, stage, jar')}
    /\ Render(t, storage.invite)

\* The browser keeps the cookie of an answer that arrived.
SetCookie(j, lost) ==
    jar' = IF lost THEN jar
           ELSE IF j.st = "ok" /\ Asked(j) \in {"refresh", "signin"} /\ j.got # Nothing THEN j.got
           ELSE IF j.st = "unauthorized" /\ Asked(j) = "refresh" /\ j.ck # 0 THEN 0
           ELSE IF j.st = "ok" /\ j.req = "logout" THEN 0
           ELSE jar

\* Mutated: a failed submission leaves the form disabled.
SubmissionEndedOk(j, t, ok) ==
    IF j.from # t.mount THEN t
    ELSE [t EXCEPT !.form.busy = IF ok THEN FALSE ELSE @, !.form.social = IF j.kind = "social" THEN FALSE ELSE @,
                   !.form.at = IF ok THEN "ready" ELSE "error"]

\* A page's own state when its request has ended, if it is still there.
SubmissionEnded(j, t, ok) ==
    IF j.from # t.mount THEN t
    ELSE [t EXCEPT !.form.busy = IF j.kind \in {"social", "invite", "page"} THEN @ ELSE FALSE,
                   !.form.social = IF j.kind = "social" THEN FALSE ELSE @,
                   !.form.at = IF j.kind \in {"invite", "page"} THEN IF ok THEN "ready" ELSE "error"
                               ELSE IF ok /\ t.view # "verify" THEN "done"
                               ELSE IF t.view = "link" THEN "error" ELSE @]

SignIns == {"login", "social", "mfa"}

\* getSafeReturnTo, readPendingInvitePath
Destination(j) == IF j.back # Nothing THEN j.back ELSE IF storage.invite THEN "invite" ELSE "app"

\* setSelectedOrganizationId of the provider a component was rendered under: none, or
\* one that is gone, for a component that is gone or outside the shell.
setSelectedOrganizationId(j, t, o) ==
    IF j.from = t.mount /\ hasShell(t) THEN [t EXCEPT !.chosen = o] ELSE t

\* What follows refreshUser, which never throws.
AfterRefreshUser(j, t, h) ==
    LET page == IF j.from = t.mount THEN [t EXCEPT !.form.busy = FALSE, !.form.at = "accepted"] ELSE t
    IN
    \/ j.kind = "accept" /\ Ends(j, page, FALSE, h)
    \/ j.kind = "join" /\ Ends(j, setSelectedOrganizationId(j, t, InvitedTo), FALSE, h)
    \/ j.kind \in {"org", "boot"} /\ Ends(j, t, storage.invite, h)

\* The request of j has failed for good, in tree t.
Throws(j, t, h) ==
    \/ /\ j.req = "me" /\ j.kind \in SignIns
       /\ Ends(j, SubmissionEnded(j, [t EXCEPT !.token = 0], FALSE), storage.invite, h)
    \/ /\ j.req = "me" /\ j.kind \notin SignIns
       /\ AfterRefreshUser(j, SignedOut(t), h)
    \/ /\ j.req = "logout"
       /\ Ends(j, LoggedOut(t), storage.invite, h)
    \/ /\ j.req \notin {"me", "logout"}
       /\ Ends(j, SubmissionEnded(j, t, FALSE), storage.invite, h)

\* finalUser is shown 2.2 s later, by a timeout that unmounting clears if it is set by then.
Completing(j) ==
    IF j.from = tab.mount
    THEN [tab EXCEPT !.form.busy = FALSE, !.timer = [what |-> "complete", user |-> j.got]]
    ELSE [tab EXCEPT !.stray = @ \cup {j.got}]

Succeeds(j) ==
    \/ /\ j.req = "me" /\ j.kind \in SignIns
       /\ \E d \in {Destination(j), "app"} :    \* GuestOnlyRoute navigates as well
             Ends(j, [SignedIn(SubmissionEnded(j, tab, TRUE), j.got) EXCEPT !.route = d, !.back = Nothing],
                  storage.invite, hist)
    \/ /\ j.req = "me" /\ j.kind \notin SignIns
       /\ AfterRefreshUser(j, SignedIn(tab, j.got), hist)
    \/ /\ j.req = "signin" /\ j.got = Nothing
       /\ Ends(j, [SubmissionEnded(j, tab, TRUE) EXCEPT !.route = "mfa", !.challenge = j.arg, !.back = Nothing],
               storage.invite, hist)
    \/ /\ j.req = "signin" /\ j.got # Nothing
       /\ Continues(j, [tab EXCEPT !.token = j.got], "me", "first")
       /\ hist' = [hist EXCEPT !.out = FALSE]
    \/ /\ j.req = "logout"
       /\ Ends(j, LoggedOut(tab), storage.invite,
               [hist EXCEPT !.out = jobs = {j} /\ tab.stray = {}])
    \/ /\ j.kind \in {"accept", "join", "org"} /\ j.req = "post"
       /\ Continues(j, Refreshing(tab), "me", "first")
       /\ hist' = hist
    \/ /\ j.kind = "profile" /\ j.req = "post"     \* a picture was chosen
       /\ Continues(j, tab, "avatar", "first")
       /\ hist' = hist
    \/ j.kind = "profile" /\ Ends(j, Completing(j), storage.invite, hist)
    \/ /\ j.kind \in {"form", "invite", "page"} /\ Ends(j, SubmissionEnded(j, tab, TRUE), storage.invite, hist)

\* emitSessionExpired, and what the properties ask about it
Expires(j) ==
    Throws(j, SignedOut(tab), [hist EXCEPT !.expiry = [alone |-> j.alone /\ tab.token # 0, ck |-> j.ck]])

\* The answer is lost, or is not.
Lost(lost) == /\ lossy' = (lossy \/ lost)
              /\ IF lost THEN faults < MaxFaults /\ faults' = faults + 1 ELSE faults' = faults

\* refreshStoredTokens, of bootstrap or of a retry
RefreshAnswer(j, lost) ==
    LET t == [tab EXCEPT !.token = j.got]
        ok == j.st = "ok" /\ ~lost
    IN
    /\ Asked(j) = "refresh" /\ (lost \/ j.st # "sent")
    /\ SetCookie(j, lost)
    /\ Lost(lost)
    /\ \/ ok /\ j.stage = "refresh" /\ Continues(j, t, j.req, "retry") /\ hist' = hist
       \/ ok /\ j.stage = "first" /\ Continues(j, t, "me", "first") /\ hist' = hist
       \/ ~ok /\ j.stage = "refresh" /\ Expires(j)
       \/ ~ok /\ j.stage = "first" /\ Ends(j, SignedOut(tab), storage.invite, hist)
    /\ UNCHANGED <<server, made, acts>>

executeWithRetry(j, lost) ==
    LET again == ~lost /\ j.st = "unauthorized" /\ j.req \notin NoRefreshPaths IN
    /\ Asked(j) # "refresh" /\ (lost \/ j.st # "sent")
    /\ SetCookie(j, lost)
    /\ Lost(lost)
    /\ \/ again /\ j.stage = "first" /\ Continues(j, tab, j.req, "refresh") /\ hist' = hist
       \/ again /\ j.stage = "retry" /\ Expires(j)
       \/ ~again /\ j.st = "ok" /\ ~lost /\ Succeeds(j)
       \/ ~again /\ (j.st # "ok" \/ lost) /\ Throws(j, tab, hist)
    /\ UNCHANGED <<server, made, acts>>

----------------------------------------------------------------------------
(* Pages.                                                                  *)

Act == acts < MaxActs /\ acts' = acts + 1

\* A new document: the tree, the tokens in memory and the handlers are gone; what was
\* sent may still be served.  AuthProvider's bootstrap tries the cookie.
NewTab(r) ==
    [status |-> "loading", user |-> Nothing, token |-> 0, route |-> r, back |-> Nothing, challenge |-> Nothing,
     chosen |-> Nothing, view |-> IF r = "invite" THEN r ELSE "spinner",
     form |-> NewForm(IF r = "invite" THEN r ELSE "spinner"), mount |-> tab.mount + 1,
     timer |-> Nothing, stray |-> {}]

Boot == [n |-> 1, kind |-> "boot", arg |-> Nothing, from |-> 0, req |-> "refresh", stage |-> "first",
         tok |-> 0, ck |-> 0, st |-> "sent", got |-> Nothing, back |-> Nothing, alone |-> TRUE]

Reload(r) ==
    /\ Act
    /\ made < MaxJobs /\ made' = made + 1
    /\ tab' = NewTab(r)
    /\ storage' = [storage EXCEPT !.invite = @ \/ r = "invite"]
    /\ jobs' = {[j EXCEPT !.kind = "gone"] : j \in {k \in jobs : k.st = "sent" /\ k.req # "me"}}
               \cup {[Boot EXCEPT !.n = made + 1, !.ck = jar, !.alone = jobs = {}]}
    /\ UNCHANGED <<jar, server, faults, lossy, hist>>

\* The answer to a document that is gone.
Abandoned(j) ==
    /\ j.kind = "gone"
    /\ jobs' = jobs \ {j}
    /\ lossy' = TRUE
    /\ UNCHANGED <<tab, jar, storage, server, made, acts, faults, hist>>

(* What a page offers: the routes of its links, and its buttons.           *)

Unless(locked, controls) == IF locked THEN {} ELSE controls

SocialLoginButtons(t) == Unless(t.form.social, {"social"})
LoginPage(t) == {"signup"} \cup Unless(t.form.busy \/ t.form.social, {"password"}) \cup SocialLoginButtons(t)
SignupPage(t) ==
    {"login"} \cup Unless(t.form.at = "done", Unless(t.form.busy \/ t.form.social, {"register"}) \cup SocialLoginButtons(t))
MfaChallengePage(t) == {"login"} \cup Unless(t.challenge = Nothing \/ t.form.busy, {"code"})
VerifyEmailPage(t) ==
    Unless(t.form.at = "verifying", {"login"} \cup Unless(t.form.at # "error" \/ t.form.busy, {"resend"}))
MfaSetupPage(t) == CASE t.form.at = "ready" -> Unless(t.form.busy, {"confirm"})
                     [] t.form.at = "done" -> {"app"} [] OTHER -> {}
LinkChatPage(t) == CASE t.form.at = "idle" -> Unless(t.form.busy, {"link", "app"})
                     [] t.form.at = "done" -> {"app"} [] OTHER -> {}
AcceptInvitationPage(t) ==
    CASE t.form.at = "error" -> {"login"}
      [] t.form.at = "ready" -> IF t.user = Nothing THEN {"login", "signup"} ELSE Unless(t.form.busy, {"accept"})
      [] OTHER -> {}
PendingInvitationsPrompt(t) == Unless(t.form.busy \/ t.user.id # Invitee \/ ~invited, {"join"})

LastStep == 4
WizardControls(t, last) == Unless(t.form.step = 0, {"back"}) \cup {IF t.form.step = LastStep THEN last ELSE "next"}
OrganizationSetupFlow(t) ==
    Unless(t.form.busy, WizardControls(t, "create") \cup Unless(t.form.step # 3, {"skip"}))
ProfileOnboardingCarousel(t) == Unless(t.form.busy \/ t.timer # Nothing, WizardControls(t, "finish"))

OrganizationSwitcher(t) == Unless(Cardinality(t.user.orgs) < 2, {"switch"})
AppSidebar(t) == {"app"} \cup Unless(~t.user.complete, {"offices", "work"})
AppShell(t) == {"logout"} \cup AppSidebar(t) \cup OrganizationSwitcher(t)

PageControls(t) ==
    CASE t.view = "login" -> LoginPage(t)
      [] t.view = "signup" -> SignupPage(t)
      [] t.view = "mfa" -> MfaChallengePage(t)
      [] t.view = "verify" -> VerifyEmailPage(t)
      [] t.view = "mfaSetup" -> MfaSetupPage(t)
      [] t.view = "link" -> LinkChatPage(t)
      [] t.view = "invite" -> AcceptInvitationPage(t)
      [] t.view = "app" -> PendingInvitationsPrompt(t)
      [] t.view = "orgSetup" -> OrganizationSetupFlow(t)
      [] t.view = "onboarding" -> ProfileOnboardingCarousel(t)
      [] OTHER -> {}

Offers(t) == PageControls(t) \cup IF hasShell(t) THEN AppShell(t) ELSE {}
Pressed(view, c) == tab.view = view /\ c \in PageControls(tab)

\* The invitation's links and the screen after signing up pass the way back on.
Navigate(r) ==
    /\ Act
    /\ r # tab.route
    /\ Render([tab EXCEPT !.route = r,
                         !.back = IF tab.view = "invite" /\ tab.form.at = "ready" THEN "invite"
                                  ELSE IF tab.view = "signup" /\ tab.form.at = "done" THEN @ ELSE Nothing],
              storage.invite)
    /\ UNCHANGED <<jar, jobs, server, made, faults, lossy, hist>>

\* Login form and social buttons: the form is locked by both, the buttons by their own.
SubmitLogin(u) ==
    /\ Pressed("login", "password")
    /\ Start(Busy, "login", u, "signin")
    /\ UNCHANGED acts

SubmitSocial(u) ==
    /\ \E v \in {"login", "signup"} : Pressed(v, "social")
    /\ Start([tab EXCEPT !.form.social = TRUE], "social", u, "signin")
    /\ UNCHANGED acts

SubmitMfa ==
    /\ Pressed("mfa", "code")
    /\ Start(Busy, "mfa", tab.challenge, "signin")
    /\ UNCHANGED acts

SubmitSignup ==
    /\ Pressed("signup", "register")
    /\ Start(Busy, "form", Nothing, "public")
    /\ UNCHANGED acts

ResendVerification ==
    /\ Pressed("verify", "resend")
    /\ Start(Busy, "form", Nothing, "public")
    /\ UNCHANGED acts

\* The code of the authenticator.
ConfirmMfa ==
    /\ Pressed("mfaSetup", "confirm")
    /\ Start(Busy, "form", Nothing, "post")
    /\ UNCHANGED acts

ConfirmLink ==
    /\ Pressed("link", "link")
    /\ Start(Busy, "form", Nothing, "post")
    /\ UNCHANGED acts

Loading(v) == tab.view = v /\ tab.form.at \in {"verifying", "loading"} /\ {j \in jobs : j.from = tab.mount} = {}

\* The request a page makes when it mounts.
VerifyEmail == Loading("verify") /\ Start(tab, "page", Nothing, "public") /\ UNCHANGED acts
SetupMfa    == Loading("mfaSetup") /\ Start(tab, "page", Nothing, "post") /\ UNCHANGED acts
LoadInvite  == Loading("invite") /\ Start(tab, "invite", Nothing, "get") /\ UNCHANGED acts

\* Any list a page of the shell asks for.
Fetch ==
    /\ hasShell(tab) /\ tab.view \in {"app", "offices", "work"}
    /\ Start(tab, "page", Nothing, "get")
    /\ UNCHANGED acts

Accept ==
    /\ Pressed("invite", "accept")
    /\ Start(Busy, "accept", Nothing, "post")
    /\ UNCHANGED acts

\* The dashboard's prompt.
AcceptOnDashboard ==
    /\ Pressed("app", "join")
    /\ Start(Busy, "join", Nothing, "post")
    /\ UNCHANGED acts

Logout ==
    /\ hasShell(tab)
    /\ Start(tab, "logout", Nothing, "logout")
    /\ UNCHANGED acts

SwitchOrganization(o) ==
    /\ Act
    /\ hasShell(tab) /\ "switch" \in OrganizationSwitcher(tab) /\ o \in tab.user.orgs \ {Selected(tab)}
    /\ Render([tab EXCEPT !.chosen = o, !.route = "app"], storage.invite)
    /\ UNCHANGED <<jar, jobs, server, made, faults, lossy, hist>>

----------------------------------------------------------------------------
(* The wizards.  A field is "empty", "ok" or "bad"; in the organisation's  *)
(* "first" is the name and "second" the domain, in the profile's "first"   *)
(* is the name and "second" the phone number.                              *)

Typeable(t) ==
    IF t.view \in {"orgSetup", "onboarding"} /\ ~t.form.busy
    THEN CASE t.form.step = 1 -> {"first"} [] t.form.step = 3 -> {"second"} [] OTHER -> {}
    ELSE {}

\* validateCurrentStep: a name is needed, the other field is not.
StepIsValid(f) == /\ f.step = 1 => f.first = "ok"
                  /\ f.step = 3 => f.second # "bad"

Step(f) == tab' = [tab EXCEPT !.form = f] /\ UNCHANGED <<jar, storage, jobs, server, made, acts, faults, lossy, hist>>

Wizard(c) == \E v \in {"orgSetup", "onboarding"} : Pressed(v, c)

setField(x, v) == x \in Typeable(tab) /\ Step([tab.form EXCEPT ![x] = v])
goNext == Wizard("next") /\ StepIsValid(tab.form) /\ Step([tab.form EXCEPT !.step = @ + 1])
goBack == Wizard("back") /\ Step([tab.form EXCEPT !.step = @ - 1])

\* Mutated: skipping keeps what was typed.
goSkipKeeps == Pressed("orgSetup", "skip") /\ Step([tab.form EXCEPT !.step = @ + 1])

\* Skipping the domain forgets it.
goSkip == Pressed("orgSetup", "skip") /\ Step([tab.form EXCEPT !.step = @ + 1, !.second = "empty"])

Fields == [first |-> tab.form.first, second |-> tab.form.second]

handleCreate ==
    /\ Pressed("orgSetup", "create") /\ StepIsValid(tab.form)
    /\ Start(Busy, "org", Fields, "post")
    /\ UNCHANGED acts

handleFinish ==
    /\ Pressed("onboarding", "finish") /\ StepIsValid(tab.form)
    /\ Start(Busy, "profile", Fields, "post")
    /\ UNCHANGED acts

\* A timeout: the profile is complete, or the invitation's page leaves.
Timeout ==
    /\ tab.timer # Nothing
    /\ Render(IF tab.timer.what = "leave" THEN [tab EXCEPT !.route = "app"]
              ELSE SignedIn([tab EXCEPT !.timer = Nothing], tab.timer.user), storage.invite)
    /\ UNCHANGED <<jar, jobs, server, made, acts, faults, lossy, hist>>

\* One that was set after its page had unmounted.
StrayTimeout(u) ==
    /\ Render(SignedIn([tab EXCEPT !.stray = @ \ {u}], u), storage.invite)
    /\ UNCHANGED <<jar, jobs, server, made, acts, faults, lossy, hist>>

----------------------------------------------------------------------------
(* Everything else.                                                        *)

\* Fifteen minutes: longer than a refresh and a retry take.
AccessExpires(n) ==
    /\ issued[n].access
    /\ \A j \in jobs : j.stage = "first"
    /\ issued' = [issued EXCEPT ![n].access = FALSE]
    /\ UNCHANGED <<tab, jar, storage, jobs, members, complete, invited, made, acts, faults, lossy, hist>>

\* Seven days.
RefreshExpires(n) ==
    /\ issued[n].refresh
    /\ jobs = {}
    /\ issued' = [issued EXCEPT ![n] = [@ EXCEPT !.access = FALSE, !.refresh = FALSE, !.aged = TRUE]]
    /\ UNCHANGED <<tab, jar, storage, jobs, members, complete, invited, made, acts, faults, lossy, hist>>

\* An administrator ends a membership.
Revoke(u, o) ==
    /\ Act
    /\ o \in members[u]
    /\ members' = [members EXCEPT ![u] = @ \ {o}]
    /\ UNCHANGED <<tab, jar, storage, jobs, issued, complete, invited, made, faults, lossy, hist>>

Init ==
    /\ \E r \in Entries :
          tab = [status |-> "loading", user |-> Nothing, token |-> 0, route |-> r, back |-> Nothing,
                 challenge |-> Nothing, chosen |-> Nothing, view |-> IF r = "invite" THEN r ELSE "spinner",
                 form |-> NewForm(IF r = "invite" THEN r ELSE "spinner"), mount |-> 1,
                 timer |-> Nothing, stray |-> {}]
    /\ issued \in {<< >>} \cup {<<[Pair(u) EXCEPT !.access = FALSE]>> : u \in Users}
    /\ jar = Len(issued)
    /\ storage \in [org : Remembered, invite : {tab.route = "invite"}]
    /\ jobs = {[Boot EXCEPT !.ck = jar]}
    /\ members = MemberOf
    /\ complete = Users \ NewUsers
    /\ invited = TRUE
    /\ made = 1
    /\ acts = 0
    /\ faults = 0
    /\ lossy = FALSE
    /\ hist = [out |-> FALSE, expiry |-> Nothing]

Serve(j)  == \/ ServeRefresh(j) \/ ServeSignIn(j) \/ ServeUnauthorized(j) \/ ServeLogout(j)
             \/ ServeGet(j) \/ ServePost(j) \/ ServeRefused(j)
Answer(j, lost) == j.kind # "gone" /\ (RefreshAnswer(j, lost) \/ executeWithRetry(j, lost))

Next ==
    \/ \E j \in jobs : Serve(j) \/ Abandoned(j)
    \/ \E j \in jobs, lost \in BOOLEAN : Answer(j, lost)
    \/ \E r \in Offers(tab) \cap Routes : Navigate(r)
    \/ \E r \in Entries : Reload(r)
    \/ \E u \in Users : SubmitLogin(u) \/ SubmitSocial(u)
    \/ SubmitMfa \/ SubmitSignup \/ ResendVerification \/ ConfirmMfa \/ ConfirmLink
    \/ VerifyEmail \/ SetupMfa \/ LoadInvite \/ Fetch
    \/ Accept \/ AcceptOnDashboard \/ Logout
    \/ \E o \in Orgs : SwitchOrganization(o)
    \/ \E x \in {"first", "second"}, v \in {"empty", "ok", "bad"} : setField(x, v)
    \/ goNext \/ goBack \/ goSkip \/ handleCreate \/ handleFinish
    \/ Timeout
    \/ \E u \in tab.stray : StrayTimeout(u)
    \/ \E n \in 1 .. Len(issued) : AccessExpires(n) \/ RefreshExpires(n)
    \/ \E u \in Users, o \in Orgs : Revoke(u, o)

Spec == Init /\ [][Next]_vars

----------------------------------------------------------------------------
(* Properties.                                                             *)

\* Type correctness of the tree and the handlers; a tree is authenticated exactly
\* when it has a user, but for a refreshUser, which keeps the user while it loads.
TypeOK ==
    /\ tab.status \in {"loading", "authenticated", "unauthenticated"}
    /\ tab.status = "authenticated" => tab.user # Nothing
    /\ tab.status = "unauthenticated" => tab.user = Nothing
    /\ tab.route \in Routes /\ tab.view = ViewOf(tab)
    /\ jar \in 0 .. Len(issued) /\ tab.token \in 0 .. Len(issued)
    /\ \A j \in jobs : j.n \in 1 .. made /\ j.stage \in {"first", "refresh", "retry"} /\ j.from <= tab.mount

\* "no effect, no stale selection bug" (SelectedOrganizationProvider.tsx:77): whatever localStorage
\* remembered, and whatever was joined, created, revoked or switched since, the pages work
\* for a current membership of the user shown, for none only without one, and the next
\* document starts from the same choice.
SelectionIsMembership ==
    hasShell(tab) => /\ Selected(tab) \in tab.user.orgs \cup {Nothing}
                     /\ Selected(tab) = Nothing <=> tab.user.orgs = {}
                     /\ storage.org = Selected(tab)

\* "Silent token refresh on 401" (README.md:32): when no other handler was at work and
\* no answer was lost, a user who holds a token is signed out by an expiry only after
\* the refresh cookie's own seven days, never because an access token aged.
QuietRefresh ==
    hist.expiry # Nothing =>
        \/ ~hist.expiry.alone
        \/ lossy
        \/ hist.expiry.ck # 0 /\ issued[hist.expiry.ck].aged

\* After a logout the server has carried out, with nothing else under way, and until the
\* next sign-in: no cookie, no token, no user, in this document and in the ones after it.
LogoutEndsSession == hist.out => jar = 0 /\ tab.token = 0 /\ tab.status # "authenticated"

\* A form is locked exactly while a submission of its own is under way, so it can neither
\* be submitted twice nor stay locked; an answer for a form that is gone locks no other.
\* Social sign-in has a lock of its own, and may run beside the password's.
OneSubmission ==
    LET own == {j \in jobs : j.from = tab.mount /\ j.kind \notin {"page", "invite", "logout", "gone"}}
        forms == {j \in own : j.kind # "social"}
    IN  /\ tab.form.busy = (forms # {}) /\ Cardinality(forms) <= 1
        /\ tab.form.social = (own # forms) /\ Cardinality(own \ forms) <= 1

\* A wizard sends only what passes validation, whatever was typed, skipped and gone back to.
OnlyValidForms == \A j \in jobs : j.kind \in {"org", "profile"} => j.arg.first = "ok" /\ j.arg.second # "bad"

\* The spinner has an end: while the tree loads, a request whose answer, success or
\* failure, settles it is under way.
LoadingHasEnd ==
    tab.status = "loading" => \E j \in jobs : j.kind = "boot" \/ (j.kind \in {"accept", "join", "org"} /\ j.req = "me")
=============================================================================
