--------------------------- MODULE ClientCacheProofs ---------------------------
(***************************************************************************)
(* What ClientCache guarantees for any pages, ids and bounds.  The         *)
(* inductive invariant says which answers a view may still wait for: once  *)
(* its effect has run, only one for its own key, and only one that is not  *)
(* older than its last refresh; and that whatever a finished write changed *)
(* was cached after it.                                                    *)
(***************************************************************************)
EXTENDS ClientCache, SequenceTheorems, TLAPS

\* 1 while the server has done the write in flight and the client does not know.
Made == IF write # Nothing /\ write.made # Nothing THEN 1 ELSE 0

\* Every change of a list is one that was counted: the bounds are not reached early.
Counted ==
    /\ write # Nothing => done < MaxWrites
    /\ \A k \in Keys : ver[k] <= others + done + Made

\* Only a list that has a key is answered with a version.
AnsweredHasKey ==
    \A v \in Views :
        view[v].fetch # Nothing /\ view[v].fetch.ver # Nothing => view[v].fetch.key # Absent

\* The cancelled flags: once the effect of a view's ids has run, no other ids are awaited.
AwaitsScope ==
    \A v \in Views : ~view[v].due /\ view[v].fetch # Nothing => view[v].fetch.key = KeyOf(v)

\* What a refresh asked for existed; until the effect has run the cache is bypassed, and
\* from then on the answer that is awaited is new enough.
AwaitsFresh ==
    \A v \in Views : view[v].scope # Absent =>
        /\ view[v].asked <= ver[KeyOf(v)]
        /\ view[v].due /\ ~view[v].force /\ hook(v).cached => view[v].asked = 0
        /\ ~view[v].due /\ view[v].fetch # Nothing /\ view[v].fetch.ver # Nothing
             => view[v].fetch.ver >= view[v].asked

\* A write that has ended was counted.
OwnEnded == \A k \in Keys : own[k].at <= done

\* A write may leave alone the lists of the hooks that do not use the cache.
OnlyCached ==
    \A k \in Keys : store[k] # Nothing => \E v \in Views : hook(v).cached /\ k \in KeysOf(hook(v))

Inv == /\ TypeOK /\ Counted /\ AnsweredHasKey /\ AwaitsScope /\ SettledShowsScope
       /\ AwaitsFresh /\ RefreshIsFresh /\ OwnEnded /\ OnlyCached /\ OwnWriteDropsLists

----------------------------------------------------------------------------
(* Hooks and keys *)

LEMMA HookCached == ASSUME NEW h \in DOMAIN Hooks PROVE Hooks[h].cached \in BOOLEAN
<1>1. Hooks[h] \in {useDesks, useLayoutObjects, useMeetingRooms, useDeskBookings,
                    useRoomBookings, useMyBookings, useMyRoomBookings, useOffices, useFloors,
                    useWorkspaceSummary, useDashboardData, useTeamMembers, useInvitations,
                    usePendingInvitations}
  BY DEF Hooks
<1>2. \A list, scopes, absent : \A cached \in BOOLEAN :
        Hook(list, scopes, cached, absent).cached \in BOOLEAN
  BY DEF Hook
<1>3. usePendingInvitations.cached \in BOOLEAN
  BY DEF Hook, usePendingInvitations
<1>4. QED
  BY <1>1, <1>2, <1>3
     DEF useDesks, useLayoutObjects, useMeetingRooms, useDeskBookings, useRoomBookings,
         useMyBookings, useMyRoomBookings, useOffices, useFloors, useWorkspaceSummary,
         useDashboardData, useTeamMembers, useInvitations

LEMMA ViewKeys ==
  ASSUME TypeOK, NEW v \in Views
  PROVE  /\ hook(v).cached \in BOOLEAN
         /\ KeysOf(hook(v)) \subseteq Keys
         /\ Absent \notin Keys
         /\ view[v] \in ViewState
         /\ view[v].scope # Absent => KeyOf(v) \in KeysOf(hook(v)) /\ KeyOf(v) # Absent
         /\ view[v].scope = Absent => KeyOf(v) = Absent
<1>1. mounted \in Pages /\ mounted \in [Views -> DOMAIN Hooks]
  BY PagesAssumption DEF TypeOK, Views
<1>2. hook(v).cached \in BOOLEAN
  BY <1>1, HookCached DEF hook
<1>3. KeysOf(hook(v)) \subseteq Keys
  BY DEF hook, Keys, KeysOn, Views
<1>4. Absent \notin Keys
  BY <1>1, AbsentAssumption DEF Keys
<1>5. view[v] \in ViewState /\ view[v].scope \in hook(v).scopes \cup {Absent}
  BY DEF TypeOK, ScopesOf
<1>6. view[v].scope # Absent => KeyOf(v) \in KeysOf(hook(v))
  BY <1>5 DEF KeyOf, KeysOf
<1>7. QED
  BY <1>2, <1>3, <1>4, <1>5, <1>6 DEF KeyOf

\* Other views are left alone.
ViewActs(v) ==
    \/ Refresh(v) \/ RunEffect(v) \/ Serve(v) \/ Arrive(v) \/ Fail(v)
    \/ \E s \in ScopesOf(v) : ChangeScope(v, s) \/ Remount(v, s)

WriteActs == \/ \E w \in DOMAIN Writes : StartWrite(w)
             \/ ServeWrite \/ EndWrite \/ FailWrite
             \/ \E k \in Keys : Expire(k) \/ Elsewhere(k)

LEMMA NextSplits == Next <=> WriteActs \/ \E v \in Views : ViewActs(v)
BY DEF Next, WriteActs, ViewActs

LEMMA ViewOthers ==
  ASSUME TypeOK, NEW v \in Views, ViewActs(v)
  PROVE  /\ UNCHANGED <<mounted, ver, write, done, own, others>>
         /\ \A u \in Views \ {v} : view'[u] = view[u]
         /\ DOMAIN view' = Views
<1> USE DEF TypeOK, server
<1>1. CASE Refresh(v) \/ Serve(v) \/ Fail(v)
  BY <1>1 DEF Refresh, Serve, Fail
<1>2. CASE RunEffect(v) \/ Arrive(v)
  BY <1>2 DEF RunEffect, Arrive
<1>3. CASE \E s \in ScopesOf(v) : ChangeScope(v, s) \/ Remount(v, s)
  BY <1>3 DEF ChangeScope, Remount
<1>4. QED
  BY <1>1, <1>2, <1>3 DEF ViewActs

LEMMA WriteOthers ==
  ASSUME WriteActs
  PROVE  UNCHANGED <<mounted, view, acts>>
BY DEF WriteActs, StartWrite, ServeWrite, EndWrite, FailWrite, Expire, Elsewhere
----------------------------------------------------------------------------
(* Types *)

LEMMA VersionsNat == Versions \subseteq Nat /\ 0 \in Versions
BY BoundsAssumption DEF Versions

\* What a view holds, with the keys of its own list.
ViewTyped(v, r) ==
    /\ r \in ViewState
    /\ r.scope \in ScopesOf(v)
    /\ r.shown # Nothing => r.shown.key \in KeysOf(hook(v))
    /\ r.fetch # Nothing => r.fetch.key \in KeysOf(hook(v)) \cup {Absent}

LEMMA FreshTyped ==
  ASSUME NEW v \in Views, NEW s \in ScopesOf(v)
  PROVE  ViewTyped(v, Fresh(s))
BY VersionsNat DEF ViewTyped, ViewState, Fresh

LEMMA UserActTyped ==
  ASSUME TypeOK, NEW v \in Views,
         Refresh(v) \/ \E s \in ScopesOf(v) : ChangeScope(v, s) \/ Remount(v, s)
  PROVE  ViewTyped(v, view'[v])
<1> USE DEF TypeOK
<1>1. ViewTyped(v, view[v])
  BY DEF ViewTyped
<1>2. CASE Refresh(v)
  <2>1. KeyOf(v) # Absent => ver[KeyOf(v)] \in Versions
    BY ViewKeys
  <2>2. view'[v] = [view[v] EXCEPT !.due = TRUE, !.force = hook(v).cached,
                      !.asked = IF KeyOf(v) = Absent THEN 0 ELSE ver[KeyOf(v)]]
    BY <1>2 DEF Refresh
  <2>3. QED
    BY <1>1, <2>1, <2>2, ViewKeys, VersionsNat DEF ViewTyped, ViewState
<1>3. ASSUME NEW s \in ScopesOf(v), ChangeScope(v, s) PROVE ViewTyped(v, view'[v])
  <2>1. view'[v] = [view[v] EXCEPT !.scope = s, !.due = TRUE, !.asked = 0]
    BY <1>3 DEF ChangeScope
  <2>2. QED
    BY <1>1, <2>1, VersionsNat DEF ViewTyped, ViewState
<1>4. ASSUME NEW s \in ScopesOf(v), Remount(v, s) PROVE ViewTyped(v, view'[v])
  BY <1>4, FreshTyped DEF Remount
<1>5. QED
  BY <1>2, <1>3, <1>4

\* What the effect of a view leaves: nothing, the cached list, or a request.
EffectOf(v, r) ==
    LET k == KeyOf(v)
        q == [view[v] EXCEPT !.due = FALSE, !.fetch = Nothing]
    IN  \/ k = Absent /\ r = q
        \/ k = Absent /\ r = [q EXCEPT !.shown = Nothing, !.loading = FALSE, !.failed = FALSE]
        \/ /\ k # Absent /\ hook(v).cached /\ ~view[v].force /\ store[k] # Nothing
           /\ r = [q EXCEPT !.shown = [key |-> k, ver |-> store[k].ver],
                            !.loading = FALSE, !.failed = FALSE, !.force = FALSE]
        \/ r = [q EXCEPT !.force = FALSE, !.loading = TRUE, !.failed = FALSE,
                         !.fetch = [key |-> k, ver |-> Nothing, sent |-> done]]

LEMMA EffectShape ==
  ASSUME TypeOK, NEW v \in Views, RunEffect(v)
  PROVE  EffectOf(v, view'[v]) /\ UNCHANGED store
<1> DEFINE k == KeyOf(v)
           q == [view[v] EXCEPT !.due = FALSE, !.fetch = Nothing]
<1>1. q \in ViewState /\ q.force = view[v].force
  <2>1. view[v] \in ViewState
    BY ViewKeys
  <2>2. QED
    BY <2>1 DEF ViewState
<1>2. \A what : Show(q, what) = [q EXCEPT !.shown = what, !.loading = FALSE, !.failed = FALSE]
  BY DEF Show
<1>3. view'[v] = IF k = Absent /\ hook(v).absent = "skip" THEN q
                 ELSE IF k = Absent /\ hook(v).absent = "empty" THEN Show(q, Nothing)
                 ELSE IF hook(v).cached /\ ~q.force /\ k # Absent /\ store[k] # Nothing
                   THEN [Show(q, [key |-> k, ver |-> store[k].ver]) EXCEPT !.force = FALSE]
                 ELSE [q EXCEPT !.force = FALSE, !.loading = TRUE, !.failed = FALSE,
                                !.fetch = [key |-> k, ver |-> Nothing, sent |-> done]]
  BY DEF RunEffect, TypeOK
<1>4. \A what : [Show(q, what) EXCEPT !.force = FALSE]
                  = [q EXCEPT !.shown = what, !.loading = FALSE, !.failed = FALSE, !.force = FALSE]
  BY <1>2
<1>5. UNCHANGED store
  BY DEF RunEffect
<1>6. QED
  BY <1>1, <1>2, <1>3, <1>4, <1>5 DEF EffectOf

\* The fields a step sets are the only ones that can lose their type.
LEMMA ShowTyped ==
  ASSUME NEW v, NEW r, ViewTyped(v, r), NEW k \in KeysOf(hook(v)), NEW n,
         [key |-> k, ver |-> n] \in Listing
  PROVE  ViewTyped(v, [r EXCEPT !.shown = [key |-> k, ver |-> n], !.loading = FALSE,
                                !.failed = FALSE])
<1> DEFINE l == [key |-> k, ver |-> n]
           q == [r EXCEPT !.shown = l, !.loading = FALSE, !.failed = FALSE]
<1> HIDE DEF l
<1>1. l \in Listing /\ l.key = k
  BY DEF l
<1>2. q \in ViewState /\ q.shown = l /\ q.fetch = r.fetch /\ q.scope = r.scope
  BY <1>1 DEF ViewTyped, ViewState
<1>3. QED
  BY <1>1, <1>2 DEF ViewTyped, l

LEMMA AskTyped ==
  ASSUME NEW v, NEW r, ViewTyped(v, r), NEW k \in KeysOf(hook(v)) \cup {Absent}, NEW n, NEW t,
         [key |-> k, ver |-> n, sent |-> t] \in Fetch
  PROVE  ViewTyped(v, [r EXCEPT !.force = FALSE, !.loading = TRUE, !.failed = FALSE,
                                !.fetch = [key |-> k, ver |-> n, sent |-> t]])
<1> DEFINE f == [key |-> k, ver |-> n, sent |-> t]
           q == [r EXCEPT !.force = FALSE, !.loading = TRUE, !.failed = FALSE, !.fetch = f]
<1> HIDE DEF f
<1>1. f \in Fetch /\ f.key = k
  BY DEF f
<1>2. q \in ViewState /\ q.shown = r.shown /\ q.fetch = f /\ q.scope = r.scope
  BY <1>1 DEF ViewTyped, ViewState
<1>3. QED
  BY <1>1, <1>2 DEF ViewTyped, f

LEMMA EffectTyped ==
  ASSUME TypeOK, NEW v \in Views, RunEffect(v)
  PROVE  ViewTyped(v, view'[v])
<1>1. ViewTyped(v, view[v]) /\ done \in 0 .. MaxWrites
  BY DEF TypeOK, ViewTyped
<1>2. KeyOf(v) \in KeysOf(hook(v)) \cup {Absent} /\ KeysOf(hook(v)) \subseteq Keys
  BY ViewKeys
<1>3. KeyOf(v) # Absent /\ store[KeyOf(v)] # Nothing => store[KeyOf(v)].ver \in Versions
  BY <1>2 DEF TypeOK
<1>4. [key |-> KeyOf(v), ver |-> Nothing, sent |-> done] \in Fetch
  BY <1>1, <1>2 DEF Fetch
<1>5. KeyOf(v) # Absent /\ store[KeyOf(v)] # Nothing
        => [key |-> KeyOf(v), ver |-> store[KeyOf(v)].ver] \in Listing
  BY <1>2, <1>3 DEF Listing
<1> DEFINE k == KeyOf(v)
           q == [view[v] EXCEPT !.due = FALSE, !.fetch = Nothing]
<1>6. ViewTyped(v, q)
  BY <1>1 DEF ViewTyped, ViewState
<1>7. CASE k = Absent /\ view'[v] = q
  BY <1>6, <1>7
<1>8. CASE k = Absent /\ view'[v] = [q EXCEPT !.shown = Nothing, !.loading = FALSE, !.failed = FALSE]
  BY <1>6, <1>8 DEF ViewTyped, ViewState
<1>9. CASE /\ k # Absent /\ store[k] # Nothing
           /\ view'[v] = [q EXCEPT !.shown = [key |-> k, ver |-> store[k].ver],
                                   !.loading = FALSE, !.failed = FALSE, !.force = FALSE]
  <2> DEFINE s == [q EXCEPT !.shown = [key |-> k, ver |-> store[k].ver],
                            !.loading = FALSE, !.failed = FALSE]
  <2>1. ViewTyped(v, s)
    BY <1>2, <1>5, <1>6, <1>9, ShowTyped
  <2>2. view'[v] = [s EXCEPT !.force = FALSE]
    BY <1>9
  <2> HIDE DEF s
  <2>3. QED
    BY <2>1, <2>2 DEF ViewTyped, ViewState
<1>10. CASE view'[v] = [q EXCEPT !.force = FALSE, !.loading = TRUE, !.failed = FALSE,
                                 !.fetch = [key |-> k, ver |-> Nothing, sent |-> done]]
  <2>1. ViewTyped(v, [q EXCEPT !.force = FALSE, !.loading = TRUE, !.failed = FALSE,
                              !.fetch = [key |-> k, ver |-> Nothing, sent |-> done]])
    <3> HIDE DEF q, k
    <3>1. k \in KeysOf(hook(v)) \cup {Absent}
      BY <1>2 DEF k
    <3>2. [key |-> k, ver |-> Nothing, sent |-> done] \in Fetch
      BY <1>4 DEF k
    <3>3. QED
      BY <1>6, <3>1, <3>2, AskTyped
  <2>2. QED
    BY <1>10, <2>1
<1>11. QED
  BY <1>7, <1>8, <1>9, <1>10, EffectShape DEF EffectOf
LEMMA ServeTyped ==
  ASSUME TypeOK, NEW v \in Views, Serve(v)
  PROVE  /\ ViewTyped(v, view'[v])
         /\ view'[v] = [view[v] EXCEPT !.fetch = [view[v].fetch EXCEPT !.ver = ver[view[v].fetch.key]]]
         /\ view[v].fetch \in Fetch
         /\ view[v].fetch.key \in Keys
<1>1. ViewTyped(v, view[v]) /\ view[v].fetch # Nothing /\ view[v].fetch.key # Absent
  BY DEF TypeOK, ViewTyped, Serve
<1>2. view[v].fetch \in Fetch
  BY <1>1 DEF ViewTyped, ViewState
<1>3. view[v].fetch.key \in Keys
  BY <1>1, <1>2 DEF Fetch
<1> DEFINE f == [view[v].fetch EXCEPT !.ver = ver[view[v].fetch.key]]
<1>4. f \in Fetch /\ f.key = view[v].fetch.key
  BY <1>2, <1>3 DEF TypeOK, Fetch
<1>5. view'[v] = [view[v] EXCEPT !.fetch = f]
  BY DEF Serve, TypeOK
<1> HIDE DEF f
<1>6. ViewTyped(v, view'[v])
  BY <1>1, <1>4, <1>5 DEF ViewTyped, ViewState
<1>7. QED
  BY <1>2, <1>3, <1>5, <1>6 DEF f

LEMMA ArriveTyped ==
  ASSUME TypeOK, AnsweredHasKey, NEW v \in Views, Arrive(v)
  PROVE  /\ ViewTyped(v, view'[v])
         /\ view[v].fetch \in Fetch
         /\ view[v].fetch.key \in KeysOf(hook(v)) /\ view[v].fetch.ver \in Versions
         /\ view'[v] = [view[v] EXCEPT !.shown = [key |-> view[v].fetch.key, ver |-> view[v].fetch.ver],
                                       !.loading = FALSE, !.failed = FALSE, !.fetch = Nothing]
<1> DEFINE f == view[v].fetch
           s == [view[v] EXCEPT !.shown = [key |-> f.key, ver |-> f.ver],
                                !.loading = FALSE, !.failed = FALSE]
<1>1. ViewTyped(v, view[v]) /\ f # Nothing /\ f.ver # Nothing
  BY DEF TypeOK, ViewTyped, Arrive
<1>2. f \in Fetch
  BY <1>1 DEF ViewTyped, ViewState
<1>3. f.key \in KeysOf(hook(v)) /\ f.ver \in Versions
  BY <1>1, <1>2 DEF AnsweredHasKey, ViewTyped, Fetch
<1>4. [key |-> f.key, ver |-> f.ver] \in Listing
  BY <1>3, ViewKeys DEF Listing
<1>5. ViewTyped(v, s)
  BY <1>1, <1>3, <1>4, ShowTyped
<1>6. view'[v] = [s EXCEPT !.fetch = Nothing]
  BY DEF Arrive, TypeOK, Show
<1>7. ViewTyped(v, view'[v])
  <2> HIDE DEF s
  <2>1. QED
    BY <1>5, <1>6 DEF ViewTyped, ViewState
<1>8. QED
  BY <1>2, <1>3, <1>6, <1>7

LEMMA FailTyped ==
  ASSUME TypeOK, NEW v \in Views, Fail(v)
  PROVE  /\ ViewTyped(v, view'[v])
         /\ view'[v].fetch = Nothing /\ view'[v].failed
         /\ view'[v].due = view[v].due /\ view'[v].force = view[v].force
         /\ view'[v].scope = view[v].scope /\ view'[v].asked = view[v].asked
<1>1. ViewTyped(v, view[v])
  BY DEF TypeOK, ViewTyped
<1>2. \E what \in {view[v].shown, Nothing} :
        view'[v] = [view[v] EXCEPT !.fetch = Nothing, !.loading = FALSE, !.failed = TRUE,
                                   !.shown = what]
  BY DEF Fail, TypeOK
<1>3. QED
  BY <1>1, <1>2 DEF ViewTyped, ViewState

\* What is mounted never changes, and with it the keys.
LEMMA SameShapes ==
  ASSUME mounted' = mounted
  PROVE  /\ Keys' = Keys /\ Views' = Views /\ ViewState' = ViewState
         /\ \A v \in Views : /\ hook(v)' = hook(v) /\ ScopesOf(v)' = ScopesOf(v)
                             /\ KeysOf(hook(v))' = KeysOf(hook(v))
<1>1. Keys' = Keys /\ Views' = Views
  BY DEF Keys, Views
<1>2. \A v : hook(v)' = hook(v)
  BY DEF hook
<1>3. \A v : ScopesOf(v)' = ScopesOf(v) /\ KeysOf(hook(v))' = KeysOf(hook(v))
  BY <1>2 DEF ScopesOf, KeysOf
<1>4. ViewState' = ViewState
  BY <1>1, <1>3 DEF ViewState, Fetch, Listing
<1>5. QED
  BY <1>1, <1>2, <1>3, <1>4

LEMMA ViewActTyped ==
  ASSUME TypeOK, AnsweredHasKey, NEW v \in Views, ViewActs(v)
  PROVE  TypeOK'
<1>1. ViewTyped(v, view'[v])
  BY UserActTyped, EffectTyped, ServeTyped, ArriveTyped, FailTyped DEF ViewActs
<1>2. /\ UNCHANGED <<mounted, ver, write, done, own, others>>
      /\ \A u \in Views \ {v} : view'[u] = view[u]
      /\ view' \in [Views -> ViewState]
  <2>1. /\ UNCHANGED <<mounted, ver, write, done, own, others>>
        /\ \A u \in Views \ {v} : view'[u] = view[u]
        /\ DOMAIN view' = Views
    BY ViewOthers
  <2>2. \A u \in Views : view'[u] \in ViewState
    BY <1>1, <2>1 DEF TypeOK, ViewTyped
  <2>3. view' = [u \in Views |-> view'[u]]
    <3>1. CASE RunEffect(v) \/ Arrive(v)
      BY <3>1 DEF RunEffect, Arrive, TypeOK
    <3>2. CASE Refresh(v) \/ \E s \in ScopesOf(v) : ChangeScope(v, s) \/ Remount(v, s)
      BY <3>2 DEF Refresh, ChangeScope, Remount, TypeOK
    <3>3. CASE Serve(v) \/ Fail(v)
      BY <3>3 DEF Serve, Fail, TypeOK
    <3>4. QED
      BY <3>1, <3>2, <3>3 DEF ViewActs
  <2>4. QED
    BY <2>1, <2>2, <2>3
<1>3. \A u \in Views : ViewTyped(u, view'[u])
  BY <1>1, <1>2 DEF TypeOK, ViewTyped
<1>4. store' \in [Keys -> [ver : Versions, stored : 0 .. MaxWrites] \cup {Nothing}]
  <2>1. CASE Arrive(v)
    <3>1. view[v].fetch.ver \in Versions
      BY <2>1, ArriveTyped
    <3>2. QED
      BY <2>1, <3>1 DEF Arrive, TypeOK
  <2>2. CASE ~Arrive(v)
    <3>1. UNCHANGED store
      BY <2>2 DEF ViewActs, Refresh, RunEffect, Serve, Fail, ChangeScope, Remount
    <3>2. QED
      BY <3>1 DEF TypeOK
  <2>3. QED
    BY <2>1, <2>2
<1>5. acts' \in Nat
  <2>1. Act => acts' \in Nat
    BY DEF Act, TypeOK
  <2>2. CASE Refresh(v) \/ \E s \in ScopesOf(v) : ChangeScope(v, s) \/ Remount(v, s)
    BY <2>1, <2>2 DEF Refresh, ChangeScope, Remount
  <2>3. CASE RunEffect(v) \/ Serve(v) \/ Arrive(v) \/ Fail(v)
    BY <2>3 DEF RunEffect, Serve, Arrive, Fail, TypeOK
  <2>4. QED
    BY <2>2, <2>3 DEF ViewActs
<1>6. \A u \in Views : /\ view'[u].scope \in ScopesOf(u)'
                       /\ view'[u].shown # Nothing => view'[u].shown.key \in KeysOf(hook(u))'
                       /\ view'[u].fetch # Nothing
                            => view'[u].fetch.key \in KeysOf(hook(u))' \cup {Absent}
  BY <1>2, <1>3, SameShapes DEF ViewTyped
<1>7. (mounted \in Pages /\ view \in [Views -> ViewState])'
  BY <1>2, SameShapes DEF TypeOK
<1>8. (\A u \in Views : /\ view[u].scope \in ScopesOf(u)
                        /\ view[u].shown # Nothing => view[u].shown.key \in KeysOf(hook(u))
                        /\ view[u].fetch # Nothing
                             => view[u].fetch.key \in KeysOf(hook(u)) \cup {Absent})'
  BY <1>2, <1>6, SameShapes
<1>9. Keys' = Keys
  BY <1>2, SameShapes
<1>10. (store \in [Keys -> [ver : Versions, stored : 0 .. MaxWrites] \cup {Nothing}])'
  BY <1>4, <1>9 DEF Versions
<1>11. (ver \in [Keys -> Versions])'
  BY <1>2, <1>9 DEF TypeOK, Versions
<1>12. (write \in [op : DOMAIN Writes, made : [Keys -> Versions] \cup {Nothing}] \cup {Nothing})'
  BY <1>2, <1>9 DEF TypeOK, Versions
<1>13. (own \in [Keys -> [ver : Versions, at : 0 .. MaxWrites]])'
  BY <1>2, <1>9 DEF TypeOK, Versions
<1>14. (done \in 0 .. MaxWrites /\ others \in 0 .. MaxOthers)'
  BY <1>2 DEF TypeOK
<1>15. QED
  BY <1>5, <1>7, <1>8, <1>10, <1>11, <1>12, <1>13, <1>14 DEF TypeOK
\* A step on the writes leaves the views alone, and no list becomes older.
LEMMA VersionsGrow ==
  ASSUME TypeOK, WriteActs
  PROVE  DOMAIN ver' = Keys /\ \A k \in Keys : ver'[k] \in Nat /\ ver'[k] >= ver[k]
<1>1. ver \in [Keys -> Nat]
  BY VersionsNat DEF TypeOK
<1>2. \A ks : DOMAIN Bump(ks) = Keys /\ \A k \in Keys : Bump(ks)[k] \in Nat /\ Bump(ks)[k] >= ver[k]
  BY <1>1 DEF Bump
<1>3. ver' = ver \/ \E ks : ver' = Bump(ks)
  <2>1. CASE ServeWrite
    BY <2>1 DEF ServeWrite
  <2>2. ASSUME NEW k \in Keys, Elsewhere(k) PROVE \E ks : ver' = Bump(ks)
    BY <2>2 DEF Elsewhere
  <2>3. CASE ~ServeWrite /\ ~\E k \in Keys : Elsewhere(k)
    BY <2>3 DEF WriteActs, StartWrite, EndWrite, FailWrite, Expire, server
  <2>4. QED
    BY <2>1, <2>2, <2>3
<1>4. QED
  BY <1>1, <1>2, <1>3

LEMMA WriteCounted ==
  ASSUME TypeOK, Counted, WriteActs
  PROVE  /\ done' \in 0 .. MaxWrites /\ others' \in 0 .. MaxOthers
         /\ write' # Nothing => done' < MaxWrites
         /\ \A k \in Keys : ver'[k] <= others' + done' + Made'
<1> USE BoundsAssumption DEF Counted
<1>1. done \in 0 .. MaxWrites /\ others \in 0 .. MaxOthers /\ ver \in [Keys -> Nat]
  BY VersionsNat DEF TypeOK
<1>2. CASE \E w \in DOMAIN Writes : StartWrite(w)
  <2>1. Made = 0
    BY <1>2 DEF Made, StartWrite
  <2>2. Made' \in {0, 1}
    BY DEF Made
  <2>3. QED
    BY <1>1, <1>2, <2>1, <2>2 DEF StartWrite
<1>3. CASE ServeWrite
  <2>1. Made = 0 /\ write # Nothing
    BY <1>3 DEF Made, ServeWrite
  <2>2. write \in [op : DOMAIN Writes, made : [Keys -> Versions] \cup {Nothing}]
    BY <2>1 DEF TypeOK
  <2>3. ver' \in [Keys -> Nat]
    BY <1>1, <1>3 DEF ServeWrite, Bump
  <2>4. ver' # Nothing
    BY <2>3, AbsentAssumption DEF TypeOK, Keys
  <2>5. write' # Nothing /\ write'.made # Nothing
    <3>1. write'.made = ver'
      BY <1>3, <2>2 DEF ServeWrite
    <3>2. write' \in [op : DOMAIN Writes, made : [Keys -> Nat] \cup {Nothing}]
      BY <1>3, <2>2, <2>3 DEF ServeWrite
    <3>3. write' # Nothing
      BY <3>2, AbsentAssumption DEF TypeOK, Keys
    <3>4. QED
      BY <2>4, <3>1, <3>3
  <2>6. Made' = 1
    BY <2>5 DEF Made
  <2>7. \A k \in Keys : ver'[k] <= ver[k] + 1
    BY <1>1, <1>3 DEF ServeWrite, Bump
  <2>8. QED
    BY <1>1, <1>3, <2>1, <2>3, <2>6, <2>7 DEF ServeWrite
<1>4. CASE EndWrite \/ FailWrite
  <2>1. Made \in {0, 1} /\ Made' = 0
    BY <1>4 DEF Made, EndWrite, FailWrite
  <2>2. QED
    BY <1>1, <1>4, <2>1 DEF EndWrite, FailWrite
<1>5. ASSUME NEW k \in Keys, Expire(k) PROVE UNCHANGED <<ver, write, done, others>>
  BY <1>5 DEF Expire, server
<1>6. ASSUME NEW l \in Keys, Elsewhere(l)
      PROVE  /\ UNCHANGED <<write, done>> /\ others' = others + 1 /\ others < MaxOthers
             /\ \A k \in Keys : ver'[k] <= ver[k] + 1
  BY <1>1, <1>6 DEF Elsewhere, Bump
<1>7. CASE \E k \in Keys : Expire(k) \/ Elsewhere(k)
  <2>1. CASE UNCHANGED <<ver, write, done, others>>
    BY <1>1, <2>1 DEF Made
  <2>2. CASE /\ UNCHANGED <<write, done>> /\ others' = others + 1 /\ others < MaxOthers
             /\ \A k \in Keys : ver'[k] <= ver[k] + 1
    <3>1. Made' = Made /\ Made \in {0, 1}
      BY <2>2 DEF Made
    <3>2. \A k \in Keys : ver'[k] \in Nat
      BY VersionsGrow
    <3>3. QED
      BY <1>1, <2>2, <3>1, <3>2
  <2>3. QED
    BY <1>5, <1>6, <1>7, <2>1, <2>2
<1>8. QED
  BY <1>2, <1>3, <1>4, <1>7 DEF WriteActs

LEMMA WriteActTyped ==
  ASSUME TypeOK, Counted, WriteActs
  PROVE  TypeOK'
<1>1. UNCHANGED <<mounted, view, acts>>
  BY WriteOthers
<1>2. Keys' = Keys
  BY <1>1, SameShapes
<1>3. ver' \in [Keys -> Versions]
  <2>1. \A k \in Keys : ver'[k] \in Versions
    <3>1. Made' \in {0, 1} /\ (Made' = 1 => write' # Nothing)
      BY DEF Made
    <3>2. done' + Made' <= MaxWrites /\ done' \in Nat /\ others' \in 0 .. MaxOthers
      BY <3>1, WriteCounted, BoundsAssumption
    <3>3. QED
      BY <3>1, <3>2, WriteCounted, VersionsGrow, BoundsAssumption DEF Versions
  <2>2. ver' = [k \in Keys |-> ver'[k]]
    BY DEF TypeOK, WriteActs, StartWrite, ServeWrite, EndWrite, FailWrite, Expire, Elsewhere, Bump, server
  <2>3. QED
    BY <2>1, <2>2
<1>4. write' \in [op : DOMAIN Writes, made : [Keys -> Versions] \cup {Nothing}] \cup {Nothing}
  <2>1. CASE \E w \in DOMAIN Writes : StartWrite(w)
    BY <2>1 DEF StartWrite
  <2>2. CASE ServeWrite
    BY <1>3, <2>2 DEF ServeWrite, TypeOK
  <2>3. CASE EndWrite \/ FailWrite \/ \E k \in Keys : Expire(k) \/ Elsewhere(k)
    BY <2>3 DEF EndWrite, FailWrite, Expire, Elsewhere, TypeOK, server
  <2>4. QED
    BY <2>1, <2>2, <2>3 DEF WriteActs
<1>5. store' \in [Keys -> [ver : Versions, stored : 0 .. MaxWrites] \cup {Nothing}]
  <2>1. CASE EndWrite
    BY <2>1 DEF EndWrite, invalidateCache, TypeOK
  <2>2. CASE \E k \in Keys : Expire(k)
    BY <2>2 DEF Expire, TypeOK
  <2>3. CASE ServeWrite \/ FailWrite \/ (\E w \in DOMAIN Writes : StartWrite(w))
             \/ \E k \in Keys : Elsewhere(k)
    BY <2>3 DEF StartWrite, ServeWrite, FailWrite, Elsewhere, TypeOK
  <2>4. QED
    BY <2>1, <2>2, <2>3 DEF WriteActs
<1>6. own' \in [Keys -> [ver : Versions, at : 0 .. MaxWrites]]
  <2>1. CASE EndWrite
    <3>1. write.made \in [Keys -> Versions] /\ done + 1 \in 0 .. MaxWrites
      BY <2>1, BoundsAssumption DEF EndWrite, TypeOK, Counted
    <3>2. QED
      BY <2>1, <3>1 DEF EndWrite, TypeOK
  <2>2. CASE ~EndWrite
    BY <2>2 DEF WriteActs, StartWrite, ServeWrite, FailWrite, Expire, Elsewhere, TypeOK, server
  <2>3. QED
    BY <2>1, <2>2
<1>7. (store \in [Keys -> [ver : Versions, stored : 0 .. MaxWrites] \cup {Nothing}])'
  BY <1>2, <1>5 DEF Versions
<1>8. (ver \in [Keys -> Versions])'
  BY <1>2, <1>3 DEF Versions
<1>9. (write \in [op : DOMAIN Writes, made : [Keys -> Versions] \cup {Nothing}] \cup {Nothing})'
  BY <1>2, <1>4 DEF Versions
<1>10. (own \in [Keys -> [ver : Versions, at : 0 .. MaxWrites]])'
  BY <1>2, <1>6 DEF Versions
<1>11. (mounted \in Pages /\ view \in [Views -> ViewState] /\ acts \in Nat)'
  BY <1>1, SameShapes DEF TypeOK
<1>12. (\A u \in Views : /\ view[u].scope \in ScopesOf(u)
                         /\ view[u].shown # Nothing => view[u].shown.key \in KeysOf(hook(u))
                         /\ view[u].fetch # Nothing
                              => view[u].fetch.key \in KeysOf(hook(u)) \cup {Absent})'
  BY <1>1, SameShapes DEF TypeOK
<1>13. (done \in 0 .. MaxWrites /\ others \in 0 .. MaxOthers)'
  BY WriteCounted
<1>14. QED
  BY <1>7, <1>8, <1>9, <1>10, <1>11, <1>12, <1>13 DEF TypeOK
----------------------------------------------------------------------------
(* What a view waits for and shows *)

KeyIn(v, r) == IF r.scope = Absent THEN Absent ELSE <<hook(v).list>> \o r.scope

\* The parts of Inv that speak of views, for one view v in state r and the lists' versions n.
ViewSound(v, r, n) ==
    /\ r.fetch # Nothing /\ r.fetch.ver # Nothing => r.fetch.key # Absent
    /\ ~r.due /\ r.fetch # Nothing => r.fetch.key = KeyIn(v, r)
    /\ r.scope # Absent =>
         /\ r.asked <= n[KeyIn(v, r)]
         /\ r.due /\ ~r.force /\ hook(v).cached => r.asked = 0
         /\ ~r.due /\ r.fetch # Nothing /\ r.fetch.ver # Nothing => r.fetch.ver >= r.asked
         /\ ~r.due /\ ~r.loading /\ ~r.failed /\ r.shown # Nothing
              => r.shown.key = KeyIn(v, r) /\ r.shown.ver >= r.asked

ViewsSound == AnsweredHasKey /\ AwaitsScope /\ SettledShowsScope /\ AwaitsFresh /\ RefreshIsFresh

LEMMA SoundViews == ViewsSound <=> \A v \in Views : ViewSound(v, view[v], ver)
<1>1. \A v : KeyOf(v) = KeyIn(v, view[v])
  BY DEF KeyOf, KeyIn
<1>2. QED
  BY <1>1 DEF ViewsSound, ViewSound, AnsweredHasKey, AwaitsScope, SettledShowsScope, AwaitsFresh,
              RefreshIsFresh, Settled

LEMMA KeyTyped ==
  ASSUME TypeOK, NEW v \in Views, NEW r, ViewTyped(v, r), r.scope # Absent
  PROVE  KeyIn(v, r) \in Keys /\ ver[KeyIn(v, r)] \in Nat
<1>1. KeyIn(v, r) \in KeysOf(hook(v))
  BY DEF KeyIn, KeysOf, ViewTyped, ScopesOf
<1>2. KeysOf(hook(v)) \subseteq Keys
  BY ViewKeys
<1>3. QED
  BY <1>1, <1>2, VersionsNat DEF TypeOK

\* A list that becomes newer takes nothing from a view.
LEMMA SoundGrows ==
  ASSUME TypeOK, NEW v \in Views, ViewSound(v, view[v], ver),
         \A k \in Keys : ver'[k] \in Nat /\ ver'[k] >= ver[k]
  PROVE  ViewSound(v, view[v], ver')
<1>1. ViewTyped(v, view[v]) /\ view[v].asked \in Nat
  BY VersionsNat DEF TypeOK, ViewTyped, ViewState
<1>2. view[v].scope # Absent => KeyIn(v, view[v]) \in Keys /\ ver[KeyIn(v, view[v])] \in Nat
  BY <1>1, KeyTyped
<1>3. view[v].scope # Absent => view[v].asked <= ver'[KeyIn(v, view[v])]
  BY <1>1, <1>2 DEF ViewSound
<1>4. QED
  BY <1>3 DEF ViewSound

LEMMA UserActSound ==
  ASSUME TypeOK, NEW v \in Views, ViewSound(v, view[v], ver),
         Refresh(v) \/ \E s \in ScopesOf(v) : ChangeScope(v, s) \/ Remount(v, s)
  PROVE  ViewSound(v, view'[v], ver)
<1>1. ViewTyped(v, view[v]) /\ ViewTyped(v, view'[v]) /\ view[v] \in ViewState
  BY UserActTyped, ViewKeys DEF TypeOK, ViewTyped
<1>2. view'[v].scope # Absent => ver[KeyIn(v, view'[v])] \in Nat
  BY <1>1, KeyTyped
<1>3. CASE Refresh(v)
  <2> DEFINE n == IF KeyOf(v) = Absent THEN 0 ELSE ver[KeyOf(v)]
  <2>1. view'[v] = [view[v] EXCEPT !.due = TRUE, !.force = hook(v).cached, !.asked = n]
    BY <1>3 DEF Refresh, TypeOK
  <2>2. KeyIn(v, view'[v]) = KeyOf(v) /\ view'[v].scope = view[v].scope
    BY <1>1, <2>1 DEF KeyIn, KeyOf, ViewState
  <2>3. view'[v].scope # Absent => KeyOf(v) # Absent /\ n = ver[KeyIn(v, view'[v])]
    BY <2>2, ViewKeys
  <2> HIDE DEF n
  <2>4. QED
    BY <1>1, <1>2, <2>1, <2>3 DEF ViewSound, ViewState
<1>4. ASSUME NEW s \in ScopesOf(v), ChangeScope(v, s) PROVE ViewSound(v, view'[v], ver)
  <2>1. view'[v] = [view[v] EXCEPT !.scope = s, !.due = TRUE, !.asked = 0]
    BY <1>4 DEF ChangeScope, TypeOK
  <2>2. QED
    BY <1>1, <1>2, <2>1 DEF ViewSound, ViewState
<1>5. ASSUME NEW s \in ScopesOf(v), Remount(v, s) PROVE ViewSound(v, view'[v], ver)
  <2>1. view'[v] = Fresh(s)
    BY <1>5 DEF Remount, TypeOK
  <2>2. QED
    BY <1>2, <2>1 DEF ViewSound, Fresh
<1>6. QED
  BY <1>3, <1>4, <1>5

LEMMA EffectSound ==
  ASSUME TypeOK, NEW v \in Views, ViewSound(v, view[v], ver), RunEffect(v)
  PROVE  ViewSound(v, view'[v], ver)
<1> DEFINE k == KeyOf(v)
           q == [view[v] EXCEPT !.due = FALSE, !.fetch = Nothing]
<1>1. view[v] \in ViewState /\ view[v].due
  BY ViewKeys DEF RunEffect
<1>2. ViewTyped(v, view'[v]) /\ view[v].asked \in Nat
  BY <1>1, EffectTyped, VersionsNat DEF ViewState
<1>3. view[v].scope # Absent => k # Absent /\ view[v].asked <= ver[k]
  BY ViewKeys DEF ViewSound, KeyIn, KeyOf
<1>4. view[v].scope # Absent /\ ~view[v].force /\ hook(v).cached => view[v].asked = 0
  BY <1>1 DEF ViewSound
<1>5. q \in ViewState /\ ~q.due /\ q.fetch = Nothing /\ q.scope = view[v].scope /\ q.asked = view[v].asked
  BY <1>1 DEF ViewState
<1>6. \A r : r.scope = view[v].scope => KeyIn(v, r) = k
  BY DEF KeyIn, KeyOf
<1>7. view[v].scope = Absent <=> k = Absent
  BY ViewKeys
<1>8. CASE k = Absent /\ view'[v] = q
  BY <1>5, <1>7, <1>8 DEF ViewSound
<1>9. CASE k = Absent /\ view'[v] = [q EXCEPT !.shown = Nothing, !.loading = FALSE, !.failed = FALSE]
  BY <1>5, <1>7, <1>9 DEF ViewSound, ViewState
<1>10. CASE /\ k # Absent /\ hook(v).cached /\ ~view[v].force /\ store[k] # Nothing
            /\ view'[v] = [q EXCEPT !.shown = [key |-> k, ver |-> store[k].ver],
                                    !.loading = FALSE, !.failed = FALSE, !.force = FALSE]
  <2>1. store[k].ver \in Nat
    <3>1. k \in Keys
      BY <1>10, <1>7, ViewKeys
    <3>2. QED
      BY <1>10, <3>1, VersionsNat DEF TypeOK
  <2>2. view[v].asked = 0
    BY <1>10, <1>4, <1>7
  <2> HIDE DEF q, k
  <2> DEFINE l == [key |-> k, ver |-> store[k].ver]
  <2>3. l.key = k /\ l.ver = store[k].ver
    OBVIOUS
  <2> HIDE DEF l
  <2>4. /\ view'[v].scope = view[v].scope /\ view'[v].asked = view[v].asked
        /\ ~view'[v].due /\ view'[v].fetch = Nothing /\ view'[v].shown = l
    BY <1>5, <1>10 DEF ViewState, l
  <2>5. QED
    BY <1>3, <1>6, <2>1, <2>2, <2>3, <2>4 DEF ViewSound
<1>11. CASE view'[v] = [q EXCEPT !.force = FALSE, !.loading = TRUE, !.failed = FALSE,
                                 !.fetch = [key |-> k, ver |-> Nothing, sent |-> done]]
  <2> HIDE DEF q, k
  <2> DEFINE f == [key |-> k, ver |-> Nothing, sent |-> done]
  <2>1. f.key = k /\ f.ver = Nothing
    OBVIOUS
  <2> HIDE DEF f
  <2>2. /\ view'[v].scope = view[v].scope /\ view'[v].asked = view[v].asked
        /\ ~view'[v].due /\ view'[v].fetch = f /\ view'[v].loading
    BY <1>5, <1>11 DEF ViewState, f
  <2>3. QED
    BY <1>3, <1>6, <2>1, <2>2 DEF ViewSound
<1>12. QED
  BY <1>8, <1>9, <1>10, <1>11, EffectShape DEF EffectOf
LEMMA ServeSound ==
  ASSUME TypeOK, NEW v \in Views, ViewSound(v, view[v], ver), Serve(v)
  PROVE  ViewSound(v, view'[v], ver)
<1> DEFINE f == [view[v].fetch EXCEPT !.ver = ver[view[v].fetch.key]]
<1>1. /\ view[v].fetch \in Fetch /\ view[v].fetch.key \in Keys /\ view[v] \in ViewState
      /\ view'[v] = [view[v] EXCEPT !.fetch = f]
  BY ServeTyped, ViewKeys
<1>2. view[v].fetch # Nothing /\ view[v].fetch.key # Absent
  BY DEF Serve
<1>3. f.key = view[v].fetch.key /\ f.ver = ver[view[v].fetch.key]
  BY <1>1 DEF Fetch
<1> HIDE DEF f
<1>4. /\ view'[v].fetch = f
      /\ view'[v].scope = view[v].scope /\ view'[v].due = view[v].due
      /\ view'[v].force = view[v].force /\ view'[v].asked = view[v].asked
      /\ view'[v].loading = view[v].loading /\ view'[v].failed = view[v].failed
      /\ view'[v].shown = view[v].shown
  BY <1>1 DEF ViewState
<1>5. KeyIn(v, view'[v]) = KeyIn(v, view[v])
  BY <1>4 DEF KeyIn
<1>6. view[v].scope # Absent => ver[KeyIn(v, view[v])] \in Nat /\ view[v].asked \in Nat
  <2>1. ViewTyped(v, view[v])
    BY DEF TypeOK, ViewTyped
  <2>2. QED
    BY <1>1, <2>1, KeyTyped, VersionsNat DEF ViewState
<1>7. QED
  BY <1>2, <1>3, <1>4, <1>5, <1>6 DEF ViewSound

LEMMA ArriveSound ==
  ASSUME TypeOK, AnsweredHasKey, NEW v \in Views, ViewSound(v, view[v], ver), Arrive(v)
  PROVE  ViewSound(v, view'[v], ver)
<1> DEFINE l == [key |-> view[v].fetch.key, ver |-> view[v].fetch.ver]
<1>1. /\ view'[v] = [view[v] EXCEPT !.shown = l, !.loading = FALSE, !.failed = FALSE, !.fetch = Nothing]
      /\ view[v] \in ViewState
  BY ArriveTyped, ViewKeys
<1>2. view[v].fetch # Nothing /\ view[v].fetch.ver # Nothing
  BY DEF Arrive
<1>3. l.key = view[v].fetch.key /\ l.ver = view[v].fetch.ver
  OBVIOUS
<1> HIDE DEF l
<1>4. /\ view'[v].fetch = Nothing /\ view'[v].shown = l
      /\ view'[v].scope = view[v].scope /\ view'[v].due = view[v].due
      /\ view'[v].force = view[v].force /\ view'[v].asked = view[v].asked
  BY <1>1 DEF ViewState
<1>5. KeyIn(v, view'[v]) = KeyIn(v, view[v])
  BY <1>4 DEF KeyIn
<1>6. QED
  BY <1>2, <1>3, <1>4, <1>5 DEF ViewSound

LEMMA FailSound ==
  ASSUME TypeOK, NEW v \in Views, ViewSound(v, view[v], ver), Fail(v)
  PROVE  ViewSound(v, view'[v], ver)
<1>1. KeyIn(v, view'[v]) = KeyIn(v, view[v])
  BY FailTyped DEF KeyIn
<1>2. QED
  BY <1>1, FailTyped DEF ViewSound

\* The same for the next state of a step that mounts nothing.
LEMMA SoundAfter ==
  ASSUME mounted' = mounted, \A v \in Views : ViewSound(v, view'[v], ver')
  PROVE  ViewsSound'
<1>1. Views' = Views /\ \A v \in Views : hook(v)' = hook(v)
  BY SameShapes
<1>2. \A v \in Views : KeyOf(v)' = KeyIn(v, view'[v])
  BY <1>1 DEF KeyOf, KeyIn
<1>3. QED
  BY <1>1, <1>2 DEF ViewsSound, ViewSound, AnsweredHasKey, AwaitsScope, SettledShowsScope,
                    AwaitsFresh, RefreshIsFresh, Settled

LEMMA ViewActSound ==
  ASSUME TypeOK, ViewsSound, NEW v \in Views, ViewActs(v)
  PROVE  ViewsSound'
<1>1. \A u \in Views : ViewSound(u, view[u], ver)
  BY SoundViews
<1>2. ViewSound(v, view'[v], ver)
  BY <1>1, UserActSound, EffectSound, ServeSound, ArriveSound, FailSound DEF ViewActs, ViewsSound
<1>3. mounted' = mounted /\ ver' = ver /\ \A u \in Views \ {v} : view'[u] = view[u]
  BY ViewOthers
<1>4. \A u \in Views : ViewSound(u, view'[u], ver')
  BY <1>1, <1>2, <1>3
<1>5. QED
  BY <1>3, <1>4, SoundAfter

LEMMA WriteActSound ==
  ASSUME TypeOK, ViewsSound, WriteActs
  PROVE  ViewsSound'
<1>1. \A u \in Views : ViewSound(u, view[u], ver)
  BY SoundViews
<1>2. \A u \in Views : ViewSound(u, view[u], ver')
  BY <1>1, VersionsGrow, SoundGrows
<1>3. mounted' = mounted /\ view' = view
  BY WriteOthers
<1>4. QED
  BY <1>2, <1>3, SoundAfter
----------------------------------------------------------------------------
(* Own writes and what they drop *)

LEMMA HookScopes ==
  ASSUME NEW h \in DOMAIN Hooks, NEW s \in Hooks[h].scopes
  PROVE  (\E x : s = <<x>>) \/ (\E x, y : s = <<x, y>>)
<1>1. Hooks[h] \in {useDesks, useLayoutObjects, useMeetingRooms, useDeskBookings,
                    useRoomBookings, useMyBookings, useMyRoomBookings, useOffices, useFloors,
                    useWorkspaceSummary, useDashboardData, useTeamMembers, useInvitations,
                    usePendingInvitations}
  BY DEF Hooks
<1>2. usePendingInvitations.scopes = FilterScopes
  BY DEF Hook, usePendingInvitations
<1>3. /\ useDesks.scopes = FloorScopes /\ useLayoutObjects.scopes = FloorScopes
      /\ useMeetingRooms.scopes = FloorScopes
      /\ useDeskBookings.scopes = DayScopes /\ useRoomBookings.scopes = DayScopes
      /\ useMyBookings.scopes = FilterScopes /\ useMyRoomBookings.scopes = FilterScopes
      /\ useOffices.scopes = OrgScopes /\ useWorkspaceSummary.scopes = OrgScopes
      /\ useTeamMembers.scopes = OrgScopes /\ useInvitations.scopes = OrgScopes
      /\ useFloors.scopes = OfficeScopes /\ useDashboardData.scopes = OfficeScopes
  BY DEF Hook, useDesks, useLayoutObjects, useMeetingRooms, useDeskBookings, useRoomBookings,
         useMyBookings, useMyRoomBookings, useOffices, useFloors, useWorkspaceSummary,
         useDashboardData, useTeamMembers, useInvitations
<1>4. Hooks[h].scopes \in {FloorScopes, DayScopes, OrgScopes, OfficeScopes, FilterScopes}
  BY <1>1, <1>2, <1>3
<1>5. QED
  BY <1>4 DEF FloorScopes, DayScopes, OrgScopes, OfficeScopes, FilterScopes

\* A key is a sequence that starts with the name of the hook's list.
LEMMA KeyIsSeq ==
  ASSUME NEW h \in DOMAIN Hooks, NEW k \in KeysOf(Hooks[h])
  PROVE  Len(k) \in Nat /\ k[1] = Hooks[h].list
<1> DEFINE list == Hooks[h].list
<1>1. PICK s \in Hooks[h].scopes : k = <<list>> \o s
  BY DEF KeysOf
<1> HIDE DEF list
<1>2. ASSUME NEW S, list \in S, s \in Seq(S) PROVE Len(k) \in Nat /\ k[1] = list
  <2>1. <<list>> \in Seq(S) /\ Len(<<list>>) = 1 /\ <<list>>[1] = list
    BY <1>2
  <2>2. Len(s) \in Nat
    BY <1>2, LenProperties
  <2>3. QED
    BY <1>1, <1>2, <2>1, <2>2, ConcatProperties
<1>3. ASSUME NEW x, s = <<x>> PROVE Len(k) \in Nat /\ k[1] = list
  <2>1. s \in Seq({list, x})
    BY <1>3
  <2>2. QED
    BY <1>2, <2>1
<1>4. ASSUME NEW x, NEW y, s = <<x, y>> PROVE Len(k) \in Nat /\ k[1] = list
  <2>1. s \in Seq({list, x, y})
    BY <1>4
  <2>2. QED
    BY <1>2, <2>1
<1>5. QED
  BY <1>1, <1>3, <1>4, HookScopes DEF list

\* The lists whose hooks do not use the cache.
Uncached == {"members", "invitations", "pending"}

LEMMA CachedList ==
  ASSUME NEW h \in DOMAIN Hooks, Hooks[h].cached
  PROVE  Hooks[h].list \notin Uncached
<1>1. /\ useTeamMembers.cached = FALSE /\ usePendingInvitations.cached = FALSE
      /\ useInvitations.cached = FALSE /\ useDashboardData.cached = FALSE
  BY DEF Hook, useTeamMembers, usePendingInvitations, useInvitations, useDashboardData
<1>2. Hooks[h] \in {useDesks, useLayoutObjects, useMeetingRooms, useDeskBookings,
                    useRoomBookings, useMyBookings, useMyRoomBookings, useOffices, useFloors,
                    useWorkspaceSummary}
  BY <1>1 DEF Hooks
<1>3. \A l \in {useDesks.list, useLayoutObjects.list, useMeetingRooms.list, useDeskBookings.list,
                useRoomBookings.list, useMyBookings.list, useMyRoomBookings.list, useOffices.list,
                useFloors.list, useWorkspaceSummary.list} : l \notin Uncached
  BY DEF Uncached, Hook, useDesks, useLayoutObjects, useMeetingRooms, useDeskBookings, useRoomBookings,
         useMyBookings, useMyRoomBookings, useOffices, useFloors, useWorkspaceSummary
<1>4. QED
  BY <1>2, <1>3

LEMMA FirstOfPrefix ==
  ASSUME NEW k, NEW x, IsPrefix(<<x>>, k)
  PROVE  k[1] = x
<1> DEFINE u == <<x>>
           S == {k[1], x}
<1>1. u \in Seq(S) /\ Len(u) = 1 /\ u[1] = x /\ k[1] \in S
  OBVIOUS
<1> HIDE DEF u, S
<1>2. SubSeq(u, 1, 1) = SubSeq(k, 1, 1)
  BY <1>1 DEF IsPrefix, u
<1>3. SubSeq(u, 1, 1) = u
  BY <1>1, SubSeqFull
<1>4. SubSeq(k, 1, 1)[1] = k[1]
  <2>1. \A i \in 1 .. 1 : k[i] \in S
    BY <1>1
  <2>2. QED
    BY <2>1, SubSeqProperties
<1>5. QED
  BY <1>1, <1>2, <1>3, <1>4

\* A key that starts with two parts starts with the first of them.
LEMMA FirstPart ==
  ASSUME NEW k, Len(k) \in Nat, NEW x, NEW y, IsPrefix(<<x, y>>, k)
  PROVE  IsPrefix(<<x>>, k)
<1> DEFINE t == <<x, y>>
           u == <<x>>
           S == {k[1], k[2], x, y}
<1>1. t \in Seq(S) /\ Len(t) = 2 /\ t[1] = x /\ t[2] = y
  OBVIOUS
<1>2. u \in Seq(S) /\ Len(u) = 1 /\ u[1] = x
  OBVIOUS
<1>3. k[1] \in S /\ k[2] \in S
  OBVIOUS
<1> HIDE DEF t, u, S
<1>4. 2 <= Len(k) /\ SubSeq(t, 1, 2) = SubSeq(k, 1, 2)
  BY <1>1 DEF IsPrefix, t
<1>5. SubSeq(t, 1, 2) = t
  BY <1>1, SubSeqFull
<1>6. SubSeq(k, 1, 2)[1] = k[1]
  <2>1. \A i \in 1 .. 2 : k[i] \in S
    BY <1>3
  <2>2. QED
    BY <2>1, SubSeqProperties
<1>7. k[1] = x
  BY <1>1, <1>4, <1>5, <1>6
<1>8. SubSeq(k, 1, 1) \in Seq(S) /\ Len(SubSeq(k, 1, 1)) = 1 /\ SubSeq(k, 1, 1)[1] = k[1]
  <2>1. \A i \in 1 .. 1 : k[i] \in S
    BY <1>3
  <2>2. QED
    BY <2>1, SubSeqProperties
<1>9. SubSeq(k, 1, 1) = u
  BY <1>2, <1>7, <1>8, SeqEqual
<1>10. SubSeq(u, 1, Len(u)) = u
  BY <1>2, SubSeqFull
<1>11. IsPrefix(u, k)
  BY <1>2, <1>4, <1>9, <1>10 DEF IsPrefix
<1>12. QED
  BY <1>11 DEF u

----------------------------------------------------------------------------
(* What the writes drop *)

\* Each list that the write of function w changes is one that is never cached, one that w
\* leaves cached, or dropped, by its own name or by its namespace.
Dropped(w, a) ==
    \A c \in a.changes :
        /\ (\E x : c = <<x>>) \/ (\E x, y : c = <<x, y>>)
        /\ \/ c[1] \in Uncached
           \/ <<w, c[1]>> \in LeftCached
           \/ \E d \in a.drops : d = c \/ \E x, y : c = <<x, y>> /\ d = <<x>>

LEMMA BookingWritesDrop ==
  ASSUME NEW f, NEW w
  PROVE  /\ Dropped(w, createDeskBooking(f)) /\ Dropped(w, cancelDeskBooking(f))
         /\ Dropped(w, cancelMyBooking(f))
         /\ Dropped(w, createRoomBooking(f)) /\ Dropped(w, cancelRoomBooking(f))
BY DEF Dropped, Write, createDeskBooking, cancelDeskBooking, cancelMyBooking, createRoomBooking,
       cancelRoomBooking, invalidateBookingCaches, invalidateRoomBookingCaches

LEMMA DeskWritesDrop ==
  ASSUME NEW f, NEW w
  PROVE  Dropped(w, createDesk(f)) /\ Dropped(w, updateDesk(f)) /\ Dropped(w, deleteDesk(f))
BY DEF Dropped, Write, createDesk, updateDesk, deleteDesk, invalidateDeskCaches,
       invalidateBookingCaches

LEMMA LayoutWritesDrop ==
  ASSUME NEW f
  PROVE  /\ Dropped("applyEnhancePlan", applyEnhancePlan(f))
         /\ Dropped("undoEnhanceRun", undoEnhanceRun(f))
         /\ Dropped("retryEnhanceRun", retryEnhanceRun(f))
         /\ Dropped("createLayoutObject", createLayoutObject(f))
         /\ Dropped("updateLayoutObject", updateLayoutObject(f))
         /\ Dropped("deleteLayoutObject", deleteLayoutObject(f))
BY DEF Dropped, LeftCached, Write, createLayoutObject, updateLayoutObject, deleteLayoutObject,
       applyEnhancePlan, undoEnhanceRun, retryEnhanceRun

LEMMA OfficeWritesDrop ==
  ASSUME NEW o, NEW w
  PROVE  /\ Dropped(w, createOffice(o)) /\ Dropped(w, createFloor(o)) /\ Dropped(w, updateFloor(o))
         /\ Dropped(w, setFloorStatus(o))
BY DEF Dropped, Write, createOffice, createFloor, updateFloor, setFloorStatus

LEMMA InvitationWritesDrop ==
  ASSUME NEW o
  PROVE  /\ Dropped("createInvitation", createInvitation(o))
         /\ Dropped("cancelInvitation", cancelInvitation(o))
         /\ Dropped("resendInvitation", resendInvitation(o))
         /\ Dropped("acceptInvitation", acceptInvitation)
BY DEF Dropped, Uncached, LeftCached, Write, createInvitation, cancelInvitation, resendInvitation,
       acceptInvitation, invalidateOrgScopedCaches

LEMMA ProfileWritesDrop ==
  /\ Dropped("updateProfile", updateProfile) /\ Dropped("uploadAvatar", uploadAvatar)
  /\ Dropped("removeAvatar", removeAvatar)
BY DEF Dropped, Uncached, LeftCached, Write, updateProfile, uploadAvatar, removeAvatar

\* The exceptions are exact: of the lists that may be cached, function w leaves cached those
\* that its write changes and that it has no invalidation for.
Names(prefixes, n) == \E t \in prefixes : t[1] = n

CachedLists == {"desks", "layoutObjects", "rooms", "deskBookings", "roomBookings", "myBookings",
                "myRoomBookings", "offices", "floors", "summary"}

Exact(w, a) ==
    \A n \in CachedLists :
        <<w, n>> \in LeftCached <=> Names(a.changes, n) /\ ~Names(a.drops, n)

LEMMA First == (\A x : <<x>>[1] = x) /\ (\A x, y : <<x, y>>[1] = x)
OBVIOUS

LEMMA WhatIsLeft ==
  ASSUME NEW w, NEW n
  PROVE  <<w, n>> \in LeftCached
           <=> \/ w = "createLayoutObject" /\ n = "desks"
               \/ w = "updateLayoutObject" /\ n \in {"desks", "rooms"}
               \/ w = "deleteLayoutObject" /\ n \in {"desks", "deskBookings", "myBookings"}
               \/ w \in {"createInvitation", "cancelInvitation"} /\ n = "summary"
               \/ w = "acceptInvitation" /\ n = "myRoomBookings"
               \/ /\ w \in {"updateProfile", "uploadAvatar", "removeAvatar"}
                  /\ n \in {"deskBookings", "roomBookings", "myBookings", "myRoomBookings"}
BY DEF LeftCached

LEMMA BookingWritesExact ==
  ASSUME NEW f
  PROVE  /\ Exact("createDeskBooking", createDeskBooking(f))
         /\ Exact("cancelDeskBooking", cancelDeskBooking(f))
         /\ Exact("cancelMyBooking", cancelMyBooking(f))
         /\ Exact("createRoomBooking", createRoomBooking(f))
         /\ Exact("cancelRoomBooking", cancelRoomBooking(f))
<1>1. Exact("createDeskBooking", createDeskBooking(f))
  <2>1. \A n : Names(createDeskBooking(f).changes, n) <=> n \in {"deskBookings", "myBookings"}
    BY First DEF Names, Write, createDeskBooking
  <2>2. \A n : Names(createDeskBooking(f).drops, n) <=> n \in {"deskBookings", "myBookings"}
    BY First DEF Names, Write, createDeskBooking, invalidateBookingCaches
  <2>3. QED
    BY <2>1, <2>2, WhatIsLeft DEF Exact, CachedLists
<1>2. Exact("cancelDeskBooking", cancelDeskBooking(f))
  <2>1. \A n : Names(cancelDeskBooking(f).changes, n) <=> n \in {"deskBookings", "myBookings"}
    BY First DEF Names, Write, cancelDeskBooking
  <2>2. \A n : Names(cancelDeskBooking(f).drops, n) <=> n \in {"deskBookings", "myBookings"}
    BY First DEF Names, Write, cancelDeskBooking, invalidateBookingCaches
  <2>3. QED
    BY <2>1, <2>2, WhatIsLeft DEF Exact, CachedLists
<1>3. Exact("cancelMyBooking", cancelMyBooking(f))
  <2>1. \A n : Names(cancelMyBooking(f).changes, n) <=> n \in {"deskBookings", "myBookings"}
    BY First DEF Names, Write, cancelMyBooking
  <2>2. \A n : Names(cancelMyBooking(f).drops, n) <=> n \in {"deskBookings", "myBookings"}
    BY First DEF Names, Write, cancelMyBooking, invalidateBookingCaches
  <2>3. QED
    BY <2>1, <2>2, WhatIsLeft DEF Exact, CachedLists
<1>4. Exact("createRoomBooking", createRoomBooking(f))
  <2>1. \A n : Names(createRoomBooking(f).changes, n) <=> n \in {"roomBookings", "myRoomBookings"}
    BY First DEF Names, Write, createRoomBooking
  <2>2. \A n : Names(createRoomBooking(f).drops, n) <=> n \in {"roomBookings", "myRoomBookings"}
    BY First DEF Names, Write, createRoomBooking, invalidateRoomBookingCaches
  <2>3. QED
    BY <2>1, <2>2, WhatIsLeft DEF Exact, CachedLists
<1>5. Exact("cancelRoomBooking", cancelRoomBooking(f))
  <2>1. \A n : Names(cancelRoomBooking(f).changes, n) <=> n \in {"roomBookings", "myRoomBookings"}
    BY First DEF Names, Write, cancelRoomBooking
  <2>2. \A n : Names(cancelRoomBooking(f).drops, n) <=> n \in {"roomBookings", "myRoomBookings"}
    BY First DEF Names, Write, cancelRoomBooking, invalidateRoomBookingCaches
  <2>3. QED
    BY <2>1, <2>2, WhatIsLeft DEF Exact, CachedLists
<1>6. QED
  BY <1>1, <1>2, <1>3, <1>4, <1>5

LEMMA DeskWritesExact ==
  ASSUME NEW f
  PROVE  /\ Exact("createDesk", createDesk(f))
         /\ Exact("updateDesk", updateDesk(f))
         /\ Exact("deleteDesk", deleteDesk(f))
<1>1. Exact("createDesk", createDesk(f))
  <2>1. \A n : Names(createDesk(f).changes, n) <=> n \in {"desks", "summary"}
    BY First DEF Names, Write, createDesk
  <2>2. \A n : Names(createDesk(f).drops, n) <=> n \in {"desks", "summary"}
    BY First DEF Names, Write, createDesk, invalidateDeskCaches
  <2>3. QED
    BY <2>1, <2>2, WhatIsLeft DEF Exact, CachedLists
<1>2. Exact("updateDesk", updateDesk(f))
  <2>1. \A n : Names(updateDesk(f).changes, n) <=> n \in {"desks", "deskBookings", "myBookings"}
    BY First DEF Names, Write, updateDesk
  <2>2. \A n : Names(updateDesk(f).drops, n)
          <=> n \in {"desks", "summary", "deskBookings", "myBookings"}
    BY First DEF Names, Write, updateDesk, invalidateDeskCaches, invalidateBookingCaches
  <2>3. QED
    BY <2>1, <2>2, WhatIsLeft DEF Exact, CachedLists
<1>3. Exact("deleteDesk", deleteDesk(f))
  <2>1. \A n : Names(deleteDesk(f).changes, n)
          <=> n \in {"desks", "summary", "deskBookings", "myBookings"}
    BY First DEF Names, Write, deleteDesk
  <2>2. \A n : Names(deleteDesk(f).drops, n)
          <=> n \in {"desks", "summary", "deskBookings", "myBookings"}
    BY First DEF Names, Write, deleteDesk, invalidateDeskCaches, invalidateBookingCaches
  <2>3. QED
    BY <2>1, <2>2, WhatIsLeft DEF Exact, CachedLists
<1>4. QED
  BY <1>1, <1>2, <1>3

LEMMA LayoutWritesExact ==
  ASSUME NEW f
  PROVE  /\ Exact("applyEnhancePlan", applyEnhancePlan(f))
         /\ Exact("undoEnhanceRun", undoEnhanceRun(f))
         /\ Exact("retryEnhanceRun", retryEnhanceRun(f))
         /\ Exact("createLayoutObject", createLayoutObject(f))
         /\ Exact("updateLayoutObject", updateLayoutObject(f))
         /\ Exact("deleteLayoutObject", deleteLayoutObject(f))
<1>1. Exact("applyEnhancePlan", applyEnhancePlan(f))
  <2>1. \A n : Names(applyEnhancePlan(f).changes, n) <=> n \in {"layoutObjects"}
    BY First DEF Names, Write, applyEnhancePlan
  <2>2. \A n : Names(applyEnhancePlan(f).drops, n) <=> n \in {"layoutObjects"}
    BY First DEF Names, Write, applyEnhancePlan
  <2>3. QED
    BY <2>1, <2>2, WhatIsLeft DEF Exact, CachedLists
<1>2. Exact("undoEnhanceRun", undoEnhanceRun(f))
  <2>1. \A n : Names(undoEnhanceRun(f).changes, n) <=> n \in {"layoutObjects"}
    BY First DEF Names, Write, undoEnhanceRun
  <2>2. \A n : Names(undoEnhanceRun(f).drops, n) <=> n \in {"layoutObjects"}
    BY First DEF Names, Write, undoEnhanceRun
  <2>3. QED
    BY <2>1, <2>2, WhatIsLeft DEF Exact, CachedLists
<1>3. Exact("retryEnhanceRun", retryEnhanceRun(f))
  <2>1. \A n : Names(retryEnhanceRun(f).changes, n) <=> n \in {"layoutObjects"}
    BY First DEF Names, Write, retryEnhanceRun
  <2>2. \A n : Names(retryEnhanceRun(f).drops, n) <=> n \in {"layoutObjects"}
    BY First DEF Names, Write, retryEnhanceRun
  <2>3. QED
    BY <2>1, <2>2, WhatIsLeft DEF Exact, CachedLists
<1>4. Exact("createLayoutObject", createLayoutObject(f))
  <2>1. \A n : Names(createLayoutObject(f).changes, n)
          <=> n \in {"layoutObjects", "summary", "desks"}
    BY First DEF Names, Write, createLayoutObject
  <2>2. \A n : Names(createLayoutObject(f).drops, n) <=> n \in {"layoutObjects", "summary"}
    BY First DEF Names, Write, createLayoutObject
  <2>3. QED
    BY <2>1, <2>2, WhatIsLeft DEF Exact, CachedLists
<1>5. Exact("updateLayoutObject", updateLayoutObject(f))
  <2>1. \A n : Names(updateLayoutObject(f).changes, n) <=> n \in {"layoutObjects", "desks", "rooms"}
    BY First DEF Names, Write, updateLayoutObject
  <2>2. \A n : Names(updateLayoutObject(f).drops, n) <=> n \in {"layoutObjects"}
    BY First DEF Names, Write, updateLayoutObject
  <2>3. QED
    BY <2>1, <2>2, WhatIsLeft DEF Exact, CachedLists
<1>6. Exact("deleteLayoutObject", deleteLayoutObject(f))
  <2>1. \A n : Names(deleteLayoutObject(f).changes, n)
          <=> n \in {"layoutObjects", "summary", "desks", "deskBookings", "myBookings"}
    BY First DEF Names, Write, deleteLayoutObject
  <2>2. \A n : Names(deleteLayoutObject(f).drops, n) <=> n \in {"layoutObjects", "summary"}
    BY First DEF Names, Write, deleteLayoutObject
  <2>3. QED
    BY <2>1, <2>2, WhatIsLeft DEF Exact, CachedLists
<1>7. QED
  BY <1>1, <1>2, <1>3, <1>4, <1>5, <1>6

LEMMA OfficeWritesExact ==
  ASSUME NEW o
  PROVE  /\ Exact("createOffice", createOffice(o))
         /\ Exact("createFloor", createFloor(o))
         /\ Exact("updateFloor", updateFloor(o))
         /\ Exact("setFloorStatus", setFloorStatus(o))
<1>1. Exact("createOffice", createOffice(o))
  <2>1. \A n : Names(createOffice(o).changes, n) <=> n \in {"offices", "summary"}
    BY First DEF Names, Write, createOffice
  <2>2. \A n : Names(createOffice(o).drops, n) <=> n \in {"offices", "summary"}
    BY First DEF Names, Write, createOffice
  <2>3. QED
    BY <2>1, <2>2, WhatIsLeft DEF Exact, CachedLists
<1>2. Exact("createFloor", createFloor(o))
  <2>1. \A n : Names(createFloor(o).changes, n) <=> n \in {"floors", "summary"}
    BY First DEF Names, Write, createFloor
  <2>2. \A n : Names(createFloor(o).drops, n) <=> n \in {"floors", "summary"}
    BY First DEF Names, Write, createFloor
  <2>3. QED
    BY <2>1, <2>2, WhatIsLeft DEF Exact, CachedLists
<1>3. Exact("updateFloor", updateFloor(o))
  <2>1. \A n : Names(updateFloor(o).changes, n) <=> n \in {"floors"}
    BY First DEF Names, Write, updateFloor
  <2>2. \A n : Names(updateFloor(o).drops, n) <=> n \in {"floors"}
    BY First DEF Names, Write, updateFloor
  <2>3. QED
    BY <2>1, <2>2, WhatIsLeft DEF Exact, CachedLists
<1>4. Exact("setFloorStatus", setFloorStatus(o))
  <2>1. \A n : Names(setFloorStatus(o).changes, n) <=> n \in {"floors"}
    BY First DEF Names, Write, setFloorStatus
  <2>2. \A n : Names(setFloorStatus(o).drops, n) <=> n \in {"floors", "summary"}
    BY First DEF Names, Write, setFloorStatus, updateFloor
  <2>3. QED
    BY <2>1, <2>2, WhatIsLeft DEF Exact, CachedLists
<1>5. QED
  BY <1>1, <1>2, <1>3, <1>4

LEMMA InvitationWritesExact ==
  ASSUME NEW o
  PROVE  /\ Exact("createInvitation", createInvitation(o))
         /\ Exact("cancelInvitation", cancelInvitation(o))
         /\ Exact("resendInvitation", resendInvitation(o))
         /\ Exact("acceptInvitation", acceptInvitation)
<1>1. Exact("createInvitation", createInvitation(o))
  <2>1. \A n : Names(createInvitation(o).changes, n) <=> n \in {"invitations", "summary"}
    BY First DEF Names, Write, createInvitation
  <2>2. \A n : Names(createInvitation(o).drops, n) <=> n \in {}
    BY First DEF Names, Write, createInvitation
  <2>3. QED
    BY <2>1, <2>2, WhatIsLeft DEF Exact, CachedLists
<1>2. Exact("cancelInvitation", cancelInvitation(o))
  <2>1. \A n : Names(cancelInvitation(o).changes, n) <=> n \in {"invitations", "summary"}
    BY First DEF Names, Write, cancelInvitation
  <2>2. \A n : Names(cancelInvitation(o).drops, n) <=> n \in {}
    BY First DEF Names, Write, cancelInvitation
  <2>3. QED
    BY <2>1, <2>2, WhatIsLeft DEF Exact, CachedLists
<1>3. Exact("resendInvitation", resendInvitation(o))
  <2>1. \A n : Names(resendInvitation(o).changes, n) <=> n \in {"invitations"}
    BY First DEF Names, Write, resendInvitation
  <2>2. \A n : Names(resendInvitation(o).drops, n) <=> n \in {}
    BY First DEF Names, Write, resendInvitation
  <2>3. QED
    BY <2>1, <2>2, WhatIsLeft DEF Exact, CachedLists
<1>4. Exact("acceptInvitation", acceptInvitation)
  <2>1. \A n : Names(acceptInvitation.changes, n)
          <=> n \in {"offices", "summary", "members", "invitations", "pending", "myBookings", "myRoomBookings"}
    BY First DEF Names, Write, acceptInvitation
  <2>2. \A n : Names(acceptInvitation.drops, n)
          <=> n \in {"offices", "summary", "floors", "desks", "deskBookings", "myBookings"}
    BY First DEF Names, Write, acceptInvitation, invalidateOrgScopedCaches
  <2>3. QED
    BY <2>1, <2>2, WhatIsLeft DEF Exact, CachedLists
<1>5. QED
  BY <1>1, <1>2, <1>3, <1>4

LEMMA ProfileWritesExact ==
  /\ Exact("updateProfile", updateProfile)
  /\ Exact("uploadAvatar", uploadAvatar)
  /\ Exact("removeAvatar", removeAvatar)
<1>1. Exact("updateProfile", updateProfile)
  <2>1. \A n : Names(updateProfile.changes, n)
          <=> n \in {"deskBookings", "roomBookings", "myBookings", "myRoomBookings", "members"}
    BY First DEF Names, Write, updateProfile
  <2>2. \A n : Names(updateProfile.drops, n) <=> n \in {}
    BY First DEF Names, Write, updateProfile
  <2>3. QED
    BY <2>1, <2>2, WhatIsLeft DEF Exact, CachedLists
<1>2. Exact("uploadAvatar", uploadAvatar)
  <2>1. \A n : Names(uploadAvatar.changes, n)
          <=> n \in {"deskBookings", "roomBookings", "myBookings", "myRoomBookings", "members"}
    BY First DEF Names, Write, uploadAvatar, updateProfile
  <2>2. \A n : Names(uploadAvatar.drops, n) <=> n \in {}
    BY First DEF Names, Write, uploadAvatar, updateProfile
  <2>3. QED
    BY <2>1, <2>2, WhatIsLeft DEF Exact, CachedLists
<1>3. Exact("removeAvatar", removeAvatar)
  <2>1. \A n : Names(removeAvatar.changes, n)
          <=> n \in {"deskBookings", "roomBookings", "myBookings", "myRoomBookings", "members"}
    BY First DEF Names, Write, removeAvatar, updateProfile
  <2>2. \A n : Names(removeAvatar.drops, n) <=> n \in {}
    BY First DEF Names, Write, removeAvatar, updateProfile
  <2>3. QED
    BY <2>1, <2>2, WhatIsLeft DEF Exact, CachedLists
<1>4. QED
  BY <1>1, <1>2, <1>3

LEMMA WritesDrop ==
  ASSUME NEW w \in DOMAIN Writes
  PROVE  Dropped(w, Writes[w])
<1>1. w \in DOMAIN ApiWrites /\ Writes[w] \in ApiWrites[w]
  BY WritesAssumption
<1>2. CASE w \in {"createDeskBooking", "cancelDeskBooking", "cancelMyBooking",
                  "createRoomBooking", "cancelRoomBooking"}
  BY <1>1, <1>2, BookingWritesDrop DEF ApiWrites
<1>3. CASE w \in {"createDesk", "updateDesk", "deleteDesk"}
  BY <1>1, <1>3, DeskWritesDrop DEF ApiWrites
<1>4. CASE w \in {"createLayoutObject", "updateLayoutObject", "deleteLayoutObject",
                  "applyEnhancePlan", "undoEnhanceRun", "retryEnhanceRun"}
  BY <1>1, <1>4, LayoutWritesDrop DEF ApiWrites
<1>5. CASE w \in {"createOffice", "createFloor", "updateFloor", "setFloorStatus"}
  BY <1>1, <1>5, OfficeWritesDrop DEF ApiWrites
<1>6. CASE w \in {"createInvitation", "cancelInvitation", "resendInvitation", "acceptInvitation"}
  BY <1>1, <1>6, InvitationWritesDrop DEF ApiWrites
<1>7. CASE w \in {"updateProfile", "uploadAvatar", "removeAvatar"}
  BY <1>1, <1>7, ProfileWritesDrop DEF ApiWrites
<1>8. QED
  BY <1>1, <1>2, <1>3, <1>4, <1>5, <1>6, <1>7 DEF ApiWrites

\* What a write changes and the cache holds, it drops, but for what it leaves cached.
LEMMA CachedIsDropped ==
  ASSUME TypeOK, OnlyCached, NEW w \in DOMAIN Writes,
         NEW k \in Covered(Writes[w].changes), <<w, k[1]>> \notin LeftCached, store[k] # Nothing
  PROVE  k \in Covered(Writes[w].drops)
<1>1. k \in Keys
  BY DEF Covered
<1>2. PICK c \in Writes[w].changes : IsPrefix(c, k)
  BY DEF Covered
<1>3. PICK v \in Views : hook(v).cached /\ k \in KeysOf(hook(v))
  BY <1>1 DEF OnlyCached
<1> DEFINE h == mounted[v]
<1>4. h \in DOMAIN Hooks /\ Hooks[h].cached /\ k \in KeysOf(Hooks[h])
  BY <1>3, PagesAssumption DEF TypeOK, Views, hook
<1> HIDE DEF h
<1>5. Len(k) \in Nat /\ k[1] \notin Uncached
  BY <1>4, KeyIsSeq, CachedList
<1>6. Dropped(w, Writes[w])
  BY WritesDrop
<1>7. k[1] = c[1]
  <2>1. \A x : c = <<x>> => k[1] = x
    BY <1>2, FirstOfPrefix
  <2>2. ASSUME NEW x, NEW y, c = <<x, y>> PROVE k[1] = x
    BY <1>2, <1>5, <2>2, FirstPart, FirstOfPrefix
  <2>3. (\E x : c = <<x>>) \/ (\E x, y : c = <<x, y>>)
    BY <1>6 DEF Dropped
  <2>4. CASE \E x : c = <<x>>
    BY <2>1, <2>4
  <2>5. CASE \E x, y : c = <<x, y>>
    BY <2>2, <2>5
  <2>6. QED
    BY <2>3, <2>4, <2>5
<1>8. PICK d \in Writes[w].drops : d = c \/ \E x, y : c = <<x, y>> /\ d = <<x>>
  BY <1>5, <1>6, <1>7 DEF Dropped
<1>9. IsPrefix(d, k)
  BY <1>2, <1>5, <1>8, FirstPart
<1>10. QED
  BY <1>1, <1>9 DEF Covered

OwnSound == OwnEnded /\ OnlyCached /\ OwnWriteDropsLists

LEMMA ViewActOwn ==
  ASSUME TypeOK, AnsweredHasKey, OwnSound, NEW v \in Views, ViewActs(v)
  PROVE  OwnSound'
<1>1. UNCHANGED <<mounted, done, own>>
  BY ViewOthers
<1>2. Keys' = Keys /\ Views' = Views
      /\ \A u \in Views : hook(u)' = hook(u) /\ KeysOf(hook(u))' = KeysOf(hook(u))
  BY <1>1, SameShapes
<1>3. \A k \in Keys : \/ store'[k] = store[k]
                      \/ /\ hook(v).cached /\ k \in KeysOf(hook(v))
                         /\ store'[k].stored = done
  <2>1. CASE Arrive(v)
    <3> DEFINE f == view[v].fetch
    <3>1. f.key \in KeysOf(hook(v))
      BY <2>1, ArriveTyped
    <3>2. store' = IF hook(v).cached
                   THEN [store EXCEPT ![f.key] = [ver |-> f.ver, stored |-> done]] ELSE store
      BY <2>1 DEF Arrive
    <3> HIDE DEF f
    <3>3. QED
      BY <3>1, <3>2 DEF TypeOK
  <2>2. CASE ~Arrive(v)
    BY <2>2 DEF ViewActs, Refresh, RunEffect, Serve, Fail, ChangeScope, Remount
  <2>3. QED
    BY <2>1, <2>2
<1>4. \A k \in Keys : own[k].at <= done /\ own[k].at \in Nat /\ done \in Nat
  BY BoundsAssumption DEF OwnSound, OwnEnded, TypeOK
<1>5. \A k \in Keys : store'[k] # Nothing => \E u \in Views : hook(u).cached /\ k \in KeysOf(hook(u))
  BY <1>3 DEF OwnSound, OnlyCached
<1>6. \A k \in Keys : store'[k] # Nothing /\ store'[k].ver < own[k].ver => store'[k].stored >= own[k].at
  BY <1>3, <1>4 DEF OwnSound, OwnWriteDropsLists
<1>7. OwnEnded' /\ OwnWriteDropsLists'
  BY <1>1, <1>2, <1>4, <1>6 DEF OwnEnded, OwnWriteDropsLists
<1>8. OnlyCached'
  BY <1>2, <1>5 DEF OnlyCached
<1>9. QED
  BY <1>7, <1>8 DEF OwnSound

LEMMA WriteActOwn ==
  ASSUME TypeOK, Counted, OwnSound, WriteActs
  PROVE  OwnSound'
<1>1. Keys' = Keys /\ Views' = Views
      /\ \A u \in Views : hook(u)' = hook(u) /\ KeysOf(hook(u))' = KeysOf(hook(u))
  BY WriteOthers, SameShapes
<1>2. /\ done \in Nat /\ done' \in Nat /\ done' >= done
      /\ \A k \in Keys : own[k].at \in Nat
  <2>1. done' \in {done, done + 1}
    BY DEF WriteActs, StartWrite, ServeWrite, EndWrite, FailWrite, Expire, Elsewhere, server
  <2>2. QED
    BY <2>1, BoundsAssumption DEF TypeOK
<1>3. CASE EndWrite
  <2> DEFINE w == write.op
             changed == Covered(Writes[w].changes)
  <2>1. w \in DOMAIN Writes /\ done' = done + 1
    BY <1>3 DEF EndWrite, TypeOK
  <2>2. \A k \in Keys : store'[k] # Nothing => store'[k] = store[k] /\ k \notin Covered(Writes[w].drops)
    BY <1>3 DEF EndWrite, invalidateCache
  <2>3. \A k \in Keys : own'[k] = IF k \in changed /\ <<w, k[1]>> \notin LeftCached
                                  THEN [ver |-> write.made[k], at |-> done + 1] ELSE own[k]
    BY <1>3 DEF EndWrite
  <2>4. ASSUME NEW k \in Keys, store'[k] # Nothing PROVE own'[k] = own[k]
    BY <2>1, <2>2, <2>3, <2>4, CachedIsDropped DEF OwnSound
  <2>5. \A k \in Keys : own'[k].at <= done'
    <3> HIDE DEF w, changed
    <3>1. ASSUME NEW k \in Keys, k \in changed /\ <<w, k[1]>> \notin LeftCached PROVE own'[k].at = done + 1
      <4>1. own'[k] = [ver |-> write.made[k], at |-> done + 1]
        BY <2>3, <3>1
      <4>2. QED
        BY <4>1
    <3>2. ASSUME NEW k \in Keys, ~(k \in changed /\ <<w, k[1]>> \notin LeftCached) PROVE own'[k].at = own[k].at
      BY <2>3, <3>2
    <3>3. \A k \in Keys : own[k].at <= done
      BY DEF OwnSound, OwnEnded
    <3>4. ASSUME NEW k \in Keys PROVE own'[k].at <= done'
      <4>1. CASE k \in changed /\ <<w, k[1]>> \notin LeftCached
        BY <1>2, <2>1, <3>1, <4>1
      <4>2. CASE ~(k \in changed /\ <<w, k[1]>> \notin LeftCached)
        BY <1>2, <2>1, <3>2, <3>3, <4>2
      <4>3. QED
        BY <4>1, <4>2
    <3>5. QED
      BY <3>4
  <2>6. OwnEnded' /\ OwnWriteDropsLists'
    BY <1>1, <2>2, <2>4, <2>5 DEF OwnSound, OwnEnded, OwnWriteDropsLists
  <2>7. OnlyCached'
    BY <1>1, <2>2 DEF OwnSound, OnlyCached
  <2>8. QED
    BY <2>6, <2>7 DEF OwnSound
<1>4. CASE ~EndWrite
  <2>1. own' = own /\ \A k \in Keys : store'[k] = store[k] \/ store'[k] = Nothing
    <3>1. CASE \E k \in Keys : Expire(k)
      BY <3>1 DEF Expire, server, TypeOK
    <3>2. CASE ~\E k \in Keys : Expire(k)
      BY <1>4, <3>2 DEF WriteActs, StartWrite, ServeWrite, FailWrite, Elsewhere
    <3>3. QED
      BY <3>1, <3>2
  <2>2. OwnEnded'
    BY <1>1, <1>2, <2>1 DEF OwnSound, OwnEnded
  <2>3. OnlyCached'
    BY <1>1, <2>1 DEF OwnSound, OnlyCached
  <2>4. OwnWriteDropsLists'
    BY <1>1, <2>1 DEF OwnSound, OwnWriteDropsLists
  <2>5. QED
    BY <2>2, <2>3, <2>4 DEF OwnSound
<1>5. QED
  BY <1>3, <1>4
----------------------------------------------------------------------------
(* The invariant *)

LEMMA InvSplits == Inv <=> TypeOK /\ Counted /\ ViewsSound /\ OwnSound
BY DEF Inv, ViewsSound, OwnSound

LEMMA InitInv == Init => Inv
<1> SUFFICES ASSUME Init PROVE Inv
  OBVIOUS
<1> USE DEF Init
<1>1. /\ store = [k \in Keys |-> Nothing] /\ ver = [k \in Keys |-> 0]
      /\ own = [k \in Keys |-> [ver |-> 0, at |-> 0]]
      /\ write = Nothing /\ done = 0 /\ others = 0 /\ acts = 0
  OBVIOUS
<1>2. PICK scope \in [Views -> UNION {ScopesOf(v) : v \in Views}] :
        /\ \A v \in Views : scope[v] \in ScopesOf(v)
        /\ view = [v \in Views |-> Fresh(scope[v])]
  OBVIOUS
<1>3. \A v \in Views : ViewTyped(v, view[v]) /\ view[v] = Fresh(scope[v])
  BY <1>2, FreshTyped
<1>4. TypeOK
  BY <1>1, <1>2, <1>3, VersionsNat, BoundsAssumption DEF TypeOK, ViewTyped
<1>5. Counted
  BY <1>1 DEF Counted, Made
<1>6. ViewsSound
  <2>1. ASSUME NEW v \in Views PROVE ViewSound(v, view[v], ver)
    <3>1. view[v].scope # Absent => KeyIn(v, view[v]) \in Keys
      BY <1>3, <1>4, KeyTyped
    <3>2. QED
      BY <1>1, <1>3, <3>1 DEF ViewSound, Fresh
  <2>2. QED
    BY <2>1, SoundViews
<1>7. OwnSound
  BY <1>1 DEF OwnSound, OwnEnded, OnlyCached, OwnWriteDropsLists
<1>8. QED
  BY <1>4, <1>5, <1>6, <1>7, InvSplits

LEMMA StutterInv == Inv /\ UNCHANGED vars => Inv'
<1> SUFFICES ASSUME Inv, UNCHANGED vars PROVE Inv'
  OBVIOUS
<1> USE DEF vars
<1>1. Keys' = Keys /\ Views' = Views /\ ViewState' = ViewState
      /\ \A v \in Views : /\ hook(v)' = hook(v) /\ ScopesOf(v)' = ScopesOf(v)
                          /\ KeysOf(hook(v))' = KeysOf(hook(v))
  BY SameShapes
<1>2. \A v \in Views : ViewSound(v, view'[v], ver')
  BY SoundViews, InvSplits
<1>3. ViewsSound'
  BY <1>2, SoundAfter
<1>4. TypeOK'
  BY <1>1 DEF Inv, TypeOK, Versions
<1>5. Counted' /\ OwnSound'
  BY <1>1 DEF Inv, Counted, Made, OwnSound, OwnEnded, OnlyCached, OwnWriteDropsLists
<1>6. QED
  BY <1>3, <1>4, <1>5 DEF Inv, ViewsSound, OwnSound

LEMMA ViewActCounted ==
  ASSUME TypeOK, Counted, NEW v \in Views, ViewActs(v)
  PROVE  Counted'
<1>1. UNCHANGED <<mounted, ver, write, done, own, others>>
  BY ViewOthers
<1>2. Keys' = Keys /\ Made' = Made
  BY <1>1, SameShapes DEF Made
<1>3. QED
  BY <1>1, <1>2 DEF Counted

LEMMA NextInv == Inv /\ Next => Inv'
<1> SUFFICES ASSUME Inv, Next PROVE Inv'
  OBVIOUS
<1>1. TypeOK /\ Counted /\ ViewsSound /\ OwnSound /\ AnsweredHasKey
  BY DEF Inv, ViewsSound, OwnSound
<1>2. ASSUME NEW v \in Views, ViewActs(v) PROVE TypeOK' /\ Counted' /\ ViewsSound' /\ OwnSound'
  BY <1>1, <1>2, ViewActTyped, ViewActCounted, ViewActSound, ViewActOwn
<1>3. ASSUME WriteActs PROVE TypeOK' /\ Counted' /\ ViewsSound' /\ OwnSound'
  <2>1. Keys' = Keys
    BY <1>3, WriteOthers, SameShapes
  <2>2. Counted'
    BY <1>1, <1>3, <2>1, WriteCounted DEF Counted
  <2>3. QED
    BY <1>1, <1>3, <2>2, WriteActTyped, WriteActSound, WriteActOwn
<1>4. TypeOK' /\ Counted' /\ ViewsSound' /\ OwnSound'
  BY <1>2, <1>3, NextSplits
<1>5. QED
  BY <1>4 DEF Inv, ViewsSound, OwnSound

LEMMA Invariance == Spec => []Inv
<1>1. Inv /\ [Next]_vars => Inv'
  BY NextInv, StutterInv
<1>2. QED
  BY InitInv, <1>1, PTL DEF Spec

\* Types: every variable of the cache and of the views keeps its shape, and a view handles
\* the keys of its own list only.
THEOREM TypeCorrect == Spec => []TypeOK
<1>1. Inv => TypeOK
  BY DEF Inv
<1>2. QED
  BY <1>1, Invariance, PTL

\* The cancelled flags of the hooks do their work on every page: what a settled view shows
\* is the list of the ids it was given.
THEOREM ShowsScope == Spec => []SettledShowsScope
<1>1. Inv => SettledShowsScope
  BY DEF Inv
<1>2. QED
  BY <1>1, Invariance, PTL

\* A refresh bypasses the cache and any answer that was on its way: what is shown after it
\* is at least as new as the list was when the user asked.
THEOREM RefreshShowsNew == Spec => []RefreshIsFresh
<1>1. Inv => RefreshIsFresh
  BY DEF Inv
<1>2. QED
  BY <1>1, Invariance, PTL

\* The exceptions are exact: an API function leaves a cached list alone that its write changes
\* precisely when LeftCached says so.
THEOREM LeftCachedIsExact ==
  \A w \in DOMAIN ApiWrites : \A a \in ApiWrites[w] : Exact(w, a)
<1> SUFFICES ASSUME NEW w \in DOMAIN ApiWrites, NEW a \in ApiWrites[w] PROVE Exact(w, a)
  OBVIOUS
<1>1. CASE w \in {"createDeskBooking", "cancelDeskBooking", "cancelMyBooking",
                  "createRoomBooking", "cancelRoomBooking"}
  BY <1>1, BookingWritesExact DEF ApiWrites
<1>2. CASE w \in {"createDesk", "updateDesk", "deleteDesk"}
  BY <1>2, DeskWritesExact DEF ApiWrites
<1>3. CASE w \in {"createLayoutObject", "updateLayoutObject", "deleteLayoutObject",
                  "applyEnhancePlan", "undoEnhanceRun", "retryEnhanceRun"}
  BY <1>3, LayoutWritesExact DEF ApiWrites
<1>4. CASE w \in {"createOffice", "createFloor", "updateFloor", "setFloorStatus"}
  BY <1>4, OfficeWritesExact DEF ApiWrites
<1>5. CASE w \in {"createInvitation", "cancelInvitation", "resendInvitation", "acceptInvitation"}
  BY <1>5, InvitationWritesExact DEF ApiWrites
<1>6. CASE w \in {"updateProfile", "uploadAvatar", "removeAvatar"}
  BY <1>6, ProfileWritesExact DEF ApiWrites
<1>7. QED
  BY <1>1, <1>2, <1>3, <1>4, <1>5, <1>6 DEF ApiWrites

\* For every hook, write and id the invalidations of the API functions cover what the writes
\* change, but for the lists of LeftCached: a cached list that misses a write of this client
\* was answered before the write and stored after it.
THEOREM WritesDropLists == Spec => []OwnWriteDropsLists
<1>1. Inv => OwnWriteDropsLists
  BY DEF Inv
<1>2. QED
  BY <1>1, Invariance, PTL
============================================================================
