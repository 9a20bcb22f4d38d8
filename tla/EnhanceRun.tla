------------------------------- MODULE EnhanceRun -------------------------------
(***************************************************************************)
(* Layout-enhancement runs on one floor: EnhanceRunService.apply, undo and *)
(* retry (offices/services/enhance_run_service.py), next to the endpoints  *)
(* that edit or delete one layout object (offices/views.py).               *)
(*                                                                         *)
(* As in DeskBooking a worker serves one request, each SQL statement is a  *)
(* step, PostgreSQL runs at READ COMMITTED, and obj and runs hold the      *)
(* COMMITTED rows.  A run reads every object of the floor BEFORE its       *)
(* transaction (seen), patches those copies in memory (mem), and each save *)
(* writes the whole copy and locks the row until the end (saved).          *)
(***************************************************************************)
EXTENDS Naturals, Sequences

CONSTANTS Workers,      \* request threads of the web processes
          Objects,      \* layout objects of the floor
          Fields,       \* geometry fields: x, y, width, height, rotation
          Values,       \* what a field can hold, at two decimals
          Origin,       \* the value every field starts with
          Inputs,       \* what a request can send for a field
          Validated,    \* what the serializer makes of it, by field
          Plans,        \* plan ids the clients generate
          Batches,      \* operation lists the clients submit
          RunIds,       \* bound: how many runs there can be
          Kinds,        \* the requests this instance serves
          None          \* an absent value; as an object id, one of another floor

RunKinds == {"apply", "undo", "retry"}
AllKinds == RunKinds \cup {"move", "rename", "delete"}

ASSUME KindsAssumption  == Kinds \subseteq AllKinds
ASSUME OriginAssumption == Origin \in Values
ASSUME NoneAssumption   == /\ None \notin Objects \cup Plans \cup RunIds
                           /\ None \notin Values
                           /\ None \notin AllKinds

\* A rotation is folded into one turn, a size that is not positive is rejected (None);
\* what is stored has been through this before and stays as it is.
ASSUME ValidatedAssumption ==
  /\ Values \subseteq Inputs
  /\ Validated \in [Fields -> [Inputs -> Values \cup {None}]]
  /\ \A f \in Fields, v \in Values : Validated[f][v] = v

VARIABLES obj,     \* FloorLayoutObject rows
          runs,    \* EnhanceRun rows with their EnhanceRunOperation rows
          pc,      \* the statement each worker runs next
          req,     \* the request it serves
          seen,    \* the object rows its request read
          mem,     \* the geometry of its copies, patched in memory
          saved,   \* the objects its open transaction has written
          rows     \* the operation rows it has built so far

vars == <<obj, runs, pc, req, seen, mem, saved, rows>>

--------------------------------------------------------------------------------
(* Rows, inputs and requests *)

Geometry == [Fields -> Values]

\* A geometry dict: some of the fields, {} included.
Dict(V) == UNION {[F -> V] : F \in SUBSET Fields}

EmptyDict == [f \in {} |-> None]

\* What a full-row save also writes: is_active, and whether the label was edited.
ObjRow == [active : BOOLEAN, geom : Geometry, renamed : BOOLEAN]

Operation == [obj : Objects \cup {None}, before : Dict(Inputs), patch : Dict(Inputs)]

ASSUME BatchesAssumption == Batches \subseteq Seq(Operation) \ {<< >>}

OpRow == [obj    : Objects \cup {None},
          status : {"applied", "failed", "skipped"},
          before : Dict(Inputs),
          after  : Dict(Values),
          patch  : Dict(Inputs)]

Run == [kind : RunKinds, plan : Plans \cup {None}, parent : RunIds \cup {None},
        status : {"success", "partial_success", "failed", "skipped"}, ops : Seq(OpRow)]

\* A row id that no INSERT has used yet.
NoRun == [kind |-> None, plan |-> None, parent |-> None, status |-> None, ops |-> << >>]

\* ops: what is left to do, as operations whatever the kind of run.
Request == [kind   : Kinds \cup {None},
            plan   : Plans \cup {None},
            parent : RunIds \cup {None},
            ops    : Seq(Operation),
            run    : RunIds \cup {None},
            obj    : Objects \cup {None},
            patch  : Dict(Values)]

NoRequest == [kind |-> None, plan |-> None, parent |-> None, ops |-> << >>,
              run |-> None, obj |-> None, patch |-> EmptyDict]

StartGeometry == [f \in Fields |-> Origin]
StartRow      == [active |-> TRUE, geom |-> StartGeometry, renamed |-> FALSE]

NoCopies == [o \in Objects |-> StartRow]
NoMem    == [o \in Objects |-> StartGeometry]

Steps == {"idle", "existing", "load", "operate", "commit", "lost", "write"}

--------------------------------------------------------------------------------
(* Helpers *)

\* _geometry_matches: only the fields present in the dict are compared.
Matches(g, dict) == \A f \in DOMAIN dict : g[f] = dict[f]

\* setattr of the validated fields.
Patched(g, dict) ==
  [f \in Fields |-> IF f \in DOMAIN dict THEN Validated[f][dict[f]] ELSE g[f]]

\* UpdateLayoutObjectSerializer(partial=True).is_valid().
Valid(dict) == \A f \in DOMAIN dict : Validated[f][dict[f]] # None

\* Mutated: only a successful prior run is replayed.
PriorSuccessful(n) ==
  {r \in RunIds : runs[r].kind = "apply" /\ runs[r].plan = n /\ runs[r].status = "success"}

\* filter(floor=floor, plan_id=plan_id, kind=APPLY)
Prior(n) == {r \in RunIds : runs[r].kind = "apply" /\ runs[r].plan = n}

\* The committed rows that uniq_floor_plan_id makes an INSERT collide with.
PlanRows(n) == {r \in RunIds : n # None /\ runs[r].plan = n}

Having(ops, s) == {i \in DOMAIN ops : ops[i].status = s}

\* Mutated: a run with skipped operations counts as a success.
RunStatusIgnoresSkipped(ops) ==
  CASE Having(ops, "applied") # {} /\ Having(ops, "failed") = {} -> "success"
    [] Having(ops, "applied") # {} /\ Having(ops, "failed") # {} -> "partial_success"
    [] Having(ops, "applied") = {} /\ Having(ops, "skipped") # {}
                                   /\ Having(ops, "failed") = {} -> "skipped"
    [] OTHER -> "failed"

\* _run_status; a run without operations is "failed".
RunStatus(ops) ==
  IF Having(ops, "applied") # {}
    THEN IF Having(ops, "applied") = DOMAIN ops THEN "success" ELSE "partial_success"
    ELSE IF ops # << >> /\ Having(ops, "failed") = {} THEN "skipped" ELSE "failed"

RowFree(p, o) == \A q \in Workers \ {p} : o \notin saved[q]

Op(p)    == req[p].ops[Len(rows[p]) + 1]
Pending(p) == Len(rows[p]) < Len(req[p].ops)

\* The copy of an object as it is in memory now.
Copy(p, o) == [seen[p][o] EXCEPT !.geom = mem[p][o]]

--------------------------------------------------------------------------------
(* Serving a request *)

Begin(p, r, copies, step) ==
  /\ pc[p] = "idle"
  /\ r.kind \in Kinds
  /\ req'  = [req EXCEPT ![p] = r]
  /\ seen' = [seen EXCEPT ![p] = copies]
  /\ pc'   = [pc EXCEPT ![p] = step]
  /\ UNCHANGED <<obj, runs, mem, saved, rows>>

Goto(p, step) ==
  /\ pc' = [pc EXCEPT ![p] = step]
  /\ UNCHANGED req

\* The open transaction is gone, and with it its locks, and the copies.
Forget(p) ==
  /\ seen'  = [seen EXCEPT ![p] = NoCopies]
  /\ mem'   = [mem EXCEPT ![p] = NoMem]
  /\ saved' = [saved EXCEPT ![p] = {}]
  /\ rows'  = [rows EXCEPT ![p] = << >>]

\* The response is sent.
Finish(p) ==
  /\ pc'  = [pc EXCEPT ![p] = "idle"]
  /\ req' = [req EXCEPT ![p] = NoRequest]
  /\ Forget(p)

\* A response that changes nothing, or a transaction that rolls back.
Answer(p) == Finish(p) /\ UNCHANGED <<obj, runs>>

\* An id that neither a row nor a request in flight uses (bound: RunIds).
Unused(r) == runs[r] = NoRun /\ \A p \in Workers : req[p].run # r

--------------------------------------------------------------------------------
(* Starting a run *)

StartApply(p, n, ops, r) ==
  /\ Unused(r)
  /\ Begin(p, [NoRequest EXCEPT !.kind = "apply", !.plan = n, !.ops = ops, !.run = r],
           NoCopies, "existing")

\* A prior run of the plan is replayed: its answer is rebuilt, nothing is written.
FindPrior(p) ==
  /\ pc[p] = "existing"
  /\ IF Prior(req[p].plan) # {}
       THEN Answer(p)
       ELSE Goto(p, "load") /\ UNCHANGED <<obj, runs, seen, mem, saved, rows>>

\* The operations of the parent that its child takes up, in order: their positions.
OpsWith(s, status) ==
  LET chosen == Having(runs[s].ops, status)
  IN  {at \in UNION {[1 .. n -> chosen] : n \in 0 .. Len(runs[s].ops)} :
         /\ \A i, j \in DOMAIN at : i < j => at[i] < at[j]
         /\ \A k \in chosen : \E i \in DOMAIN at : at[i] = k}

\* Mutated: BE-4 left out, the object is restored whatever it looks like now.
UndoOpsUnguarded(s, at) ==
  [i \in DOMAIN at |-> [obj    |-> runs[s].ops[at[i]].obj,
                        before |-> EmptyDict,
                        patch  |-> runs[s].ops[at[i]].before]]

\* undo: what was applied goes back, if the object is still where the run left it.
UndoOps(s, at) ==
  [i \in DOMAIN at |-> [obj    |-> runs[s].ops[at[i]].obj,
                        before |-> runs[s].ops[at[i]].after,
                        patch  |-> runs[s].ops[at[i]].before]]

\* retry: what failed is attempted again, without a stale check.
RetryOps(s, at) ==
  [i \in DOMAIN at |-> [obj    |-> runs[s].ops[at[i]].obj,
                        before |-> EmptyDict,
                        patch  |-> runs[s].ops[at[i]].patch]]

DerivedOps(kind, s) ==
  IF kind = "undo" THEN {UndoOps(s, at) : at \in OpsWith(s, "applied")}
                   ELSE {RetryOps(s, at) : at \in OpsWith(s, "failed")}

\* The source run is read with its operations, which never change; its absence is a 404.
StartDerived(p, kind, s, r) ==
  /\ runs[s] # NoRun
  /\ Unused(r)
  /\ \E ops \in DerivedOps(kind, s) :
       Begin(p, [NoRequest EXCEPT !.kind = kind, !.parent = s, !.ops = ops, !.run = r],
             NoCopies, "load")

\* objmap: all objects of the floor, before the transaction begins.
Load(p) ==
  /\ pc[p] = "load"
  /\ seen' = [seen EXCEPT ![p] = obj]
  /\ mem'  = [mem EXCEPT ![p] = [o \in Objects |-> obj[o].geom]]
  /\ Goto(p, "operate")
  /\ UNCHANGED <<obj, runs, saved, rows>>

--------------------------------------------------------------------------------
(* The operations, each in its savepoint *)

\* The operation row: apply keeps the client's before, undo and retry the geometry of
\* their copy.
OpRowOf(p, status, after) ==
  [obj    |-> Op(p).obj,
   status |-> status,
   before |-> IF req[p].kind = "apply" THEN Op(p).before
              ELSE IF Op(p).obj = None THEN EmptyDict
              ELSE mem[p][Op(p).obj],
   after  |-> after,
   patch  |-> Op(p).patch]

Report(p, status, after) == rows' = [rows EXCEPT ![p] = Append(@, OpRowOf(p, status, after))]

\* On this floor, active, and where the operation expects it: all judged on the copy.
Applicable(p) == /\ Op(p).obj \in Objects
                 /\ seen[p][Op(p).obj].active
                 /\ Matches(mem[p][Op(p).obj], Op(p).before)

Skip(p) ==
  /\ pc[p] = "operate"
  /\ Pending(p)
  /\ ~Applicable(p)
  /\ Report(p, "skipped", EmptyDict)
  /\ UNCHANGED <<obj, runs, pc, req, seen, mem, saved>>

\* Mutated: the row reports the rejected patch as what the object became.
RejectTellsTarget(p) ==
  /\ pc[p] = "operate"
  /\ Pending(p)
  /\ Applicable(p)
  /\ ~Valid(Op(p).patch)
  /\ Report(p, "failed", Op(p).patch)
  /\ UNCHANGED <<obj, runs, pc, req, seen, mem, saved>>

\* validation_error: the copy stays as it was.
Reject(p) ==
  /\ pc[p] = "operate"
  /\ Pending(p)
  /\ Applicable(p)
  /\ ~Valid(Op(p).patch)
  /\ Report(p, "failed", EmptyDict)
  /\ UNCHANGED <<obj, runs, pc, req, seen, mem, saved>>

\* The copy is patched, whether or not the row can then be written.
PatchCopy(p) ==
  /\ pc[p] = "operate"
  /\ Pending(p)
  /\ Applicable(p)
  /\ Valid(Op(p).patch)
  /\ mem' = [mem EXCEPT ![p][Op(p).obj] = Patched(@, Op(p).patch)]

\* obj.save() waits for the row lock and takes it.
Save(p) ==
  /\ PatchCopy(p)
  /\ RowFree(p, Op(p).obj)
  /\ saved' = [saved EXCEPT ![p] = @ \cup {Op(p).obj}]
  /\ Report(p, "applied", mem'[p][Op(p).obj])
  /\ UNCHANGED <<obj, runs, pc, req, seen>>

\* The workers p's next statement waits for: a row another run wrote, or an uncommitted
\* run of the same plan.
WaitsFor(p) ==
  {q \in Workers \ {p} :
    \/ /\ pc[p] = "operate" /\ Pending(p) /\ Applicable(p) /\ Valid(Op(p).patch)
       /\ Op(p).obj \in saved[q]
    \/ /\ pc[p] = "operate" /\ ~Pending(p) /\ pc[q] = "commit"
       /\ req[p].plan # None /\ req[q].plan = req[p].plan
    \/ pc[p] = "write" /\ req[p].obj \in saved[q]}

\* p is on a cycle of waiting workers.
Deadlocked(p) ==
  \E S \in SUBSET Workers :
    p \in S /\ \A q \in S : WaitsFor(q) \cap S # {} /\ \E r \in S : q \in WaitsFor(r)

\* Mutated: the save is tried again on a fresh copy instead of being reported.
SaveFailsRetried(p) == pc[p] = "operate" /\ Deadlocked(p) /\ UNCHANGED vars

\* save_error: the deadlock detector picked this save.  Its savepoint rolls back, the
\* locks of earlier operations stay, and the batch goes on.
SaveFails(p) ==
  /\ PatchCopy(p)
  /\ Deadlocked(p)
  /\ Report(p, "failed", EmptyDict)
  /\ UNCHANGED <<obj, runs, pc, req, seen, saved>>

--------------------------------------------------------------------------------
(* Recording the run *)

\* INSERT of the run and its operation rows.
Insert(p) ==
  /\ pc[p] = "operate"
  /\ ~Pending(p)
  /\ PlanRows(req[p].plan) = {}
  /\ \A q \in Workers \ {p} :
       ~(pc[q] = "commit" /\ req[p].plan # None /\ req[q].plan = req[p].plan)
  /\ Goto(p, "commit")
  /\ UNCHANGED <<obj, runs, seen, mem, saved, rows>>

\* What the transaction leaves behind when it commits.
Written(p) == [o \in Objects |-> IF o \in saved[p] THEN Copy(p, o) ELSE obj[o]]

\* Mutated: BE-2 undone, the object writes are not part of the run's transaction.
LoseKeepsWrites(p) ==
  /\ pc[p] = "operate"
  /\ ~Pending(p)
  /\ PlanRows(req[p].plan) # {}
  /\ Goto(p, "lost")
  /\ obj' = Written(p)
  /\ Forget(p)
  /\ UNCHANGED runs

\* IntegrityError: all the writes of the run roll back.
Lose(p) ==
  /\ pc[p] = "operate"
  /\ ~Pending(p)
  /\ PlanRows(req[p].plan) # {}
  /\ Goto(p, "lost")
  /\ Forget(p)
  /\ UNCHANGED <<obj, runs>>

\* The winning run is looked up and replayed; without one the error is raised again.
Replay(p) == pc[p] = "lost" /\ Answer(p)

RunRow(p) == [kind |-> req[p].kind, plan |-> req[p].plan, parent |-> req[p].parent,
              status |-> RunStatus(rows[p]), ops |-> rows[p]]

Commit(p) ==
  /\ pc[p] = "commit"
  /\ obj'  = Written(p)
  /\ runs' = [runs EXCEPT ![req[p].run] = RunRow(p)]
  /\ Finish(p)

--------------------------------------------------------------------------------
(* Editing one object by hand: LayoutObjectDetailView.patch and delete *)

\* The view reads the active object and validates the body (else 400); a rename body has
\* no geometry field.
StartEdit(p, kind, o, dict) ==
  /\ obj[o].active
  /\ kind = "move" <=> dict # EmptyDict
  /\ Begin(p, [NoRequest EXCEPT !.kind = kind, !.obj = o, !.patch = dict],
           [NoCopies EXCEPT ![o] = obj[o]], "write")

\* obj.save(): every column of the copy, and what the request changes.
Write(p) ==
  LET o == req[p].obj
  IN  /\ pc[p] = "write"
      /\ RowFree(p, o)
      /\ obj' = [obj EXCEPT ![o] =
                   [active  |-> req[p].kind # "delete",
                    geom    |-> Patched(seen[p][o].geom, req[p].patch),
                    renamed |-> seen[p][o].renamed \/ req[p].kind = "rename"]]
      /\ UNCHANGED runs
      /\ Finish(p)

\* The worker or its connection dies: an open transaction rolls back.
Die(p) == pc[p] # "idle" /\ Answer(p)

--------------------------------------------------------------------------------

Init ==
  /\ obj   = [o \in Objects |-> StartRow]
  /\ runs  = [r \in RunIds |-> NoRun]
  /\ pc    = [p \in Workers |-> "idle"]
  /\ req   = [p \in Workers |-> NoRequest]
  /\ seen  = [p \in Workers |-> NoCopies]
  /\ mem   = [p \in Workers |-> NoMem]
  /\ saved = [p \in Workers |-> {}]
  /\ rows  = [p \in Workers |-> << >>]

Start(p) ==
  \/ \E n \in Plans, ops \in Batches, r \in RunIds : StartApply(p, n, ops, r)
  \/ \E kind \in {"undo", "retry"}, s, r \in RunIds : StartDerived(p, kind, s, r)
  \/ \E kind \in {"move", "rename", "delete"}, o \in Objects, dict \in Dict(Values) :
       StartEdit(p, kind, o, dict)

\* A step that a running request takes of its own.
Step(p) ==
  \/ FindPrior(p) \/ Load(p)
  \/ Skip(p) \/ Reject(p) \/ Save(p)
  \/ Insert(p) \/ Lose(p) \/ Replay(p) \/ Commit(p)
  \/ Write(p)

Next == \E p \in Workers : Start(p) \/ Step(p) \/ SaveFails(p) \/ Die(p)

\* As in DeskBooking: lock queues are fair and the deadlock detector runs.
Fairness == \A p \in Workers : SF_vars(Step(p)) /\ WF_vars(SaveFails(p))

Spec == Init /\ [][Next]_vars

FairSpec == Spec /\ Fairness

--------------------------------------------------------------------------------
(* Properties *)

TypeOK ==
  /\ obj   \in [Objects -> ObjRow]
  /\ runs  \in [RunIds -> Run \cup {NoRun}]
  /\ pc    \in [Workers -> Steps]
  /\ req   \in [Workers -> Request]
  /\ seen  \in [Workers -> [Objects -> ObjRow]]
  /\ mem   \in [Workers -> [Objects -> Geometry]]
  /\ saved \in [Workers -> SUBSET Objects]
  /\ rows  \in [Workers -> Seq(OpRow)]

\* "a prior run with the same plan_id wins and is replayed" (module docstring): the
\* loser of the unique constraint always finds the run that beat it, so the IntegrityError
\* is never raised to the client.
LoserFindsWinner == \A p \in Workers : pc[p] = "lost" => Prior(req[p].plan) # {}

\* The status in the audit trail says what happened to the floor, whatever ran meanwhile:
\* after a "success" every object a run names is where its last operation put it, and a
\* "failed" or "skipped" run moved nothing.
StatusTellsTheTruth ==
  [][\A r \in RunIds :
       runs[r] = NoRun /\ runs'[r] # NoRun =>
         LET ops == runs'[r].ops
         IN  /\ runs'[r].status = "success" =>
                  \A i \in DOMAIN ops :
                    (\A j \in DOMAIN ops : ops[j].obj = ops[i].obj => j <= i)
                      => obj'[ops[i].obj].geom = ops[i].after
             /\ runs'[r].status \in {"failed", "skipped"} => obj' = obj]_vars

\* Worker p's run commits in this step.
Commits(p) == pc[p] = "commit" /\ runs'[req[p].run] # NoRun

Named(ops, o) == {i \in DOMAIN ops : ops[i].obj = o}

\* What undo is for (BE-4): an object that nobody changed since the undo read it goes back
\* to what the parent run recorded, or is left alone when it was edited or deleted before;
\* a save lost to a deadlock is the only exception, and it is reported.  Stated for an
\* object that the parent applied one operation to.
UndoRestoresOrSkips ==
  [][\A p \in Workers : Commits(p) /\ req[p].kind = "undo" =>
       LET parent == runs[req[p].parent].ops
       IN  \A i \in DOMAIN parent :
             LET e == parent[i]
             IN  /\ e.status = "applied"
                 /\ \A j \in Named(parent, e.obj) : parent[j].status = "applied" => j = i
                 /\ seen[p][e.obj] = obj[e.obj]
                 => IF obj[e.obj].active /\ Matches(obj[e.obj].geom, e.after)
                      THEN \/ Matches(obj'[e.obj].geom, e.before)
                           \/ \E j \in DOMAIN rows[p] : /\ rows[p][j].obj = e.obj
                                                        /\ rows[p][j].status = "failed"
                      ELSE obj'[e.obj] = obj[e.obj]]_vars

\* "undo never silently clobbers intervening manual edits" (undo, EnhanceRunUndoView):
\* an undo moves an object only from where the parent run left it.
UndoKeepsManualEdits ==
  [][\A p \in Workers : Commits(p) /\ req[p].kind = "undo" =>
       \A o \in Objects :
         obj'[o].geom # obj[o].geom =>
           \E i \in DOMAIN runs[req[p].parent].ops :
             LET e == runs[req[p].parent].ops[i]
             IN  e.status = "applied" /\ e.obj = o /\ obj[o].geom = e.after]_vars

\* Every request ends, although runs over the same objects can wait for each other.
EveryRequestEnds == \A p \in Workers : pc[p] # "idle" ~> pc[p] = "idle"

\* The audit log this implements.
Log == INSTANCE EnhanceLog WITH
  geom <- [o \in Objects |-> obj[o].geom],
  log  <- runs

\* Every move of an object is a logged run, which tells exactly what it moved, or an edit
\* of one object; a plan is applied once; a derived run stays in its parent's scope.
LogSpec == Log!Spec
================================================================================
