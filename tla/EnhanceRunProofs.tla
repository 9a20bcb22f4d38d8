---------------------------- MODULE EnhanceRunProofs ----------------------------
(***************************************************************************)
(* What EnhanceRun guarantees for any number of workers, objects, fields,  *)
(* plans, batches and runs.  The inductive invariant follows one run from  *)
(* its request to its commit: its id and its plan are its own, its rows    *)
(* tell what its operations did to the copies, and no two runs hold a save *)
(* of one object.                                                          *)
(***************************************************************************)
EXTENDS EnhanceRun, SequenceTheorems, TLAPS

RunSteps  == {"existing", "load", "operate", "commit", "lost"}
OpenSteps == {"operate", "commit"}
EditKinds == {"move", "rename", "delete"}

\* The fields a step reads are filled in.
ReqTyped ==
  \A p \in Workers :
    /\ pc[p] = "idle" => req[p] = NoRequest
    /\ pc[p] = "write" => /\ req[p].kind \in EditKinds
                          /\ req[p].obj \in Objects
                          /\ req[p].run = None
    /\ pc[p] \in RunSteps =>
         /\ req[p].kind \in RunKinds
         /\ req[p].run \in RunIds
         /\ req[p].kind = "apply" => req[p].plan \in Plans
         /\ req[p].kind # "apply" => /\ req[p].plan = None
                                     /\ req[p].parent \in RunIds
                                     /\ runs[req[p].parent] # NoRun
    /\ pc[p] = "existing" => req[p].kind = "apply"

\* A run id belongs to one request, and its row appears when that request commits.
RunIdsOwned ==
  \A p \in Workers :
    pc[p] \in RunSteps => /\ runs[req[p].run] = NoRun
                          /\ \A q \in Workers \ {p} : req[q].run # req[p].run

\* Only an open transaction has written objects or built rows.
OpenOnly ==
  \A p \in Workers : pc[p] \notin OpenSteps => saved[p] = {} /\ rows[p] = << >>

\* The row lock of a save has one holder.
SavedMutex ==
  \A p, q \in Workers : p # q => saved[p] \cap saved[q] = {}

\* What a logged row that says "applied" names and where it found it.
RowsSound(ops) ==
  \A i \in DOMAIN ops : ops[i].status = "applied" => /\ ops[i].obj \in Objects
                                                     /\ ops[i].before \in Dict(Values)

\* Only an apply carries a plan, and every logged row is sound.
RunsSound ==
  \A r \in RunIds : runs[r] # NoRun => /\ runs[r].kind = "apply" <=> runs[r].plan # None
                                       /\ RowsSound(runs[r].ops)

\* uniq_floor_plan_id: whoever is about to commit a plan is the first and the only one.
PlanOwned ==
  \A p \in Workers :
    pc[p] = "commit" /\ req[p].plan # None =>
      /\ PlanRows(req[p].plan) = {}
      /\ \A q \in Workers \ {p} : pc[q] = "commit" => req[q].plan # req[p].plan

\* What a derived run does follows from its parent, which never changes.
DerivedFromParent ==
  \A p \in Workers :
    pc[p] \in RunSteps /\ req[p].kind # "apply" =>
      req[p].ops \in DerivedOps(req[p].kind, req[p].parent)

\* One row per operation done, in order.
RowsFollowOps ==
  \A p \in Workers :
    /\ pc[p] \in OpenSteps => Len(rows[p]) <= Len(req[p].ops)
    /\ pc[p] = "commit" => Len(rows[p]) = Len(req[p].ops)
    /\ \A i \in DOMAIN rows[p] : /\ rows[p][i].obj = req[p].ops[i].obj
                                 /\ rows[p][i].patch = req[p].ops[i].patch
    /\ RowsSound(rows[p])

\* The rows tell which objects the transaction has written, and what it wrote.
RowsTellSaves ==
  \A p \in Workers, o \in Objects :
    /\ o \notin saved[p] => Log!AppliedOn(rows[p], o) = {}
    /\ o \in saved[p] => \E i \in Log!AppliedOn(rows[p], o) :
                           /\ \A j \in Log!AppliedOn(rows[p], o) : j <= i
                           /\ rows[p][i].after = mem[p][o]

\* The k-th operation of p's run is the only one on its object.
Single(p, k) == \A j \in DOMAIN req[p].ops : req[p].ops[j].obj = req[p].ops[k].obj => j = k

\* The k-th operation applied to the object as the run read it.
AppliesToRead(p, k) ==
  LET o == req[p].ops[k].obj
  IN  seen[p][o].active /\ Matches(seen[p][o].geom, req[p].ops[k].before)

\* What the row of the k-th operation says of an object that has no other.
SingleTold(p, k) ==
  LET o   == req[p].ops[k].obj
      row == rows[p][k]
  IN  /\ row.status = "applied" =>
           /\ AppliesToRead(p, k)
           /\ mem[p][o] = Patched(seen[p][o].geom, req[p].ops[k].patch)
      /\ row.status = "failed"  => AppliesToRead(p, k) /\ o \notin saved[p]
      /\ row.status = "skipped" => ~AppliesToRead(p, k) /\ o \notin saved[p]

\* An object with one operation is as it was read until that operation, and after it as
\* the row of the operation says.
SingleOps ==
  \A p \in Workers : pc[p] \in OpenSteps =>
    \A k \in DOMAIN req[p].ops :
      LET o == req[p].ops[k].obj
      IN  o \in Objects /\ Single(p, k) =>
            /\ k > Len(rows[p]) => o \notin saved[p] /\ mem[p][o] = seen[p][o].geom
            /\ k <= Len(rows[p]) => SingleTold(p, k)

BasicInv == TypeOK /\ ReqTyped /\ RunIdsOwned /\ OpenOnly /\ SavedMutex

PlanInv == RunsSound /\ PlanOwned /\ LoserFindsWinner

RowsInv == DerivedFromParent /\ RowsFollowOps /\ RowsTellSaves /\ SingleOps
--------------------------------------------------------------------------------
(* Dicts, patches and rows *)

LEMMA NoRunTyped == NoRun \notin Run
BY NoneAssumption DEF NoRun, Run, RunKinds, AllKinds

LEMMA DictMembers ==
  ASSUME NEW V, NEW d
  PROVE  d \in Dict(V) <=> \E F \in SUBSET Fields : d \in [F -> V]
BY DEF Dict

LEMMA EmptyDictTyped == ASSUME NEW V PROVE EmptyDict \in Dict(V)
<1>1. EmptyDict \in [{} -> V]
  BY DEF EmptyDict
<1>2. QED
  BY <1>1, DictMembers

LEMMA DictWidens == ASSUME NEW V, NEW W, V \subseteq W PROVE Dict(V) \subseteq Dict(W)
<1> SUFFICES ASSUME NEW F \in SUBSET Fields, NEW d \in [F -> V] PROVE d \in [F -> W]
  BY DictMembers
<1> QED
  OBVIOUS

LEMMA ValuesAreInputs == Dict(Values) \subseteq Dict(Inputs)
BY DictWidens, ValidatedAssumption

LEMMA GeometryIsDict == Geometry \subseteq Dict(Values)
BY DictMembers DEF Geometry

\* A copy patched with what the serializer accepted is a geometry.
LEMMA PatchedTyped ==
  ASSUME NEW g \in Geometry, NEW dict \in Dict(Inputs), Valid(dict)
  PROVE  Patched(g, dict) \in Geometry
<1>1. PICK F \in SUBSET Fields : dict \in [F -> Inputs]
  BY DictMembers
<1>2. ASSUME NEW f \in F PROVE Validated[f][dict[f]] \in Values
  BY <1>1, ValidatedAssumption DEF Valid
<1>3. QED
  BY <1>1, <1>2 DEF Patched, Geometry

\* Stored values pass validation as they are: a copy patched with them matches them.
LEMMA PatchedMatches ==
  ASSUME NEW g \in Geometry, NEW dict \in Dict(Values)
  PROVE  /\ Valid(dict)
         /\ Patched(g, dict) \in Geometry
         /\ Matches(Patched(g, dict), dict)
<1>1. PICK F \in SUBSET Fields : dict \in [F -> Values]
  BY DictMembers
<1>2. ASSUME NEW f \in F PROVE Validated[f][dict[f]] = dict[f]
  BY <1>1, ValidatedAssumption
<1>3. QED
  BY <1>1, <1>2, NoneAssumption DEF Patched, Geometry, Valid, Matches

\* Fields that match a geometry hold values.
LEMMA MatchedValues ==
  ASSUME NEW g \in Geometry, NEW dict \in Dict(Inputs), Matches(g, dict)
  PROVE  dict \in Dict(Values)
<1>1. PICK F \in SUBSET Fields : dict \in [F -> Inputs]
  BY DictMembers
<1>2. dict \in [F -> Values]
  BY <1>1 DEF Matches, Geometry
<1>3. QED
  BY <1>2, DictMembers

LEMMA RunStatusTyped ==
  ASSUME NEW ops
  PROVE  RunStatus(ops) \in {"success", "partial_success", "failed", "skipped"}
BY DEF RunStatus

\* The positions a child takes from its parent: each is one, and none is taken twice.
LEMMA OpsWithShape ==
  ASSUME NEW s, NEW status, NEW at \in OpsWith(s, status), runs[s].ops \in Seq(OpRow)
  PROVE  /\ \E n \in Nat : at \in [1 .. n -> Having(runs[s].ops, status)]
         /\ \A i, j \in DOMAIN at : at[i] = at[j] => i = j
         /\ \A k \in Having(runs[s].ops, status) : \E i \in DOMAIN at : at[i] = k
<1>1. PICK n \in 0 .. Len(runs[s].ops) : at \in [1 .. n -> Having(runs[s].ops, status)]
  BY DEF OpsWith
<1>2. \A i, j \in DOMAIN at : i < j => at[i] < at[j]
  BY DEF OpsWith
<1>3. ASSUME NEW i \in DOMAIN at, NEW j \in DOMAIN at, at[i] = at[j] PROVE i = j
  <2>1. i \in Nat /\ j \in Nat
    BY <1>1
  <2>2. at[i] \in Nat /\ at[j] \in Nat
    BY <1>1, LenProperties DEF Having
  <2>3. QED
    BY <1>2, <1>3, <2>1, <2>2
<1>4. QED
  BY <1>1, <1>3 DEF OpsWith
LEMMA LoggedOpsTyped == ASSUME TypeOK, NEW s \in RunIds PROVE runs[s].ops \in Seq(OpRow)
<1>1. CASE runs[s] \in Run
  BY <1>1 DEF Run
<1>2. CASE runs[s] = NoRun
  BY <1>2, EmptySeq DEF NoRun
<1>3. QED
  BY <1>1, <1>2 DEF TypeOK

LEMMA DerivedOpsTyped ==
  ASSUME TypeOK, NEW s \in RunIds, NEW kind, NEW ops \in DerivedOps(kind, s)
  PROVE  ops \in Seq(Operation)
<1>1. runs[s].ops \in Seq(OpRow)
  BY LoggedOpsTyped
<1>2. ASSUME NEW k \in DOMAIN runs[s].ops
      PROVE  /\ runs[s].ops[k] \in OpRow
             /\ runs[s].ops[k].after \in Dict(Inputs)
  <2>1. runs[s].ops[k] \in OpRow
    BY <1>1, <1>2, LenProperties
  <2>2. runs[s].ops[k].after \in Dict(Values)
    BY <2>1 DEF OpRow
  <2>3. QED
    BY <2>1, <2>2, ValuesAreInputs
<1>3. ASSUME NEW status, NEW at \in OpsWith(s, status)
      PROVE  UndoOps(s, at) \in Seq(Operation) /\ RetryOps(s, at) \in Seq(Operation)
  <2>1. PICK n \in Nat : at \in [1 .. n -> Having(runs[s].ops, status)]
    BY <1>1, OpsWithShape
  <2>2. \A i \in 1 .. n : runs[s].ops[at[i]] \in OpRow /\ runs[s].ops[at[i]].after \in Dict(Inputs)
    BY <1>2, <2>1 DEF Having
  <2>3. UndoOps(s, at) \in [1 .. n -> Operation] /\ RetryOps(s, at) \in [1 .. n -> Operation]
    BY <2>1, <2>2, EmptyDictTyped DEF UndoOps, RetryOps, Operation, OpRow
  <2>4. QED
    BY <2>3, SeqDef
<1>4. QED
  BY <1>3 DEF DerivedOps

LEMMA BatchTyped == ASSUME NEW ops \in Batches PROVE ops \in Seq(Operation)
BY BatchesAssumption

--------------------------------------------------------------------------------
(* What a step of one worker can touch *)

Acts(p) == Start(p) \/ Step(p) \/ SaveFails(p) \/ Die(p)

LEMMA OthersKeep ==
  ASSUME TypeOK, NEW p \in Workers, Acts(p)
  PROVE  \A q \in Workers \ {p} : /\ pc'[q] = pc[q] /\ req'[q] = req[q] /\ seen'[q] = seen[q]
                                  /\ mem'[q] = mem[q] /\ saved'[q] = saved[q]
                                  /\ rows'[q] = rows[q]
<1> USE DEF TypeOK
<1>1. CASE Start(p)
  BY <1>1 DEF Start, StartApply, StartDerived, StartEdit, Begin
<1>2. CASE FindPrior(p) \/ Load(p) \/ Insert(p) \/ Lose(p)
  BY <1>2 DEF FindPrior, Load, Insert, Lose, Answer, Finish, Forget, Goto
<1>3. CASE Replay(p) \/ Commit(p) \/ Write(p) \/ Die(p)
  BY <1>3 DEF Replay, Commit, Write, Die, Answer, Finish, Forget
<1>4. CASE Skip(p) \/ Reject(p) \/ Save(p) \/ SaveFails(p)
  BY <1>4 DEF Skip, Reject, Save, SaveFails, PatchCopy, Report
<1>5. QED
  BY <1>1, <1>2, <1>3, <1>4 DEF Acts, Step

\* Objects and runs change by a commit or an edit, and otherwise not at all.
LEMMA RowsChange ==
  ASSUME NEW p \in Workers, Acts(p)
  PROVE  Commit(p) \/ Write(p) \/ UNCHANGED <<obj, runs>>
<1>1. CASE Start(p)
  BY <1>1 DEF Start, StartApply, StartDerived, StartEdit, Begin
<1>2. CASE FindPrior(p) \/ Load(p) \/ Insert(p) \/ Lose(p) \/ Replay(p) \/ Die(p)
  BY <1>2 DEF FindPrior, Load, Insert, Lose, Replay, Die, Answer
<1>3. CASE Skip(p) \/ Reject(p) \/ Save(p) \/ SaveFails(p)
  BY <1>3 DEF Skip, Reject, Save, SaveFails
<1>4. QED
  BY <1>1, <1>2, <1>3 DEF Acts, Step

LEMMA NextIsActs == Next => \E p \in Workers : Acts(p)
BY DEF Next, Acts
--------------------------------------------------------------------------------
(* Types *)

LEMMA BlankTyped ==
  /\ NoRequest \in Request
  /\ StartGeometry \in Geometry
  /\ StartRow \in ObjRow
  /\ NoCopies \in [Objects -> ObjRow]
  /\ NoMem \in [Objects -> Geometry]
<1>1. NoRequest \in Request
  BY EmptyDictTyped, EmptySeq DEF NoRequest, Request
<1>2. StartGeometry \in Geometry
  BY OriginAssumption DEF StartGeometry, Geometry
<1>3. StartRow \in ObjRow
  BY <1>2 DEF StartRow, ObjRow
<1>4. QED
  BY <1>1, <1>2, <1>3 DEF NoCopies, NoMem

LEMMA BeginTyped ==
  ASSUME TypeOK, NEW p \in Workers, NEW r \in Request, NEW copies \in [Objects -> ObjRow],
         NEW step \in Steps, Begin(p, r, copies, step)
  PROVE  TypeOK'
BY DEF Begin, TypeOK

LEMMA ForgetTyped ==
  ASSUME TypeOK, NEW p \in Workers, Forget(p)
  PROVE  /\ seen'  \in [Workers -> [Objects -> ObjRow]]
         /\ mem'   \in [Workers -> [Objects -> Geometry]]
         /\ saved' \in [Workers -> SUBSET Objects]
         /\ rows'  \in [Workers -> Seq(OpRow)]
BY BlankTyped, EmptySeq DEF Forget, TypeOK

LEMMA FinishTyped ==
  ASSUME TypeOK, NEW p \in Workers, Finish(p)
  PROVE  /\ pc'    \in [Workers -> Steps]
         /\ req'   \in [Workers -> Request]
         /\ seen'  \in [Workers -> [Objects -> ObjRow]]
         /\ mem'   \in [Workers -> [Objects -> Geometry]]
         /\ saved' \in [Workers -> SUBSET Objects]
         /\ rows'  \in [Workers -> Seq(OpRow)]
BY BlankTyped, ForgetTyped DEF Finish, TypeOK, Steps

\* The operation in hand.
LEMMA OpTyped ==
  ASSUME TypeOK, NEW p \in Workers, Pending(p)
  PROVE  /\ Len(rows[p]) \in Nat
         /\ Len(rows[p]) + 1 \in DOMAIN req[p].ops
         /\ Op(p) \in Operation
         /\ Op(p).obj \in Objects \cup {None}
         /\ Op(p).before \in Dict(Inputs)
         /\ Op(p).patch \in Dict(Inputs)
<1>1. req[p].ops \in Seq(Operation) /\ rows[p] \in Seq(OpRow)
  BY DEF TypeOK, Request
<1>2. Len(rows[p]) + 1 \in 1 .. Len(req[p].ops)
  BY <1>1, LenProperties DEF Pending
<1>3. Op(p) \in Operation
  BY <1>1, <1>2, ElementOfSeq DEF Op
<1>4. QED
  BY <1>1, <1>2, <1>3, LenProperties DEF Operation

LEMMA OpRowTyped ==
  ASSUME TypeOK, NEW p \in Workers, Pending(p),
         NEW status \in {"applied", "failed", "skipped"}, NEW after \in Dict(Values)
  PROVE  OpRowOf(p, status, after) \in OpRow
<1>1. Op(p).obj \in Objects => mem[p][Op(p).obj] \in Dict(Inputs)
  BY GeometryIsDict, ValuesAreInputs DEF TypeOK
<1>2. OpRowOf(p, status, after).before \in Dict(Inputs)
  BY <1>1, OpTyped, EmptyDictTyped DEF OpRowOf
<1>3. QED
  BY <1>2, OpTyped DEF OpRowOf, OpRow

LEMMA ReportTyped ==
  ASSUME TypeOK, NEW p \in Workers, Pending(p),
         NEW status \in {"applied", "failed", "skipped"}, NEW after \in Dict(Values),
         Report(p, status, after)
  PROVE  /\ rows' \in [Workers -> Seq(OpRow)]
         /\ rows'[p] = Append(rows[p], OpRowOf(p, status, after))
BY OpRowTyped, AppendProperties DEF Report, TypeOK

LEMMA PatchCopyTyped ==
  ASSUME TypeOK, NEW p \in Workers, PatchCopy(p)
  PROVE  /\ mem' \in [Workers -> [Objects -> Geometry]]
         /\ mem'[p][Op(p).obj] \in Geometry
         /\ mem'[p][Op(p).obj] = Patched(mem[p][Op(p).obj], Op(p).patch)
         /\ Op(p).obj \in Objects
         /\ Pending(p)
<1>1. Op(p).obj \in Objects /\ Op(p).patch \in Dict(Inputs) /\ Valid(Op(p).patch)
  BY OpTyped DEF PatchCopy, Applicable
<1>2. mem[p][Op(p).obj] \in Geometry
  BY <1>1 DEF TypeOK
<1>3. Patched(mem[p][Op(p).obj], Op(p).patch) \in Geometry
  BY <1>1, <1>2, PatchedTyped
<1>4. QED
  BY <1>1, <1>3 DEF PatchCopy, TypeOK
LEMMA StartTyped ==
  ASSUME TypeOK, NEW p \in Workers, Start(p)
  PROVE  TypeOK'
<1>1. ASSUME NEW n \in Plans, NEW ops \in Batches, NEW r \in RunIds, StartApply(p, n, ops, r)
      PROVE  TypeOK'
  <2> DEFINE q == [NoRequest EXCEPT !.kind = "apply", !.plan = n, !.ops = ops, !.run = r]
  <2>1. q.kind \in Kinds
    BY <1>1 DEF StartApply, Begin
  <2>2. q \in Request
    BY <2>1, BatchTyped, BlankTyped DEF Request, NoRequest
  <2>3. QED
    BY <1>1, <2>2, BlankTyped, BeginTyped DEF StartApply, Steps
<1>2. ASSUME NEW kind \in {"undo", "retry"}, NEW s \in RunIds, NEW r \in RunIds,
             StartDerived(p, kind, s, r)
      PROVE  TypeOK'
  <2>1. PICK ops \in DerivedOps(kind, s) :
          Begin(p, [NoRequest EXCEPT !.kind = kind, !.parent = s, !.ops = ops, !.run = r],
                NoCopies, "load")
    BY <1>2 DEF StartDerived
  <2> DEFINE q == [NoRequest EXCEPT !.kind = kind, !.parent = s, !.ops = ops, !.run = r]
  <2>2. q.kind \in Kinds
    BY <2>1 DEF Begin
  <2>3. q \in Request
    BY <2>2, DerivedOpsTyped, BlankTyped DEF Request, NoRequest
  <2>4. QED
    BY <2>1, <2>3, BlankTyped, BeginTyped DEF Steps
<1>3. ASSUME NEW kind \in EditKinds, NEW o \in Objects, NEW dict \in Dict(Values),
             StartEdit(p, kind, o, dict)
      PROVE  TypeOK'
  <2> DEFINE q == [NoRequest EXCEPT !.kind = kind, !.obj = o, !.patch = dict]
  <2>1. q.kind \in Kinds
    BY <1>3 DEF StartEdit, Begin
  <2>2. q \in Request
    BY <2>1, BlankTyped DEF Request, NoRequest
  <2>3. [NoCopies EXCEPT ![o] = obj[o]] \in [Objects -> ObjRow]
    BY BlankTyped DEF TypeOK
  <2>4. QED
    BY <1>3, <2>2, <2>3, BeginTyped DEF StartEdit, Steps
<1>4. QED
  BY <1>1, <1>2, <1>3 DEF Start, EditKinds

\* What a commit and an edit write are rows.
LEMMA CommitTyped ==
  ASSUME TypeOK, ReqTyped, NEW p \in Workers, Commit(p)
  PROVE  RunRow(p) \in Run /\ Written(p) \in [Objects -> ObjRow]
<1>1. req[p].kind \in RunKinds /\ req[p] \in Request /\ rows[p] \in Seq(OpRow)
  BY DEF Commit, ReqTyped, RunSteps, TypeOK
<1>2. RunRow(p) \in Run
  BY <1>1, RunStatusTyped DEF RunRow, Run, Request
<1>3. ASSUME NEW o \in Objects PROVE Copy(p, o) \in ObjRow /\ obj[o] \in ObjRow
  <2>1. seen[p][o] \in ObjRow /\ obj[o] \in ObjRow /\ mem[p][o] \in Geometry
    BY DEF TypeOK
  <2>2. QED
    BY <2>1 DEF Copy, ObjRow
<1>4. QED
  BY <1>2, <1>3 DEF Written

LEMMA WriteTyped ==
  ASSUME TypeOK, ReqTyped, NEW p \in Workers, Write(p)
  PROVE  obj' \in [Objects -> ObjRow]
<1>1. req[p].obj \in Objects /\ req[p].patch \in Dict(Values)
  BY DEF Write, ReqTyped, TypeOK, Request
<1>2. seen[p][req[p].obj] \in ObjRow
  BY <1>1 DEF TypeOK
<1>3. Patched(seen[p][req[p].obj].geom, req[p].patch) \in Geometry
  BY <1>1, <1>2, PatchedMatches DEF ObjRow
<1>4. QED
  BY <1>1, <1>2, <1>3 DEF Write, TypeOK, ObjRow

LEMMA TypeOKStep == TypeOK /\ ReqTyped /\ [Next]_vars => TypeOK'
<1> SUFFICES ASSUME TypeOK, ReqTyped, [Next]_vars PROVE TypeOK'
  OBVIOUS
<1>1. CASE UNCHANGED vars
  BY <1>1 DEF vars, TypeOK
<1>2. ASSUME NEW p \in Workers, Start(p) PROVE TypeOK'
  BY <1>2, StartTyped
<1>3. ASSUME NEW p \in Workers, Answer(p) PROVE TypeOK'
  BY <1>3, FinishTyped DEF Answer, TypeOK
<1>4. ASSUME NEW p \in Workers, FindPrior(p) \/ Replay(p) \/ Die(p) PROVE TypeOK'
  BY <1>3, <1>4 DEF FindPrior, Replay, Die, Goto, TypeOK, Steps
<1>5. ASSUME NEW p \in Workers, Load(p) PROVE TypeOK'
  <2>1. [o \in Objects |-> obj[o].geom] \in [Objects -> Geometry]
    BY DEF TypeOK, ObjRow
  <2>2. QED
    BY <1>5, <2>1 DEF Load, Goto, TypeOK, Steps
<1>6. ASSUME NEW p \in Workers, Insert(p) PROVE TypeOK'
  BY <1>6 DEF Insert, Goto, TypeOK, Steps
<1>7. ASSUME NEW p \in Workers, Lose(p) PROVE TypeOK'
  BY <1>7, ForgetTyped DEF Lose, Goto, TypeOK, Steps
<1>8. ASSUME NEW p \in Workers, Skip(p) \/ Reject(p) PROVE TypeOK'
  <2>1. rows' \in [Workers -> Seq(OpRow)]
    BY <1>8, ReportTyped, EmptyDictTyped DEF Skip, Reject
  <2>2. QED
    BY <1>8, <2>1 DEF Skip, Reject, TypeOK
<1>9. ASSUME NEW p \in Workers, Save(p) \/ SaveFails(p) PROVE TypeOK'
  <2>1. /\ mem' \in [Workers -> [Objects -> Geometry]]
        /\ mem'[p][Op(p).obj] \in Dict(Values)
        /\ Op(p).obj \in Objects
        /\ Pending(p)
    BY <1>9, PatchCopyTyped, GeometryIsDict DEF Save, SaveFails
  <2>2. rows' \in [Workers -> Seq(OpRow)]
    BY <1>9, <2>1, ReportTyped, EmptyDictTyped DEF Save, SaveFails
  <2>3. saved' \in [Workers -> SUBSET Objects]
    <3>1. CASE Save(p)
      <4>1. saved[p] \cup {Op(p).obj} \in SUBSET Objects
        BY <2>1 DEF TypeOK
      <4>2. QED
        BY <3>1, <4>1 DEF Save, TypeOK
    <3>2. CASE SaveFails(p)
      BY <3>2 DEF SaveFails, TypeOK
    <3>3. QED
      BY <1>9, <3>1, <3>2
  <2>4. QED
    BY <1>9, <2>1, <2>2, <2>3 DEF Save, SaveFails, TypeOK
<1>10. ASSUME NEW p \in Workers, Commit(p) PROVE TypeOK'
  <2>1. RunRow(p) \in Run /\ Written(p) \in [Objects -> ObjRow]
    BY <1>10, CommitTyped
  <2>2. obj' \in [Objects -> ObjRow] /\ runs' \in [RunIds -> Run \cup {NoRun}]
    BY <1>10, <2>1 DEF Commit, TypeOK
  <2>3. QED
    BY <1>10, <2>2, FinishTyped DEF Commit, TypeOK
<1>11. ASSUME NEW p \in Workers, Write(p) PROVE TypeOK'
  BY <1>11, WriteTyped, FinishTyped DEF Write, TypeOK
<1>12. QED
  BY <1>1, <1>2, <1>4, <1>5, <1>6, <1>7, <1>8, <1>9, <1>10, <1>11 DEF Next, Step
--------------------------------------------------------------------------------
(* How a request begins, goes on and ends *)

LEMMA StartShape ==
  ASSUME TypeOK, NEW p \in Workers, Start(p)
  PROVE  /\ pc[p] = "idle"
         /\ UNCHANGED <<obj, runs, mem, saved, rows>>
         /\ \/ /\ pc'[p] = "existing"
               /\ req'[p].kind = "apply" /\ req'[p].plan \in Plans
               /\ req'[p].run \in RunIds /\ Unused(req'[p].run)
            \/ /\ pc'[p] = "load"
               /\ req'[p].kind \in {"undo", "retry"} /\ req'[p].plan = None
               /\ req'[p].parent \in RunIds /\ runs[req'[p].parent] # NoRun
               /\ req'[p].ops \in DerivedOps(req'[p].kind, req'[p].parent)
               /\ req'[p].run \in RunIds /\ Unused(req'[p].run)
            \/ /\ pc'[p] = "write"
               /\ req'[p].kind \in EditKinds /\ req'[p].obj \in Objects
               /\ req'[p].run = None
<1> USE DEF TypeOK, NoRequest
<1>1. ASSUME NEW n \in Plans, NEW ops \in Batches, NEW r \in RunIds, StartApply(p, n, ops, r)
      PROVE  /\ pc[p] = "idle" /\ UNCHANGED <<obj, runs, mem, saved, rows>>
             /\ pc'[p] = "existing"
             /\ req'[p].kind = "apply" /\ req'[p].plan \in Plans
             /\ req'[p].run \in RunIds /\ Unused(req'[p].run)
  BY <1>1 DEF StartApply, Begin
<1>2. ASSUME NEW kind \in {"undo", "retry"}, NEW s \in RunIds, NEW r \in RunIds,
             StartDerived(p, kind, s, r)
      PROVE  /\ pc[p] = "idle" /\ UNCHANGED <<obj, runs, mem, saved, rows>>
             /\ pc'[p] = "load"
             /\ req'[p].kind \in {"undo", "retry"} /\ req'[p].plan = None
             /\ req'[p].parent \in RunIds /\ runs[req'[p].parent] # NoRun
             /\ req'[p].ops \in DerivedOps(req'[p].kind, req'[p].parent)
             /\ req'[p].run \in RunIds /\ Unused(req'[p].run)
  BY <1>2 DEF StartDerived, Begin
<1>3. ASSUME NEW kind \in EditKinds, NEW o \in Objects, NEW dict \in Dict(Values),
             StartEdit(p, kind, o, dict)
      PROVE  /\ pc[p] = "idle" /\ UNCHANGED <<obj, runs, mem, saved, rows>>
             /\ pc'[p] = "write"
             /\ req'[p].kind \in EditKinds /\ req'[p].obj \in Objects
             /\ req'[p].run = None
  BY <1>3 DEF StartEdit, Begin
<1>4. QED
  BY <1>1, <1>2, <1>3 DEF Start, EditKinds

\* The worker is ready for the next request.
Ends(p) == /\ pc'[p] = "idle" /\ req'[p] = NoRequest
           /\ saved'[p] = {} /\ rows'[p] = << >>

LEMMA StepShape ==
  ASSUME TypeOK, NEW p \in Workers, Step(p) \/ SaveFails(p) \/ Die(p)
  PROVE  \/ Ends(p)
         \/ req'[p] = req[p] /\ \/ FindPrior(p) /\ pc[p] = "existing" /\ pc'[p] = "load"
                                \/ Load(p) /\ pc[p] = "load" /\ pc'[p] = "operate"
                                \/ Skip(p) /\ pc[p] = "operate" /\ pc'[p] = "operate"
                                \/ Reject(p) /\ pc[p] = "operate" /\ pc'[p] = "operate"
                                \/ Save(p) /\ pc[p] = "operate" /\ pc'[p] = "operate"
                                \/ SaveFails(p) /\ pc[p] = "operate" /\ pc'[p] = "operate"
                                \/ Insert(p) /\ pc[p] = "operate" /\ pc'[p] = "commit"
                                \/ Lose(p) /\ pc[p] = "operate" /\ pc'[p] = "lost"
<1> USE DEF TypeOK
<1>1. Answer(p) \/ Commit(p) \/ Write(p) => Ends(p)
  BY DEF Answer, Commit, Write, Finish, Forget, Ends
<1>2. CASE Replay(p) \/ Commit(p) \/ Write(p) \/ Die(p)
  BY <1>1, <1>2 DEF Replay, Die
<1>3. CASE FindPrior(p)
  BY <1>1, <1>3 DEF FindPrior, Goto
<1>4. CASE Load(p) \/ Insert(p) \/ Lose(p)
  BY <1>4 DEF Load, Insert, Lose, Goto
<1>5. CASE Skip(p) \/ Reject(p) \/ Save(p) \/ SaveFails(p)
  BY <1>5 DEF Skip, Reject, Save, SaveFails, PatchCopy
<1>6. QED
  BY <1>2, <1>3, <1>4, <1>5 DEF Step

\* Runs are only added, each by its own commit.
LEMMA RunsKeep ==
  ASSUME BasicInv, NEW p \in Workers, Acts(p), NEW r \in RunIds
  PROVE  \/ runs'[r] = runs[r]
         \/ /\ Commit(p) /\ r = req[p].run
            /\ runs[r] = NoRun /\ runs'[r] = RunRow(p) /\ runs'[r] # NoRun
<1>1. CASE Commit(p)
  <2>1. /\ req[p].run \in RunIds /\ runs[req[p].run] = NoRun
        /\ RunRow(p) \in Run
    BY <1>1, CommitTyped DEF BasicInv, Commit, ReqTyped, RunIdsOwned, RunSteps
  <2>2. QED
    BY <1>1, <2>1, NoRunTyped DEF Commit, BasicInv, TypeOK
<1>2. CASE ~Commit(p)
  BY <1>2, RowsChange DEF Write
<1>3. QED
  BY <1>1, <1>2

LEMMA ReqTypedStep ==
  ASSUME BasicInv, NEW p \in Workers, Acts(p)
  PROVE  ReqTyped'
<1> DEFINE Filled(q) ==
      /\ pc[q] = "idle" => req[q] = NoRequest
      /\ pc[q] = "write" => /\ req[q].kind \in EditKinds
                            /\ req[q].obj \in Objects
                            /\ req[q].run = None
      /\ pc[q] \in RunSteps =>
           /\ req[q].kind \in RunKinds
           /\ req[q].run \in RunIds
           /\ req[q].kind = "apply" => req[q].plan \in Plans
           /\ req[q].kind # "apply" => /\ req[q].plan = None
                                       /\ req[q].parent \in RunIds
                                       /\ runs[req[q].parent] # NoRun
      /\ pc[q] = "existing" => req[q].kind = "apply"
<1>1. \A q \in Workers : Filled(q)
  BY DEF BasicInv, ReqTyped
<1>2. \A r \in RunIds : runs[r] # NoRun => runs'[r] # NoRun
  BY RunsKeep
<1>3. ASSUME NEW q \in Workers \ {p} PROVE Filled(q)'
  BY <1>1, <1>2, OthersKeep DEF BasicInv
<1>4. Filled(p)'
  <2>1. CASE Start(p)
    BY <2>1, <1>2, StartShape DEF BasicInv, RunSteps, RunKinds
  <2>2. CASE Step(p) \/ SaveFails(p) \/ Die(p)
    BY <2>2, <1>1, <1>2, StepShape DEF BasicInv, RunSteps, Ends
  <2>3. QED
    BY <2>1, <2>2 DEF Acts
<1>5. QED
  BY <1>3, <1>4 DEF ReqTyped

LEMMA RunIdsOwnedStep ==
  ASSUME BasicInv, NEW p \in Workers, Acts(p)
  PROVE  RunIdsOwned'
<1> USE NoneAssumption DEF BasicInv
<1>1. \A q \in Workers \ {p} : pc'[q] = pc[q] /\ req'[q] = req[q]
  BY OthersKeep
<1>2. \A q \in Workers : pc[q] \in RunSteps => /\ req[q].run \in RunIds
                                               /\ runs[req[q].run] = NoRun
                                               /\ \A w \in Workers \ {q} : req[w].run # req[q].run
  BY DEF ReqTyped, RunIdsOwned
<1>3. CASE Start(p)
  <2>1. runs' = runs /\ (req'[p].run = None \/ Unused(req'[p].run))
    BY <1>3, StartShape
  <2>2. pc'[p] \in RunSteps => req'[p].run \in RunIds /\ Unused(req'[p].run)
    BY <1>3, StartShape DEF RunSteps
  <2>3. ASSUME NEW q \in Workers \ {p}, pc'[q] \in RunSteps
        PROVE  /\ runs'[req'[q].run] = NoRun
               /\ \A w \in Workers \ {q} : req'[w].run # req'[q].run
    BY <1>1, <1>2, <2>1, <2>3 DEF Unused
  <2>4. ASSUME pc'[p] \in RunSteps
        PROVE  /\ runs'[req'[p].run] = NoRun
               /\ \A w \in Workers \ {p} : req'[w].run # req'[p].run
    BY <1>1, <2>1, <2>2, <2>4 DEF Unused
  <2>5. QED
    BY <2>3, <2>4 DEF RunIdsOwned
<1>4. CASE Step(p) \/ SaveFails(p) \/ Die(p)
  <2>1. \/ pc'[p] = "idle" /\ req'[p].run = None
        \/ req'[p] = req[p] /\ pc[p] \in RunSteps /\ pc'[p] \in RunSteps /\ ~Commit(p)
    BY <1>4, StepShape DEF Ends, NoRequest, RunSteps, Commit
  <2>2. ASSUME NEW q \in Workers \ {p}, pc'[q] \in RunSteps
        PROVE  runs'[req'[q].run] = NoRun
    <3>1. /\ req[q].run \in RunIds /\ runs[req[q].run] = NoRun
          /\ req[p].run # req[q].run
      BY <1>1, <1>2, <2>2
    <3>2. QED
      BY <1>1, <3>1, RunsKeep
  <2>3. ASSUME pc'[p] \in RunSteps PROVE runs'[req'[p].run] = NoRun
    <3>1. req'[p] = req[p] /\ pc[p] \in RunSteps /\ ~Commit(p)
      BY <2>1, <2>3 DEF RunSteps
    <3>2. QED
      BY <3>1, <1>2, RunsKeep
  <2>4. ASSUME NEW q \in Workers, pc'[q] \in RunSteps, NEW w \in Workers \ {q}
        PROVE  req'[w].run # req'[q].run
    BY <1>1, <1>2, <2>1, <2>4 DEF RunSteps
  <2>5. QED
    BY <2>2, <2>3, <2>4 DEF RunIdsOwned
<1>5. QED
  BY <1>3, <1>4 DEF Acts
LEMMA OpenOnlyStep ==
  ASSUME BasicInv, NEW p \in Workers, Acts(p)
  PROVE  OpenOnly'
<1> USE DEF BasicInv, OpenOnly
<1>1. ASSUME NEW q \in Workers \ {p}, pc'[q] \notin OpenSteps
      PROVE  saved'[q] = {} /\ rows'[q] = << >>
  BY <1>1, OthersKeep
<1>2. ASSUME pc'[p] \notin OpenSteps PROVE saved'[p] = {} /\ rows'[p] = << >>
  <2>1. CASE Start(p)
    BY <2>1, StartShape DEF OpenSteps
  <2>2. CASE FindPrior(p) /\ pc[p] = "existing" /\ pc'[p] = "load"
    BY <2>2 DEF FindPrior, OpenSteps, Goto, Answer, Finish, Forget, TypeOK
  <2>3. CASE Lose(p)
    BY <2>3 DEF Lose, Forget, TypeOK
  <2>4. QED
    BY <1>2, <2>1, <2>2, <2>3, StepShape DEF Acts, Ends, OpenSteps
<1>3. QED
  BY <1>1, <1>2

\* Saves are added under the row lock, and dropped together.
LEMMA SavedChange ==
  ASSUME BasicInv, NEW p \in Workers, Acts(p)
  PROVE  \/ saved'[p] \subseteq saved[p]
         \/ Save(p) /\ saved'[p] = saved[p] \cup {Op(p).obj} /\ RowFree(p, Op(p).obj)
<1> USE DEF BasicInv, TypeOK
<1>1. CASE Start(p)
  BY <1>1, StartShape
<1>2. CASE Step(p) \/ SaveFails(p) \/ Die(p)
  <2>1. CASE Ends(p)
    BY <2>1 DEF Ends
  <2>2. CASE FindPrior(p) \/ Load(p) \/ Insert(p) \/ Lose(p)
    BY <2>2 DEF FindPrior, Load, Insert, Lose, Answer, Finish, Forget
  <2>3. CASE Skip(p) \/ Reject(p) \/ SaveFails(p)
    BY <2>3 DEF Skip, Reject, SaveFails
  <2>4. CASE Save(p)
    BY <2>4 DEF Save
  <2>5. QED
    BY <1>2, <2>1, <2>2, <2>3, <2>4, StepShape
<1>3. QED
  BY <1>1, <1>2 DEF Acts

LEMMA SavedMutexStep ==
  ASSUME BasicInv, NEW p \in Workers, Acts(p)
  PROVE  SavedMutex'
<1>1. \A q \in Workers \ {p} : saved'[q] = saved[q]
  BY OthersKeep DEF BasicInv
<1>2. \A q \in Workers \ {p} : saved'[p] \cap saved[q] = {}
  BY SavedChange DEF BasicInv, SavedMutex, RowFree
<1>3. QED
  BY <1>1, <1>2 DEF SavedMutex, BasicInv

LEMMA BasicInvStep == BasicInv /\ [Next]_vars => BasicInv'
<1>1. CASE UNCHANGED vars
  BY <1>1 DEF vars, BasicInv, TypeOK, ReqTyped, RunIdsOwned, OpenOnly, SavedMutex
<1>2. ASSUME BasicInv, NEW p \in Workers, Acts(p) PROVE BasicInv'
  <2>1. Next
    BY <1>2 DEF Acts, Next
  <2>2. TypeOK'
    BY <1>2, <2>1, TypeOKStep DEF BasicInv
  <2>3. QED
    BY <1>2, <2>2, ReqTypedStep, RunIdsOwnedStep, OpenOnlyStep, SavedMutexStep DEF BasicInv
<1>3. QED
  BY <1>1, <1>2, NextIsActs

LEMMA BasicInvInit == Init => BasicInv
<1> SUFFICES ASSUME Init PROVE BasicInv
  OBVIOUS
<1>1. TypeOK
  BY BlankTyped, EmptySeq DEF Init, TypeOK, Steps
<1>2. ReqTyped /\ RunIdsOwned /\ OpenOnly /\ SavedMutex
  BY DEF Init, ReqTyped, RunIdsOwned, OpenOnly, SavedMutex, RunSteps, OpenSteps
<1>3. QED
  BY <1>1, <1>2 DEF BasicInv

\* TypeOK: every row, request, copy and operation row that a step of the service or of the
\* views writes is well formed, whatever the fields, the validation and the batches are.
THEOREM TypeCorrect == Spec => []TypeOK
<1>1. BasicInv => TypeOK
  BY DEF BasicInv
<1>2. QED
  BY <1>1, BasicInvInit, BasicInvStep, PTL DEF Spec

--------------------------------------------------------------------------------
(* One winner for each plan *)

LEMMA PlanOwnedStep ==
  ASSUME BasicInv, PlanOwned, NEW p \in Workers, Acts(p)
  PROVE  PlanOwned'
<1> USE DEF BasicInv
<1>1. \A q \in Workers \ {p} : pc'[q] = pc[q] /\ req'[q] = req[q]
  BY OthersKeep
<1>2. pc'[p] = "commit" => Insert(p) /\ req'[p] = req[p] /\ pc[p] = "operate"
  BY StartShape, StepShape DEF Acts, Ends
<1>3. ASSUME NEW q \in Workers, pc'[q] = "commit", req'[q].plan # None
      PROVE  PlanRows(req[q].plan)' = {}
  <2>1. CASE q = p
    BY <1>2, <1>3, <2>1 DEF Insert, PlanRows
  <2>2. CASE q # p
    <3>1. pc[q] = "commit" /\ req[q] = req'[q] /\ PlanRows(req[q].plan) = {}
      BY <1>1, <1>3, <2>2 DEF PlanOwned
    <3>2. ASSUME NEW r \in RunIds PROVE runs'[r].plan # req[q].plan
      <4>1. CASE runs'[r] = runs[r]
        BY <1>3, <3>1, <4>1 DEF PlanRows
      <4>2. CASE Commit(p) /\ runs'[r] = RunRow(p)
        BY <1>3, <2>2, <3>1, <4>2 DEF Commit, PlanOwned, RunRow
      <4>3. QED
        BY <4>1, <4>2, RunsKeep
    <3>3. QED
      BY <3>1, <3>2 DEF PlanRows
  <2>3. QED
    BY <2>1, <2>2
<1>4. ASSUME NEW q \in Workers, pc'[q] = "commit", req'[q].plan # None,
             NEW w \in Workers \ {q}, pc'[w] = "commit"
      PROVE  req'[w].plan # req'[q].plan
  <2>1. CASE q = p
    BY <1>1, <1>2, <1>4, <2>1 DEF Insert
  <2>2. CASE w = p
    BY <1>1, <1>2, <1>4, <2>2 DEF Insert
  <2>3. CASE q # p /\ w # p
    BY <1>1, <1>4, <2>3 DEF PlanOwned
  <2>4. QED
    BY <2>1, <2>2, <2>3
<1>5. QED
  BY <1>3, <1>4 DEF PlanOwned

LEMMA LoserFindsWinnerStep ==
  ASSUME BasicInv, RunsSound, LoserFindsWinner, NEW p \in Workers, Acts(p)
  PROVE  LoserFindsWinner'
<1> USE DEF BasicInv
<1>1. \A q \in Workers \ {p} : pc'[q] = pc[q] /\ req'[q] = req[q]
  BY OthersKeep
<1>2. pc'[p] = "lost" => Lose(p) /\ req'[p] = req[p]
  BY StartShape, StepShape DEF Acts, Ends
<1>3. \A r \in RunIds : runs[r].kind = "apply" => runs'[r] = runs[r]
  BY RunsKeep, NoneAssumption DEF NoRun, AllKinds, RunKinds
<1>4. ASSUME NEW q \in Workers, pc'[q] = "lost" PROVE Prior(req[q].plan) # {} /\ req'[q] = req[q]
  <2>1. CASE q = p
    <3>1. PICK r \in RunIds : req[p].plan # None /\ runs[r].plan = req[p].plan
      BY <1>2, <1>4, <2>1 DEF Lose, PlanRows
    <3>2. runs[r].kind = "apply"
      BY <3>1 DEF RunsSound, NoRun
    <3>3. QED
      BY <1>2, <1>4, <2>1, <3>1, <3>2 DEF Prior
  <2>2. CASE q # p
    BY <1>1, <1>4, <2>2 DEF LoserFindsWinner
  <2>3. QED
    BY <2>1, <2>2
<1>5. \A n : Prior(n) # {} => Prior(n)' # {}
  BY <1>3 DEF Prior
<1>6. QED
  BY <1>4, <1>5 DEF LoserFindsWinner
--------------------------------------------------------------------------------
(* The rows of a run *)

\* A row is added at the end.
LEMMA Reported ==
  ASSUME TypeOK, NEW p \in Workers, Pending(p),
         NEW status \in {"applied", "failed", "skipped"}, NEW after \in Dict(Values),
         Report(p, status, after)
  PROVE  /\ Len(rows[p]) \in Nat
         /\ DOMAIN rows[p] = 1 .. Len(rows[p])
         /\ DOMAIN rows'[p] = 1 .. Len(rows[p]) + 1
         /\ Len(rows'[p]) = Len(rows[p]) + 1
         /\ \A i \in 1 .. Len(rows[p]) : rows'[p][i] = rows[p][i]
         /\ rows'[p][Len(rows[p]) + 1] = OpRowOf(p, status, after)
<1>1. rows[p] \in Seq(OpRow) /\ OpRowOf(p, status, after) \in OpRow
  BY OpRowTyped DEF TypeOK
<1>2. rows'[p] = Append(rows[p], OpRowOf(p, status, after))
  BY ReportTyped
<1>3. QED
  BY <1>1, <1>2, AppendProperties, LenProperties

\* The four ways an operation can end.
LEMMA OperateShape ==
  ASSUME TypeOK, NEW p \in Workers, Skip(p) \/ Reject(p) \/ Save(p) \/ SaveFails(p)
  PROVE  \E status \in {"applied", "failed", "skipped"}, after \in Dict(Values) :
           /\ Pending(p)
           /\ Report(p, status, after)
           /\ status = "applied" => Save(p) /\ after = mem'[p][Op(p).obj]
           /\ Save(p) => status = "applied"
           /\ ~Save(p) => saved'[p] = saved[p]
           /\ \/ Save(p) /\ status = "applied"
              \/ /\ Reject(p) \/ SaveFails(p)
                 /\ status = "failed" /\ Applicable(p) /\ saved'[p] = saved[p]
              \/ Skip(p) /\ status = "skipped" /\ ~Applicable(p) /\ saved'[p] = saved[p]
<1>1. CASE Skip(p)
  BY <1>1, EmptyDictTyped DEF Skip, Save, PatchCopy
<1>2. CASE Reject(p)
  BY <1>2, EmptyDictTyped DEF Reject, Save, PatchCopy
<1>3. CASE Save(p)
  BY <1>3, PatchCopyTyped, GeometryIsDict DEF Save
<1>4. CASE SaveFails(p) /\ ~Save(p)
  BY <1>4, EmptyDictTyped DEF SaveFails, PatchCopy
<1>5. QED
  BY <1>1, <1>2, <1>3, <1>4

\* A row that says "applied" is sound.
LEMMA AppliedSound ==
  ASSUME TypeOK, NEW p \in Workers, NEW after, Save(p)
  PROVE  OpRowOf(p, "applied", after).before \in Dict(Values)
<1>1. /\ Op(p).obj \in Objects /\ Op(p).before \in Dict(Inputs)
      /\ Matches(mem[p][Op(p).obj], Op(p).before)
  BY PatchCopyTyped, OpTyped DEF Save, PatchCopy, Applicable
<1>2. mem[p][Op(p).obj] \in Geometry
  BY <1>1 DEF TypeOK
<1>3. Op(p).before \in Dict(Values) /\ mem[p][Op(p).obj] \in Dict(Values)
  BY <1>1, <1>2, MatchedValues, GeometryIsDict
<1>4. QED
  BY <1>1, <1>3, NoneAssumption DEF OpRowOf

\* Any other step keeps the rows or drops them.
LEMMA RowsKeep ==
  ASSUME BasicInv, NEW p \in Workers, Acts(p), ~(Skip(p) \/ Reject(p) \/ Save(p) \/ SaveFails(p))
  PROVE  \/ rows'[p] = << >> /\ saved'[p] = {} /\ pc'[p] \notin OpenSteps
         \/ /\ rows'[p] = rows[p] /\ saved'[p] = saved[p] /\ mem'[p] = mem[p]
            /\ pc[p] = "operate" /\ pc'[p] = "commit"
            /\ req'[p] = req[p] /\ seen'[p] = seen[p] /\ Insert(p)
         \/ /\ rows'[p] = << >> /\ saved'[p] = {} /\ Load(p) /\ pc'[p] = "operate"
<1>1. CASE Load(p) \/ Insert(p)
  BY <1>1 DEF BasicInv, OpenOnly, OpenSteps, TypeOK, Load, Insert, Goto
<1>2. CASE ~Load(p) /\ ~Insert(p)
  <2>1. pc'[p] \notin OpenSteps
    BY <1>2, StartShape, StepShape DEF Acts, BasicInv, OpenSteps, Ends
  <2>2. OpenOnly'
    BY OpenOnlyStep
  <2>3. QED
    BY <2>1, <2>2 DEF OpenOnly
<1>3. QED
  BY <1>1, <1>2

LEMMA RowsFollowOpsStep ==
  ASSUME BasicInv, RowsFollowOps, NEW p \in Workers, Acts(p)
  PROVE  RowsFollowOps'
<1> USE DEF BasicInv
<1> DEFINE Follow(q) ==
      /\ pc[q] \in OpenSteps => Len(rows[q]) <= Len(req[q].ops)
      /\ pc[q] = "commit" => Len(rows[q]) = Len(req[q].ops)
      /\ \A i \in DOMAIN rows[q] : /\ rows[q][i].obj = req[q].ops[i].obj
                                   /\ rows[q][i].patch = req[q].ops[i].patch
      /\ RowsSound(rows[q])
<1>1. \A q \in Workers : Follow(q)
  BY DEF RowsFollowOps
<1>2. ASSUME NEW q \in Workers \ {p} PROVE Follow(q)'
  BY <1>1, OthersKeep DEF RowsSound
<1>3. Follow(p)'
  <2>1. CASE rows'[p] = << >>
    <3>1. CASE pc'[p] \notin OpenSteps
      BY <2>1, <3>1, EmptySeq DEF RowsSound, OpenSteps
    <3>2. CASE pc'[p] = "operate"
      <4>1. TypeOK'
        BY TypeOKStep DEF Acts, Next
      <4>2. Len(req'[p].ops) \in Nat
        BY <4>1, LenProperties DEF TypeOK, Request
      <4>3. QED
        BY <2>1, <3>2, <4>2, EmptySeq DEF RowsSound
    <3>3. CASE pc'[p] = "commit"
      BY <1>1, <2>1, <3>3, RowsKeep, StepShape, StartShape DEF Acts, Ends, RowsSound, Insert, Pending
    <3>4. QED
      BY <3>1, <3>2, <3>3 DEF OpenSteps
  <2>2. CASE Insert(p)
    <3>1. /\ rows'[p] = rows[p] /\ req'[p] = req[p] /\ pc[p] = "operate"
          /\ ~(Len(rows[p]) < Len(req[p].ops))
      BY <2>2 DEF Insert, Goto, Pending
    <3>2. Len(rows[p]) \in Nat /\ Len(req[p].ops) \in Nat
      BY LenProperties DEF TypeOK, Request
    <3>3. QED
      BY <1>1, <3>1, <3>2 DEF OpenSteps, RowsSound
  <2>3. CASE Skip(p) \/ Reject(p) \/ Save(p) \/ SaveFails(p)
    <3>1. PICK status \in {"applied", "failed", "skipped"}, after \in Dict(Values) :
            Pending(p) /\ Report(p, status, after) /\ (status = "applied" => Save(p))
      BY <2>3, OperateShape
    <3>2. /\ Len(rows[p]) \in Nat
          /\ DOMAIN rows[p] = 1 .. Len(rows[p])
          /\ DOMAIN rows'[p] = 1 .. Len(rows[p]) + 1
          /\ Len(rows'[p]) = Len(rows[p]) + 1
          /\ \A i \in 1 .. Len(rows[p]) : rows'[p][i] = rows[p][i]
          /\ rows'[p][Len(rows[p]) + 1] = OpRowOf(p, status, after)
      BY <3>1, Reported
    <3>3. pc'[p] = "operate" /\ req'[p] = req[p] /\ Len(req[p].ops) \in Nat
      BY <2>3, LenProperties DEF Skip, Reject, Save, SaveFails, PatchCopy, TypeOK, Request
    <3>4. Len(rows'[p]) <= Len(req'[p].ops)
      BY <3>1, <3>2, <3>3 DEF Pending
    <3>5. /\ rows'[p][Len(rows[p]) + 1].obj = req[p].ops[Len(rows[p]) + 1].obj
          /\ rows'[p][Len(rows[p]) + 1].patch = req[p].ops[Len(rows[p]) + 1].patch
          /\ rows'[p][Len(rows[p]) + 1].status = status
      BY <3>2 DEF OpRowOf, Op
    <3>6. status = "applied" => /\ rows'[p][Len(rows[p]) + 1].obj \in Objects
                                /\ rows'[p][Len(rows[p]) + 1].before \in Dict(Values)
      BY <3>1, <3>2, <3>5, AppliedSound, PatchCopyTyped DEF Save, Op
    <3>7. ASSUME NEW i \in DOMAIN rows'[p]
          PROVE  /\ rows'[p][i].obj = req'[p].ops[i].obj
                 /\ rows'[p][i].patch = req'[p].ops[i].patch
                 /\ rows'[p][i].status = "applied" => /\ rows'[p][i].obj \in Objects
                                                      /\ rows'[p][i].before \in Dict(Values)
      <4>1. CASE i \in DOMAIN rows[p]
        BY <1>1, <3>2, <3>3, <4>1 DEF RowsSound
      <4>2. CASE i = Len(rows[p]) + 1
        BY <3>3, <3>5, <3>6, <4>2
      <4>3. QED
        BY <3>2, <4>1, <4>2
    <3>8. QED
      BY <3>3, <3>4, <3>7 DEF RowsSound
  <2>4. QED
    BY <2>1, <2>2, <2>3, RowsKeep
<1>4. QED
  BY <1>2, <1>3 DEF RowsFollowOps
\* The deadlock detector never picks a save of an object the run has already written:
\* such a save waits for nobody.
LEMMA VictimNotSaved ==
  ASSUME BasicInv, NEW p \in Workers, SaveFails(p)
  PROVE  Op(p).obj \notin saved[p]
<1>1. PICK q \in Workers : q \in WaitsFor(p)
  BY DEF SaveFails, Deadlocked, WaitsFor
<1>2. q # p /\ Op(p).obj \in saved[q]
  BY <1>1 DEF WaitsFor, SaveFails, PatchCopy
<1>3. QED
  BY <1>2 DEF BasicInv, SavedMutex

LEMMA RowsTellSavesStep ==
  ASSUME BasicInv, RowsTellSaves, NEW p \in Workers, Acts(p)
  PROVE  RowsTellSaves'
<1> USE DEF BasicInv
<1> DEFINE Tells(q, o) ==
      /\ o \notin saved[q] => Log!AppliedOn(rows[q], o) = {}
      /\ o \in saved[q] => \E i \in Log!AppliedOn(rows[q], o) :
                             /\ \A j \in Log!AppliedOn(rows[q], o) : j <= i
                             /\ rows[q][i].after = mem[q][o]
<1>1. \A q \in Workers, o \in Objects : Tells(q, o)
  BY DEF RowsTellSaves
<1>2. ASSUME NEW q \in Workers \ {p}, NEW o \in Objects PROVE Tells(q, o)'
  BY <1>1, OthersKeep DEF Log!AppliedOn
<1>3. ASSUME NEW o \in Objects PROVE Tells(p, o)'
  <2>1. CASE rows'[p] = << >> /\ saved'[p] = {}
    BY <2>1, EmptySeq DEF Log!AppliedOn
  <2>2. CASE Insert(p)
    BY <1>1, <2>2 DEF Insert, Log!AppliedOn
  <2>3. CASE Skip(p) \/ Reject(p) \/ Save(p) \/ SaveFails(p)
    <3> DEFINE k == Len(rows[p]) + 1
    <3>1. PICK status \in {"applied", "failed", "skipped"}, after \in Dict(Values) :
            /\ Pending(p)
            /\ Report(p, status, after)
            /\ status = "applied" => Save(p) /\ after = mem'[p][Op(p).obj]
            /\ Save(p) => status = "applied"
            /\ ~Save(p) => saved'[p] = saved[p]
      BY <2>3, OperateShape
    <3>2. /\ Len(rows[p]) \in Nat
          /\ DOMAIN rows[p] = 1 .. Len(rows[p])
          /\ DOMAIN rows'[p] = 1 .. k
          /\ \A i \in 1 .. Len(rows[p]) : rows'[p][i] = rows[p][i]
          /\ rows'[p][k] = OpRowOf(p, status, after)
      BY <3>1, Reported
    <3>3. /\ rows'[p][k].obj = Op(p).obj
          /\ rows'[p][k].status = status
          /\ rows'[p][k].after = after
      BY <3>2 DEF OpRowOf
    <3>4. ASSUME status = "applied" /\ o = Op(p).obj PROVE Tells(p, o)'
      <4>1. o \in saved'[p]
        BY <3>1, <3>4 DEF Save, TypeOK
      <4>2. k \in Log!AppliedOn(rows[p], o)'
        BY <3>2, <3>3, <3>4 DEF Log!AppliedOn
      <4>3. \A j \in Log!AppliedOn(rows[p], o)' : j <= k
        BY <3>2 DEF Log!AppliedOn
      <4>4. QED
        BY <3>1, <3>3, <3>4, <4>1, <4>2, <4>3
    <3>5. ASSUME ~(status = "applied" /\ o = Op(p).obj) PROVE Tells(p, o)'
      <4>1. Log!AppliedOn(rows[p], o)' = Log!AppliedOn(rows[p], o)
        BY <3>2, <3>3, <3>5 DEF Log!AppliedOn
      <4>2. o \in saved'[p] <=> o \in saved[p]
        <5>1. CASE Save(p)
          BY <3>1, <3>5, <5>1 DEF Save, TypeOK
        <5>2. CASE ~Save(p)
          BY <3>1, <5>2
        <5>3. QED
          BY <5>1, <5>2
      <4>3. o \in saved[p] => mem'[p][o] = mem[p][o]
        <5>1. CASE Skip(p) \/ Reject(p)
          BY <5>1 DEF Skip, Reject
        <5>2. CASE Save(p)
          BY <3>1, <3>5, <5>2 DEF Save, PatchCopy, TypeOK
        <5>3. CASE SaveFails(p)
          BY <5>3, VictimNotSaved DEF SaveFails, PatchCopy, TypeOK
        <5>4. QED
          BY <2>3, <5>1, <5>2, <5>3
      <4>4. \A i \in Log!AppliedOn(rows[p], o) : rows'[p][i] = rows[p][i]
        BY <3>2 DEF Log!AppliedOn
      <4>5. QED
        BY <1>1, <4>1, <4>2, <4>3, <4>4
    <3>6. QED
      BY <3>4, <3>5
  <2>4. QED
    BY <2>1, <2>2, <2>3, RowsKeep
<1>4. QED
  BY <1>2, <1>3 DEF RowsTellSaves

LEMMA DerivedOpsKeep ==
  ASSUME NEW kind, NEW s, runs'[s] = runs[s]
  PROVE  DerivedOps(kind, s)' = DerivedOps(kind, s)
BY DEF DerivedOps, UndoOps, RetryOps, OpsWith, Having

LEMMA DerivedFromParentStep ==
  ASSUME BasicInv, DerivedFromParent, NEW p \in Workers, Acts(p)
  PROVE  DerivedFromParent'
<1> USE DEF BasicInv
<1>1. ASSUME NEW q \in Workers, pc'[q] \in RunSteps, req'[q].kind # "apply"
      PROVE  /\ req'[q].ops \in DerivedOps(req'[q].kind, req'[q].parent)
             /\ runs'[req'[q].parent] = runs[req'[q].parent]
  <2>1. CASE q = p /\ Start(p)
    BY <1>1, <2>1, StartShape DEF RunSteps
  <2>2. CASE q # p \/ ~Start(p)
    <3>1. pc[q] \in RunSteps /\ req'[q] = req[q]
      BY <1>1, <2>2, OthersKeep, StepShape DEF Acts, Ends, RunSteps
    <3>2. req[q].parent \in RunIds /\ runs[req[q].parent] # NoRun
      BY <1>1, <3>1 DEF ReqTyped
    <3>3. QED
      BY <1>1, <3>1, <3>2, RunsKeep DEF DerivedFromParent
  <2>3. QED
    BY <2>1, <2>2
<1>2. QED
  BY <1>1, DerivedOpsKeep DEF DerivedFromParent

LEMMA RunsSoundStep ==
  ASSUME BasicInv, RunsSound, RowsFollowOps, NEW p \in Workers, Acts(p)
  PROVE  RunsSound'
<1>1. ASSUME NEW r \in RunIds, runs'[r] # NoRun
      PROVE  /\ runs'[r].kind = "apply" <=> runs'[r].plan # None
             /\ RowsSound(runs'[r].ops)
  <2>1. CASE runs'[r] = runs[r]
    BY <1>1, <2>1 DEF RunsSound
  <2>2. CASE Commit(p) /\ runs'[r] = RunRow(p)
    <3>1. req[p].kind = "apply" <=> req[p].plan # None
      BY <2>2, NoneAssumption DEF Commit, BasicInv, ReqTyped, RunSteps
    <3>2. RowsSound(rows[p])
      BY DEF RowsFollowOps
    <3>3. QED
      BY <2>2, <3>1, <3>2 DEF RunRow
  <2>3. QED
    BY <2>1, <2>2, RunsKeep
<1>2. QED
  BY <1>1 DEF RunsSound, RowsSound
\* An operation touches the copy and the save of its own object only.
LEMMA OperateOthers ==
  ASSUME BasicInv, NEW p \in Workers, Skip(p) \/ Reject(p) \/ Save(p) \/ SaveFails(p),
         NEW o \in Objects, o # Op(p).obj
  PROVE  mem'[p][o] = mem[p][o] /\ (o \in saved'[p] <=> o \in saved[p])
<1> USE DEF BasicInv, TypeOK
<1>1. CASE Skip(p) \/ Reject(p)
  BY <1>1 DEF Skip, Reject
<1>2. CASE Save(p)
  BY <1>2, PatchCopyTyped DEF Save, PatchCopy
<1>3. CASE SaveFails(p)
  BY <1>3, PatchCopyTyped DEF SaveFails, PatchCopy
<1>4. QED
  BY <1>1, <1>2, <1>3

LEMMA SingleOpsStep ==
  ASSUME BasicInv, SingleOps, NEW p \in Workers, Acts(p)
  PROVE  SingleOps'
<1> USE DEF BasicInv
<1> DEFINE Told(q) == pc[q] \in OpenSteps =>
      \A k \in DOMAIN req[q].ops :
        req[q].ops[k].obj \in Objects /\ Single(q, k) =>
          /\ k > Len(rows[q]) => /\ req[q].ops[k].obj \notin saved[q]
                                 /\ mem[q][req[q].ops[k].obj] = seen[q][req[q].ops[k].obj].geom
          /\ k <= Len(rows[q]) => SingleTold(q, k)
<1>1. \A q \in Workers : Told(q)
  BY DEF SingleOps
<1>2. ASSUME NEW q \in Workers \ {p} PROVE Told(q)'
  <2>1. /\ pc'[q] = pc[q] /\ req'[q] = req[q] /\ seen'[q] = seen[q]
        /\ mem'[q] = mem[q] /\ saved'[q] = saved[q] /\ rows'[q] = rows[q]
    BY OthersKeep
  <2>2. QED
    BY <1>1, <2>1 DEF Single, SingleTold, AppliesToRead
<1>3. Told(p)'
  <2>1. CASE pc'[p] \notin OpenSteps
    BY <2>1
  <2>2. CASE Load(p)
    <3>1. /\ rows'[p] = << >> /\ saved'[p] = {}
          /\ \A o \in Objects : mem'[p][o] = seen'[p][o].geom
      BY <2>2 DEF Load, OpenOnly, OpenSteps, TypeOK
    <3>2. TypeOK'
      BY TypeOKStep DEF Acts, Next
    <3>3. \A k \in DOMAIN req'[p].ops : k \in Nat /\ k > 0
      BY <3>2, LenProperties DEF TypeOK, Request
    <3>4. QED
      BY <3>1, <3>3, EmptySeq
  <2>3. CASE Insert(p)
    <3>1. /\ pc[p] \in OpenSteps /\ req'[p] = req[p] /\ seen'[p] = seen[p]
          /\ mem'[p] = mem[p] /\ saved'[p] = saved[p] /\ rows'[p] = rows[p]
      BY <2>3 DEF Insert, Goto, OpenSteps
    <3>2. QED
      BY <1>1, <3>1 DEF Single, SingleTold, AppliesToRead
  <2>4. CASE Skip(p) \/ Reject(p) \/ Save(p) \/ SaveFails(p)
    <3> DEFINE n == Len(rows[p]) + 1
    <3>1. PICK status \in {"applied", "failed", "skipped"}, after \in Dict(Values) :
            /\ Pending(p)
            /\ Report(p, status, after)
            /\ \/ Save(p) /\ status = "applied"
               \/ /\ Reject(p) \/ SaveFails(p)
                  /\ status = "failed" /\ Applicable(p) /\ saved'[p] = saved[p]
               \/ Skip(p) /\ status = "skipped" /\ ~Applicable(p) /\ saved'[p] = saved[p]
      BY <2>4, OperateShape
    <3>2. /\ Len(rows[p]) \in Nat /\ Len(rows'[p]) = n
          /\ \A i \in 1 .. Len(rows[p]) : rows'[p][i] = rows[p][i]
          /\ rows'[p][n] = OpRowOf(p, status, after)
      BY <3>1, Reported
    <3>3. /\ pc[p] \in OpenSteps /\ req'[p] = req[p] /\ seen'[p] = seen[p]
          /\ n \in DOMAIN req[p].ops /\ Op(p) = req[p].ops[n]
          /\ DOMAIN req[p].ops \subseteq Nat \ {0}
      <4>1. /\ pc[p] \in OpenSteps /\ req'[p] = req[p] /\ seen'[p] = seen[p]
        BY <2>4 DEF Skip, Reject, Save, SaveFails, PatchCopy, OpenSteps
      <4>2. n \in DOMAIN req[p].ops /\ Op(p) = req[p].ops[n]
        BY <3>1, OpTyped DEF Op
      <4>3. DOMAIN req[p].ops \subseteq Nat \ {0}
        BY LenProperties DEF TypeOK, Request
      <4>4. QED
        BY <4>1, <4>2, <4>3
    <3>4. ASSUME NEW k \in DOMAIN req[p].ops, req[p].ops[k].obj \in Objects, Single(p, k)
          PROVE  /\ k > n => /\ req[p].ops[k].obj \notin saved'[p]
                             /\ mem'[p][req[p].ops[k].obj] = seen[p][req[p].ops[k].obj].geom
                 /\ k <= n => SingleTold(p, k)'
      <4> DEFINE o == req[p].ops[k].obj
      <4>1. CASE k # n
        <5>1. mem'[p][o] = mem[p][o] /\ (o \in saved'[p] <=> o \in saved[p])
          BY <2>4, <3>3, <3>4, <4>1, OperateOthers DEF Single
        <5>2. CASE k > n
          BY <1>1, <3>2, <3>3, <3>4, <5>1, <5>2
        <5>3. CASE k < n
          <6>1. k \in 1 .. Len(rows[p])
            BY <3>2, <3>3, <5>3
          <6>2. SingleTold(p, k) /\ rows'[p][k] = rows[p][k]
            BY <1>1, <3>2, <3>3, <3>4, <6>1
          <6>3. SingleTold(p, k)'
            BY <3>3, <5>1, <6>2 DEF SingleTold, AppliesToRead
          <6>4. QED
            BY <3>2, <3>3, <5>3, <6>3
        <5>4. QED
          BY <3>2, <3>3, <4>1, <5>2, <5>3
      <4>2. CASE k = n
        <5>1. /\ o = Op(p).obj /\ o \notin saved[p]
              /\ mem[p][o] = seen[p][o].geom
          BY <1>1, <3>2, <3>3, <3>4, <4>2
        <5>2. Applicable(p) <=> AppliesToRead(p, k)
          BY <3>3, <3>4, <4>2, <5>1 DEF Applicable, AppliesToRead
        <5>3. AppliesToRead(p, k)' <=> AppliesToRead(p, k)
          BY <3>3 DEF AppliesToRead
        <5>4. rows'[p][k].status = status
          BY <3>2, <4>2 DEF OpRowOf
        <5>5. ASSUME status # "applied" PROVE SingleTold(p, k)'
          BY <3>1, <3>3, <5>1, <5>2, <5>3, <5>4, <5>5 DEF SingleTold
        <5>6. ASSUME status = "applied" PROVE SingleTold(p, k)'
          <6>1. mem'[p][o] = Patched(mem[p][o], req[p].ops[k].patch) /\ Applicable(p)
            BY <3>1, <3>3, <4>2, <5>1, <5>6, PatchCopyTyped DEF Save, PatchCopy
          <6>2. QED
            BY <3>3, <5>1, <5>2, <5>3, <5>4, <5>6, <6>1 DEF SingleTold
        <5>7. SingleTold(p, k)'
          BY <5>5, <5>6
        <5>8. QED
          BY <3>2, <4>2, <5>7
      <4>3. QED
        BY <4>1, <4>2
    <3>5. \A k \in DOMAIN req[p].ops : Single(p, k)' <=> Single(p, k)
      BY <3>3 DEF Single
    <3>6. QED
      BY <3>2, <3>3, <3>4, <3>5
  <2>5. QED
    BY <2>1, <2>2, <2>3, <2>4, RowsKeep
<1>4. QED
  BY <1>2, <1>3 DEF SingleOps
--------------------------------------------------------------------------------
(* The invariant *)

Inv == BasicInv /\ PlanInv /\ RowsInv

LEMMA InvInit == Init => Inv
<1> SUFFICES ASSUME Init PROVE Inv
  OBVIOUS
<1>1. BasicInv
  BY BasicInvInit
<1>2. PlanInv
  BY DEF Init, PlanInv, RunsSound, PlanOwned, LoserFindsWinner
<1>3. \A p \in Workers : pc[p] = "idle" /\ rows[p] = << >> /\ saved[p] = {}
  BY DEF Init
<1>4. DerivedFromParent /\ SingleOps
  BY <1>3 DEF DerivedFromParent, SingleOps, RunSteps, OpenSteps
<1>5. RowsFollowOps /\ RowsTellSaves
  BY <1>3, EmptySeq DEF RowsFollowOps, RowsTellSaves, RowsSound, Log!AppliedOn, OpenSteps
<1>6. QED
  BY <1>1, <1>2, <1>4, <1>5 DEF Inv, RowsInv

LEMMA InvStutter == Inv /\ UNCHANGED vars => Inv'
<1> SUFFICES ASSUME Inv, UNCHANGED vars PROVE Inv'
  OBVIOUS
<1> USE DEF vars
<1>1. BasicInv'
  BY BasicInvStep DEF Inv
<1>2. PlanInv'
  BY DEF Inv, PlanInv, RunsSound, RowsSound, PlanOwned, PlanRows, LoserFindsWinner, Prior
<1>3. DerivedFromParent'
  BY DerivedOpsKeep DEF Inv, RowsInv, DerivedFromParent
<1>4. RowsFollowOps' /\ RowsTellSaves'
  BY DEF Inv, RowsInv, RowsFollowOps, RowsSound, RowsTellSaves, Log!AppliedOn
<1>5. SingleOps'
  BY DEF Inv, RowsInv, SingleOps, Single, SingleTold, AppliesToRead
<1>6. QED
  BY <1>1, <1>2, <1>3, <1>4, <1>5 DEF Inv, RowsInv

LEMMA InvStep == Inv /\ [Next]_vars => Inv'
<1>1. ASSUME Inv, NEW p \in Workers, Acts(p) PROVE Inv'
  <2>1. BasicInv /\ PlanInv /\ RowsInv
    BY <1>1 DEF Inv
  <2>2. BasicInv'
    BY <1>1, <2>1, BasicInvStep DEF Acts, Next
  <2>3. PlanInv'
    BY <1>1, <2>1, RunsSoundStep, PlanOwnedStep, LoserFindsWinnerStep DEF PlanInv, RowsInv
  <2>4. RowsInv'
    BY <1>1, <2>1, DerivedFromParentStep, RowsFollowOpsStep, RowsTellSavesStep, SingleOpsStep
       DEF RowsInv
  <2>5. QED
    BY <2>2, <2>3, <2>4 DEF Inv
<1>2. QED
  BY <1>1, InvStutter, NextIsActs

LEMMA InvAlways == Spec => []Inv
BY InvInit, InvStep, PTL DEF Spec

\* LoserFindsWinner: whoever loses a plan to uniq_floor_plan_id finds the committed run that
\* beat it, so the IntegrityError of EnhanceRunService.apply never reaches the client.
THEOREM LosersReplay == Spec => []LoserFindsWinner
<1>1. Inv => LoserFindsWinner
  BY DEF Inv, PlanInv
<1>2. QED
  BY <1>1, InvAlways, PTL
--------------------------------------------------------------------------------
(* What a commit does *)

LEMMA CommitShape ==
  ASSUME Inv, NEW p \in Workers, Commit(p)
  PROVE  /\ req[p].run \in RunIds
         /\ runs[req[p].run] = NoRun
         /\ runs'[req[p].run] = RunRow(p) /\ RunRow(p) # NoRun
         /\ \A r \in RunIds \ {req[p].run} : runs'[r] = runs[r]
         /\ \A o \in Objects : /\ o \notin saved[p] => obj'[o] = obj[o]
                               /\ o \in saved[p] => obj'[o].geom = mem[p][o]
<1> USE DEF Inv, BasicInv
<1>1. req[p].run \in RunIds /\ runs[req[p].run] = NoRun
  BY DEF Commit, ReqTyped, RunIdsOwned, RunSteps
<1>2. RunRow(p) # NoRun
  BY CommitTyped, NoRunTyped
<1>3. \A r \in RunIds : runs'[r] = IF r = req[p].run THEN RunRow(p) ELSE runs[r]
  BY DEF Commit, TypeOK
<1>4. ASSUME NEW o \in Objects, o \in saved[p] PROVE Copy(p, o).geom = mem[p][o]
  <2>1. seen[p][o] \in ObjRow
    BY DEF TypeOK
  <2>2. QED
    BY <2>1 DEF Copy, ObjRow
<1>5. QED
  BY <1>1, <1>2, <1>3, <1>4 DEF Commit, Written

\* Which run a step logs.
LEMMA LoggedBy ==
  ASSUME Inv, [Next]_vars, NEW r \in RunIds, runs'[r] # runs[r]
  PROVE  \E p \in Workers : Commit(p) /\ r = req[p].run
<1>1. ~UNCHANGED vars
  BY DEF vars
<1>2. PICK p \in Workers : Acts(p)
  BY <1>1, NextIsActs
<1>3. QED
  BY <1>2, RunsKeep DEF Inv

\* StatusTellsTheTruth: the status that _run_status gives a run and the step that commits it
\* agree about the floor, with any number of other runs and edits in flight.
THEOREM StatusTrue == Spec => StatusTellsTheTruth
<1> DEFINE A == \A r \in RunIds :
       runs[r] = NoRun /\ runs'[r] # NoRun =>
         LET ops == runs'[r].ops
         IN  /\ runs'[r].status = "success" =>
                  \A i \in DOMAIN ops :
                    (\A j \in DOMAIN ops : ops[j].obj = ops[i].obj => j <= i)
                      => obj'[ops[i].obj].geom = ops[i].after
             /\ runs'[r].status \in {"failed", "skipped"} => obj' = obj
<1>1. Inv /\ [Next]_vars => [A]_vars
  <2> SUFFICES ASSUME Inv, [Next]_vars, NEW r \in RunIds, runs[r] = NoRun, runs'[r] # NoRun
               PROVE  LET ops == runs'[r].ops
                      IN  /\ runs'[r].status = "success" =>
                               \A i \in DOMAIN ops :
                                 (\A j \in DOMAIN ops : ops[j].obj = ops[i].obj => j <= i)
                                   => obj'[ops[i].obj].geom = ops[i].after
                          /\ runs'[r].status \in {"failed", "skipped"} => obj' = obj
    OBVIOUS
  <2>1. PICK p \in Workers : Commit(p) /\ r = req[p].run
    BY LoggedBy
  <2>2. /\ runs'[r] = RunRow(p)
        /\ \A o \in Objects : /\ o \notin saved[p] => obj'[o] = obj[o]
                              /\ o \in saved[p] => obj'[o].geom = mem[p][o]
    BY <2>1, CommitShape
  <2>3. runs'[r].ops = rows[p] /\ runs'[r].status = RunStatus(rows[p])
    BY <2>2 DEF RunRow
  <2>4. RowsSound(rows[p]) /\ rows[p] \in Seq(OpRow)
    BY DEF Inv, RowsInv, RowsFollowOps, BasicInv, TypeOK
  <2>5. ASSUME RunStatus(rows[p]) = "success", NEW i \in DOMAIN rows[p],
               \A j \in DOMAIN rows[p] : rows[p][j].obj = rows[p][i].obj => j <= i
        PROVE  obj'[rows[p][i].obj].geom = rows[p][i].after
    <3> DEFINE o == rows[p][i].obj
    <3>1. Having(rows[p], "applied") = DOMAIN rows[p]
      BY <2>5 DEF RunStatus
    <3>2. o \in Objects /\ i \in Log!AppliedOn(rows[p], o)
      BY <2>4, <3>1 DEF RowsSound, Having, Log!AppliedOn
    <3>3. PICK k \in Log!AppliedOn(rows[p], o) :
            /\ \A j \in Log!AppliedOn(rows[p], o) : j <= k
            /\ rows[p][k].after = mem[p][o]
            /\ o \in saved[p]
      BY <3>2 DEF Inv, RowsInv, RowsTellSaves
    <3>4. k = i
      <4>1. k \in DOMAIN rows[p] /\ k <= i /\ i <= k
        BY <2>5, <3>2, <3>3 DEF Log!AppliedOn
      <4>2. QED
        BY <4>1, <2>4, LenProperties
    <3>5. QED
      BY <2>2, <3>2, <3>3, <3>4
  <2>6. ASSUME RunStatus(rows[p]) \in {"failed", "skipped"} PROVE obj' = obj
    <3>1. Having(rows[p], "applied") = {}
      BY <2>6 DEF RunStatus
    <3>2. \A o \in Objects : o \notin saved[p]
      BY <3>1 DEF Inv, RowsInv, RowsTellSaves, Log!AppliedOn, Having
    <3>3. obj \in [Objects -> ObjRow] /\ obj' \in [Objects -> ObjRow]
      BY TypeOKStep DEF Inv, BasicInv, TypeOK
    <3>4. QED
      BY <2>2, <3>2, <3>3
  <2>7. QED
    BY <2>3, <2>5, <2>6
<1>2. QED
  BY <1>1, InvAlways, PTL DEF Spec, StatusTellsTheTruth

--------------------------------------------------------------------------------
(* The audit log *)

\* Each operation of a child comes from one of its parent.
LEMMA ChildOps ==
  ASSUME NEW s, NEW at
  PROVE  /\ DOMAIN UndoOps(s, at) = DOMAIN at /\ DOMAIN RetryOps(s, at) = DOMAIN at
         /\ \A k \in DOMAIN at : /\ UndoOps(s, at)[k].obj = runs[s].ops[at[k]].obj
                                 /\ UndoOps(s, at)[k].before = runs[s].ops[at[k]].after
                                 /\ UndoOps(s, at)[k].patch = runs[s].ops[at[k]].before
         /\ \A k \in DOMAIN at : /\ RetryOps(s, at)[k].obj = runs[s].ops[at[k]].obj
                                 /\ RetryOps(s, at)[k].patch = runs[s].ops[at[k]].patch
<1>1. DOMAIN UndoOps(s, at) = DOMAIN at /\ DOMAIN RetryOps(s, at) = DOMAIN at
  BY DEF UndoOps, RetryOps
<1>2. ASSUME NEW k \in DOMAIN at
      PROVE  UndoOps(s, at)[k] = [obj    |-> runs[s].ops[at[k]].obj,
                                  before |-> runs[s].ops[at[k]].after,
                                  patch  |-> runs[s].ops[at[k]].before]
  BY DEF UndoOps
<1>3. ASSUME NEW k \in DOMAIN at
      PROVE  RetryOps(s, at)[k] = [obj    |-> runs[s].ops[at[k]].obj,
                                   before |-> EmptyDict,
                                   patch  |-> runs[s].ops[at[k]].patch]
  BY DEF RetryOps
<1>4. QED
  BY <1>1, <1>2, <1>3

\* A derived run answers its parent, operation by operation.
LEMMA DerivedAnswers ==
  ASSUME Inv, NEW p \in Workers, Commit(p), req[p].kind # "apply", NEW i \in DOMAIN rows[p],
         NEW s, s = req[p].parent
  PROVE  \E j \in DOMAIN runs[s].ops : Log!Answers(rows[p][i], runs[s].ops[j], req[p].kind)
<1>1. /\ s \in RunIds /\ req[p].kind \in {"undo", "retry"}
      /\ req[p].ops \in DerivedOps(req[p].kind, s)
  BY DEF Inv, BasicInv, RowsInv, ReqTyped, DerivedFromParent, Commit, RunSteps, RunKinds
<1>2. /\ rows[p][i].obj = req[p].ops[i].obj /\ rows[p][i].patch = req[p].ops[i].patch
      /\ i \in DOMAIN req[p].ops
  BY LenProperties
     DEF Inv, BasicInv, RowsInv, RowsFollowOps, Commit, TypeOK, Request
<1>3. runs[s].ops \in Seq(OpRow)
  BY <1>1, LoggedOpsTyped DEF Inv, BasicInv
<1>4. CASE req[p].kind = "undo"
  <2>1. PICK at \in OpsWith(s, "applied") : req[p].ops = UndoOps(s, at)
    BY <1>1, <1>4 DEF DerivedOps
  <2>2. /\ i \in DOMAIN at
        /\ rows[p][i].obj = runs[s].ops[at[i]].obj
        /\ rows[p][i].patch = runs[s].ops[at[i]].before
    BY <1>2, <2>1, ChildOps
  <2>3. at[i] \in Having(runs[s].ops, "applied")
    BY <1>3, <2>2, OpsWithShape
  <2>4. QED
    BY <1>4, <2>2, <2>3 DEF Having, Log!Answers, Log!Restores
<1>5. CASE req[p].kind = "retry"
  <2>1. PICK at \in OpsWith(s, "failed") : req[p].ops = RetryOps(s, at)
    BY <1>1, <1>5 DEF DerivedOps
  <2>2. /\ i \in DOMAIN at
        /\ rows[p][i].obj = runs[s].ops[at[i]].obj
        /\ rows[p][i].patch = runs[s].ops[at[i]].patch
    BY <1>2, <2>1, ChildOps
  <2>3. at[i] \in Having(runs[s].ops, "failed")
    BY <1>3, <2>2, OpsWithShape
  <2>4. QED
    BY <1>5, <2>2, <2>3 DEF Having, Log!Answers, Log!Reattempts
<1>6. QED
  BY <1>1, <1>4, <1>5

LEMMA CommitRefines ==
  ASSUME Inv, NEW p \in Workers, Commit(p), NEW r, r = req[p].run
  PROVE  r \in RunIds /\ Log!Record(r)
<1>1. /\ r \in RunIds /\ runs[r] = NoRun
      /\ runs'[r] = RunRow(p) /\ RunRow(p) # NoRun
      /\ \A s \in RunIds \ {r} : runs'[s] = runs[s]
      /\ \A o \in Objects : /\ o \notin saved[p] => obj'[o] = obj[o]
                            /\ o \in saved[p] => obj'[o].geom = mem[p][o]
  BY CommitShape
<1>2. Log!Fresh(RunRow(p))
  <2>1. CASE req[p].kind = "apply"
    <3>1. req[p].plan # None
      BY <2>1, NoneAssumption DEF Inv, BasicInv, ReqTyped, Commit, RunSteps
    <3>2. PlanRows(req[p].plan) = {}
      BY <3>1 DEF Inv, PlanInv, PlanOwned, Commit
    <3>3. QED
      BY <3>1, <3>2 DEF PlanRows, Log!Fresh, RunRow
  <2>2. CASE req[p].kind # "apply"
    BY <2>2 DEF Log!Fresh, RunRow
  <2>3. QED
    BY <2>1, <2>2
<1>3. Log!InScope(RunRow(p))
  <2>1. CASE req[p].kind # "apply"
    <3>1. runs[req[p].parent] # NoRun
      BY <2>1 DEF Inv, BasicInv, ReqTyped, Commit, RunSteps
    <3>2. QED
      BY <2>1, <3>1, DerivedAnswers DEF Log!InScope, RunRow
  <2>2. CASE req[p].kind = "apply"
    BY <2>2 DEF Log!InScope, RunRow
  <2>3. QED
    BY <2>1, <2>2
<1>4. ASSUME NEW o \in Objects PROVE Log!MovedBy(rows[p], o, obj[o].geom, obj'[o].geom)
  <2>1. CASE o \in saved[p]
    BY <1>1, <2>1 DEF Inv, RowsInv, RowsTellSaves, Log!MovedBy
  <2>2. CASE o \notin saved[p]
    BY <1>1, <2>2 DEF Inv, RowsInv, RowsTellSaves, Log!MovedBy
  <2>3. QED
    BY <2>1, <2>2
<1>5. RunRow(p).ops = rows[p]
  BY DEF RunRow
<1>6. QED
  BY <1>1, <1>2, <1>3, <1>4, <1>5 DEF Log!Record

LEMMA WriteRefines ==
  ASSUME Inv, NEW p \in Workers, Write(p), NEW o, o = req[p].obj
  PROVE  o \in Objects /\ Log!Edit(o)
<1>1. o \in Objects
  BY DEF Inv, BasicInv, ReqTyped, Write
<1>2. \A w \in Objects \ {o} : obj'[w] = obj[w]
  BY DEF Write, Inv, BasicInv, TypeOK
<1>3. runs' = runs
  BY DEF Write
<1>4. QED
  BY <1>1, <1>2, <1>3 DEF Log!Edit

LEMMA LogStep == Inv /\ [Next]_vars => [Log!Next]_(Log!logVars)
<1> SUFFICES ASSUME Inv, [Next]_vars PROVE [Log!Next]_(Log!logVars)
  OBVIOUS
<1>1. CASE UNCHANGED <<obj, runs>>
  BY <1>1 DEF Log!logVars
<1>2. ASSUME NEW p \in Workers, Commit(p) PROVE Log!Next
  BY <1>2, CommitRefines DEF Log!Next
<1>3. ASSUME NEW p \in Workers, Write(p) PROVE Log!Next
  BY <1>3, WriteRefines DEF Log!Next
<1>4. QED
  BY <1>1, <1>2, <1>3, NextIsActs, RowsChange DEF vars

LEMMA LogInit == Init => Log!Init
BY DEF Init, Log!Init

\* LogSpec: a run's rows and its object writes become visible in one step, exactly as the
\* rows say; a plan is applied once; an undo or a retry does what its parent left for it;
\* and nothing else but an edit of one object moves an object.
THEOREM ImplementsLog == Spec => LogSpec
BY LogInit, LogStep, InvAlways, PTL DEF Spec, LogSpec, Log!Spec
--------------------------------------------------------------------------------
(* What undo is for *)

\* The operation an undo has for the only applied row of its parent on an object.
LEMMA UndoOfSingle ==
  ASSUME Inv, NEW p \in Workers, pc[p] = "commit", req[p].kind = "undo",
         NEW s, s = req[p].parent,
         NEW i \in DOMAIN runs[s].ops,
         runs[s].ops[i].status = "applied",
         \A j \in Named(runs[s].ops, runs[s].ops[i].obj) :
            runs[s].ops[j].status = "applied" => j = i
  PROVE  \E k \in DOMAIN req[p].ops :
           /\ req[p].ops[k].obj = runs[s].ops[i].obj
           /\ req[p].ops[k].before = runs[s].ops[i].after
           /\ req[p].ops[k].patch = runs[s].ops[i].before
           /\ Single(p, k)
<1>1. s \in RunIds /\ req[p].ops \in DerivedOps("undo", s)
  BY DEF Inv, BasicInv, RowsInv, ReqTyped, DerivedFromParent, RunSteps
<1>2. runs[s].ops \in Seq(OpRow)
  BY <1>1, LoggedOpsTyped DEF Inv, BasicInv
<1>3. PICK at \in OpsWith(s, "applied") : req[p].ops = UndoOps(s, at)
  BY <1>1 DEF DerivedOps
<1>4. PICK n \in Nat : at \in [1 .. n -> Having(runs[s].ops, "applied")]
  BY <1>2, OpsWithShape
<1>5. \A j, k \in DOMAIN at : at[j] = at[k] => j = k
  BY <1>2, OpsWithShape
<1>6. \A j \in Having(runs[s].ops, "applied") : \E k \in DOMAIN at : at[k] = j
  BY DEF OpsWith
<1>7. PICK k \in DOMAIN at : at[k] = i
  BY <1>6 DEF Having
<1>8. DOMAIN req[p].ops = DOMAIN at
  BY <1>3, ChildOps
<1>9. \A j \in DOMAIN at : /\ req[p].ops[j].obj = runs[s].ops[at[j]].obj
                           /\ req[p].ops[j].before = runs[s].ops[at[j]].after
                           /\ req[p].ops[j].patch = runs[s].ops[at[j]].before
  BY <1>3, ChildOps
<1>10. Single(p, k)
  <2>1. SUFFICES ASSUME NEW j \in DOMAIN at, runs[s].ops[at[j]].obj = runs[s].ops[i].obj
                 PROVE  at[j] = i
    BY <1>5, <1>7, <1>8, <1>9 DEF Single
  <2>2. QED
    BY <1>4, <2>1 DEF Named, Having
<1>11. QED
  BY <1>7, <1>8, <1>9, <1>10

LEMMA CommitsCommit ==
  ASSUME Inv, [Next]_vars, NEW p \in Workers, Commits(p)
  PROVE  Commit(p)
<1>1. req[p].run \in RunIds /\ runs[req[p].run] = NoRun
  BY DEF Commits, Inv, BasicInv, ReqTyped, RunIdsOwned, RunSteps
<1>2. PICK q \in Workers : Commit(q) /\ req[p].run = req[q].run
  BY <1>1, LoggedBy DEF Commits
<1>3. q = p
  BY <1>2 DEF Commits, Inv, BasicInv, RunIdsOwned, RunSteps
<1>4. QED
  BY <1>2, <1>3

\* UndoRestoresOrSkips: BE-4.  Whatever else runs, an undo that commits has put every object
\* back that still stood where the parent run left it, or has reported the save as failed,
\* and has left alone every object that did not.
THEOREM UndoRestores == Spec => UndoRestoresOrSkips
<1> DEFINE A == \A p \in Workers : Commits(p) /\ req[p].kind = "undo" =>
       LET parent == runs[req[p].parent].ops
       IN  \A i \in DOMAIN parent :
             LET e == parent[i]
             IN  /\ e.status = "applied"
                 /\ \A j \in Named(parent, e.obj) : parent[j].status = "applied" => j = i
                 /\ seen[p][e.obj] = obj[e.obj]
                 => IF obj[e.obj].active /\ Matches(obj[e.obj].geom, e.after)
                      THEN \/ Matches(obj'[e.obj].geom, e.before)
                           \/ \E j \in DOMAIN rows[p] : /\ rows[p][j].obj = e.obj
                                                        /\ rows[p][j].status = "failed"
                      ELSE obj'[e.obj] = obj[e.obj]
<1>1. Inv /\ [Next]_vars => [A]_vars
  <2> SUFFICES ASSUME Inv, [Next]_vars, NEW p \in Workers, Commits(p), req[p].kind = "undo",
                      NEW i \in DOMAIN runs[req[p].parent].ops,
                      runs[req[p].parent].ops[i].status = "applied",
                      \A j \in Named(runs[req[p].parent].ops, runs[req[p].parent].ops[i].obj) :
                         runs[req[p].parent].ops[j].status = "applied" => j = i,
                      seen[p][runs[req[p].parent].ops[i].obj] = obj[runs[req[p].parent].ops[i].obj]
               PROVE  LET e == runs[req[p].parent].ops[i]
                      IN  IF obj[e.obj].active /\ Matches(obj[e.obj].geom, e.after)
                            THEN \/ Matches(obj'[e.obj].geom, e.before)
                                 \/ \E j \in DOMAIN rows[p] : /\ rows[p][j].obj = e.obj
                                                              /\ rows[p][j].status = "failed"
                            ELSE obj'[e.obj] = obj[e.obj]
    OBVIOUS
  <2> DEFINE e == runs[req[p].parent].ops[i]
             o == e.obj
  <2>1. Commit(p) /\ pc[p] = "commit" /\ pc[p] \in OpenSteps
    BY CommitsCommit DEF Commits, OpenSteps
  <2>2. o \in Objects /\ e.before \in Dict(Values)
    <3>1. /\ req[p].parent \in RunIds /\ runs[req[p].parent] # NoRun
      BY <2>1 DEF Inv, BasicInv, ReqTyped, RunSteps
    <3>2. QED
      BY <3>1 DEF Inv, PlanInv, RunsSound, RowsSound
  <2>3. PICK k \in DOMAIN req[p].ops : /\ req[p].ops[k].obj = o
                                       /\ req[p].ops[k].before = e.after
                                       /\ req[p].ops[k].patch = e.before
                                       /\ Single(p, k)
    BY <2>1, UndoOfSingle
  <2>4. /\ k \in DOMAIN rows[p] /\ k <= Len(rows[p])
        /\ rows[p][k].obj = o
        /\ rows[p][k].status \in {"applied", "failed", "skipped"}
    <3>1. Len(rows[p]) = Len(req[p].ops)
      BY <2>1 DEF Inv, RowsInv, RowsFollowOps
    <3>2. req[p].ops \in Seq(Operation) /\ rows[p] \in Seq(OpRow)
      BY DEF Inv, BasicInv, TypeOK, Request
    <3>3. k \in 1 .. Len(rows[p]) /\ DOMAIN rows[p] = 1 .. Len(rows[p]) /\ rows[p][k] \in OpRow
      BY <3>1, <3>2, LenProperties, ElementOfSeq
    <3>4. rows[p][k].obj = o
      BY <2>3, <3>3 DEF Inv, RowsInv, RowsFollowOps
    <3>5. QED
      BY <3>3, <3>4 DEF OpRow
  <2>5. SingleTold(p, k)
    BY <2>1, <2>2, <2>3, <2>4 DEF Inv, RowsInv, SingleOps
  <2>6. AppliesToRead(p, k) <=> obj[o].active /\ Matches(obj[o].geom, e.after)
    BY <2>3 DEF AppliesToRead
  <2>7. /\ o \notin saved[p] => obj'[o] = obj[o]
        /\ o \in saved[p] => obj'[o].geom = mem[p][o]
    BY <2>1, <2>2, CommitShape
  <2>8. CASE rows[p][k].status = "applied"
    <3>1. AppliesToRead(p, k) /\ mem[p][o] = Patched(seen[p][o].geom, e.before)
      BY <2>3, <2>5, <2>8 DEF SingleTold
    <3>2. o \in saved[p]
      BY <2>2, <2>4, <2>8 DEF Inv, RowsInv, RowsTellSaves, Log!AppliedOn
    <3>3. seen[p][o].geom \in Geometry
      BY <2>2 DEF Inv, BasicInv, TypeOK, ObjRow
    <3>4. Matches(obj'[o].geom, e.before)
      BY <2>2, <2>7, <3>1, <3>2, <3>3, PatchedMatches
    <3>5. QED
      BY <2>6, <3>1, <3>4
  <2>9. CASE rows[p][k].status = "failed"
    BY <2>3, <2>4, <2>5, <2>6, <2>9 DEF SingleTold
  <2>10. CASE rows[p][k].status = "skipped"
    BY <2>3, <2>5, <2>6, <2>7, <2>10 DEF SingleTold
  <2>11. QED
    BY <2>4, <2>8, <2>9, <2>10
<1>2. QED
  BY <1>1, InvAlways, PTL DEF Spec, UndoRestoresOrSkips
================================================================================
