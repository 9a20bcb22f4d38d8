------------------------------- MODULE EnhanceLog -------------------------------
(***************************************************************************)
(* What the layout-enhancement runs of a floor promise: an audit log that  *)
(* accounts for every move.  A run enters the log in the very step that    *)
(* moves the objects, it moves exactly the objects its applied operations  *)
(* name, to where they say; a plan is applied once; an undo restores what  *)
(* its parent applied and a retry re-attempts what its parent failed.      *)
(* Anything else that moves an object is an edit of that one object.       *)
(* EnhanceRun implements this with copies, row locks, savepoints and one   *)
(* transaction per run.                                                    *)
(***************************************************************************)
EXTENDS Naturals, Sequences

CONSTANTS Objects, RunIds, NoRun

VARIABLES geom,   \* the geometry of each object
          log     \* the recorded runs

logVars == <<geom, log>>

Init == log = [r \in RunIds |-> NoRun]

AppliedOn(ops, o) == {i \in DOMAIN ops : ops[i].status = "applied" /\ ops[i].obj = o}

\* Where the operations of a run leave an object: where the last applied one put it.
MovedBy(ops, o, from, to) ==
  IF AppliedOn(ops, o) = {}
    THEN to = from
    ELSE \E i \in AppliedOn(ops, o) :
           /\ \A j \in AppliedOn(ops, o) : j <= i
           /\ to = ops[i].after

\* An applied operation of a derived run answers an operation of its parent.
Restores(e, f) == f.status = "applied" /\ f.obj = e.obj /\ e.patch = f.before
Reattempts(e, f) == f.status = "failed" /\ f.obj = e.obj /\ e.patch = f.patch

Answers(e, f, kind) == IF kind = "undo" THEN Restores(e, f) ELSE Reattempts(e, f)

Fresh(run) ==
  run.kind = "apply" => \A s \in RunIds : log[s] # NoRun => log[s].plan # run.plan

InScope(run) ==
  run.kind # "apply" =>
    /\ log[run.parent] # NoRun
    /\ \A i \in DOMAIN run.ops :
         \E j \in DOMAIN log[run.parent].ops :
           Answers(run.ops[i], log[run.parent].ops[j], run.kind)

Record(r) ==
  /\ log[r] = NoRun
  /\ log'[r] # NoRun
  /\ \A s \in RunIds \ {r} : log'[s] = log[s]
  /\ Fresh(log'[r])
  /\ InScope(log'[r])
  /\ \A o \in Objects : MovedBy(log'[r].ops, o, geom[o], geom'[o])

Edit(o) ==
  /\ \A q \in Objects \ {o} : geom'[q] = geom[q]
  /\ UNCHANGED log

Next == \/ \E r \in RunIds : Record(r)
        \/ \E o \in Objects : Edit(o)

Spec == Init /\ [][Next]_logVars
================================================================================
