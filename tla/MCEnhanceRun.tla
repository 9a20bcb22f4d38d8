------------------------------ MODULE MCEnhanceRun ------------------------------
(***************************************************************************)
(* Instances of EnhanceRun for TLC: two objects with one geometry field,   *)
(* and batches that overlap in opposite order, fail, and miss.             *)
(***************************************************************************)
EXTENDS EnhanceRun, TLC

CONSTANTS o1, o2

OneField == {"rotation"}

\* 2 stands for the rotation 1 with a full turn more, 3 for an input that is rejected.
Fold == [f \in OneField |-> [v \in 0..3 |-> CASE v = 2 -> 1 [] v = 3 -> None [] OTHER -> v]]

At(v) == [f \in OneField |-> v]
From(o, v, w) == [obj |-> o, before |-> At(v), patch |-> At(w)]

\* Tidy both objects, in either order.
Forward  == <<From(o1, 0, 1), From(o2, 0, 1)>>
Backward == <<From(o2, 0, 2), From(o1, 0, 1)>>

\* A batch with a patch that does not validate and an object of another floor.
Broken == <<From(o2, 0, 3), From(None, 0, 1)>>

RaceBatches == {Forward, Backward, Broken}
Crossing    == {Forward, Backward}
OneMove     == {<<From(o1, 0, 1)>>}

\* A manual edit can also take the object to a third place.
Places    == {0, 1, 4}
Anywhere  == [f \in OneField |-> [v \in Places |-> v]]

\* Workers and run ids are told apart by nothing.
Symmetric == Permutations(Workers) \cup Permutations(RunIds)
================================================================================
