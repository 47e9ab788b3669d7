---------------------------- MODULE MCCreateOnly ----------------------------
(***************************************************************************)
(* Instances of CreateOnly over the inventories of the unit tests: a       *)
(* directory with a payload, beside a name nobody planned for; and that    *)
(* directory with two files, one more than the entry bound admits.         *)
(***************************************************************************)
EXTENDS CreateOnly, TLC

CONSTANTS nested, payload, receipt, stray, w1, w2, w3

Nested == {nested}
NestedFiles == {payload, stray}
NestedPlan == {nested, payload}
NestedParent == (nested :> Root) @@ (payload :> nested) @@ (stray :> Root)

\* Two files of one directory, of which the entry bound admits one, beside the
\* name nobody planned for.
PairFiles == {payload, receipt, stray}
PairPlan == {nested, payload, receipt}
PairParent ==
  (nested :> Root) @@ (payload :> nested) @@ (receipt :> nested) @@ (stray :> Root)
PairSymmetry == Permutations({payload, receipt}) \cup Permutations({w1, w2})
=============================================================================
