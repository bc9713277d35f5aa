--------------------------- MODULE MCOutboxApply ---------------------------
(* Model-checking instances of OutboxApply: two executions, interchangeable, *)
(* and one or two statements; two statements share a row.                    *)
EXTENDS OutboxApply, TLC

CONSTANTS r1, r2, b1, b2, i1, i2

MCRunner == {r1, r2}
RowsOfOne == b1 :> {i1, i2}
RowsOfTwo == (b1 :> {i1}) @@ (b2 :> {i1, i2})
RunnerSymmetry == Permutations(MCRunner)
=============================================================================
