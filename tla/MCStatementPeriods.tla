------------------------- MODULE MCStatementPeriods -------------------------
(* Model-checking instances of StatementPeriods: three periods of the cycle *)
(* and one that spans the first two.                                        *)
EXTENDS StatementPeriods, TLC

CONSTANTS q1, q2, t1, t2, e1, e2

Months == {[from |-> k, to |-> k + 1] : k \in 0..2}
Bounds == Months \cup {[from |-> 0, to |-> 2]}
SameDay == (q1 :> 2) @@ (q2 :> 2)
StoreSymmetry == Permutations({t1, t2}) \cup Permutations({e1, e2}) \cup Permutations({q1, q2})
=============================================================================
