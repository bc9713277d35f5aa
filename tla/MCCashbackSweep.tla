-------------------------- MODULE MCCashbackSweep --------------------------
(* Model-checking instances of CashbackSweep.                               *)
EXTENDS CashbackSweep, TLC

CONSTANTS s1, s2, m1, m2, f1, f2, f3

MCSweep == {s1, s2}
OwnFacts == (m1 :> f1) @@ (m2 :> f2)
OnlyFirst == m1 :> f1
SweepSymmetry == Permutations(MCSweep)
=============================================================================
