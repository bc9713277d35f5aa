--------------------------- MODULE OutboxContract ---------------------------
(***************************************************************************)
(* What the outbox promises its callers (docs/journeys J39 and J40), with  *)
(* no executions, leases or states: a batch is intended, its rows reach    *)
(* the ledger all together and once, and only then is a receipt handed     *)
(* out.  OutboxApply implements this.                                      *)
(***************************************************************************)
EXTENDS Naturals

CONSTANTS Batch, Id, RowsOf

VARIABLES
  ledger,     \* ledger[i]: rows with imported id i
  intended,   \* batches somebody asked to apply
  delivered   \* batches a commit receipt was handed out for

contractVars == <<ledger, intended, delivered>>

Init ==
  /\ ledger = [i \in Id |-> 0]
  /\ intended = {}
  /\ delivered = {}

Intend(b) ==
  /\ intended' = intended \cup {b}
  /\ UNCHANGED <<ledger, delivered>>

\* The missing rows of one intended batch appear together.
Apply(b) ==
  /\ b \in intended
  /\ ledger' = [i \in Id |-> IF i \in RowsOf[b] THEN 1 ELSE ledger[i]]
  /\ UNCHANGED <<intended, delivered>>

Deliver(b) ==
  /\ \A i \in RowsOf[b] : ledger[i] = 1
  /\ delivered' = delivered \cup {b}
  /\ UNCHANGED <<ledger, intended>>

Next == \E b \in Batch : Intend(b) \/ Apply(b) \/ Deliver(b)

Spec == Init /\ [][Next]_contractVars
=============================================================================
