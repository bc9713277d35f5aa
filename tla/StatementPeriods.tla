-------------------------- MODULE StatementPeriods --------------------------
(***************************************************************************)
(* The statement periods of one card in the cashback store                 *)
(* (finance_tracker/cashback_events.py): tables card_periods,              *)
(* statement_receipts and reconciliation_runs, and the requests that       *)
(* change them.  Every request but one is a single SQLite transaction.     *)
(* finalize_period reads the run and the period before its transaction     *)
(* begins, and no lock of the server is held around the two, so it is two  *)
(* steps.  Cards are independent.                                          *)
(*                                                                         *)
(* A period is known by its bounds, half-open instants at midnight; the    *)
(* period_id the store derives from them stands for the same thing.        *)
(* A request that is refused changes nothing and is left out, and so is a  *)
(* replay of what is already stored.                                       *)
(***************************************************************************)
EXTENDS Naturals

CONSTANTS
  Period,       \* bounds [from, to] that requests may name
  Cycle,        \* those of the programme's statement cycle
  Receipt,      \* statement mails
  ReceivedAt,   \* ReceivedAt[q]: original timestamp of the mail q
  Reference,    \* statement references
  Evidence,     \* evidence, document and Actual receipt of a finalization
  Finalizer,    \* finalization requests in progress at one time
  None

ASSUME PeriodAssumption ==
  /\ Period \subseteq [from : Nat, to : Nat]
  /\ \A p \in Period : p.from < p.to
ASSUME CycleAssumption ==
  /\ Cycle \subseteq Period
  /\ \A p, q \in Cycle : p.from = q.from => p = q
ASSUME ReceiptAssumption == ReceivedAt \in [Receipt -> Nat]
ASSUME NoneAssumption == None \notin Period \cup Receipt \cup Reference \cup Evidence

VARIABLES
  periods,    \* card_periods
  receipts,   \* statement_receipts
  runs,       \* reconciliation_runs
  work        \* what each finalization read and is about to write

vars == <<periods, receipts, runs, work>>

-----------------------------------------------------------------------------
Statuses == {"NONE", "OPEN", "CLOSED", "FINALIZED"}
NoPeriod == [status |-> "NONE", closedBy |-> None, statement |-> None, evidence |-> None]
NoWork == [pc |-> "idle", statement |-> None, evidence |-> None]

TypeOK ==
  /\ periods \in [Period -> [status : Statuses, closedBy : Receipt \cup {None},
                             statement : Reference \cup {None}, evidence : Evidence \cup {None}]]
  /\ receipts \in [Receipt -> [stored : BOOLEAN, period : Period \cup {None}]]
  /\ runs \in [Reference -> [period : Period \cup {None}, variances : BOOLEAN]]
  /\ work \in [Finalizer -> [pc : {"idle", "write"}, statement : Reference \cup {None},
                             evidence : Evidence \cup {None}]]

Init ==
  /\ periods = [p \in Period |-> NoPeriod]
  /\ receipts = [q \in Receipt |-> [stored |-> FALSE, period |-> None]]
  /\ runs = [t \in Reference |-> [period |-> None, variances |-> FALSE]]
  /\ work = [f \in Finalizer |-> NoWork]

Exists(p) == periods[p].status # "NONE"
IsOpen(p) == periods[p].status = "OPEN"
Finalized(p) == periods[p].status = "FINALIZED"

Overlap(p, q) == p.from < q.to /\ q.from < p.to

\* No stored period overlaps the bounds p.
Vacant(p) == \A q \in Period : Exists(q) => ~Overlap(p, q)

-----------------------------------------------------------------------------
(* Periods and the receipts that close them.                               *)

\* ensure_period for bounds that are not stored yet.
EnsurePeriod(p) ==
  /\ ~Exists(p)
  /\ Vacant(p)
  /\ periods' = [periods EXCEPT ![p].status = "OPEN"]
  /\ UNCHANGED <<receipts, runs, work>>

\* The mail closes the period that ends when it was sent.
Close(q, p) ==
  /\ ReceivedAt[q] = p.to
  /\ receipts' = [receipts EXCEPT ![q] = [stored |-> TRUE, period |-> p]]
  /\ periods' = [periods EXCEPT ![p].status = "CLOSED", ![p].closedBy = q]
  /\ UNCHANGED <<runs, work>>

\* Mutant: a period another receipt closed is closed again.
RecordNamedAgain(q, p) ==
  /\ receipts[q].period = None
  /\ \/ periods[p].status \in {"OPEN", "CLOSED"}
     \/ ~receipts[q].stored /\ ~Exists(p) /\ Vacant(p)
  /\ Close(q, p)

\* record_statement_receipt naming a period.  One that waits is only bound to
\* an existing period, a new one creates the period when it is missing.
BindsWaiting(q, p) == receipts[q].stored /\ IsOpen(p)
BindsNew(q, p) == ~receipts[q].stored /\ (IsOpen(p) \/ (~Exists(p) /\ Vacant(p)))

RecordNamed(q, p) ==
  /\ receipts[q].period = None
  /\ BindsWaiting(q, p) \/ BindsNew(q, p)
  /\ Close(q, p)

\* ... without a period: the one open period that ends at the timestamp, an
\* error when there are several.
Matching(q) == {p \in Period : IsOpen(p) /\ p.to = ReceivedAt[q]}

RecordUnnamed(q) ==
  /\ receipts[q].period = None
  /\ \E p \in Period : Matching(q) = {p} /\ Close(q, p)

\* ... and none: WAITING_STATEMENT.
RecordWaiting(q) ==
  /\ ~receipts[q].stored
  /\ Matching(q) = {}
  /\ receipts' = [receipts EXCEPT ![q].stored = TRUE]
  /\ UNCHANGED <<periods, runs, work>>

-----------------------------------------------------------------------------
(* Reconciliation and finalization.                                        *)

\* Mutant: a reference can be used for another period.
ReconcileAgain(t, p, variances) ==
  /\ runs' = [runs EXCEPT ![t] = [period |-> p, variances |-> variances]]
  /\ UNCHANGED <<periods, receipts, work>>

\* reconcile_statement as far as it matters here: a reference is bound to one
\* card, period and content for good.
Reconcile(t, p, variances) ==
  /\ runs[t].period = None
  /\ runs' = [runs EXCEPT ![t] = [period |-> p, variances |-> variances]]
  /\ UNCHANGED <<periods, receipts, work>>

\* Mutant: what is already FINALIZED is not looked at.
FinalizeCheckNothing(f, t, e, acknowledged) ==
  /\ work[f].pc = "idle"
  /\ runs[t].period # None
  /\ runs[t].variances => acknowledged
  /\ work' = [work EXCEPT ![f] = [pc |-> "write", statement |-> t, evidence |-> e]]
  /\ UNCHANGED <<periods, receipts, runs>>

\* finalize_period up to its first write.  A finalized period is answered
\* from the row or refused.
FinalizeCheck(f, t, e, acknowledged) ==
  /\ work[f].pc = "idle"
  /\ runs[t].period # None
  /\ runs[t].variances => acknowledged
  /\ ~Finalized(runs[t].period)
  /\ work' = [work EXCEPT ![f] = [pc |-> "write", statement |-> t, evidence |-> e]]
  /\ UNCHANGED <<periods, receipts, runs>>

Following(p) == {n \in Cycle : n.from = p.to}

Final(row, f) == [row EXCEPT !.status = "FINALIZED", !.statement = work[f].statement,
                             !.evidence = work[f].evidence]

\* Mutants: no roll back when the cycle does not continue; the period after
\* it is opened again when it exists; status and reconciliation_status swapped.
FinalizeWriteAlways(f) ==
  LET p == runs[work[f].statement].period
  IN  /\ work[f].pc = "write"
      /\ periods' = [q \in Period |-> IF q = p THEN Final(periods[q], f)
                                      ELSE IF q \in Following(p) /\ ~Exists(q) /\ Vacant(q)
                                      THEN [NoPeriod EXCEPT !.status = "OPEN"] ELSE periods[q]]
      /\ work' = [work EXCEPT ![f] = NoWork]
      /\ UNCHANGED <<receipts, runs>>

FinalizeWriteReopens(f) ==
  LET p == runs[work[f].statement].period
  IN  /\ work[f].pc = "write"
      /\ periods' = [q \in Period |-> IF q = p THEN Final(periods[q], f)
                                      ELSE IF q \in Following(p)
                                      THEN [periods[q] EXCEPT !.status = "OPEN"] ELSE periods[q]]
      /\ work' = [work EXCEPT ![f] = NoWork]
      /\ UNCHANGED <<receipts, runs>>

\* The transaction of finalize_period: upsert the period whatever it is by
\* now and open the next one of the cycle, with no look at other bounds.  When
\* the programme does not continue at p.to everything is rolled back.
FinalizeWrite(f) ==
  LET p == runs[work[f].statement].period
  IN  /\ work[f].pc = "write"
      /\ periods' = IF Following(p) = {} THEN periods
                    ELSE [q \in Period |->
                           IF q = p THEN Final(periods[q], f)
                           ELSE IF q \in Following(p) /\ ~Exists(q)
                           THEN [NoPeriod EXCEPT !.status = "OPEN"] ELSE periods[q]]
      /\ work' = [work EXCEPT ![f] = NoWork]
      /\ UNCHANGED <<receipts, runs>>

\* The server stops and starts; what was only read is forgotten.
Restart ==
  /\ work' = [f \in Finalizer |-> NoWork]
  /\ UNCHANGED <<periods, receipts, runs>>

-----------------------------------------------------------------------------
Next ==
  \/ \E p \in Period : EnsurePeriod(p)
  \/ \E q \in Receipt, p \in Period : RecordNamed(q, p)
  \/ \E q \in Receipt : RecordUnnamed(q) \/ RecordWaiting(q)
  \/ \E t \in Reference, p \in Period, v \in BOOLEAN : Reconcile(t, p, v)
  \/ \E f \in Finalizer, t \in Reference, e \in Evidence, a \in BOOLEAN :
       FinalizeCheck(f, t, e, a)
  \/ \E f \in Finalizer : FinalizeWrite(f)
  \/ Restart

Spec == Init /\ [][Next]_vars

-----------------------------------------------------------------------------
(* Periods and receipts agree on who closed what, so no period is closed by *)
(* two mails and no mail closes two periods, whether it came before the     *)
(* period, named it, found it or waited for it  (record_statement_receipt). *)
OneClosingReceipt ==
  /\ \A q \in Receipt, p \in Period : receipts[q].period = p <=> periods[p].closedBy = q
  /\ \A q \in Receipt : receipts[q].period # None =>
       receipts[q].stored /\ ReceivedAt[q] = receipts[q].period.to
  /\ \A p \in Period : periods[p].closedBy # None => periods[p].status \in {"CLOSED", "FINALIZED"}

(* A finalized period rests on a reconciliation of exactly its bounds, also *)
(* when the row was written by a request that checked long before           *)
(* (docs/finance-execution-plan.md, "no statement or cashback period is     *)
(* finalized without statement reconciliation").                            *)
FinalizedIsReconciled ==
  \A p \in Period : Finalized(p) =>
    /\ periods[p].evidence # None
    /\ periods[p].statement # None
    /\ runs[periods[p].statement].period = p

(* Behind a finalized period the cycle goes on: the next period is stored,  *)
(* or the finalization was rolled back as a whole (finalize_period).        *)
HistoryContinues ==
  \A p \in Period : Finalized(p) => \E n \in Following(p) : Exists(n)

(* A period never goes back: it is opened, closed, finalized, and neither a *)
(* later receipt nor a finalization around it changes who closed it.        *)
Progress(s) == CASE s = "NONE" -> 0 [] s = "OPEN" -> 1 [] s = "CLOSED" -> 2 [] s = "FINALIZED" -> 3

PeriodsMoveForward ==
  [][\A p \in Period :
       /\ Progress(periods'[p].status) >= Progress(periods[p].status)
       /\ periods[p].closedBy # None => periods'[p].closedBy = periods[p].closedBy]_vars

(* What a period was finalized with stays.  finalize_period refuses another *)
(* finalization: "finalized statement reference was already used for        *)
(* different content, digest, or evidence".                                 *)
FinalizedIsFinal ==
  [][\A p \in Period : Finalized(p) => periods'[p] = periods[p]]_vars

(* What the race can do to a finalized period, for any number of requests   *)
(* at a time: only those that were past the check when it was finalized     *)
(* replace what it rests on, each once, and no later request joins them.    *)
(* Once they are done the period is final  (finalize_period).               *)
Racing(p) == {f \in Finalizer : work[f].pc = "write" /\ runs[work[f].statement].period = p}

OnlyRacersReplace ==
  [][\A p \in Period : Finalized(p) =>
       /\ Racing(p)' \subseteq Racing(p)
       /\ \/ periods'[p] = periods[p]
          \/ \E f \in Racing(p) \ Racing(p)' : periods'[p] = Final(periods[p], f)]_vars

(* Journey J25 S3: "Incomplete or overlapping period finalization" fails    *)
(* closed; ensure_period and record_statement_receipt refuse overlapping    *)
(* bounds with "cashback periods overlap for card".                         *)
NoOverlap ==
  \A p, q \in Period : Exists(p) /\ Exists(q) /\ p # q => ~Overlap(p, q)

-----------------------------------------------------------------------------
(* The inductive invariant: what a finalization has read stays reconciled.  *)
WorkInv ==
  \A f \in Finalizer : work[f].pc = "write" =>
    /\ work[f].evidence # None
    /\ work[f].statement # None
    /\ runs[work[f].statement].period # None

PeriodInv ==
  /\ TypeOK /\ WorkInv
  /\ OneClosingReceipt /\ FinalizedIsReconciled /\ HistoryContinues
=============================================================================
