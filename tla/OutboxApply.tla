---------------------------- MODULE OutboxApply ----------------------------
(***************************************************************************)
(* Applying the Actual outbox: workflow 20 run by several executions at    *)
(* once, started by the shared statement pipeline (workflow 03, from the   *)
(* outbox lookup on) and by the ten-minute recovery scan (workflow 17),    *)
(* with the Actual sessions of packages/n8n-nodes-finance that read and    *)
(* write the ledger.  Every node that reads or writes shared state is an   *)
(* action of its own, so executions interleave, fail and are killed        *)
(* between any two nodes.                                                  *)
(*                                                                         *)
(* Shared state: the row of each batch in data table                       *)
(* finance_actual_batches (its verification receipt is columns of the same *)
(* row), the lease row (WriterLease), the Actual ledger on its server, and *)
(* the local budget copy of the one n8n process, whose unsynced rows any   *)
(* later session of that process pushes.                                   *)
(***************************************************************************)
EXTENDS WriterLease, Sequences

CONSTANTS
  Batch,      \* outbox batches, one per statement document
  Id,         \* imported_id values of statement rows
  RowsOf,     \* RowsOf[b]: the imported ids of the delta artifact of b
  MaxFaults,  \* bound on failed nodes, process kills and early expiries
  NoRunner

ASSUME BatchAssumption == Batch # {}
ASSUME RowsAssumption == RowsOf \in [Batch -> SUBSET Id]
ASSUME FaultsAssumption == MaxFaults \in Nat
ASSUME NoRunnerAssumption == NoRunner \notin Runner

VARIABLES
  outbox,     \* the batch rows: state, receipt columns present, lease_fence
  order,      \* batch rows in the order they were inserted
  ledger,     \* ledger[i]: rows of the Actual server that carry imported id i
  local,      \* local[i]: such rows in the local copy, not yet synced
  drifted,    \* ids whose amount or date a user changed in Actual
  session,    \* the execution whose Actual session runs, or NoRunner
  run,        \* what each execution holds in memory
  delivered,  \* batches whose trusted commit receipt reached a caller
  faults

vars == <<lease, held, outbox, order, ledger, local, drifted, session, run,
          delivered, faults>>

ledgerVars == <<ledger, local, drifted>>

-----------------------------------------------------------------------------
RowStates == {"NONE", "PREPARED", "ACTUAL_OBSERVED", "VERIFIED", "COMMITTED"}
Nonterminal == {"PREPARED", "ACTUAL_OBSERVED", "VERIFIED"}

Labels == {"idle", "prepare", "readPrepared", "route", "preflight", "assertImport",
           "import", "write", "readBack", "assertPost", "observe", "readObserved",
           "verify", "receipt", "verified", "readReceipt", "assertCommit",
           "release", "readReleased", "commit", "return"}

\* batch is only read after a start action has set it.
Run == [pc : Labels, batch : Batch, snap : RowStates, seen : SUBSET Id, freed : BOOLEAN]

AnyBatch == CHOOSE b \in Batch : TRUE
IdleRun == [pc |-> "idle", batch |-> AnyBatch, snap |-> "NONE", seen |-> {}, freed |-> FALSE]

TypeOK ==
  /\ LeaseTypeOK
  /\ outbox \in [Batch -> [state : RowStates, receipt : BOOLEAN, fence : 0..MaxToken]]
  /\ order \in Seq(Batch)
  /\ ledger \in [Id -> Nat]
  /\ local \in [Id -> Nat]
  /\ drifted \in SUBSET Id
  /\ session \in Runner \cup {NoRunner}
  /\ run \in [Runner -> Run]
  /\ delivered \in SUBSET Batch
  /\ faults \in 0..MaxFaults

Init ==
  /\ LeaseInit
  /\ outbox = [b \in Batch |-> [state |-> "NONE", receipt |-> FALSE, fence |-> 0]]
  /\ order = << >>
  /\ ledger = [i \in Id |-> 0]
  /\ local = [i \in Id |-> 0]
  /\ drifted = {}
  /\ session = NoRunner
  /\ run = [r \in Runner |-> IdleRun]
  /\ delivered = {}
  /\ faults = 0

-----------------------------------------------------------------------------
(* Control of one execution.                                               *)

At(r, label) == run[r].pc = label
Row(r) == outbox[run[r].batch]
Rows(r) == RowsOf[run[r].batch]

Goto(r, label) ==
  /\ run' = [run EXCEPT ![r].pc = label]
  /\ UNCHANGED leaseVars

\* The execution ends, normally or because a node threw.  It forgets its
\* token; nothing releases the lease on this path.
End(r) ==
  /\ run' = [run EXCEPT ![r] = IdleRun]
  /\ Forget(r)

\* A node that throws unless ok.
Check(r, ok, next) ==
  \/ ok /\ Goto(r, next)
  \/ ~ok /\ End(r)

SetState(r, state) == outbox' = [outbox EXCEPT ![run[r].batch].state = state]

Start(r, b, snap, label) ==
  run' = [run EXCEPT ![r] = [IdleRun EXCEPT !.pc = label, !.batch = b, !.snap = snap]]

-----------------------------------------------------------------------------
(* Workflow 03: look the batch up, insert it as PREPARED if it is new.     *)

\* The lookup and the route on its result.  An existing row is replayed
\* with the row that was read here; a new batch goes on to the insert.
SelectExisting(r, b) ==
  /\ At(r, "idle")
  /\ IF outbox[b].state = "NONE"
     THEN Start(r, b, "NONE", "prepare")
     ELSE Start(r, b, outbox[b].state, "route")
  /\ UNCHANGED <<leaseVars, outbox, order, ledgerVars, session, delivered, faults>>

\* Mutant: the upsert writes the whole row, empty receipt columns included.
UpsertWholeRow(r) ==
  /\ At(r, "prepare")
  /\ outbox' = [outbox EXCEPT ![run[r].batch] = [state |-> "PREPARED", receipt |-> FALSE, fence |-> 0]]
  /\ order' = IF Row(r).state = "NONE" THEN Append(order, run[r].batch) ELSE order
  /\ Goto(r, "readPrepared")
  /\ UNCHANGED <<ledgerVars, session, delivered, faults>>

\* The upsert matches on the idempotency key alone: a row that another
\* execution inserted meanwhile goes back to PREPARED, its other columns stay.
UpsertPrepared(r) ==
  /\ At(r, "prepare")
  /\ SetState(r, "PREPARED")
  /\ order' = IF Row(r).state = "NONE" THEN Append(order, run[r].batch) ELSE order
  /\ Goto(r, "readPrepared")
  /\ UNCHANGED <<ledgerVars, session, delivered, faults>>

\* The read back filters on PREPARED; an empty result carries no artifact id
\* and workflow 20 fails on it.
ReadPrepared(r) ==
  /\ At(r, "readPrepared")
  /\ IF Row(r).state = "PREPARED"
     THEN run' = [run EXCEPT ![r] = [@ EXCEPT !.pc = "route", !.snap = "PREPARED"]] /\ UNCHANGED leaseVars
     ELSE End(r)
  /\ UNCHANGED <<outbox, order, ledgerVars, session, delivered, faults>>

(* Workflow 17: all nonterminal rows are handed to one execution, which    *)
(* works on the first of them.                                             *)
FirstNonterminal(k) ==
  /\ outbox[order[k]].state \in Nonterminal
  /\ \A j \in 1..(k - 1) : outbox[order[j]].state \notin Nonterminal

Scan(r) ==
  /\ At(r, "idle")
  /\ \E k \in 1..Len(order) :
       /\ FirstNonterminal(k)
       /\ Start(r, order[k], outbox[order[k]].state, "route")
  /\ UNCHANGED <<leaseVars, outbox, order, ledgerVars, session, delivered, faults>>

-----------------------------------------------------------------------------
(* Workflow 20: route on the row as it was when it was read.               *)

\* A committed row is answered from a fresh read of the row and its receipt.
Replay(r) ==
  /\ At(r, "route")
  /\ run[r].snap = "COMMITTED"
  /\ delivered' = IF Row(r).state = "COMMITTED" /\ Row(r).receipt
                  THEN delivered \cup {run[r].batch} ELSE delivered
  /\ End(r)
  /\ UNCHANGED <<outbox, order, ledgerVars, session, faults>>

AfterAcquire(snap) ==
  CASE snap = "PREPARED" -> "preflight"
    [] snap = "ACTUAL_OBSERVED" -> "preflight"
    [] snap = "VERIFIED" -> "readReceipt"

\* Acquire the writer fence, then branch on the state that was read before
\* it.  In the VERIFIED branch the row is read back but an empty result stops
\* nothing, so the next node that matters is the receipt.
AcquireFence(r) ==
  /\ At(r, "route")
  /\ run[r].snap \in Nonterminal
  /\ Acquire(r)
  /\ run' = [run EXCEPT ![r].pc = AfterAcquire(run[r].snap)]
  /\ UNCHANGED <<outbox, order, ledgerVars, session, delivered, faults>>

\* No row came back: WRITER_LEASE_BUSY_OR_INVALID.
FenceBusy(r) ==
  /\ At(r, "route")
  /\ run[r].snap \in Nonterminal
  /\ ~(Acquirable /\ lease.token < MaxToken)
  /\ End(r)
  /\ UNCHANGED <<outbox, order, ledgerVars, session, delivered, faults>>

(* The fence assertions: before the import, after it, before the commit.   *)
AssertFence(r) ==
  /\ \/ At(r, "assertImport") /\ Check(r, Valid(r), "import")
     \/ At(r, "assertPost") /\ Check(r, Valid(r), "observe")
     \/ At(r, "assertCommit") /\ Check(r, Valid(r), "release")
  /\ UNCHANGED <<outbox, order, ledgerVars, session, delivered, faults>>

-----------------------------------------------------------------------------
(* Actual sessions.  The sessions of the process are serialized; each one   *)
(* starts with download and sync, which pushes what the local copy has not  *)
(* pushed yet.                                                              *)

Copies(i) == ledger[i] + local[i]

Sync ==
  /\ ledger' = [i \in Id |-> Copies(i)]
  /\ local' = [i \in Id |-> 0]
  /\ UNCHANGED drifted

\* expires_at > Date.now() for the lease in the envelope.
NotExpired(r) == held[r] = lease.token /\ ~lease.expired

Present(r) == {i \in Rows(r) : Copies(i) > 0}

\* duplicate_ids is empty and no existing row changed account, date, amount.
ExistingFactsHold(r) == \A i \in Present(r) : Copies(i) = 1 /\ i \notin drifted

Preflight(r) ==
  /\ At(r, "preflight")
  /\ session = NoRunner
  /\ IF NotExpired(r)
     THEN Sync /\ Check(r, ExistingFactsHold(r),
                        IF run[r].snap = "PREPARED" THEN "assertImport" ELSE "readObserved")
     ELSE End(r) /\ UNCHANGED ledgerVars
  /\ UNCHANGED <<outbox, order, session, delivered, faults>>

\* The import session up to the read of the existing rows.
BeginImport(r) ==
  /\ At(r, "import")
  /\ session = NoRunner
  /\ IF ~NotExpired(r)
     THEN End(r) /\ UNCHANGED <<ledgerVars, session>>
     ELSE /\ Sync
          /\ IF ExistingFactsHold(r)
             THEN /\ run' = [run EXCEPT ![r] = [@ EXCEPT !.pc = "write", !.seen = Present(r)]]
                  /\ session' = r
                  /\ UNCHANGED leaseVars
             ELSE End(r) /\ UNCHANGED session
  /\ UNCHANGED <<outbox, order, delivered, faults>>

\* Mutants: all rows of the artifact are sent; the deadline is not looked at
\* again before they are.
WriteAllRows(r) ==
  /\ At(r, "write")
  /\ IF NotExpired(r)
     THEN /\ local' = [i \in Id |-> IF i \in Rows(r) THEN local[i] + 1 ELSE local[i]]
          /\ Goto(r, "readBack")
          /\ UNCHANGED session
     ELSE End(r) /\ session' = NoRunner /\ UNCHANGED local
  /\ UNCHANGED <<outbox, order, ledger, drifted, delivered, faults>>

WriteUnfenced(r) ==
  /\ At(r, "write")
  /\ local' = [i \in Id |-> IF i \in Rows(r) \ run[r].seen THEN local[i] + 1 ELSE local[i]]
  /\ Goto(r, "readBack")
  /\ UNCHANGED <<outbox, order, ledger, drifted, session, delivered, faults>>

\* Only rows that were not seen are sent, and only while the lease runs.
WriteRows(r) ==
  LET newRows == Rows(r) \ run[r].seen
  IN /\ At(r, "write")
     /\ IF newRows = {} \/ NotExpired(r)
        THEN /\ local' = [i \in Id |-> IF i \in newRows THEN local[i] + 1 ELSE local[i]]
             /\ Goto(r, "readBack")
             /\ UNCHANGED session
        ELSE End(r) /\ session' = NoRunner /\ UNCHANGED local
     /\ UNCHANGED <<outbox, order, ledger, drifted, delivered, faults>>

\* Mutant: the rows are read back from the local copy before they are pushed.
ReadBackUnsynced(r) ==
  /\ At(r, "readBack")
  /\ session' = NoRunner
  /\ Check(r, ExistingFactsHold(r), "assertPost")
  /\ UNCHANGED <<outbox, order, ledgerVars, delivered, faults>>

\* Sync, read the rows back, close the session.
ReadBackImport(r) ==
  /\ At(r, "readBack")
  /\ Sync
  /\ session' = NoRunner
  /\ Check(r, ExistingFactsHold(r), "assertPost")
  /\ UNCHANGED <<outbox, order, delivered, faults>>

\* Every row exactly once with its immutable facts, and the closing balance
\* they add up to.
Verify(r) ==
  /\ At(r, "verify")
  /\ session = NoRunner
  /\ Sync
  /\ Check(r, \A i \in Rows(r) : Copies(i) = 1 /\ i \notin drifted, "receipt")
  /\ UNCHANGED <<outbox, order, session, delivered, faults>>

-----------------------------------------------------------------------------
(* The batch row.  Every upsert matches on the batch alone: neither the     *)
(* state it overwrites nor the fence is a condition.                        *)

UpsertObserved(r) ==
  /\ At(r, "observe")
  /\ SetState(r, "ACTUAL_OBSERVED")
  /\ Goto(r, "readObserved")
  /\ UNCHANGED <<order, ledgerVars, session, delivered, faults>>

\* Reads with state = ACTUAL_OBSERVED; without a row there are no balances
\* and the verification contract throws.
ReadObserved(r) ==
  /\ At(r, "readObserved")
  /\ Check(r, Row(r).state = "ACTUAL_OBSERVED", "verify")
  /\ UNCHANGED <<outbox, order, ledgerVars, session, delivered, faults>>

UpsertReceipt(r) ==
  /\ At(r, "receipt")
  /\ outbox' = [outbox EXCEPT ![run[r].batch].receipt = TRUE]
  /\ Goto(r, "verified")
  /\ UNCHANGED <<order, ledgerVars, session, delivered, faults>>

\* Receipt read back and compared, then the state.
UpsertVerified(r) ==
  /\ At(r, "verified")
  /\ IF Row(r).receipt
     THEN SetState(r, "VERIFIED") /\ Goto(r, "readReceipt")
     ELSE End(r) /\ UNCHANGED outbox
  /\ UNCHANGED <<order, ledgerVars, session, delivered, faults>>

ReadReceipt(r) ==
  /\ At(r, "readReceipt")
  /\ Check(r, Row(r).receipt, "assertCommit")
  /\ UNCHANGED <<outbox, order, ledgerVars, session, delivered, faults>>

ReleaseFence(r) ==
  /\ At(r, "release")
  /\ IF ReleaseSucceeds(r)
     THEN Release(r) /\ run' = [run EXCEPT ![r].pc = "readReleased"]
     ELSE End(r)
  /\ UNCHANGED <<outbox, order, ledgerVars, session, delivered, faults>>

\* The lease row of exactly this token, if it is still there.  The result
\* is only looked at after the commit.
ReadReleased(r) ==
  /\ At(r, "readReleased")
  /\ run' = [run EXCEPT ![r] = [@ EXCEPT !.pc = "commit",
                               !.freed = (held[r] = lease.token /\ lease.released)]]
  /\ UNCHANGED <<leaseVars, outbox, order, ledgerVars, session, delivered, faults>>

UpsertCommitted(r) ==
  /\ At(r, "commit")
  /\ outbox' = [outbox EXCEPT ![run[r].batch].state = "COMMITTED",
                              ![run[r].batch].fence = held[r]]
  /\ Goto(r, "return")
  /\ UNCHANGED <<order, ledgerVars, session, delivered, faults>>

\* Read back the committed row and return the trusted receipt, or throw.
ReturnReceipt(r) ==
  /\ At(r, "return")
  /\ delivered' = IF Row(r).state = "COMMITTED" /\ Row(r).fence = held[r] /\ run[r].freed
                  THEN delivered \cup {run[r].batch} ELSE delivered
  /\ End(r)
  /\ UNCHANGED <<outbox, order, ledgerVars, session, faults>>

-----------------------------------------------------------------------------
(* Failures, time and users.                                                *)

\* Any node may throw (network, provider, database).  The local copy keeps
\* what the session wrote to it.
Fail(r) ==
  /\ ~At(r, "idle")
  /\ faults < MaxFaults
  /\ faults' = faults + 1
  /\ End(r)
  /\ session' = IF session = r THEN NoRunner ELSE session
  /\ UNCHANGED <<outbox, order, ledgerVars, delivered>>

\* Mutant: executions go on after a restart where they were.
KillResumes ==
  /\ faults < MaxFaults
  /\ faults' = faults + 1
  /\ session' = NoRunner
  /\ local' = [i \in Id |-> 0]
  /\ UNCHANGED <<leaseVars, run, outbox, order, ledger, drifted, delivered>>

\* The n8n process dies with every execution in it; its local copy may or
\* may not survive the restart.
Kill ==
  /\ faults < MaxFaults
  /\ faults' = faults + 1
  /\ run' = [r \in Runner |-> IdleRun]
  /\ held' = [r \in Runner |-> 0]
  /\ session' = NoRunner
  /\ local' \in {local, [i \in Id |-> 0]}
  /\ UNCHANGED <<lease, outbox, order, ledger, drifted, delivered>>

\* The deadline of the lease row passes.  While an execution still works
\* under it this is a fault (the time to live was too short for it).
Held == \E r \in Runner : held[r] # 0 /\ held[r] = lease.token

Deadline ==
  /\ Expire
  /\ IF Held THEN faults < MaxFaults /\ faults' = faults + 1 ELSE UNCHANGED faults
  /\ UNCHANGED <<outbox, order, ledgerVars, session, run, delivered>>

\* A user edits amount or date of an imported row in Actual, or undoes it.
UserEdit(i) ==
  /\ ledger[i] > 0
  /\ drifted' = IF i \in drifted THEN drifted \ {i} ELSE drifted \cup {i}
  /\ UNCHANGED <<leaseVars, outbox, order, ledger, local, session, run, delivered, faults>>

-----------------------------------------------------------------------------
Step(r) ==
  \/ UpsertPrepared(r) \/ ReadPrepared(r)
  \/ Replay(r) \/ AcquireFence(r) \/ FenceBusy(r) \/ AssertFence(r)
  \/ Preflight(r) \/ BeginImport(r) \/ WriteRows(r) \/ ReadBackImport(r) \/ Verify(r)
  \/ UpsertObserved(r) \/ ReadObserved(r) \/ UpsertReceipt(r) \/ UpsertVerified(r)
  \/ ReadReceipt(r) \/ ReleaseFence(r) \/ ReadReleased(r) \/ UpsertCommitted(r)
  \/ ReturnReceipt(r)

Execution ==
  \/ \E r \in Runner : Step(r) \/ Scan(r) \/ Fail(r)
  \/ \E r \in Runner, b \in Batch : SelectExisting(r, b)
  \/ Kill
  \/ Deadline

Next == Execution \/ \E i \in Id : UserEdit(i)

Spec == Init /\ [][Next]_vars

-----------------------------------------------------------------------------
(* Properties.                                                             *)

\* Journey J40 SC1: at most one effect per immutable identity.  However the
\* executions interleave, fail, outlive their lease or lose the local copy, no
\* imported id ever has two rows in Actual, pushed or pending.
AtMostOneEffect == \A i \in Id : ledger[i] + local[i] <= 1

\* The row never runs ahead of the ledger: once it says ACTUAL_OBSERVED or
\* later, the rows of the batch are on the Actual server, and not merely in a
\* local copy that a restart may drop.
ObservedMeansWritten ==
  \A b \in Batch : outbox[b].state \in {"ACTUAL_OBSERVED", "VERIFIED", "COMMITTED"} =>
    \A i \in RowsOf[b] : ledger[i] = 1

\* VERIFIED and COMMITTED are only reached on top of a stored verification
\* receipt, also when the state was written by a run that did not verify itself.
ReceiptBeforeCommit ==
  \A b \in Batch : outbox[b].state \in {"VERIFIED", "COMMITTED"} => outbox[b].receipt

\* A caller that got a trusted commit receipt can rely on it: every row of
\* the batch is on the server exactly once and the receipt is stored.
DeliveredIsSound ==
  \A b \in delivered : outbox[b].receipt /\ \A i \in RowsOf[b] : ledger[i] = 1

\* Rows are written to the local copy inside one exclusive session by an
\* execution whose lease was not past its deadline at that moment.
WritesAreFenced ==
  [][\A i \in Id : local'[i] > local[i] =>
       session # NoRunner /\ held[session] = lease.token /\ ~lease.expired]_vars

\* The executions together do what the contract says: the rows of a batch
\* appear on the server all at once and never twice, and a receipt is handed
\* out only for a batch that is there.
Contract == INSTANCE OutboxContract
              WITH intended <- {b \in Batch : outbox[b].state # "NONE"}

ImplementsContract == Contract!Spec

\* Journey J40 S6 says of a replay under the same identity that "Retry or
\* draft identifiers do not ... mutate a committed result."
CommittedIsFinal ==
  [][\A b \in Batch : outbox[b].state = "COMMITTED" => outbox'[b].state = "COMMITTED"]_vars

\* Journey J39 S2 says "Stale writers cannot mutate state": a commit under an
\* older fence never replaces a commit under a newer one.
CommitFenceAdvances ==
  [][\A b \in Batch : outbox'[b].fence >= outbox[b].fence]_vars

-----------------------------------------------------------------------------
(* The inductive invariant: what each execution may rely on at each node.  *)

Written(b) == \A i \in RowsOf[b] : ledger[i] = 1

\* From these nodes on an execution has seen the rows on the server, or
\* started from a row that says so.
WrittenLabels == {"assertPost", "observe", "receipt", "verified", "readReceipt",
                  "assertCommit", "release", "readReleased", "commit", "return"}
ReceiptLabels == {"verified", "assertCommit", "release", "readReleased", "commit", "return"}

RunInv(r) ==
  /\ run[r].pc \notin {"idle", "prepare"} => Row(r).state # "NONE"
  /\ run[r].pc \in {"write", "readBack"} => session = r
  /\ At(r, "write") => \A i \in Id : local[i] = 0
  /\ At(r, "write") => \A i \in Rows(r) : i \in run[r].seen <=> ledger[i] = 1
  /\ At(r, "readBack") => \A i \in Rows(r) : Copies(i) = 1
  /\ run[r].pc \in WrittenLabels => Written(run[r].batch)
  /\ At(r, "route") /\ run[r].snap \in {"ACTUAL_OBSERVED", "VERIFIED", "COMMITTED"}
       => Written(run[r].batch)
  /\ run[r].pc \in ReceiptLabels => Row(r).receipt

\* What is not pushed yet is exactly what one prepared batch still lacks.
LocalInv ==
  \/ \A i \in Id : local[i] = 0
  \/ \E b \in Batch :
       /\ outbox[b].state # "NONE"
       /\ \A i \in RowsOf[b] : Copies(i) = 1
       /\ \A i \in Id \ RowsOf[b] : local[i] = 0

IInv ==
  /\ TypeOK
  /\ AtMostOneEffect
  /\ \A r \in Runner : RunInv(r)
  /\ LocalInv
  /\ ObservedMeansWritten
  /\ ReceiptBeforeCommit
  /\ DeliveredIsSound

-----------------------------------------------------------------------------
(* Liveness, without user edits.  Nodes return; sessions queue in FIFO      *)
(* order, so an execution that waits for one gets it; an orphaned lease     *)
(* runs out; the recovery scan fires every ten minutes.                     *)
LiveSpec ==
  /\ Init /\ [][Execution]_vars
  /\ \A r \in Runner : SF_vars(Step(r))
  /\ WF_vars(Deadline /\ UNCHANGED faults)
  /\ SF_vars(\E r \in Runner : Scan(r))

\* Whatever fails on the way, every batch that was prepared is eventually
\* committed.
EventuallyCommitted ==
  \A b \in Batch : outbox[b].state \in Nonterminal ~> outbox[b].state = "COMMITTED"
=============================================================================
