------------------------- MODULE OutboxApplyProofs -------------------------
(***************************************************************************)
(* The writer lease for every set of executions and every token range, and *)
(* the outbox for every number of executions, statements, rows, tokens and *)
(* faults.  LeaseInv and IInv are proved inductive action by action; the   *)
(* safety properties and the refinement of the contract follow from them.  *)
(***************************************************************************)
EXTENDS OutboxApply, TLAPS

-----------------------------------------------------------------------------
(* The writer lease.                                                       *)

\* The inductive invariant: tokens stay in range, never run ahead of the row
\* and are never remembered by two executions.
LEMMA LeaseInitInv == LeaseInit => LeaseInv
  BY MaxTokenAssumption DEF LeaseInit, LeaseInv, LeaseTypeOK, TokensDistinct, NoLease

LEMMA LeaseStepInv == LeaseInv /\ [LeaseNext]_leaseVars => LeaseInv'
<1> SUFFICES ASSUME LeaseInv, [LeaseNext]_leaseVars
             PROVE  LeaseInv'
  OBVIOUS
<1> USE MaxTokenAssumption DEF LeaseInv, LeaseTypeOK, TokensDistinct
<1>1. ASSUME NEW r \in Runner, Acquire(r)
      PROVE  LeaseInv'
  BY <1>1 DEF Acquire
<1>2. ASSUME NEW r \in Runner, Release(r)
      PROVE  LeaseInv'
  BY <1>2 DEF Release
<1>3. ASSUME NEW r \in Runner, Forget(r)
      PROVE  LeaseInv'
  BY <1>3 DEF Forget
<1>4. CASE Expire
  BY <1>4 DEF Expire
<1>5. CASE UNCHANGED leaseVars
  BY <1>5 DEF leaseVars
<1> QED
  BY <1>1, <1>2, <1>3, <1>4, <1>5 DEF LeaseNext

\* acquire_writer_lease hands every token out once.
THEOREM LeaseInvariant == LeaseSpec => []LeaseInv
<1>1. LeaseInit => LeaseInv
  BY LeaseInitInv
<1>2. LeaseInv /\ [LeaseNext]_leaseVars => LeaseInv'
  BY LeaseStepInv
<1> QED
  BY <1>1, <1>2, PTL DEF LeaseSpec

-----------------------------------------------------------------------------
LEMMA InvOneHolder == LeaseInv => OneValidHolder
  BY DEF LeaseInv, TokensDistinct, OneValidHolder, Valid

\* Two executions never pass assert_writer_lease together.
THEOREM MutualExclusion == LeaseSpec => []OneValidHolder
  BY LeaseInvariant, InvOneHolder, PTL

-----------------------------------------------------------------------------
\* What an execution has lost it does not get back: expiry and release are
\* final for a token, and an acquisition only makes newer ones.
LEMMA LostStep ==
  ASSUME LeaseInv, [LeaseNext]_leaseVars,
         NEW r \in Runner, held[r] # 0, ~Valid(r), held'[r] = held[r]
  PROVE  ~Valid(r)'
<1> USE MaxTokenAssumption DEF LeaseInv, LeaseTypeOK, TokensDistinct, Valid
<1>1. ASSUME NEW s \in Runner, Acquire(s)
      PROVE  ~Valid(r)'
  BY <1>1 DEF Acquire
<1>2. ASSUME NEW s \in Runner, Release(s)
      PROVE  ~Valid(r)'
  BY <1>2 DEF Release
<1>3. ASSUME NEW s \in Runner, Forget(s)
      PROVE  ~Valid(r)'
  BY <1>3 DEF Forget
<1>4. CASE Expire
  BY <1>4 DEF Expire
<1>5. CASE UNCHANGED leaseVars
  BY <1>5 DEF leaseVars
<1> QED
  BY <1>1, <1>2, <1>3, <1>4, <1>5 DEF LeaseNext

THEOREM LostTokensStayLost == LeaseSpec => LostStaysLost
<1>1. LeaseInv /\ [LeaseNext]_leaseVars =>
        [\A r \in Runner :
           held[r] # 0 /\ ~Valid(r) /\ held'[r] = held[r] => ~Valid(r)']_leaseVars
  BY LostStep
<1> QED
  BY <1>1, LeaseInvariant, PTL DEF LeaseSpec, LostStaysLost

-----------------------------------------------------------------------------
\* A live lease survives what the other executions do: an acquisition finds
\* its row neither released nor expired, and no token that somebody else
\* remembers is the one of the row.
THEOREM LiveLeaseIsKept == LeaseSpec => OnlyHolderEndsLease
<1>1. ASSUME LeaseInv, NEW r \in Runner, NEW s \in Runner, r # s, Valid(s),
             Acquire(r) \/ Release(r) \/ Forget(r)
      PROVE  Valid(s)'
  <2>1. ~Acquirable /\ held[s] = lease.token /\ held[r] # lease.token
    BY <1>1 DEF LeaseInv, TokensDistinct, Valid, Acquirable
  <2>2. CASE Acquire(r)
    BY <2>1, <2>2 DEF Acquire
  <2>3. CASE Release(r)
    BY <1>1, <2>1, <2>3 DEF Release, Valid
  <2>4. CASE Forget(r)
    BY <1>1, <2>4 DEF LeaseInv, LeaseTypeOK, Forget, Valid
  <2> QED
    BY <1>1, <2>2, <2>3, <2>4
<1>2. LeaseInv /\ [LeaseNext]_leaseVars =>
        [\A r, s \in Runner :
           r # s /\ Valid(s) /\ (Acquire(r) \/ Release(r) \/ Forget(r)) => Valid(s)']_leaseVars
  BY <1>1
<1> QED
  BY <1>2, LeaseInvariant, PTL DEF LeaseSpec, OnlyHolderEndsLease

-----------------------------------------------------------------------------
(* The outbox.                                                             *)

USE MaxTokenAssumption, BatchAssumption, RowsAssumption, FaultsAssumption,
    NoRunnerAssumption

-----------------------------------------------------------------------------
(* Types.                                                                  *)

LEMMA IdleTyped == IdleRun \in Run
<1>1. AnyBatch \in Batch
  BY DEF AnyBatch
<1> QED
  BY <1>1 DEF IdleRun, Run, Labels, RowStates

\* Ending an execution and moving to another node keep the types.
LEMMA EndTyped ==
  ASSUME TypeOK, NEW r \in Runner, End(r)
  PROVE  /\ run' \in [Runner -> Run] /\ LeaseTypeOK'
         /\ run'[r] = IdleRun /\ \A s \in Runner \ {r} : run'[s] = run[s]
         /\ UNCHANGED lease
  BY IdleTyped DEF TypeOK, End, Forget, LeaseTypeOK

LEMMA GotoTyped ==
  ASSUME TypeOK, NEW r \in Runner, NEW label \in Labels, Goto(r, label)
  PROVE  /\ run' \in [Runner -> Run] /\ LeaseTypeOK'
         /\ run'[r] = [run[r] EXCEPT !.pc = label]
         /\ \A s \in Runner \ {r} : run'[s] = run[s]
<1>1. run \in [Runner -> Run] /\ run' = [run EXCEPT ![r] = [run[r] EXCEPT !.pc = label]]
  BY DEF TypeOK, Goto
<1>2. [run[r] EXCEPT !.pc = label] \in Run
  BY <1>1 DEF Run
<1>3. LeaseTypeOK'
  BY DEF TypeOK, Goto, leaseVars, LeaseTypeOK
<1> QED
  BY <1>1, <1>2, <1>3

LEMMA MoveTyped ==
  ASSUME TypeOK, NEW r \in Runner, NEW label \in Labels, run' = [run EXCEPT ![r].pc = label]
  PROVE  /\ run' \in [Runner -> Run]
         /\ run'[r] = [run[r] EXCEPT !.pc = label]
         /\ \A s \in Runner \ {r} : run'[s] = run[s]
<1>1. run \in [Runner -> Run] /\ run' = [run EXCEPT ![r] = [run[r] EXCEPT !.pc = label]]
  BY DEF TypeOK
<1>2. [run[r] EXCEPT !.pc = label] \in Run
  BY <1>1 DEF Run
<1> QED
  BY <1>1, <1>2

LEMMA StartTyped ==
  ASSUME TypeOK, NEW r \in Runner, NEW b \in Batch, NEW snap \in RowStates,
         NEW label \in Labels, Start(r, b, snap, label)
  PROVE  /\ run' \in [Runner -> Run]
         /\ run'[r] = [IdleRun EXCEPT !.pc = label, !.batch = b, !.snap = snap]
         /\ \A s \in Runner \ {r} : run'[s] = run[s]
  BY IdleTyped DEF TypeOK, Start, Run

LEMMA AcquireTyped ==
  ASSUME TypeOK, NEW r \in Runner, Acquire(r)
  PROVE  LeaseTypeOK'
  BY DEF TypeOK, LeaseTypeOK, Acquire

LEMMA ReleaseTyped ==
  ASSUME TypeOK, NEW r \in Runner, Release(r)
  PROVE  LeaseTypeOK'
  BY DEF TypeOK, LeaseTypeOK, Release

LEMMA SyncTyped ==
  ASSUME TypeOK, Sync
  PROVE  /\ ledger' \in [Id -> Nat] /\ local' \in [Id -> Nat] /\ UNCHANGED drifted
         /\ \A i \in Id : ledger'[i] = Copies(i) /\ local'[i] = 0
  BY DEF TypeOK, Sync, Copies

-----------------------------------------------------------------------------
(* What no step takes back: rows on the server, rows of the batch table     *)
(* and stored receipts.                                                     *)

Grow ==
  /\ \A i \in Id : ledger[i] = 1 => ledger'[i] = 1
  /\ \A b \in Batch : outbox[b].state # "NONE" => outbox'[b].state # "NONE"
  /\ \A b \in Batch : outbox[b].receipt => outbox'[b].receipt

\* An execution that does not move keeps what it relies on, provided nobody
\* touches the ledger while its session runs.
LEMMA KeptRun ==
  ASSUME TypeOK, Grow, NEW s \in Runner, RunInv(s), run'[s] = run[s],
         run[s].pc \in {"write", "readBack"} => UNCHANGED <<session, ledger, local>>
  PROVE  RunInv(s)'
  BY DEF TypeOK, Run, Grow, RunInv, At, Row, Rows, Written, Copies, WrittenLabels, ReceiptLabels

LEMMA IdleRunInv ==
  ASSUME NEW r \in Runner, run'[r] = IdleRun
  PROVE  RunInv(r)'
  BY DEF IdleRun, RunInv, At, WrittenLabels, ReceiptLabels

\* A step of r that changes neither the batch rows nor the ledger.
LEMMA QuietStep ==
  ASSUME IInv, TypeOK', NEW r \in Runner,
         UNCHANGED <<outbox, ledger, local, session>>,
         \A s \in Runner \ {r} : run'[s] = run[s],
         RunInv(r)',
         \A b \in delivered' : outbox[b].receipt /\ Written(b)
  PROVE  IInv'
<1>1. Grow
  BY DEF Grow
<1>2. \A s \in Runner : RunInv(s)'
  BY <1>1, KeptRun DEF IInv
<1>3. /\ AtMostOneEffect' /\ LocalInv' /\ ObservedMeansWritten' /\ ReceiptBeforeCommit'
      /\ DeliveredIsSound'
  BY DEF IInv, AtMostOneEffect, LocalInv, Copies, ObservedMeansWritten, ReceiptBeforeCommit,
         DeliveredIsSound, Written
<1> QED
  BY <1>2, <1>3 DEF IInv

\* A step of r that changes one batch row and no ledger.
LEMMA RowStep ==
  ASSUME IInv, TypeOK', NEW r \in Runner,
         UNCHANGED <<ledger, local, session, delivered>>,
         Grow,
         \A s \in Runner \ {r} : run'[s] = run[s],
         RunInv(r)', ObservedMeansWritten', ReceiptBeforeCommit'
  PROVE  IInv'
<1>1. \A s \in Runner : RunInv(s)'
  BY KeptRun DEF IInv
<1>2. AtMostOneEffect' /\ LocalInv'
  BY DEF IInv, AtMostOneEffect, LocalInv, Copies, Grow
<1>3. DeliveredIsSound'
  BY DEF IInv, DeliveredIsSound, Grow, TypeOK
<1> QED
  BY <1>1, <1>2, <1>3 DEF IInv

\* A sync: what was pending is on the server, nothing is pending.
LEMMA SyncStep ==
  ASSUME IInv, TypeOK', Sync, NEW r \in Runner,
         UNCHANGED <<outbox, delivered>>,
         \A s \in Runner \ {r} : run'[s] = run[s],
         \A s \in Runner \ {r} : run[s].pc \notin {"write", "readBack"},
         RunInv(r)'
  PROVE  IInv'
<1>1. /\ \A i \in Id : ledger'[i] = Copies(i) /\ local'[i] = 0
      /\ \A i \in Id : ledger[i] \in Nat /\ local[i] \in Nat /\ ledger[i] + local[i] <= 1
  BY SyncTyped DEF IInv, TypeOK, AtMostOneEffect
<1>2. Grow
  BY <1>1 DEF Grow, Copies
<1>3. \A s \in Runner : RunInv(s)'
  BY <1>2, KeptRun DEF IInv
<1>4. AtMostOneEffect' /\ LocalInv'
  BY <1>1 DEF AtMostOneEffect, LocalInv, Copies
<1>5. ObservedMeansWritten' /\ ReceiptBeforeCommit' /\ DeliveredIsSound'
  BY <1>2 DEF IInv, TypeOK, ObservedMeansWritten, ReceiptBeforeCommit, DeliveredIsSound, Grow
<1> QED
  BY <1>3, <1>4, <1>5 DEF IInv

-----------------------------------------------------------------------------
(* The steps, one lemma each.                                              *)

LEMMA SelectStep ==
  ASSUME IInv, NEW r \in Runner, NEW b \in Batch, SelectExisting(r, b)
  PROVE  IInv'
<1>1. TypeOK
  BY DEF IInv
<1>2. \E label \in {"prepare", "route"} :
        Start(r, b, outbox[b].state, label) /\ (label = "route" => outbox[b].state # "NONE")
  BY DEF SelectExisting
<1>3. PICK label \in {"prepare", "route"} :
        Start(r, b, outbox[b].state, label) /\ (label = "route" => outbox[b].state # "NONE")
  BY <1>2
<1>4. label \in Labels /\ outbox[b].state \in RowStates
  BY <1>1 DEF Labels, TypeOK
<1>5. /\ run' \in [Runner -> Run]
      /\ run'[r] = [IdleRun EXCEPT !.pc = label, !.batch = b, !.snap = outbox[b].state]
      /\ \A s \in Runner \ {r} : run'[s] = run[s]
  BY <1>1, <1>3, <1>4, StartTyped
<1>6. TypeOK'
  BY <1>1, <1>5 DEF SelectExisting, TypeOK, LeaseTypeOK, leaseVars, ledgerVars
<1>7. RunInv(r)'
  BY <1>3, <1>5 DEF IInv, SelectExisting, ledgerVars, RunInv, At, Row, IdleRun, Run,
     ObservedMeansWritten, Written, WrittenLabels, ReceiptLabels
<1>8. \A c \in delivered' : outbox[c].receipt /\ Written(c)
  BY DEF SelectExisting, IInv, DeliveredIsSound, Written
<1> QED
  BY <1>5, <1>6, <1>7, <1>8, QuietStep DEF SelectExisting, ledgerVars

LEMMA ScanStep ==
  ASSUME IInv, NEW r \in Runner, Scan(r)
  PROVE  IInv'
<1>1. TypeOK
  BY DEF IInv
<1>2. PICK k \in 1..Len(order) :
        FirstNonterminal(k) /\ Start(r, order[k], outbox[order[k]].state, "route")
  BY DEF Scan
<1>3. order[k] \in Batch
  BY <1>1 DEF TypeOK
<1>4. outbox[order[k]].state \in RowStates /\ outbox[order[k]].state # "NONE" /\ "route" \in Labels
  BY <1>1, <1>2, <1>3 DEF TypeOK, FirstNonterminal, Nonterminal, Labels
<1>5. /\ run' \in [Runner -> Run]
      /\ run'[r] = [IdleRun EXCEPT !.pc = "route", !.batch = order[k],
                                   !.snap = outbox[order[k]].state]
      /\ \A s \in Runner \ {r} : run'[s] = run[s]
  BY <1>1, <1>2, <1>3, <1>4, StartTyped
<1>6. TypeOK'
  BY <1>1, <1>5 DEF Scan, TypeOK, LeaseTypeOK, leaseVars, ledgerVars
<1>7. RunInv(r)'
  BY <1>3, <1>4, <1>5 DEF IInv, Scan, ledgerVars, RunInv, At, Row, IdleRun, Run,
     ObservedMeansWritten, Written, WrittenLabels, ReceiptLabels
<1>8. \A c \in delivered' : outbox[c].receipt /\ Written(c)
  BY DEF Scan, IInv, DeliveredIsSound, Written
<1> QED
  BY <1>5, <1>6, <1>7, <1>8, QuietStep DEF Scan, ledgerVars

\* A node that only reads: the execution moves on or ends.
LEMMA MoveStep ==
  ASSUME IInv, NEW r \in Runner, NEW label \in Labels \ {"route", "write", "readBack"},
         End(r) \/ Goto(r, label),
         UNCHANGED <<outbox, order, ledgerVars, session, faults>>,
         run[r].pc \notin {"idle", "prepare"},
         run'[r].pc = label /\ label \in WrittenLabels => Written(run[r].batch),
         run'[r].pc = label /\ label \in ReceiptLabels => Row(r).receipt,
         delivered' \subseteq Batch,
         \A b \in delivered' : outbox[b].receipt /\ Written(b)
  PROVE  IInv'
<1>1. TypeOK
  BY DEF IInv
<1>2. /\ run' \in [Runner -> Run] /\ LeaseTypeOK'
      /\ run'[r] = IdleRun \/ run'[r] = [run[r] EXCEPT !.pc = label]
      /\ \A s \in Runner \ {r} : run'[s] = run[s]
  BY <1>1, EndTyped, GotoTyped
<1>3. TypeOK'
  BY <1>1, <1>2 DEF TypeOK, ledgerVars
<1>4. RunInv(r)'
  <2>1. CASE run'[r] = IdleRun
    BY <2>1, IdleRunInv
  <2>2. CASE run'[r] = [run[r] EXCEPT !.pc = label]
    <3>1. /\ run'[r].pc = label /\ run'[r].batch = run[r].batch
          /\ run[r].batch \in Batch
      BY <1>1, <2>2 DEF TypeOK, Run
    <3>2. outbox[run[r].batch].state # "NONE"
      BY DEF IInv, RunInv, Row
    <3> QED
      BY <3>1, <3>2 DEF RunInv, At, Row, Written, ledgerVars, WrittenLabels, ReceiptLabels
  <2> QED
    BY <1>2, <2>1, <2>2
<1> QED
  BY <1>2, <1>3, <1>4, QuietStep DEF ledgerVars

\* Receipts handed out so far stay sound while rows and ledger are as they are.
LEMMA KeptDelivered ==
  ASSUME IInv, UNCHANGED delivered
  PROVE  delivered' \subseteq Batch /\ \A b \in delivered' : outbox[b].receipt /\ Written(b)
  BY DEF IInv, TypeOK, DeliveredIsSound, Written

LEMMA ReplayStep ==
  ASSUME IInv, NEW r \in Runner, Replay(r)
  PROVE  IInv'
<1>1. run[r].batch \in Batch
  BY DEF IInv, TypeOK, Run
<1>2. delivered' \subseteq Batch /\ \A b \in delivered' : outbox[b].receipt /\ Written(b)
  <2>1. \A b \in delivered : b \in Batch /\ outbox[b].receipt /\ Written(b)
    BY DEF IInv, TypeOK, DeliveredIsSound, Written
  <2>2. Row(r).state = "COMMITTED" /\ Row(r).receipt =>
          outbox[run[r].batch].receipt /\ Written(run[r].batch)
    BY <1>1 DEF IInv, ObservedMeansWritten, Row, Written
  <2> QED
    BY <1>1, <2>1, <2>2 DEF Replay
<1>3. run'[r].pc = "idle"
  BY EndTyped DEF IInv, Replay, IdleRun
<1> QED
  BY <1>2, <1>3, MoveStep DEF Replay, At, Labels, WrittenLabels, ReceiptLabels

LEMMA FenceBusyStep ==
  ASSUME IInv, NEW r \in Runner, FenceBusy(r)
  PROVE  IInv'
<1>1. run'[r].pc = "idle"
  BY EndTyped DEF IInv, FenceBusy, IdleRun
<1> QED
  BY <1>1, MoveStep, KeptDelivered
     DEF FenceBusy, At, Labels, WrittenLabels, ReceiptLabels

LEMMA AssertFenceStep ==
  ASSUME IInv, NEW r \in Runner, AssertFence(r)
  PROVE  IInv'
<1>1. RunInv(r)
  BY DEF IInv
<1>2. UNCHANGED <<outbox, order, ledgerVars, session, faults>> /\ UNCHANGED delivered
  BY DEF AssertFence
<1>3. delivered' \subseteq Batch /\ \A b \in delivered' : outbox[b].receipt /\ Written(b)
  BY <1>2, KeptDelivered
<1>4. CASE At(r, "assertImport") /\ Check(r, Valid(r), "import")
  BY <1>2, <1>3, <1>4, MoveStep DEF Check, At, Labels, WrittenLabels, ReceiptLabels
<1>5. CASE At(r, "assertPost") /\ Check(r, Valid(r), "observe")
  <2>1. Written(run[r].batch)
    BY <1>1, <1>5 DEF RunInv, At, WrittenLabels
  <2> QED
    BY <1>2, <1>3, <1>5, <2>1, MoveStep DEF Check, At, Labels, ReceiptLabels
<1>6. CASE At(r, "assertCommit") /\ Check(r, Valid(r), "release")
  <2>1. Written(run[r].batch) /\ Row(r).receipt
    BY <1>1, <1>6 DEF RunInv, At, WrittenLabels, ReceiptLabels
  <2> QED
    BY <1>2, <1>3, <1>6, <2>1, MoveStep DEF Check, At, Labels
<1> QED
  BY <1>4, <1>5, <1>6 DEF AssertFence

LEMMA ReadObservedStep ==
  ASSUME IInv, NEW r \in Runner, ReadObserved(r)
  PROVE  IInv'
  BY MoveStep, KeptDelivered
     DEF ReadObserved, Check, At, Labels, WrittenLabels, ReceiptLabels

LEMMA ReadReceiptStep ==
  ASSUME IInv, NEW r \in Runner, ReadReceipt(r)
  PROVE  IInv'
<1>1. Written(run[r].batch)
  BY DEF IInv, RunInv, ReadReceipt, At, WrittenLabels
<1>2. CASE End(r)
  BY <1>1, <1>2, MoveStep, KeptDelivered, EndTyped
     DEF IInv, ReadReceipt, At, Labels, WrittenLabels, ReceiptLabels, IdleRun
<1>3. CASE Row(r).receipt /\ Goto(r, "assertCommit")
  BY <1>1, <1>3, MoveStep, KeptDelivered DEF ReadReceipt, At, Labels
<1> QED
  BY <1>2, <1>3 DEF ReadReceipt, Check

LEMMA ReturnReceiptStep ==
  ASSUME IInv, NEW r \in Runner, ReturnReceipt(r)
  PROVE  IInv'
<1>1. run[r].batch \in Batch
  BY DEF IInv, TypeOK, Run
<1>2. Row(r).receipt /\ Written(run[r].batch)
  BY DEF IInv, RunInv, ReturnReceipt, At, WrittenLabels, ReceiptLabels
<1>3. delivered' \subseteq Batch /\ \A b \in delivered' : outbox[b].receipt /\ Written(b)
  BY <1>1, <1>2 DEF ReturnReceipt, IInv, TypeOK, DeliveredIsSound, Written, Row
<1>4. run'[r].pc = "idle"
  BY EndTyped DEF IInv, ReturnReceipt, IdleRun
<1> QED
  BY <1>3, <1>4, MoveStep DEF ReturnReceipt, At, Labels, WrittenLabels, ReceiptLabels

(* Setting the state of a row leaves every other row and the rest of this one. *)
LEMMA SetStateRow ==
  ASSUME TypeOK, NEW r \in Runner, run[r].batch \in Batch, NEW st \in RowStates, SetState(r, st)
  PROVE  /\ outbox'[run[r].batch].state = st
         /\ outbox'[run[r].batch].receipt = outbox[run[r].batch].receipt
         /\ \A b \in Batch \ {run[r].batch} : outbox'[b] = outbox[b]
         /\ outbox' \in [Batch -> [state : RowStates, receipt : BOOLEAN, fence : 0..MaxToken]]
<1>1. outbox \in [Batch -> [state : RowStates, receipt : BOOLEAN, fence : 0..MaxToken]]
  BY DEF TypeOK
<1>2. outbox' = [outbox EXCEPT ![run[r].batch] = [outbox[run[r].batch] EXCEPT !.state = st]]
  BY <1>1 DEF SetState
<1>3. /\ [outbox[run[r].batch] EXCEPT !.state = st]
           \in [state : RowStates, receipt : BOOLEAN, fence : 0..MaxToken]
      /\ [outbox[run[r].batch] EXCEPT !.state = st].state = st
      /\ [outbox[run[r].batch] EXCEPT !.state = st].receipt = outbox[run[r].batch].receipt
  BY <1>1
<1> QED
  BY <1>1, <1>2, <1>3

LEMMA UpsertPreparedStep ==
  ASSUME IInv, NEW r \in Runner, UpsertPrepared(r)
  PROVE  IInv'
<1>1. TypeOK /\ run[r].batch \in Batch /\ "readPrepared" \in Labels
  BY DEF IInv, TypeOK, Run, Labels
<1>2. /\ run' \in [Runner -> Run] /\ LeaseTypeOK'
      /\ run'[r] = [run[r] EXCEPT !.pc = "readPrepared"]
      /\ \A s \in Runner \ {r} : run'[s] = run[s]
  BY <1>1, GotoTyped DEF UpsertPrepared
<1>3. /\ outbox'[run[r].batch].state = "PREPARED"
      /\ outbox'[run[r].batch].receipt = outbox[run[r].batch].receipt
      /\ \A b \in Batch \ {run[r].batch} : outbox'[b] = outbox[b]
      /\ outbox' \in [Batch -> [state : RowStates, receipt : BOOLEAN, fence : 0..MaxToken]]
  <2>1. "PREPARED" \in RowStates /\ SetState(r, "PREPARED")
    BY DEF UpsertPrepared, RowStates
  <2> QED
    BY <1>1, <2>1, SetStateRow
<1>4. order' \in Seq(Batch)
  BY <1>1 DEF UpsertPrepared, TypeOK
<1>5. TypeOK'
  BY <1>1, <1>2, <1>3, <1>4 DEF UpsertPrepared, TypeOK, ledgerVars
<1>6. Grow
  BY <1>1, <1>3 DEF UpsertPrepared, Grow, ledgerVars
<1>7. RunInv(r)'
  BY <1>1, <1>2, <1>3 DEF TypeOK, Run, RunInv, At, Row, WrittenLabels, ReceiptLabels
<1>8. ObservedMeansWritten' /\ ReceiptBeforeCommit'
  BY <1>3 DEF UpsertPrepared, IInv, ObservedMeansWritten, ReceiptBeforeCommit, ledgerVars
<1> QED
  BY <1>2, <1>5, <1>6, <1>7, <1>8, RowStep DEF UpsertPrepared, ledgerVars

LEMMA ReadPreparedStep ==
  ASSUME IInv, NEW r \in Runner, ReadPrepared(r)
  PROVE  IInv'
<1>1. TypeOK /\ run[r].batch \in Batch
  BY DEF IInv, TypeOK, Run
<1>2. CASE End(r)
  <2>1. run'[r].pc = "idle"
    BY <1>1, <1>2, EndTyped DEF IdleRun
  <2> QED
    BY <1>2, <2>1, MoveStep, KeptDelivered
       DEF ReadPrepared, At, Labels, WrittenLabels, ReceiptLabels
<1>3. CASE /\ Row(r).state = "PREPARED" /\ UNCHANGED leaseVars
           /\ run' = [run EXCEPT ![r] = [@ EXCEPT !.pc = "route", !.snap = "PREPARED"]]
  <2>1. /\ run' \in [Runner -> Run]
        /\ run'[r] = [run[r] EXCEPT !.pc = "route", !.snap = "PREPARED"]
        /\ \A s \in Runner \ {r} : run'[s] = run[s]
    <3>1. run[r] \in Run /\ run \in [Runner -> Run]
      BY <1>1 DEF TypeOK
    <3>2. [run[r] EXCEPT !.pc = "route", !.snap = "PREPARED"] \in Run
      BY <3>1 DEF Run, Labels, RowStates
    <3> QED
      BY <1>3, <3>1, <3>2
  <2>2. TypeOK'
    BY <1>1, <1>3, <2>1 DEF ReadPrepared, TypeOK, LeaseTypeOK, leaseVars, ledgerVars
  <2>3. RunInv(r)'
    BY <1>1, <1>3, <2>1
       DEF ReadPrepared, TypeOK, Run, RunInv, At, Row, WrittenLabels, ReceiptLabels
  <2> QED
    BY <2>1, <2>2, <2>3, QuietStep, KeptDelivered DEF ReadPrepared, ledgerVars
<1> QED
  BY <1>2, <1>3 DEF ReadPrepared

LEMMA AcquireFenceStep ==
  ASSUME IInv, NEW r \in Runner, AcquireFence(r)
  PROVE  IInv'
<1>1. TypeOK /\ run[r].batch \in Batch
  BY DEF IInv, TypeOK, Run
<1>2. AfterAcquire(run[r].snap) \in {"preflight", "readReceipt"}
      /\ (AfterAcquire(run[r].snap) = "readReceipt" => run[r].snap = "VERIFIED")
  BY DEF AcquireFence, AfterAcquire, Nonterminal
<1>3. /\ run' \in [Runner -> Run]
      /\ run'[r] = [run[r] EXCEPT !.pc = AfterAcquire(run[r].snap)]
      /\ \A s \in Runner \ {r} : run'[s] = run[s]
  <2>1. run \in [Runner -> Run]
    BY <1>1 DEF TypeOK
  <2>2. AfterAcquire(run[r].snap) \in Labels
    BY <1>2 DEF Labels
  <2>3. [run[r] EXCEPT !.pc = AfterAcquire(run[r].snap)] \in Run
    BY <2>1, <2>2 DEF Run
  <2>4. run' = [run EXCEPT ![r] = [run[r] EXCEPT !.pc = AfterAcquire(run[r].snap)]]
    BY <2>1 DEF AcquireFence
  <2> QED
    BY <2>1, <2>3, <2>4
<1>4. TypeOK'
  BY <1>1, <1>3, AcquireTyped DEF AcquireFence, TypeOK, ledgerVars
<1>5. RunInv(r)'
  BY <1>1, <1>2, <1>3 DEF AcquireFence, IInv, TypeOK, Run, RunInv, At, Row, Written,
     ledgerVars, WrittenLabels, ReceiptLabels
<1> QED
  BY <1>3, <1>4, <1>5, QuietStep, KeptDelivered DEF AcquireFence, ledgerVars

LEMMA UpsertObservedStep ==
  ASSUME IInv, NEW r \in Runner, UpsertObserved(r)
  PROVE  IInv'
<1>1. TypeOK /\ run[r].batch \in Batch /\ "readObserved" \in Labels
  BY DEF IInv, TypeOK, Run, Labels
<1>2. /\ run' \in [Runner -> Run] /\ LeaseTypeOK'
      /\ run'[r] = [run[r] EXCEPT !.pc = "readObserved"]
      /\ \A s \in Runner \ {r} : run'[s] = run[s]
  BY <1>1, GotoTyped DEF UpsertObserved
<1>3. /\ outbox'[run[r].batch].state = "ACTUAL_OBSERVED"
      /\ outbox'[run[r].batch].receipt = outbox[run[r].batch].receipt
      /\ \A b \in Batch \ {run[r].batch} : outbox'[b] = outbox[b]
      /\ outbox' \in [Batch -> [state : RowStates, receipt : BOOLEAN, fence : 0..MaxToken]]
  <2>1. "ACTUAL_OBSERVED" \in RowStates /\ SetState(r, "ACTUAL_OBSERVED")
    BY DEF UpsertObserved, RowStates
  <2> QED
    BY <1>1, <2>1, SetStateRow
<1>4. TypeOK'
  BY <1>1, <1>2, <1>3 DEF UpsertObserved, TypeOK, ledgerVars
<1>5. Grow
  BY <1>1, <1>3 DEF UpsertObserved, Grow, ledgerVars
<1>6. RunInv(r)'
  BY <1>1, <1>2, <1>3 DEF TypeOK, Run, RunInv, At, Row, WrittenLabels, ReceiptLabels
<1>7. Written(run[r].batch)
  BY DEF IInv, RunInv, UpsertObserved, At, WrittenLabels
<1>8. ObservedMeansWritten' /\ ReceiptBeforeCommit'
  BY <1>3, <1>7
     DEF UpsertObserved, IInv, ObservedMeansWritten, ReceiptBeforeCommit, Written, ledgerVars
<1> QED
  BY <1>2, <1>4, <1>5, <1>6, <1>8, RowStep DEF UpsertObserved, ledgerVars

LEMMA UpsertReceiptStep ==
  ASSUME IInv, NEW r \in Runner, UpsertReceipt(r)
  PROVE  IInv'
<1>1. TypeOK /\ run[r].batch \in Batch /\ "verified" \in Labels
  BY DEF IInv, TypeOK, Run, Labels
<1>2. /\ run' \in [Runner -> Run] /\ LeaseTypeOK'
      /\ run'[r] = [run[r] EXCEPT !.pc = "verified"]
      /\ \A s \in Runner \ {r} : run'[s] = run[s]
  BY <1>1, GotoTyped DEF UpsertReceipt
<1>3. /\ outbox'[run[r].batch].receipt = TRUE
      /\ outbox'[run[r].batch].state = outbox[run[r].batch].state
      /\ \A b \in Batch \ {run[r].batch} : outbox'[b] = outbox[b]
      /\ outbox' \in [Batch -> [state : RowStates, receipt : BOOLEAN, fence : 0..MaxToken]]
  <2>1. outbox \in [Batch -> [state : RowStates, receipt : BOOLEAN, fence : 0..MaxToken]]
    BY <1>1 DEF TypeOK
  <2>2. outbox' = [outbox EXCEPT ![run[r].batch] =
                    [outbox[run[r].batch] EXCEPT !.receipt = TRUE]]
    BY <2>1 DEF UpsertReceipt
  <2>3. [outbox[run[r].batch] EXCEPT !.receipt = TRUE]
          \in [state : RowStates, receipt : BOOLEAN, fence : 0..MaxToken]
    BY <1>1, <2>1
  <2> QED
    BY <1>1, <2>1, <2>2, <2>3
<1>4. TypeOK'
  BY <1>1, <1>2, <1>3 DEF UpsertReceipt, TypeOK, ledgerVars
<1>5. Grow
  BY <1>1, <1>3 DEF UpsertReceipt, Grow, ledgerVars
<1>6. Row(r).state # "NONE" /\ Written(run[r].batch)
  BY DEF IInv, RunInv, UpsertReceipt, At, WrittenLabels
<1>7. RunInv(r)'
  BY <1>1, <1>2, <1>3, <1>6
     DEF UpsertReceipt, TypeOK, Run, RunInv, At, Row, Written, ledgerVars,
         WrittenLabels, ReceiptLabels
<1>8. ObservedMeansWritten' /\ ReceiptBeforeCommit'
  BY <1>3 DEF UpsertReceipt, IInv, ObservedMeansWritten, ReceiptBeforeCommit, ledgerVars
<1> QED
  BY <1>2, <1>4, <1>5, <1>7, <1>8, RowStep DEF UpsertReceipt, ledgerVars

LEMMA UpsertVerifiedStep ==
  ASSUME IInv, NEW r \in Runner, UpsertVerified(r)
  PROVE  IInv'
<1>1. TypeOK /\ run[r].batch \in Batch /\ "readReceipt" \in Labels
  BY DEF IInv, TypeOK, Run, Labels
<1>2. CASE End(r) /\ UNCHANGED outbox
  <2>1. run'[r].pc = "idle"
    BY <1>1, <1>2, EndTyped DEF IdleRun
  <2> QED
    BY <1>2, <2>1, MoveStep, KeptDelivered
       DEF UpsertVerified, At, Labels, WrittenLabels, ReceiptLabels
<1>3. CASE Row(r).receipt /\ SetState(r, "VERIFIED") /\ Goto(r, "readReceipt")
  <2>1. /\ run' \in [Runner -> Run] /\ LeaseTypeOK'
        /\ run'[r] = [run[r] EXCEPT !.pc = "readReceipt"]
        /\ \A s \in Runner \ {r} : run'[s] = run[s]
    BY <1>1, <1>3, GotoTyped
  <2>2. /\ outbox'[run[r].batch].state = "VERIFIED"
        /\ outbox'[run[r].batch].receipt = outbox[run[r].batch].receipt
        /\ \A b \in Batch \ {run[r].batch} : outbox'[b] = outbox[b]
        /\ outbox' \in [Batch -> [state : RowStates, receipt : BOOLEAN, fence : 0..MaxToken]]
    <3>1. "VERIFIED" \in RowStates
      BY DEF RowStates
    <3> QED
      BY <1>1, <1>3, <3>1, SetStateRow
  <2>3. TypeOK'
    BY <1>1, <2>1, <2>2 DEF UpsertVerified, TypeOK, ledgerVars
  <2>4. Grow
    BY <1>1, <2>2 DEF UpsertVerified, Grow, ledgerVars
  <2>5. Written(run[r].batch)
    BY DEF IInv, RunInv, UpsertVerified, At, WrittenLabels
  <2>6. RunInv(r)'
    BY <1>1, <2>1, <2>2, <2>5
       DEF UpsertVerified, TypeOK, Run, RunInv, At, Row, Written, ledgerVars,
           WrittenLabels, ReceiptLabels
  <2>7. ObservedMeansWritten' /\ ReceiptBeforeCommit'
    BY <1>3, <2>2, <2>5 DEF UpsertVerified, IInv, ObservedMeansWritten, ReceiptBeforeCommit,
       Written, Row, ledgerVars
  <2> QED
    BY <2>1, <2>3, <2>4, <2>6, <2>7, RowStep DEF UpsertVerified, ledgerVars
<1> QED
  BY <1>2, <1>3 DEF UpsertVerified

LEMMA UpsertCommittedStep ==
  ASSUME IInv, NEW r \in Runner, UpsertCommitted(r)
  PROVE  IInv'
<1>1. TypeOK /\ run[r].batch \in Batch /\ "return" \in Labels
  BY DEF IInv, TypeOK, Run, Labels
<1>2. /\ run' \in [Runner -> Run] /\ LeaseTypeOK'
      /\ run'[r] = [run[r] EXCEPT !.pc = "return"]
      /\ \A s \in Runner \ {r} : run'[s] = run[s]
  BY <1>1, GotoTyped DEF UpsertCommitted
<1>3. held[r] \in 0..MaxToken
  BY <1>1 DEF TypeOK, LeaseTypeOK
<1>4. /\ outbox'[run[r].batch].state = "COMMITTED"
      /\ outbox'[run[r].batch].receipt = outbox[run[r].batch].receipt
      /\ \A b \in Batch \ {run[r].batch} : outbox'[b] = outbox[b]
      /\ outbox' \in [Batch -> [state : RowStates, receipt : BOOLEAN, fence : 0..MaxToken]]
  <2>1. outbox[run[r].batch] \in [state : RowStates, receipt : BOOLEAN, fence : 0..MaxToken]
    BY <1>1 DEF TypeOK
  <2>2. outbox' = [outbox EXCEPT ![run[r].batch] =
                     [outbox[run[r].batch] EXCEPT !.state = "COMMITTED", !.fence = held[r]]]
    BY <1>1 DEF UpsertCommitted, TypeOK
  <2>3. [outbox[run[r].batch] EXCEPT !.state = "COMMITTED", !.fence = held[r]]
          \in [state : RowStates, receipt : BOOLEAN, fence : 0..MaxToken]
    BY <1>3, <2>1 DEF RowStates
  <2> QED
    BY <1>1, <2>1, <2>2, <2>3 DEF TypeOK
<1>5. TypeOK'
  <2>1. UNCHANGED <<order, ledgerVars, session, delivered, faults>>
    BY DEF UpsertCommitted
  <2> QED
    BY <1>1, <1>2, <1>4, <2>1, SMTT(30) DEF TypeOK, ledgerVars
<1>6. Grow
  BY <1>1, <1>4 DEF UpsertCommitted, Grow, ledgerVars
<1>7. Written(run[r].batch) /\ Row(r).receipt
  BY DEF IInv, RunInv, UpsertCommitted, At, WrittenLabels, ReceiptLabels
<1>8. RunInv(r)'
  <2>1. run[r] \in Run
    BY <1>1 DEF TypeOK
  <2>2. run'[r].pc = "return" /\ run'[r].batch = run[r].batch
    BY <1>2, <2>1 DEF Run
  <2>3. Row(r)'.state = "COMMITTED" /\ Row(r)'.receipt
    BY <1>4, <1>7, <2>2 DEF Row
  <2>4. Written(run[r].batch)'
    BY <1>7, <2>2 DEF UpsertCommitted, Written, ledgerVars
  <2> QED
    BY <2>2, <2>3, <2>4 DEF RunInv, At, WrittenLabels, ReceiptLabels
<1>9. ObservedMeansWritten' /\ ReceiptBeforeCommit'
  BY <1>4, <1>7 DEF UpsertCommitted, IInv, ObservedMeansWritten, ReceiptBeforeCommit,
     Written, Row, ledgerVars
<1> QED
  BY <1>2, <1>5, <1>6, <1>8, <1>9, RowStep DEF UpsertCommitted, ledgerVars

\* A free session, or one's own, means that nobody else is between the read
\* and the write of an import.
LEMMA SessionExclusive ==
  ASSUME IInv, NEW r \in Runner, session \in {r, NoRunner}
  PROVE  \A s \in Runner \ {r} : run[s].pc \notin {"write", "readBack"}
  BY DEF IInv, RunInv

LEMMA PreflightStep ==
  ASSUME IInv, NEW r \in Runner, Preflight(r)
  PROVE  IInv'
<1>1. TypeOK /\ run[r].batch \in Batch
  BY DEF IInv, TypeOK, Run
<1>2. CASE End(r) /\ UNCHANGED ledgerVars
  <2>1. run'[r].pc = "idle"
    BY <1>1, <1>2, EndTyped DEF IdleRun
  <2> QED
    BY <1>2, <2>1, MoveStep, KeptDelivered
       DEF Preflight, At, Labels, WrittenLabels, ReceiptLabels
<1>3. ASSUME Sync, NEW label \in {"assertImport", "readObserved"}, End(r) \/ Goto(r, label)
      PROVE  IInv'
  <2>1. /\ run' \in [Runner -> Run] /\ LeaseTypeOK'
        /\ run'[r] = IdleRun \/ run'[r] = [run[r] EXCEPT !.pc = label]
        /\ \A s \in Runner \ {r} : run'[s] = run[s]
    <3>1. label \in Labels
      BY <1>3 DEF Labels
    <3> QED
      BY <1>1, <1>3, <3>1, EndTyped, GotoTyped
  <2>2. TypeOK'
    BY <1>1, <1>3, <2>1, SyncTyped DEF Preflight, TypeOK
  <2>3. outbox[run[r].batch].state # "NONE"
    BY DEF IInv, RunInv, Preflight, At, Row
  <2>4. RunInv(r)'
    <3>1. CASE run'[r] = IdleRun
      BY <3>1, IdleRunInv
    <3>2. CASE run'[r] = [run[r] EXCEPT !.pc = label]
      BY <1>1, <2>3, <3>2
         DEF Preflight, TypeOK, Run, RunInv, At, Row, WrittenLabels, ReceiptLabels
    <3> QED
      BY <2>1, <3>1, <3>2
  <2> QED
    BY <1>3, <2>1, <2>2, <2>4, SyncStep, SessionExclusive DEF Preflight
<1> QED
  BY <1>2, <1>3 DEF Preflight, Check

LEMMA BeginImportStep ==
  ASSUME IInv, NEW r \in Runner, BeginImport(r)
  PROVE  IInv'
<1>1. TypeOK /\ run[r].batch \in Batch /\ run[r] \in Run
  BY DEF IInv, TypeOK, Run
<1>2. CASE End(r) /\ UNCHANGED <<ledgerVars, session>>
  <2>1. run'[r].pc = "idle"
    BY <1>1, <1>2, EndTyped DEF IdleRun
  <2> QED
    BY <1>2, <2>1, MoveStep, KeptDelivered
       DEF BeginImport, At, Labels, WrittenLabels, ReceiptLabels
<1>3. CASE Sync /\ End(r) /\ UNCHANGED session
  <2>1. /\ run' \in [Runner -> Run] /\ LeaseTypeOK' /\ run'[r] = IdleRun
        /\ \A s \in Runner \ {r} : run'[s] = run[s]
    BY <1>1, <1>3, EndTyped
  <2>2. TypeOK'
    BY <1>1, <1>3, <2>1, SyncTyped DEF BeginImport, TypeOK
  <2> QED
    BY <1>3, <2>1, <2>2, IdleRunInv, SyncStep, SessionExclusive DEF BeginImport
<1>4. CASE /\ Sync /\ session' = r /\ UNCHANGED leaseVars
           /\ run' = [run EXCEPT ![r] = [@ EXCEPT !.pc = "write", !.seen = Present(r)]]
  <2>1. /\ run' \in [Runner -> Run]
        /\ run'[r] = [run[r] EXCEPT !.pc = "write", !.seen = Present(r)]
        /\ \A s \in Runner \ {r} : run'[s] = run[s]
    <3>1. run \in [Runner -> Run]
      BY <1>1 DEF TypeOK
    <3>2. Present(r) \in SUBSET Id
      BY <1>1 DEF Present, Rows
    <3>3. [run[r] EXCEPT !.pc = "write", !.seen = Present(r)] \in Run
      BY <1>1, <3>2 DEF Run, Labels
    <3> QED
      BY <1>4, <3>1, <3>3
  <2>2. TypeOK'
    BY <1>1, <1>4, <2>1, SyncTyped DEF BeginImport, TypeOK, LeaseTypeOK, leaseVars
  <2>3. /\ run'[r].pc = "write" /\ run'[r].batch = run[r].batch /\ run'[r].seen = Present(r)
    BY <1>1, <2>1 DEF Run
  <2>4. \A i \in Id : local'[i] = 0 /\ ledger'[i] = Copies(i)
    BY <1>1, <1>4, SyncTyped
  <2>5. \A i \in Rows(r) : i \in Present(r) <=> ledger'[i] = 1
    <3>1. \A i \in Id : Copies(i) \in Nat /\ Copies(i) <= 1
      BY <1>1 DEF IInv, TypeOK, AtMostOneEffect, Copies
    <3>2. Rows(r) \subseteq Id
      BY <1>1 DEF Rows
    <3> QED
      BY <2>4, <3>1, <3>2 DEF Present
  <2>6. Row(r).state # "NONE"
    BY DEF IInv, RunInv, BeginImport, At
  <2>7. RunInv(r)'
    BY <1>1, <1>4, <2>3, <2>4, <2>5, <2>6
       DEF BeginImport, RunInv, At, Row, Rows, WrittenLabels, ReceiptLabels
  <2> QED
    BY <1>4, <2>1, <2>2, <2>7, SyncStep, SessionExclusive DEF BeginImport
<1> QED
  BY <1>2, <1>3, <1>4 DEF BeginImport

LEMMA WriteRowsStep ==
  ASSUME IInv, NEW r \in Runner, WriteRows(r)
  PROVE  IInv'
<1> DEFINE newRows == Rows(r) \ run[r].seen
<1>1. TypeOK /\ run[r].batch \in Batch /\ run[r] \in Run /\ Rows(r) \subseteq Id
  BY DEF IInv, TypeOK, Run, Rows
<1>2. /\ session = r /\ Row(r).state # "NONE"
      /\ \A i \in Id : local[i] = 0
      /\ \A i \in Rows(r) : i \in run[r].seen <=> ledger[i] = 1
  BY DEF IInv, RunInv, WriteRows, At
<1>3. \A s \in Runner \ {r} : run[s].pc \notin {"write", "readBack"}
  BY <1>2, SessionExclusive
<1>4. CASE End(r) /\ session' = NoRunner /\ UNCHANGED local
  <2>1. /\ run' \in [Runner -> Run] /\ LeaseTypeOK' /\ run'[r] = IdleRun
        /\ \A s \in Runner \ {r} : run'[s] = run[s]
    BY <1>1, <1>4, EndTyped
  <2>2. TypeOK'
    BY <1>1, <1>4, <2>1 DEF WriteRows, TypeOK
  <2>3. Grow
    BY DEF WriteRows, Grow
  <2>4. \A s \in Runner : RunInv(s)'
    BY <1>1, <1>3, <2>1, <2>3, KeptRun, IdleRunInv DEF IInv
  <2>5. /\ AtMostOneEffect' /\ LocalInv' /\ ObservedMeansWritten' /\ ReceiptBeforeCommit'
        /\ DeliveredIsSound'
    BY <1>4 DEF WriteRows, IInv, AtMostOneEffect, LocalInv, Copies, ObservedMeansWritten,
       ReceiptBeforeCommit, DeliveredIsSound
  <2> QED
    BY <2>2, <2>4, <2>5 DEF IInv
<1>5. CASE /\ local' = [i \in Id |-> IF i \in newRows THEN local[i] + 1 ELSE local[i]]
           /\ Goto(r, "readBack")
           /\ UNCHANGED session
  <2>1. /\ run' \in [Runner -> Run] /\ LeaseTypeOK'
        /\ run'[r] = [run[r] EXCEPT !.pc = "readBack"]
        /\ \A s \in Runner \ {r} : run'[s] = run[s]
    BY <1>1, <1>5, GotoTyped DEF Labels
  <2>2. /\ run'[r].pc = "readBack" /\ run'[r].batch = run[r].batch
    BY <1>1, <2>1 DEF Run
  <2>3. local' \in [Id -> Nat] /\ \A i \in Id : local'[i] = IF i \in newRows THEN 1 ELSE 0
    BY <1>1, <1>2, <1>5 DEF TypeOK
  <2>4. TypeOK'
    BY <1>1, <1>5, <2>1, <2>3 DEF WriteRows, TypeOK
  <2>5. Grow
    BY DEF WriteRows, Grow
  <2>6. /\ \A i \in Id : ledger'[i] = ledger[i] /\ ledger[i] \in Nat /\ ledger[i] <= 1
        /\ \A i \in Id : ledger[i] + local'[i] <= 1
        /\ \A i \in Rows(r) : ledger[i] + local'[i] = 1
        /\ \A i \in Id \ Rows(r) : local'[i] = 0
    <3>1. \A i \in Id : ledger'[i] = ledger[i] /\ ledger[i] \in Nat /\ ledger[i] <= 1
      BY <1>1, <1>2 DEF WriteRows, IInv, TypeOK, AtMostOneEffect
    <3> QED
      BY <1>1, <1>2, <2>3, <3>1
  <2>7. RunInv(r)'
    BY <1>1, <1>2, <1>5, <2>2, <2>6
       DEF WriteRows, RunInv, At, Row, Rows, Copies, WrittenLabels, ReceiptLabels
  <2>8. \A s \in Runner : RunInv(s)'
    BY <1>1, <1>3, <2>1, <2>5, <2>7, KeptRun DEF IInv
  <2>9. AtMostOneEffect' /\ LocalInv'
    BY <1>1, <1>2, <2>6 DEF WriteRows, AtMostOneEffect, LocalInv, Copies, Row, Rows
  <2>10. ObservedMeansWritten' /\ ReceiptBeforeCommit' /\ DeliveredIsSound'
    BY DEF WriteRows, IInv, ObservedMeansWritten, ReceiptBeforeCommit, DeliveredIsSound
  <2> QED
    BY <2>4, <2>8, <2>9, <2>10 DEF IInv
<1> QED
  BY <1>4, <1>5 DEF WriteRows

LEMMA ReadBackImportStep ==
  ASSUME IInv, NEW r \in Runner, ReadBackImport(r)
  PROVE  IInv'
<1>1. TypeOK /\ run[r].batch \in Batch /\ Sync /\ "assertPost" \in Labels
  BY DEF IInv, TypeOK, Run, ReadBackImport, Labels
<1>2. session = r /\ Row(r).state # "NONE" /\ \A i \in Rows(r) : Copies(i) = 1
  BY DEF IInv, RunInv, ReadBackImport, At
<1>3. /\ run' \in [Runner -> Run] /\ LeaseTypeOK'
      /\ run'[r] = IdleRun \/ run'[r] = [run[r] EXCEPT !.pc = "assertPost"]
      /\ \A s \in Runner \ {r} : run'[s] = run[s]
  BY <1>1, EndTyped, GotoTyped DEF ReadBackImport, Check
<1>4. TypeOK'
  BY <1>1, <1>3, SyncTyped DEF ReadBackImport, TypeOK
<1>5. \A i \in Rows(r) : ledger'[i] = 1
  BY <1>1, <1>2, SyncTyped DEF Rows
<1>6. RunInv(r)'
  <2>1. CASE run'[r] = IdleRun
    BY <2>1, IdleRunInv
  <2>2. CASE run'[r] = [run[r] EXCEPT !.pc = "assertPost"]
    BY <1>1, <1>2, <1>5, <2>2
       DEF ReadBackImport, TypeOK, Run, RunInv, At, Row, Rows, Written,
           WrittenLabels, ReceiptLabels
  <2> QED
    BY <1>3, <2>1, <2>2
<1> QED
  BY <1>1, <1>2, <1>3, <1>4, <1>6, SyncStep, SessionExclusive DEF ReadBackImport

LEMMA VerifyStep ==
  ASSUME IInv, NEW r \in Runner, Verify(r)
  PROVE  IInv'
<1>1. TypeOK /\ run[r].batch \in Batch /\ Sync /\ "receipt" \in Labels
  BY DEF IInv, TypeOK, Run, Verify, Labels
<1>2. Row(r).state # "NONE"
  BY DEF IInv, RunInv, Verify, At
<1>3. /\ run' \in [Runner -> Run] /\ LeaseTypeOK'
      /\ \/ run'[r] = IdleRun
         \/ /\ run'[r] = [run[r] EXCEPT !.pc = "receipt"]
            /\ \A i \in Rows(r) : Copies(i) = 1
      /\ \A s \in Runner \ {r} : run'[s] = run[s]
  BY <1>1, EndTyped, GotoTyped DEF Verify, Check
<1>4. TypeOK'
  BY <1>1, <1>3, SyncTyped DEF Verify, TypeOK
<1>5. RunInv(r)'
  <2>1. CASE run'[r] = IdleRun
    BY <2>1, IdleRunInv
  <2>2. CASE /\ run'[r] = [run[r] EXCEPT !.pc = "receipt"]
             /\ \A i \in Rows(r) : Copies(i) = 1
    <3>1. \A i \in Rows(r) : ledger'[i] = 1
      BY <1>1, <2>2, SyncTyped DEF Rows
    <3> QED
      BY <1>1, <1>2, <2>2, <3>1
         DEF Verify, TypeOK, Run, RunInv, At, Row, Rows, Written, WrittenLabels, ReceiptLabels
  <2> QED
    BY <1>3, <2>1, <2>2
<1> QED
  BY <1>1, <1>3, <1>4, <1>5, SyncStep, SessionExclusive DEF Verify

LEMMA ReleaseFenceStep ==
  ASSUME IInv, NEW r \in Runner, ReleaseFence(r)
  PROVE  IInv'
<1>1. TypeOK /\ run[r].batch \in Batch
  BY DEF IInv, TypeOK, Run
<1>2. CASE End(r)
  <2>1. run'[r].pc = "idle"
    BY <1>1, <1>2, EndTyped DEF IdleRun
  <2> QED
    BY <1>2, <2>1, MoveStep, KeptDelivered
       DEF ReleaseFence, At, Labels, WrittenLabels, ReceiptLabels
<1>3. CASE Release(r) /\ run' = [run EXCEPT ![r].pc = "readReleased"]
  <2>1. /\ run' \in [Runner -> Run]
        /\ run'[r] = [run[r] EXCEPT !.pc = "readReleased"]
        /\ \A s \in Runner \ {r} : run'[s] = run[s]
    <3>1. "readReleased" \in Labels
      BY DEF Labels
    <3> QED
      BY <1>1, <1>3, <3>1, MoveTyped
  <2>2. TypeOK'
    BY <1>1, <1>3, <2>1, ReleaseTyped DEF ReleaseFence, TypeOK, ledgerVars
  <2>3. /\ run'[r].pc = "readReleased" /\ run'[r].batch = run[r].batch
        /\ Row(r).state # "NONE" /\ Row(r).receipt /\ Written(run[r].batch)
    <3>1. run[r] \in Run
      BY <1>1 DEF TypeOK
    <3>2. Row(r).state # "NONE" /\ Row(r).receipt /\ Written(run[r].batch)
      BY DEF ReleaseFence, IInv, RunInv, At, WrittenLabels, ReceiptLabels
    <3> QED
      BY <2>1, <3>1, <3>2 DEF Run
  <2>4. RunInv(r)'
    BY <2>3 DEF ReleaseFence, RunInv, At, Row, Written, ledgerVars
  <2> QED
    BY <2>1, <2>2, <2>4, QuietStep, KeptDelivered DEF ReleaseFence, ledgerVars
<1> QED
  BY <1>2, <1>3 DEF ReleaseFence

LEMMA ReadReleasedStep ==
  ASSUME IInv, NEW r \in Runner, ReadReleased(r)
  PROVE  IInv'
<1> DEFINE freed == held[r] = lease.token /\ lease.released
<1>1. TypeOK /\ run[r].batch \in Batch /\ run[r] \in Run /\ freed \in BOOLEAN
  BY DEF IInv, TypeOK, LeaseTypeOK, Run
<1>2. /\ run' \in [Runner -> Run]
      /\ run'[r] = [run[r] EXCEPT !.pc = "commit", !.freed = freed]
      /\ \A s \in Runner \ {r} : run'[s] = run[s]
  <2>1. run \in [Runner -> Run]
    BY <1>1 DEF TypeOK
  <2>2. [run[r] EXCEPT !.pc = "commit", !.freed = freed] \in Run
    BY <1>1 DEF Run, Labels
  <2> QED
    BY <2>1, <2>2 DEF ReadReleased
<1>3. TypeOK'
  BY <1>1, <1>2 DEF ReadReleased, TypeOK, LeaseTypeOK, leaseVars, ledgerVars
<1>4. run'[r].pc = "commit" /\ run'[r].batch = run[r].batch
  BY <1>1, <1>2 DEF Run
<1>5. RunInv(r)'
  BY <1>1, <1>4 DEF ReadReleased, IInv, RunInv, At, Row, Written,
     ledgerVars, WrittenLabels, ReceiptLabels
<1> QED
  BY <1>2, <1>3, <1>5, QuietStep, KeptDelivered DEF ReadReleased, ledgerVars

\* Nothing but control, lease, session and drift changes, and every execution
\* is left with what it relies on.
LEMMA StillStep ==
  ASSUME IInv, TypeOK', UNCHANGED <<outbox, ledger, local, delivered>>,
         \A s \in Runner : RunInv(s)'
  PROVE  IInv'
  BY DEF IInv, AtMostOneEffect, LocalInv, Copies, ObservedMeansWritten, ReceiptBeforeCommit,
         DeliveredIsSound

LEMMA FailStep ==
  ASSUME IInv, NEW r \in Runner, Fail(r)
  PROVE  IInv'
<1>1. TypeOK
  BY DEF IInv
<1>2. /\ run' \in [Runner -> Run] /\ LeaseTypeOK' /\ run'[r] = IdleRun
      /\ \A s \in Runner \ {r} : run'[s] = run[s]
  BY <1>1, EndTyped DEF Fail
<1>3. TypeOK'
  BY <1>1, <1>2 DEF Fail, TypeOK, ledgerVars
<1>4. Grow
  BY DEF Fail, Grow, ledgerVars
<1>5. \A s \in Runner \ {r} : run[s].pc \in {"write", "readBack"} =>
        UNCHANGED <<session, ledger, local>>
  BY DEF Fail, IInv, RunInv, ledgerVars
<1>6. \A s \in Runner : RunInv(s)'
  BY <1>1, <1>2, <1>4, <1>5, KeptRun, IdleRunInv DEF IInv
<1> QED
  BY <1>3, <1>6, StillStep DEF Fail, ledgerVars

LEMMA KillStep ==
  ASSUME IInv, Kill
  PROVE  IInv'
<1>1. TypeOK
  BY DEF IInv
<1>2. \A r \in Runner : run'[r] = IdleRun
  BY DEF Kill
<1>3. local' \in [Id -> Nat] /\ \A i \in Id : local'[i] = local[i] \/ local'[i] = 0
  BY <1>1 DEF Kill, TypeOK
<1>4. TypeOK'
  <2>1. run' \in [Runner -> Run]
    BY IdleTyped DEF Kill
  <2>2. LeaseTypeOK'
    BY <1>1 DEF Kill, TypeOK, LeaseTypeOK
  <2>3. faults' \in 0..MaxFaults /\ session' \in Runner \cup {NoRunner}
    BY <1>1 DEF Kill, TypeOK
  <2> QED
    BY <1>1, <1>3, <2>1, <2>2, <2>3 DEF Kill, TypeOK
<1>5. \A r \in Runner : RunInv(r)'
  BY <1>2, IdleRunInv
<1>6. AtMostOneEffect'
  BY <1>1, <1>3 DEF Kill, IInv, TypeOK, AtMostOneEffect
<1>7. LocalInv'
  <2>1. CASE UNCHANGED local
    BY <2>1 DEF Kill, IInv, LocalInv, Copies
  <2>2. CASE local' = [i \in Id |-> 0]
    BY <2>2 DEF LocalInv
  <2> QED
    BY <2>1, <2>2 DEF Kill
<1>8. ObservedMeansWritten' /\ ReceiptBeforeCommit' /\ DeliveredIsSound'
  BY DEF Kill, IInv, ObservedMeansWritten, ReceiptBeforeCommit, DeliveredIsSound
<1> QED
  BY <1>4, <1>5, <1>6, <1>7, <1>8 DEF IInv

LEMMA DeadlineStep ==
  ASSUME IInv, Deadline
  PROVE  IInv'
<1>1. TypeOK /\ Grow
  BY DEF IInv, Deadline, Grow, ledgerVars
<1>2. TypeOK'
  <2>1. LeaseTypeOK'
    BY <1>1 DEF Deadline, Expire, TypeOK, LeaseTypeOK
  <2>2. faults' \in 0..MaxFaults
    BY <1>1 DEF Deadline, TypeOK
  <2> QED
    BY <1>1, <2>1, <2>2 DEF Deadline, TypeOK, ledgerVars
<1>3. \A s \in Runner : RunInv(s)'
  BY <1>1, KeptRun DEF IInv, Deadline, ledgerVars
<1> QED
  BY <1>2, <1>3, StillStep DEF Deadline, ledgerVars

LEMMA UserEditStep ==
  ASSUME IInv, NEW i \in Id, UserEdit(i)
  PROVE  IInv'
<1>1. TypeOK /\ Grow
  BY DEF IInv, UserEdit, Grow
<1>2. TypeOK'
  BY <1>1 DEF UserEdit, TypeOK, LeaseTypeOK, leaseVars
<1>3. \A s \in Runner : RunInv(s)'
  BY <1>1, KeptRun DEF IInv, UserEdit
<1> QED
  BY <1>2, <1>3, StillStep DEF UserEdit

-----------------------------------------------------------------------------
(* The invariant.                                                          *)

LEMMA InitInv == Init => IInv
<1> SUFFICES ASSUME Init PROVE IInv
  OBVIOUS
<1>1. TypeOK
  <2>1. LeaseTypeOK
    BY DEF Init, LeaseInit, LeaseTypeOK, NoLease
  <2>2. outbox \in [Batch -> [state : RowStates, receipt : BOOLEAN, fence : 0..MaxToken]]
    BY DEF Init, RowStates
  <2>3. order \in Seq(Batch)
    BY DEF Init
  <2> QED
    BY <2>1, <2>2, <2>3, IdleTyped DEF Init, TypeOK
<1>2. \A r \in Runner : RunInv(r)
  BY DEF Init, IdleRun, RunInv, At, WrittenLabels, ReceiptLabels
<1>3. AtMostOneEffect /\ LocalInv /\ ObservedMeansWritten /\ ReceiptBeforeCommit /\ DeliveredIsSound
  BY DEF Init, AtMostOneEffect, LocalInv, ObservedMeansWritten, ReceiptBeforeCommit, DeliveredIsSound
<1> QED
  BY <1>1, <1>2, <1>3 DEF IInv

LEMMA NextInv == IInv /\ [Next]_vars => IInv'
<1> SUFFICES ASSUME IInv, [Next]_vars PROVE IInv'
  OBVIOUS
<1>1. ASSUME NEW r \in Runner, Step(r) PROVE IInv'
  BY <1>1, UpsertPreparedStep, ReadPreparedStep, ReplayStep, AcquireFenceStep, FenceBusyStep,
     AssertFenceStep, PreflightStep, BeginImportStep, WriteRowsStep, ReadBackImportStep,
     VerifyStep, UpsertObservedStep, ReadObservedStep, UpsertReceiptStep, UpsertVerifiedStep,
     ReadReceiptStep, ReleaseFenceStep, ReadReleasedStep, UpsertCommittedStep,
     ReturnReceiptStep DEF Step
<1>2. ASSUME NEW r \in Runner, Scan(r) \/ Fail(r) PROVE IInv'
  BY <1>2, ScanStep, FailStep
<1>3. ASSUME NEW r \in Runner, NEW b \in Batch, SelectExisting(r, b) PROVE IInv'
  BY <1>3, SelectStep
<1>4. CASE Kill \/ Deadline
  BY <1>4, KillStep, DeadlineStep
<1>5. ASSUME NEW i \in Id, UserEdit(i) PROVE IInv'
  BY <1>5, UserEditStep
<1>6. CASE UNCHANGED vars
  <2>1. TypeOK' /\ Grow
    BY <1>6 DEF IInv, TypeOK, LeaseTypeOK, vars, Grow
  <2>2. \A s \in Runner : RunInv(s)'
    BY <1>6, <2>1, KeptRun DEF IInv, vars
  <2> QED
    BY <1>6, <2>1, <2>2, StillStep DEF vars
<1> QED
  BY <1>1, <1>2, <1>3, <1>4, <1>5, <1>6 DEF Next, Execution

\* Every reachable state satisfies the inductive invariant, whatever the
\* interleaving, the faults and the size of the system.
THEOREM OutboxInvariant == Spec => []IInv
<1>1. IInv /\ [Next]_vars => IInv'
  BY NextInv
<1> QED
  BY InitInv, <1>1, PTL DEF Spec

\* The types: workflow 20 and the sessions keep the rows, ledger and
\* executions in their declared shapes.
THEOREM OutboxTypes == Spec => []TypeOK
<1>1. IInv => TypeOK
  BY DEF IInv
<1> QED
  BY <1>1, OutboxInvariant, PTL

\* No imported id ever has two rows in Actual, on the server or pending
\* (existingTransactionsForOutbox and the duplicate check of the import).
THEOREM NoDoubleImport == Spec => []AtMostOneEffect
<1>1. IInv => AtMostOneEffect
  BY DEF IInv
<1> QED
  BY <1>1, OutboxInvariant, PTL

\* The batch row never runs ahead of the Actual server.
THEOREM RowFollowsLedger == Spec => []ObservedMeansWritten
<1>1. IInv => ObservedMeansWritten
  BY DEF IInv
<1> QED
  BY <1>1, OutboxInvariant, PTL

\* VERIFIED and COMMITTED stand on a stored verification receipt.
THEOREM ReceiptComesFirst == Spec => []ReceiptBeforeCommit
<1>1. IInv => ReceiptBeforeCommit
  BY DEF IInv
<1> QED
  BY <1>1, OutboxInvariant, PTL

\* A trusted commit receipt tells its caller the truth.
THEOREM ReceiptsAreSound == Spec => []DeliveredIsSound
<1>1. IInv => DeliveredIsSound
  BY DEF IInv
<1> QED
  BY <1>1, OutboxInvariant, PTL

-----------------------------------------------------------------------------
(* Fenced writes: rows become pending in one action only.                  *)

LEMMA PendingStep ==
  ASSUME IInv, [Next]_vars
  PROVE  \/ \A i \in Id : local'[i] = local[i] \/ local'[i] = 0
         \/ \E r \in Runner : WriteRows(r)
<1>1. ASSUME NEW r \in Runner, Step(r), ~WriteRows(r)
      PROVE  UNCHANGED local \/ Sync
  BY <1>1 DEF Step, ledgerVars, UpsertPrepared, ReadPrepared, Replay, AcquireFence, FenceBusy,
     AssertFence, Preflight, BeginImport, ReadBackImport, Verify, UpsertObserved,
     ReadObserved, UpsertReceipt, UpsertVerified, ReadReceipt, ReleaseFence, ReadReleased,
     UpsertCommitted, ReturnReceipt
<1>2. ASSUME NEW r \in Runner, Scan(r) \/ Fail(r) PROVE UNCHANGED local
  BY <1>2 DEF Scan, Fail, ledgerVars
<1>3. ASSUME NEW r \in Runner, NEW b \in Batch, SelectExisting(r, b) PROVE UNCHANGED local
  BY <1>3 DEF SelectExisting, ledgerVars
<1>4. CASE Kill
  BY <1>4 DEF Kill
<1>5. CASE Deadline \/ \E i \in Id : UserEdit(i)
  BY <1>5 DEF Deadline, UserEdit, ledgerVars
<1>6. CASE UNCHANGED vars
  BY <1>6 DEF vars
<1>7. Sync => \A i \in Id : local'[i] = 0
  BY DEF Sync
<1> QED
  BY <1>1, <1>2, <1>3, <1>4, <1>5, <1>6, <1>7 DEF Next, Execution

\* Rows are written only inside a session whose execution holds the lease and
\* was not past the deadline (assertLeaseNotExpired before importTransactions).
THEOREM FencedWrites == Spec => WritesAreFenced
<1>1. IInv /\ [Next]_vars =>
        \A i \in Id : local'[i] > local[i] =>
          session # NoRunner /\ held[session] = lease.token /\ ~lease.expired
  <2> SUFFICES ASSUME IInv, [Next]_vars, NEW i \in Id, local'[i] > local[i]
               PROVE  session # NoRunner /\ held[session] = lease.token /\ ~lease.expired
    OBVIOUS
  <2>1. local[i] \in Nat
    BY DEF IInv, TypeOK
  <2>2. local'[i] # local[i] /\ local'[i] # 0
    BY <2>1
  <2>3. PICK r \in Runner : WriteRows(r)
    BY <2>2, PendingStep
  <2>4. session = r
    BY <2>3 DEF IInv, RunInv, WriteRows, At
  <2>5. ~(Rows(r) \ run[r].seen = {})
    BY <2>2, <2>3 DEF WriteRows
  <2>6. NotExpired(r)
    BY <2>2, <2>3, <2>5 DEF WriteRows
  <2> QED
    BY <2>4, <2>6 DEF NotExpired
<1>2. IInv /\ [Next]_vars => [\A i \in Id : local'[i] > local[i] =>
         session # NoRunner /\ held[session] = lease.token /\ ~lease.expired]_vars
  BY <1>1
<1> QED
  BY <1>2, OutboxInvariant, PTL DEF Spec, WritesAreFenced

-----------------------------------------------------------------------------
(* Refinement of the contract.                                             *)

AbstractStep == [Contract!Next]_(Contract!contractVars)

\* The steps that leave ledger and receipts alone and start no batch.
LEMMA HiddenStep ==
  ASSUME UNCHANGED <<ledger, delivered>>,
         \A b \in Batch : outbox'[b].state = "NONE" <=> outbox[b].state = "NONE"
  PROVE  AbstractStep
  BY DEF AbstractStep, Contract!contractVars

\* A sync is Apply of the one batch that has pending rows, or nothing.
LEMMA SyncRefines ==
  ASSUME IInv, Sync, UNCHANGED <<outbox, delivered>>
  PROVE  AbstractStep
<1>1. /\ ledger \in [Id -> Nat] /\ \A i \in Id : local[i] \in Nat
      /\ ledger' = [i \in Id |-> ledger[i] + local[i]]
  BY DEF IInv, TypeOK, Sync, Copies
<1>2. CASE \A i \in Id : local[i] = 0
  <2>1. ledger' = ledger
    BY <1>1, <1>2
  <2> QED
    BY <2>1, HiddenStep
<1>3. ASSUME NEW b \in Batch, outbox[b].state # "NONE",
             \A i \in RowsOf[b] : Copies(i) = 1,
             \A i \in Id \ RowsOf[b] : local[i] = 0
      PROVE  AbstractStep
  <2>1. ledger' = [i \in Id |-> IF i \in RowsOf[b] THEN 1 ELSE ledger[i]]
    BY <1>1, <1>3 DEF Copies
  <2>2. Contract!Apply(b)
    BY <1>3, <2>1 DEF Contract!Apply
  <2> QED
    BY <2>2 DEF AbstractStep, Contract!Next
<1> QED
  BY <1>2, <1>3 DEF IInv, LocalInv

\* A receipt is handed out for a batch that is on the server, or not at all.
LEMMA DeliverRefines ==
  ASSUME IInv, NEW r \in Runner, UNCHANGED <<ledger, outbox>>,
         delivered' \in {delivered, delivered \cup {run[r].batch}},
         delivered' # delivered => Written(run[r].batch)
  PROVE  AbstractStep
<1>1. run[r].batch \in Batch
  BY DEF IInv, TypeOK, Run
<1>2. CASE delivered' = delivered
  BY <1>2, HiddenStep
<1>3. CASE delivered' = delivered \cup {run[r].batch} /\ delivered' # delivered
  <2>1. Contract!Deliver(run[r].batch)
    BY <1>3 DEF Contract!Deliver, Written
  <2> QED
    BY <1>1, <2>1 DEF AbstractStep, Contract!Next
<1> QED
  BY <1>2, <1>3

\* Inserting the PREPARED row is Intend.
LEMMA PrepareRefines ==
  ASSUME IInv, NEW r \in Runner, UpsertPrepared(r)
  PROVE  AbstractStep
<1>1. outbox \in [Batch -> [state : RowStates, receipt : BOOLEAN, fence : 0..MaxToken]]
  BY DEF IInv, TypeOK
<1>2. PICK b \in Batch : b = run[r].batch
  BY DEF IInv, TypeOK, Run
<1>3. outbox'[b].state = "PREPARED" /\ \A c \in Batch \ {b} : outbox'[c] = outbox[c]
  BY <1>1, <1>2 DEF UpsertPrepared, SetState
<1>4. {c \in Batch : outbox'[c].state # "NONE"} = {c \in Batch : outbox[c].state # "NONE"} \cup {b}
  BY <1>1, <1>3
<1>5. Contract!Intend(b)
  BY <1>4 DEF Contract!Intend, UpsertPrepared, ledgerVars
<1> QED
  BY <1>5 DEF AbstractStep, Contract!Next

\* The other writes of a batch row find a row there.
LEMMA RowRefines ==
  ASSUME IInv, NEW r \in Runner,
         UpsertObserved(r) \/ UpsertReceipt(r) \/ UpsertVerified(r) \/ UpsertCommitted(r)
  PROVE  AbstractStep
<1> DEFINE b == run[r].batch
<1>1. b \in Batch /\ outbox \in [Batch -> [state : RowStates, receipt : BOOLEAN, fence : 0..MaxToken]]
  BY DEF IInv, TypeOK, Run
<1>2. outbox[b].state # "NONE"
  BY DEF IInv, RunInv, At, Row, UpsertObserved, UpsertReceipt, UpsertVerified, UpsertCommitted
<1>3. UNCHANGED <<ledger, delivered>>
  BY DEF UpsertObserved, UpsertReceipt, UpsertVerified, UpsertCommitted, ledgerVars
<1>4. \/ outbox' = outbox
      \/ outbox' = [outbox EXCEPT ![b].state = "ACTUAL_OBSERVED"]
      \/ outbox' = [outbox EXCEPT ![b].state = "VERIFIED"]
      \/ outbox' = [outbox EXCEPT ![b].receipt = TRUE]
      \/ outbox' = [outbox EXCEPT ![b].state = "COMMITTED", ![b].fence = held[r]]
  BY DEF UpsertObserved, UpsertReceipt, UpsertVerified, UpsertCommitted, SetState
<1>5. \A c \in Batch : outbox'[c].state = "NONE" <=> outbox[c].state = "NONE"
  BY <1>1, <1>2, <1>4
<1> QED
  BY <1>3, <1>5, HiddenStep

LEMMA StepRefines ==
  ASSUME IInv, NEW r \in Runner, Step(r)
  PROVE  AbstractStep
<1>1. CASE ReadPrepared(r) \/ AcquireFence(r) \/ FenceBusy(r) \/ AssertFence(r) \/ WriteRows(r)
           \/ ReadObserved(r) \/ ReadReceipt(r) \/ ReleaseFence(r) \/ ReadReleased(r)
  <2>1. UNCHANGED <<ledger, delivered, outbox>>
    BY <1>1 DEF ReadPrepared, AcquireFence, FenceBusy, AssertFence, WriteRows, ReadObserved,
       ReadReceipt, ReleaseFence, ReadReleased, ledgerVars
  <2> QED
    BY <2>1, HiddenStep
<1>2. CASE Preflight(r) \/ BeginImport(r) \/ ReadBackImport(r) \/ Verify(r)
  <2>1. UNCHANGED <<delivered, outbox>> /\ (Sync \/ UNCHANGED ledger)
    BY <1>2 DEF Preflight, BeginImport, ReadBackImport, Verify, ledgerVars
  <2> QED
    BY <2>1, SyncRefines, HiddenStep
<1>3. CASE Replay(r)
  <2>1. Row(r).state = "COMMITTED" => Written(run[r].batch)
    BY DEF IInv, TypeOK, Run, ObservedMeansWritten, Row, Written
  <2> QED
    BY <1>3, <2>1, DeliverRefines DEF Replay, ledgerVars
<1>4. CASE ReturnReceipt(r)
  <2>1. Written(run[r].batch)
    BY <1>4 DEF IInv, RunInv, ReturnReceipt, At, WrittenLabels
  <2> QED
    BY <1>4, <2>1, DeliverRefines DEF ReturnReceipt, ledgerVars
<1> QED
  BY <1>1, <1>2, <1>3, <1>4, PrepareRefines, RowRefines DEF Step

\* The outbox with all its executions implements the contract: the rows of a
\* batch reach the Actual server together and once, and a trusted receipt is
\* handed out only for a batch that is there.
THEOREM OutboxImplementsContract == Spec => ImplementsContract
<1>1. Init => Contract!Init
  <2> SUFFICES ASSUME Init PROVE Contract!Init
    OBVIOUS
  <2>1. {b \in Batch : outbox[b].state # "NONE"} = {}
    BY DEF Init
  <2> QED
    BY <2>1 DEF Init, Contract!Init
<1>2. IInv /\ [Next]_vars => [Contract!Next]_(Contract!contractVars)
  <2> SUFFICES ASSUME IInv, [Next]_vars PROVE AbstractStep
    BY DEF AbstractStep
  <2>1. ASSUME NEW r \in Runner, Scan(r) \/ Fail(r) PROVE AbstractStep
    <3>1. UNCHANGED <<ledger, delivered, outbox>>
      BY <2>1 DEF Scan, Fail, ledgerVars
    <3> QED
      BY <3>1, HiddenStep
  <2>2. ASSUME NEW r \in Runner, NEW b \in Batch, SelectExisting(r, b) PROVE AbstractStep
    <3>1. UNCHANGED <<ledger, delivered, outbox>>
      BY <2>2 DEF SelectExisting, ledgerVars
    <3> QED
      BY <3>1, HiddenStep
  <2>3. CASE Kill \/ Deadline \/ (\E i \in Id : UserEdit(i)) \/ UNCHANGED vars
    <3>1. UNCHANGED <<ledger, delivered, outbox>>
      BY <2>3 DEF Kill, Deadline, UserEdit, ledgerVars, vars
    <3> QED
      BY <3>1, HiddenStep
  <2> QED
    BY <2>1, <2>2, <2>3, StepRefines DEF Next, Execution
<1> QED
  BY <1>1, <1>2, OutboxInvariant, PTL DEF Spec, ImplementsContract, Contract!Spec

=============================================================================
