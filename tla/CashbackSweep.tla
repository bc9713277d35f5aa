--------------------------- MODULE CashbackSweep ---------------------------
(***************************************************************************)
(* The live cashback scan.  Executions of workflow 02 sweep a mailbox from *)
(* the durable cursor minus an overlap up to a frozen upper bound, post    *)
(* every accepted message to the cashback service, seal the scan with one  *)
(* receipt and commit the cursor with it.  The service keeps events,       *)
(* receipts and the cursor in SQLite (finance_tracker/cashback_events.py); *)
(* each of its transactions is one step.  Corrections and statement        *)
(* reconciliation change events at any time; executions overlap and fail,  *)
(* and a request whose client is gone may be served later.                 *)
(*                                                                         *)
(* One source, hence one cursor.  Times are ticks of one clock.  The model *)
(* starts after the first committed scan (an empty one, at tick 1), so the *)
(* wider window of a source without a cursor is left out.                  *)
(***************************************************************************)
EXTENDS Naturals

CONSTANTS
  Sweep,          \* executions of workflow 02
  Message,        \* messages of the mailbox that pass the trusted filter
  Accepted,       \* those the notification adapters turn into an event
  Facts,          \* economic facts: date, card, amount, currency, merchant, type
  FactsOf,        \* FactsOf[m]: the facts the notification m states
  Stated,         \* transactions a statement lists and matches meanwhile
  Overlap,        \* overlap of two windows (two hours)
  MailDelay,      \* the mailbox lists a message within this time of its receipt
  MaxTime, MaxCorrections, MaxFaults   \* bounds of the model

ASSUME MessageAssumption ==
  /\ Accepted \subseteq Message /\ Accepted # {} /\ Stated \subseteq Accepted
  /\ FactsOf \in [Accepted -> Facts]
ASSUME WindowAssumption == Overlap \in Nat /\ MailDelay \in Nat /\ MailDelay <= Overlap
ASSUME BoundAssumption == MaxTime \in Nat \ {0} /\ MaxCorrections \in Nat /\ MaxFaults \in Nat

VARIABLES
  now,
  received,     \* received[m]: receivedDateTime, 0 while the message is not sent
  listed,       \* messages the mailbox returns
  events,       \* the cashback_events row of each accepted message
  covered,      \* messages with a disposition in a COMMITTED receipt
  cursor,       \* the ingest_state row
  run,          \* what each execution holds in memory
  lateEvents,   \* transaction requests without a client, not served yet
  lateCommits,  \* cursor requests without a client, not served yet
  corrections, faults

vars == <<now, received, listed, events, covered, cursor, run, lateEvents,
          lateCommits, corrections, faults>>

mailVars == <<now, received, listed>>
cursorVars == <<covered, cursor>>
lateVars == <<lateEvents, lateCommits>>

-----------------------------------------------------------------------------
\* tagged stands for every column that is not an economic fact.
NoEvent == [stored |-> FALSE]
Event == {NoEvent} \cup
         [stored : {TRUE}, facts : Facts, tagged : BOOLEAN, reconciled : BOOLEAN]

Stored(m) == events[m].stored

NoDigests == [m \in Accepted |-> NoEvent]

\* Only the execution that had a BATCH receipt sealed presents it, so the sealed
\* receipts are kept where that execution and its requests hold them.
\* What a receipt binds: the frozen bound, a disposition for every
\* message of the window, a row digest for every accepted one.
Receipt == [upper : 1..MaxTime, scanned : SUBSET Message, digests : [Accepted -> Event]]
FirstReceipt == [upper |-> 1, scanned |-> {}, digests |-> NoDigests]

Labels == {"idle", "freeze", "enumerate", "ingest", "acknowledge", "commit", "readBack"}
Run == [pc : Labels, seen : 1..MaxTime, upper : 1..MaxTime, found : SUBSET Message,
        todo : SUBSET Accepted, event : Accepted, digests : [Accepted -> Event]]

\* event is only read after an upsert has set it.
IdleRun == [pc |-> "idle", seen |-> 1, upper |-> 1, found |-> {}, todo |-> {},
            event |-> CHOOSE m \in Accepted : TRUE, digests |-> NoDigests]

TypeOK ==
  /\ now \in 1..MaxTime
  /\ received \in [Message -> 0..MaxTime]
  /\ listed \subseteq Message
  /\ events \in [Accepted -> Event]
  /\ covered \subseteq Message
  /\ cursor \in [at : 1..MaxTime, version : Nat, receipt : Receipt]
  /\ run \in [Sweep -> Run]
  /\ lateEvents \subseteq Accepted
  /\ lateCommits \subseteq Receipt
  /\ corrections \in 0..MaxCorrections
  /\ faults \in 0..MaxFaults

Init ==
  /\ now = 1
  /\ received = [m \in Message |-> 0]
  /\ listed = {}
  /\ events = NoDigests
  /\ covered = {}
  /\ cursor = [at |-> 1, version |-> 1, receipt |-> FirstReceipt]
  /\ run = [s \in Sweep |-> IdleRun]
  /\ lateEvents = {}
  /\ lateCommits = {}
  /\ corrections = 0
  /\ faults = 0

-----------------------------------------------------------------------------
(* Time and mail (Microsoft Graph, outside the repository).                *)

Tick ==
  /\ now < MaxTime
  /\ \A m \in Message \ listed : received[m] # 0 => now < received[m] + MailDelay
  /\ now' = now + 1
  /\ UNCHANGED <<received, listed, events, cursorVars, run, lateVars, corrections, faults>>

Receive(m) ==
  /\ received[m] = 0
  /\ received' = [received EXCEPT ![m] = now]
  /\ UNCHANGED <<now, listed, events, cursorVars, run, lateVars, corrections, faults>>

Appear(m) ==
  /\ received[m] # 0 /\ m \notin listed
  /\ listed' = listed \cup {m}
  /\ UNCHANGED <<now, received, events, cursorVars, run, lateVars, corrections, faults>>

-----------------------------------------------------------------------------
(* The service: upsert of one event, cursor commit, corrections.           *)

\* A replay of a stored notification changes nothing; it is refused when the
\* stored facts differ, unless a statement reconciled them.
Replayable(m) == Stored(m) /\ (events[m].facts = FactsOf[m] \/ events[m].reconciled)

\* Another event with the same economic identity makes m a duplicate.
Insertable(m) == ~Stored(m) /\ \A n \in Accepted : Stored(n) => events[n].facts # FactsOf[m]

UpsertAccepts(m) == Replayable(m) \/ Insertable(m)

\* Mutant of Upsert: a replay writes the notification over the stored row.
UpsertOverwrites(m) ==
  events' = IF Insertable(m) \/ Stored(m)
            THEN [events EXCEPT ![m] = [stored |-> TRUE, facts |-> FactsOf[m],
                                        tagged |-> FALSE, reconciled |-> FALSE]]
            ELSE events

Upsert(m) ==
  events' = IF Insertable(m)
            THEN [events EXCEPT ![m] = [stored |-> TRUE, facts |-> FactsOf[m],
                                        tagged |-> FALSE, reconciled |-> FALSE]]
            ELSE events

\* The rows are what the receipt says, checked under the write lock.
DigestsHold(q) == \A m \in Accepted \cap q.scanned : events[m] = q.digests[m]

\* Mutants of Committable: no check against the current cursor, no recheck of rows.
CommittableStale(q) == DigestsHold(q)
CommittableUnchecked(q) == q.upper > cursor.at

Committable(q) == q.upper > cursor.at /\ DigestsHold(q)

CommitCursor(q) ==
  IF Committable(q)
  THEN /\ cursor' = [at |-> q.upper, version |-> cursor.version + 1, receipt |-> q]
       /\ covered' = covered \cup q.scanned
  ELSE UNCHANGED cursorVars

\* correct_event: the facts of a reconciled event are locked, and no event
\* takes over the identity of another one.
Correct(m) ==
  /\ Stored(m)
  /\ corrections < MaxCorrections
  /\ corrections' = corrections + 1
  /\ \/ events' = [events EXCEPT ![m].tagged = ~@]
     \/ /\ ~events[m].reconciled
        /\ \E f \in Facts :
             /\ \A n \in Accepted \ {m} : Stored(n) => events[n].facts # f
             /\ events' = [events EXCEPT ![m].facts = f]
  /\ UNCHANGED <<mailVars, cursorVars, run, lateVars, faults>>

\* reconcile_statement matching m: posting date and identity come from the
\* statement; the unique index refuses an identity another event has.
Reconcile(m) ==
  /\ m \in Stated
  /\ Stored(m)
  /\ ~events[m].reconciled
  /\ \E f \in Facts :
       /\ \A n \in Accepted \ {m} : Stored(n) => events[n].facts # f
       /\ events' = [events EXCEPT ![m].facts = f, ![m].reconciled = TRUE]
  /\ UNCHANGED <<mailVars, cursorVars, run, lateVars, corrections, faults>>

-----------------------------------------------------------------------------
(* One execution of workflow 02.                                           *)

At(s, label) == run[s].pc = label

End(s) == run' = [run EXCEPT ![s] = IdleRun]

Less(a, b) == IF a > b THEN a - b ELSE 0

ReadCursor(s) ==
  /\ At(s, "idle")
  /\ run' = [run EXCEPT ![s] = [IdleRun EXCEPT !.pc = "freeze", !.seen = cursor.at]]
  /\ UNCHANGED <<mailVars, events, cursorVars, lateVars, corrections, faults>>

Freeze(s) ==
  /\ At(s, "freeze")
  /\ run' = [run EXCEPT ![s] = [@ EXCEPT !.pc = "enumerate", !.upper = now]]
  /\ UNCHANGED <<mailVars, events, cursorVars, lateVars, corrections, faults>>

\* Mutant of Window: the window starts at the cursor.
WindowExact(s) == {m \in listed : /\ received[m] >= run[s].seen
                                  /\ received[m] < run[s].upper}

\* The sweep of workflow 12 and the dispositions of the notification parser.
Window(s) == {m \in listed : /\ received[m] >= Less(run[s].seen, Overlap)
                             /\ received[m] < run[s].upper}

Enumerate(s) ==
  /\ At(s, "enumerate")
  /\ IF Less(run[s].seen, Overlap) < run[s].upper
     THEN run' = [run EXCEPT ![s] = [@ EXCEPT !.pc = "ingest", !.found = Window(s),
                                              !.todo = Window(s) \cap Accepted]]
     ELSE End(s)
  /\ UNCHANGED <<mailVars, events, cursorVars, lateVars, corrections, faults>>

\* Transaction and receipt requests hold the lock of the server process from
\* their first transaction to their last; the other handlers do not take it.
WriteLockFree == \A s \in Sweep : ~At(s, "acknowledge")

\* POST /api/ingest/transaction, first transaction: the event.  A refused
\* event is an HTTP error and ends the execution.
IngestEvent(s) ==
  /\ At(s, "ingest")
  /\ WriteLockFree
  /\ \E m \in run[s].todo :
       IF UpsertAccepts(m)
       THEN /\ Upsert(m)
            /\ run' = [run EXCEPT ![s] = [@ EXCEPT !.pc = "acknowledge", !.event = m]]
       ELSE End(s) /\ UNCHANGED events
  /\ UNCHANGED <<mailVars, cursorVars, lateVars, corrections, faults>>

\* ... second transaction: the digest of the row as it is now.
Acknowledge(s) ==
  /\ At(s, "acknowledge")
  /\ LET m == run[s].event
         todo == run[s].todo \ {m}
         digests == [run[s].digests EXCEPT ![m] = events[m]]
     IN  run' = [run EXCEPT ![s] = [@ EXCEPT !.pc = "ingest", !.todo = todo,
                                             !.digests = digests]]
  /\ UNCHANGED <<mailVars, events, cursorVars, lateVars, corrections, faults>>

\* POST /api/ingest/receipt: refused unless every row still has the digest of
\* its transaction receipt.
ReceiptOf(s) == [upper |-> run[s].upper, scanned |-> run[s].found, digests |-> run[s].digests]

\* Mutant of Seal: the receipt does not wait for every transaction.
SealEarly(s) ==
  /\ At(s, "ingest")
  /\ WriteLockFree
  /\ run' = [run EXCEPT ![s].pc = "commit"]
  /\ UNCHANGED <<mailVars, events, cursorVars, lateVars, corrections, faults>>

Seal(s) ==
  /\ At(s, "ingest")
  /\ run[s].todo = {}
  /\ WriteLockFree
  /\ IF DigestsHold(ReceiptOf(s))
     THEN run' = [run EXCEPT ![s].pc = "commit"]
     ELSE End(s)
  /\ UNCHANGED <<mailVars, events, cursorVars, lateVars, corrections, faults>>

\* POST /api/ingest-runs; the receipt that is already current is a replay.
Commit(s) ==
  /\ At(s, "commit")
  /\ CommitCursor(ReceiptOf(s))
  /\ IF Committable(ReceiptOf(s)) \/ ReceiptOf(s) = cursor.receipt
     THEN run' = [run EXCEPT ![s].pc = "readBack"]
     ELSE End(s)
  /\ UNCHANGED <<mailVars, events, lateVars, corrections, faults>>

\* The cursor is read back; the execution ends either way.
ReadBack(s) ==
  /\ At(s, "readBack")
  /\ End(s)
  /\ UNCHANGED <<mailVars, events, cursorVars, lateVars, corrections, faults>>

\* A node throws, the process dies or a call times out.  The request that was
\* under way may still be served.
Fail(s) ==
  /\ ~At(s, "idle")
  /\ faults < MaxFaults
  /\ faults' = faults + 1
  /\ End(s)
  /\ \/ UNCHANGED lateEvents
     \/ /\ At(s, "ingest")
        /\ \E m \in run[s].todo : lateEvents' = lateEvents \cup {m}
  /\ \/ UNCHANGED lateCommits
     \/ /\ At(s, "commit")
        /\ lateCommits' = lateCommits \cup {ReceiptOf(s)}
  /\ UNCHANGED <<mailVars, events, cursorVars, corrections>>

ServeLateEvent(m) ==
  /\ m \in lateEvents
  /\ WriteLockFree
  /\ lateEvents' = lateEvents \ {m}
  /\ Upsert(m)
  /\ UNCHANGED <<mailVars, cursorVars, run, lateCommits, corrections, faults>>

ServeLateCommit(q) ==
  /\ q \in lateCommits
  /\ lateCommits' = lateCommits \ {q}
  /\ CommitCursor(q)
  /\ UNCHANGED <<mailVars, events, run, lateEvents, corrections, faults>>

-----------------------------------------------------------------------------
Step(s) ==
  \/ Freeze(s) \/ Enumerate(s) \/ IngestEvent(s) \/ Acknowledge(s)
  \/ Seal(s) \/ Commit(s) \/ ReadBack(s)

Next ==
  \/ Tick
  \/ \E m \in Message : Receive(m) \/ Appear(m)
  \/ \E m \in Accepted : Correct(m) \/ Reconcile(m) \/ ServeLateEvent(m)
  \/ \E s \in Sweep : ReadCursor(s) \/ Step(s) \/ Fail(s)
  \/ \E q \in lateCommits : ServeLateCommit(q)

Spec == Init /\ [][Next]_vars

\* n8n schedules the workflow every day and works on the nodes of an execution
\* in turn; time passes and mail is listed.  Nothing is assumed of requests
\* whose client is gone.
LiveSpec ==
  /\ Spec
  /\ WF_vars(Tick)
  /\ \A m \in Message : WF_vars(Appear(m))
  /\ \A s \in Sweep : WF_vars(ReadCursor(s)) /\ WF_vars(Step(s))

-----------------------------------------------------------------------------
(* Behind the cursor nothing is missing: a message older than the cursor    *)
(* minus the overlap is in a committed receipt and, when it is a            *)
(* transaction, in the event store, however late it was listed and whatever *)
(* executions failed, overlapped or committed late (Freeze Cursor Minus     *)
(* Overlap Window, record_ingest_success).                                  *)
NothingSkipped ==
  \A m \in Message : received[m] # 0 /\ received[m] + Overlap < cursor.at =>
    m \in covered /\ (m \in Accepted => Stored(m))

\* What NothingSkipped rests on.  Mail is listed in time; a receipt that can
\* still be committed accounts for every message between the cursor minus the
\* overlap and its own bound minus the overlap.
MailInv ==
  \A m \in Message :
    /\ received[m] <= now
    /\ m \notin listed /\ received[m] # 0 => now <= received[m] + MailDelay

Complete(found, bound) ==
  \A m \in Message :
    received[m] # 0 /\ cursor.at <= received[m] + Overlap /\ received[m] + Overlap < bound
      => m \in found

Sound(q) ==
  /\ q.upper <= now
  /\ Complete(q.scanned, q.upper)
  /\ \A m \in Accepted \cap q.scanned : q.digests[m].stored

RunInv(s) ==
  /\ run[s].seen <= cursor.at
  /\ run[s].upper <= now
  /\ run[s].pc \in {"ingest", "acknowledge", "commit"} =>
       /\ Complete(run[s].found, run[s].upper)
       /\ \A m \in (Accepted \cap run[s].found) \ run[s].todo : run[s].digests[m].stored
  /\ At(s, "acknowledge") => Stored(run[s].event)
  /\ At(s, "commit") => run[s].todo = {}

SweepInv ==
  /\ TypeOK /\ MailInv /\ NothingSkipped /\ cursor.at <= now
  /\ \A s \in Sweep : RunInv(s)
  /\ \A q \in lateCommits : Sound(q)

(* The cursor never goes back and never changes at the same bound: every    *)
(* change moves it forward by one version, to the bound of the receipt that *)
(* commits it, late requests included         (record_ingest_success).      *)
CursorMovesForward ==
  [][cursor' # cursor =>
       /\ cursor'.at > cursor.at
       /\ cursor'.version = cursor.version + 1
       /\ cursor'.receipt.upper = cursor'.at]_vars

(* When the cursor moves, every transaction of its receipt is stored as the *)
(* execution saw it: a correction or a reconciliation that came in between  *)
(* blocks the commit (the recheck in record_ingest_success).                *)
CommitSeesCurrentRows ==
  [][cursor' # cursor =>
       \A m \in Accepted \cap cursor'.receipt.scanned :
         Stored(m) /\ events[m] = cursor'.receipt.digests[m]]_vars

(* Replays keep what people and statements decided: a stored event changes  *)
(* only by a correction or a reconciliation, never because its notification *)
(* is swept again or its request is served late (upsert).                   *)
ReplaysChangeNothing ==
  [][\A m \in Accepted :
       Stored(m) /\ events'[m] # events[m] =>
         \/ corrections' > corrections
         \/ ~events[m].reconciled /\ events'[m].reconciled]_vars

(* Every transaction the mailbox lists is eventually an event: failed runs  *)
(* are made up for by later ones (docs/actual-production.md, Schedules).    *)
EventuallyStored ==
  \A m \in Accepted : (m \in listed /\ received[m] < MaxTime) ~> Stored(m)
=============================================================================
