------------------------ MODULE CashbackSweepProofs ------------------------
(***************************************************************************)
(* The cashback scan for every set of executions, messages and facts, every*)
(* overlap that covers the delay of the mailbox, and every bound.          *)
(***************************************************************************)
EXTENDS CashbackSweep, TLAPS

USE MessageAssumption, WindowAssumption, BoundAssumption

-----------------------------------------------------------------------------
(* Types.                                                                  *)

LEMMA IdleTyped == IdleRun \in Run
  BY DEF IdleRun, Run, Labels, NoDigests, Event

LEMMA FirstReceiptTyped == FirstReceipt \in Receipt
  BY DEF FirstReceipt, Receipt, NoDigests, Event

LEMMA EndTyped ==
  ASSUME TypeOK, NEW s \in Sweep, End(s)
  PROVE  /\ run' \in [Sweep -> Run] /\ run'[s] = IdleRun
         /\ \A t \in Sweep \ {s} : run'[t] = run[t]
  BY IdleTyped DEF TypeOK, End

LEMMA ReceiptTyped ==
  ASSUME TypeOK, NEW s \in Sweep
  PROVE  ReceiptOf(s) \in Receipt
  BY DEF TypeOK, Run, ReceiptOf, Receipt

\* A replay leaves what is stored; an accepted event is stored afterwards.
LEMMA UpsertTyped ==
  ASSUME TypeOK, NEW m \in Accepted, Upsert(m)
  PROVE  /\ events' \in [Accepted -> Event]
         /\ \A n \in Accepted : Stored(n) => events'[n] = events[n]
         /\ UpsertAccepts(m) => Stored(m)'
<1>1. CASE Insertable(m)
  <2> DEFINE row == [stored |-> TRUE, facts |-> FactsOf[m], tagged |-> FALSE,
                     reconciled |-> FALSE]
  <2>1. row \in Event /\ row.stored
    BY DEF Event
  <2>2. events' = [events EXCEPT ![m] = row]
    BY <1>1 DEF Upsert
  <2>3. ~Stored(m)
    BY <1>1 DEF Insertable
  <2> HIDE DEF row
  <2> QED
    BY <2>1, <2>2, <2>3 DEF TypeOK, Stored
<1>2. CASE ~Insertable(m)
  BY <1>2 DEF TypeOK, Upsert, UpsertAccepts, Replayable, Stored
<1> QED
  BY <1>1, <1>2

\* A stored event stays one when its facts or its tags change.
LEMMA ChangedEventTyped ==
  ASSUME NEW e \in Event, e.stored, NEW f \in Facts
  PROVE  /\ [e EXCEPT !.tagged = ~@] \in Event /\ [e EXCEPT !.tagged = ~@].stored
         /\ [e EXCEPT !.facts = f] \in Event /\ [e EXCEPT !.facts = f].stored
         /\ [e EXCEPT !.facts = f, !.reconciled = TRUE] \in Event
         /\ [e EXCEPT !.facts = f, !.reconciled = TRUE].stored
<1>1. e \in [stored : {TRUE}, facts : Facts, tagged : BOOLEAN, reconciled : BOOLEAN]
  <2>1. e # NoEvent
    BY DEF NoEvent
  <2> QED
    BY <2>1 DEF Event
<1>2. /\ [e EXCEPT !.tagged = ~@] \in Event /\ [e EXCEPT !.tagged = ~@].stored
  BY <1>1 DEF Event
<1>3. /\ [e EXCEPT !.facts = f] \in Event /\ [e EXCEPT !.facts = f].stored
  BY <1>1 DEF Event
<1>4. /\ [e EXCEPT !.facts = f, !.reconciled = TRUE] \in Event
      /\ [e EXCEPT !.facts = f, !.reconciled = TRUE].stored
  BY <1>1 DEF Event
<1> QED
  BY <1>2, <1>3, <1>4

LEMMA CommitTyped ==
  ASSUME TypeOK, NEW q \in Receipt, CommitCursor(q)
  PROVE  /\ covered' \subseteq Message
         /\ cursor' \in [at : 1..MaxTime, version : Nat, receipt : Receipt]
  BY DEF TypeOK, CommitCursor, Receipt, cursorVars


-----------------------------------------------------------------------------
(* Steps: what each of them does to the types.                             *)

LEMMA MailTypes ==
  ASSUME TypeOK, Tick \/ (\E m \in Message : Receive(m) \/ Appear(m))
  PROVE  TypeOK'
<1>1. CASE Tick
  BY <1>1 DEF TypeOK, Tick, cursorVars, lateVars
<1>2. ASSUME NEW m \in Message, Receive(m) PROVE TypeOK'
  BY <1>2 DEF TypeOK, Receive, cursorVars, lateVars
<1>3. ASSUME NEW m \in Message, Appear(m) PROVE TypeOK'
  BY <1>3 DEF TypeOK, Appear, cursorVars, lateVars
<1> QED
  BY <1>1, <1>2, <1>3

LEMMA CorrectTypes ==
  ASSUME TypeOK, NEW m \in Accepted, Correct(m)
  PROVE  TypeOK' /\ \A n \in Accepted : Stored(n) => Stored(n)'
<1>1. PICK e \in Event : e.stored /\ events' = [events EXCEPT ![m] = e]
  <2>1. events[m] \in Event /\ events[m].stored
    BY DEF TypeOK, Correct, Stored
  <2>2. CASE events' = [events EXCEPT ![m].tagged = ~@]
    <3>1. Facts # {}
      OBVIOUS
    <3> QED
      BY <2>1, <2>2, <3>1, ChangedEventTyped DEF TypeOK
  <2>3. ASSUME NEW f \in Facts, events' = [events EXCEPT ![m].facts = f]
        PROVE  \E e \in Event : e.stored /\ events' = [events EXCEPT ![m] = e]
    BY <2>1, <2>3, ChangedEventTyped DEF TypeOK
  <2> QED
    BY <2>2, <2>3 DEF Correct
<1> QED
  BY <1>1 DEF TypeOK, Correct, Stored, mailVars, cursorVars, lateVars

LEMMA ReconcileTypes ==
  ASSUME TypeOK, NEW m \in Accepted, Reconcile(m)
  PROVE  TypeOK' /\ \A n \in Accepted : Stored(n) => Stored(n)'
<1>1. PICK e \in Event : e.stored /\ events' = [events EXCEPT ![m] = e]
  <2>1. events[m] \in Event /\ events[m].stored
    BY DEF TypeOK, Reconcile, Stored
  <2>2. PICK f \in Facts :
          events' = [events EXCEPT ![m].facts = f, ![m].reconciled = TRUE]
    BY DEF Reconcile
  <2>3. events' = [events EXCEPT ![m] = [events[m] EXCEPT !.facts = f, !.reconciled = TRUE]]
    BY <2>2 DEF TypeOK
  <2> QED
    BY <2>1, <2>3, ChangedEventTyped
<1> QED
  BY <1>1 DEF TypeOK, Reconcile, Stored, mailVars, cursorVars, lateVars

\* A step of s that moves it to the record r and leaves the rest typed.
LEMMA MoveTypes ==
  ASSUME TypeOK, NEW s \in Sweep, NEW r \in Run, run' = [run EXCEPT ![s] = r],
         UNCHANGED <<mailVars, events, cursorVars, lateVars, corrections, faults>>
  PROVE  TypeOK'
  BY DEF TypeOK, mailVars, cursorVars, lateVars

LEMMA LabelsTyped ==
  /\ "freeze" \in Labels /\ "enumerate" \in Labels /\ "ingest" \in Labels
  /\ "acknowledge" \in Labels /\ "commit" \in Labels /\ "readBack" \in Labels
  BY DEF Labels

\* The records an execution moves to.
LEMMA MovedRunTyped ==
  ASSUME NEW r \in Run, NEW label \in Labels
  PROVE  /\ [r EXCEPT !.pc = label] \in Run
         /\ \A at \in 1..MaxTime : [r EXCEPT !.pc = label, !.seen = at] \in Run
         /\ \A at \in 1..MaxTime : [r EXCEPT !.pc = label, !.upper = at] \in Run
         /\ \A found \in SUBSET Message, todo \in SUBSET Accepted :
              [r EXCEPT !.pc = label, !.found = found, !.todo = todo] \in Run
         /\ \A m \in Accepted : [r EXCEPT !.pc = label, !.event = m] \in Run
         /\ \A todo \in SUBSET Accepted, digests \in [Accepted -> Event] :
              [r EXCEPT !.pc = label, !.todo = todo, !.digests = digests] \in Run
  BY DEF Run

LEMMA StepTypes ==
  ASSUME TypeOK, NEW s \in Sweep, ReadCursor(s) \/ Step(s) \/ Fail(s)
  PROVE  TypeOK'
<1> USE LabelsTyped
<1>0. run[s] \in Run /\ run[s].todo \subseteq Accepted /\ run[s].event \in Accepted
      /\ run[s].digests \in [Accepted -> Event]
  BY DEF TypeOK, Run
<1>1. CASE ReadCursor(s)
  <2>1. cursor.at \in 1..MaxTime
    BY DEF TypeOK
  <2>2. [IdleRun EXCEPT !.pc = "freeze", !.seen = cursor.at] \in Run
    BY <2>1, IdleTyped, MovedRunTyped
  <2> QED
    BY <1>1, <2>2, MoveTypes DEF ReadCursor
<1>2. CASE Freeze(s)
  <2>1. now \in 1..MaxTime
    BY DEF TypeOK
  <2>2. [run[s] EXCEPT !.pc = "enumerate", !.upper = now] \in Run
    BY <1>0, <2>1, MovedRunTyped
  <2> QED
    BY <1>2, <2>2, MoveTypes DEF Freeze
<1>3. CASE Enumerate(s)
  <2>1. Window(s) \in SUBSET Message /\ Window(s) \cap Accepted \in SUBSET Accepted
    BY DEF TypeOK, Window
  <2>2. [run[s] EXCEPT !.pc = "ingest", !.found = Window(s),
                       !.todo = Window(s) \cap Accepted] \in Run
    BY <1>0, <2>1, MovedRunTyped
  <2> QED
    BY <1>3, <2>2, IdleTyped, MoveTypes DEF Enumerate, End
<1>4. CASE IngestEvent(s)
  <2>1. PICK m \in run[s].todo :
          IF UpsertAccepts(m)
          THEN /\ Upsert(m)
               /\ run' = [run EXCEPT ![s] = [@ EXCEPT !.pc = "acknowledge", !.event = m]]
          ELSE End(s) /\ UNCHANGED events
    BY <1>4 DEF IngestEvent
  <2>2. m \in Accepted
    BY <1>0
  <2>3. [run[s] EXCEPT !.pc = "acknowledge", !.event = m] \in Run
    BY <1>0, <2>2, MovedRunTyped
  <2>4. run' \in [Sweep -> Run] /\ events' \in [Accepted -> Event]
    BY <2>1, <2>2, <2>3, UpsertTyped, EndTyped DEF TypeOK
  <2> QED
    BY <1>4, <2>4 DEF TypeOK, IngestEvent, mailVars, cursorVars, lateVars
<1>5. CASE Acknowledge(s)
  <2> DEFINE digests == [run[s].digests EXCEPT ![run[s].event] = events[run[s].event]]
             todo == run[s].todo \ {run[s].event}
             moved == [run[s] EXCEPT !.pc = "ingest", !.todo = todo, !.digests = digests]
  <2>1. digests \in [Accepted -> Event] /\ todo \in SUBSET Accepted
    BY <1>0 DEF TypeOK
  <2>2. moved \in Run
    <3> HIDE DEF digests, todo
    <3> QED
      BY <1>0, <2>1, MovedRunTyped
  <2>3. run' = [run EXCEPT ![s] = moved]
    BY <1>5 DEF Acknowledge
  <2> HIDE DEF moved
  <2> QED
    BY <1>5, <2>2, <2>3, MoveTypes DEF Acknowledge
<1>6. CASE Seal(s)
  <2>1. [run[s] EXCEPT !.pc = "commit"] \in Run
    BY <1>0, MovedRunTyped
  <2> QED
    BY <1>6, <2>1, IdleTyped, MoveTypes DEF Seal, End
<1>7. CASE Commit(s)
  <2>1. [run[s] EXCEPT !.pc = "readBack"] \in Run
    BY <1>0, MovedRunTyped
  <2>2. run' \in [Sweep -> Run]
    BY <1>7, <2>1, IdleTyped DEF TypeOK, Commit, End
  <2> QED
    BY <1>7, <2>2, ReceiptTyped, CommitTyped DEF TypeOK, Commit, mailVars, lateVars
<1>8. CASE ReadBack(s)
  BY <1>8, IdleTyped, MoveTypes DEF ReadBack, End
<1>9. CASE Fail(s)
  <2>1. run' \in [Sweep -> Run] /\ faults' \in 0..MaxFaults
    BY <1>9, EndTyped DEF TypeOK, Fail
  <2>2. lateEvents' \subseteq Accepted /\ lateCommits' \subseteq Receipt
    BY <1>9, ReceiptTyped DEF TypeOK, Run, Fail
  <2> QED
    BY <1>9, <2>1, <2>2 DEF TypeOK, Fail, mailVars, cursorVars
<1> QED
  BY <1>1, <1>2, <1>3, <1>4, <1>5, <1>6, <1>7, <1>8, <1>9 DEF Step

LEMMA LateTypes ==
  ASSUME TypeOK, \/ \E m \in Accepted : ServeLateEvent(m)
                 \/ \E q \in lateCommits : ServeLateCommit(q)
  PROVE  TypeOK'
<1>1. ASSUME NEW m \in Accepted, ServeLateEvent(m) PROVE TypeOK'
  BY <1>1, UpsertTyped DEF TypeOK, ServeLateEvent, mailVars, cursorVars
<1>2. ASSUME NEW q \in lateCommits, ServeLateCommit(q) PROVE TypeOK'
  <2>1. q \in Receipt
    BY DEF TypeOK
  <2> QED
    BY <1>2, <2>1, CommitTyped DEF TypeOK, ServeLateCommit, mailVars
<1> QED
  BY <1>1, <1>2

LEMMA NextTypes == TypeOK /\ [Next]_vars => TypeOK'
<1> SUFFICES ASSUME TypeOK, [Next]_vars PROVE TypeOK'
  OBVIOUS
<1>1. CASE UNCHANGED vars
  BY <1>1 DEF TypeOK, vars, cursorVars, lateVars
<1> QED
  BY <1>1, MailTypes, CorrectTypes, ReconcileTypes, StepTypes, LateTypes DEF Next

LEMMA InitTypes == Init => TypeOK
  BY IdleTyped, FirstReceiptTyped DEF Init, TypeOK, NoDigests, Event

\* Every variable keeps its type: what an execution holds, what the service
\* stores and what its late requests carry.
THEOREM SweepTypes == Spec => []TypeOK
  BY InitTypes, NextTypes, PTL DEF Spec

-----------------------------------------------------------------------------
(* The invariant.                                                          *)

\* What every step respects: the clock and the cursor do not go back, the
\* receipt time of a message is set once and to the present, and a stored
\* event stays stored.
Steady ==
  /\ now <= now' /\ cursor.at <= cursor'.at
  /\ \A m \in Message : received'[m] = received[m] \/ (received[m] = 0 /\ received'[m] = now)
  /\ \A m \in Accepted : Stored(m) => Stored(m)'

LEMMA KeptComplete ==
  ASSUME TypeOK, TypeOK', Steady, NEW found, NEW bound \in 1..MaxTime, bound <= now,
         Complete(found, bound)
  PROVE  Complete(found, bound)'
<1> SUFFICES ASSUME NEW m \in Message, received'[m] # 0, cursor'.at <= received'[m] + Overlap,
                    received'[m] + Overlap < bound
             PROVE  m \in found
  BY DEF Complete
<1>1. now \in Nat /\ cursor.at \in Nat /\ cursor'.at \in Nat /\ received[m] \in Nat
  BY DEF TypeOK
<1>2. received'[m] = received[m]
  BY <1>1 DEF Steady
<1>3. cursor.at <= received[m] + Overlap
  BY <1>1, <1>2 DEF Steady
<1> QED
  BY <1>2, <1>3 DEF Complete

LEMMA KeptSound ==
  ASSUME TypeOK, TypeOK', Steady, NEW q \in Receipt, Sound(q)
  PROVE  Sound(q)'
<1>1. q.upper \in 1..MaxTime /\ now \in Nat /\ now' \in Nat
  BY DEF TypeOK, Receipt
<1>2. Complete(q.scanned, q.upper)'
  BY <1>1, KeptComplete DEF Sound
<1> QED
  BY <1>1, <1>2 DEF Sound, Steady

\* An execution that does not move keeps what it relies on.
LEMMA KeptRun ==
  ASSUME TypeOK, TypeOK', Steady, NEW s \in Sweep, RunInv(s), run'[s] = run[s]
  PROVE  RunInv(s)'
<1>1. /\ run[s].upper \in 1..MaxTime /\ run[s].seen \in 1..MaxTime
      /\ run[s].event \in Accepted
      /\ now \in Nat /\ now' \in Nat /\ cursor.at \in Nat /\ cursor'.at \in Nat
  BY DEF TypeOK, Run
<1>2. run'[s].seen <= cursor'.at /\ run'[s].upper <= now'
  BY <1>1 DEF RunInv, Steady
<1>3. Complete(run[s].found, run[s].upper) => Complete(run[s].found, run[s].upper)'
  BY <1>1, KeptComplete DEF RunInv
<1> QED
  BY <1>1, <1>2, <1>3 DEF RunInv, Steady, At

LEMMA IdleRunInv ==
  ASSUME TypeOK', NEW s \in Sweep, run'[s] = IdleRun
  PROVE  RunInv(s)'
  BY DEF TypeOK, IdleRun, RunInv, At

\* The messages behind the cursor while the cursor stays where it is.
LEMMA KeptNothingSkipped ==
  ASSUME TypeOK, TypeOK', Steady, NothingSkipped, cursor.at <= now, UNCHANGED cursorVars
  PROVE  NothingSkipped'
<1> SUFFICES ASSUME NEW m \in Message, received'[m] # 0, received'[m] + Overlap < cursor'.at
             PROVE  m \in covered' /\ (m \in Accepted => Stored(m)')
  BY DEF NothingSkipped
<1>1. now \in Nat /\ cursor.at \in Nat /\ received[m] \in Nat
  BY DEF TypeOK
<1>2. received'[m] = received[m] /\ received[m] + Overlap < cursor.at
  BY <1>1 DEF Steady, cursorVars
<1> QED
  BY <1>2 DEF NothingSkipped, Steady, cursorVars

\* A sound receipt moves the cursor over nothing that is missing.
LEMMA CommitSkipsNothing ==
  ASSUME SweepInv, TypeOK', NEW q \in Receipt, Sound(q), CommitCursor(q),
         UNCHANGED <<mailVars, events>>
  PROVE  NothingSkipped' /\ Steady /\ cursor'.at <= now'
<1>1. now \in Nat /\ cursor.at \in Nat /\ q.upper \in Nat
  BY DEF SweepInv, TypeOK, Receipt
<1>2. CASE Committable(q)
  <2>1. cursor'.at = q.upper /\ covered' = covered \cup q.scanned
    BY <1>2 DEF CommitCursor
  <2>2. Steady /\ cursor'.at <= now'
    BY <1>1, <1>2, <2>1 DEF Steady, Committable, Sound, mailVars, Stored
  <2>3. ASSUME NEW m \in Message, received[m] # 0, received[m] + Overlap < q.upper
        PROVE  m \in covered' /\ (m \in Accepted => Stored(m))
    <3>1. received[m] \in Nat
      BY DEF SweepInv, TypeOK
    <3>2. CASE received[m] + Overlap < cursor.at
      BY <2>1, <2>3, <3>2 DEF SweepInv, NothingSkipped
    <3>3. CASE cursor.at <= received[m] + Overlap
      <4>1. m \in q.scanned
        BY <2>3, <3>3 DEF Sound, Complete
      <4>2. m \in Accepted => events[m] = q.digests[m] /\ q.digests[m].stored
        BY <1>2, <4>1 DEF Committable, DigestsHold, Sound
      <4> QED
        BY <2>1, <4>1, <4>2 DEF Stored
    <3> QED
      BY <1>1, <3>1, <3>2, <3>3
  <2> QED
    BY <2>1, <2>2, <2>3 DEF NothingSkipped, mailVars, Stored
<1>3. CASE ~Committable(q)
  <2>1. UNCHANGED cursorVars
    BY <1>3 DEF CommitCursor
  <2>2. Steady
    BY <1>1, <2>1 DEF Steady, mailVars, cursorVars, Stored
  <2> QED
    BY <2>1, <2>2, KeptNothingSkipped DEF SweepInv, cursorVars, mailVars
<1> QED
  BY <1>2, <1>3

\* A step of one execution: what is left to show is that this execution, its
\* late requests and the cursor stay sound.
LEMMA StepInv ==
  ASSUME SweepInv, TypeOK', Steady, UNCHANGED mailVars, NothingSkipped', cursor'.at <= now',
         NEW s \in Sweep, \A t \in Sweep \ {s} : run'[t] = run[t], RunInv(s)',
         \A q \in lateCommits' : q \in lateCommits \/ Sound(q)
  PROVE  SweepInv'
<1>1. MailInv'
  BY DEF SweepInv, MailInv, mailVars
<1>2. \A t \in Sweep : RunInv(t)'
  BY KeptRun DEF SweepInv
<1>3. \A q \in lateCommits' : Sound(q)'
  BY KeptSound DEF SweepInv, TypeOK
<1> QED
  BY <1>1, <1>2, <1>3 DEF SweepInv

\* ... and for a step that leaves the cursor alone, only the execution.
LEMMA QuietStepInv ==
  ASSUME SweepInv, TypeOK', UNCHANGED <<mailVars, cursorVars>>,
         \A m \in Accepted : Stored(m) => Stored(m)',
         NEW s \in Sweep, \A t \in Sweep \ {s} : run'[t] = run[t], RunInv(s)',
         \A q \in lateCommits' : q \in lateCommits \/ Sound(q)
  PROVE  SweepInv'
<1>1. Steady /\ cursor'.at <= now'
  BY DEF SweepInv, TypeOK, Steady, mailVars, cursorVars
<1>2. NothingSkipped'
  BY <1>1, KeptNothingSkipped DEF SweepInv
<1> QED
  BY <1>1, <1>2, StepInv

-----------------------------------------------------------------------------
(* Every step preserves the invariant.                                     *)

LEMMA MailStepInv ==
  ASSUME SweepInv, TypeOK', Tick \/ (\E m \in Message : Receive(m) \/ Appear(m))
  PROVE  SweepInv'
<1>1. /\ now \in Nat /\ now' \in Nat /\ cursor.at \in Nat
      /\ received \in [Message -> Nat] /\ received' \in [Message -> Nat]
  BY DEF SweepInv, TypeOK
<1>2. UNCHANGED <<events, cursorVars, run, lateVars>>
  BY DEF Tick, Receive, Appear
<1>3. now <= now'
      /\ \A m \in Message : received'[m] = received[m] \/ (received[m] = 0 /\ received'[m] = now)
  <2>1. CASE Tick
    BY <1>1, <2>1 DEF Tick
  <2>2. ASSUME NEW m \in Message, Receive(m) \/ Appear(m)
        PROVE  now' = now /\ \A n \in Message :
                 received'[n] = received[n] \/ (received[n] = 0 /\ received'[n] = now)
    BY <1>1, <2>2 DEF Receive, Appear
  <2> QED
    BY <1>1, <2>1, <2>2
<1>4. Steady /\ cursor'.at <= now'
  BY <1>1, <1>2, <1>3 DEF SweepInv, Steady, cursorVars, Stored
<1>5. NothingSkipped'
  BY <1>2, <1>4, KeptNothingSkipped DEF SweepInv
<1>6. MailInv'
  <2>1. CASE Tick
    BY <1>1, <2>1 DEF SweepInv, MailInv, Tick
  <2>2. ASSUME NEW m \in Message, Receive(m) \/ Appear(m) PROVE MailInv'
    BY <1>1, <2>2 DEF SweepInv, MailInv, Receive, Appear
  <2> QED
    BY <2>1, <2>2
<1>7. \A s \in Sweep : RunInv(s)'
  BY <1>2, <1>4, KeptRun DEF SweepInv
<1>8. \A q \in lateCommits' : Sound(q)'
  BY <1>2, <1>4, KeptSound DEF SweepInv, TypeOK, lateVars
<1> QED
  BY <1>4, <1>5, <1>6, <1>7, <1>8 DEF SweepInv

\* Steps of the service that touch events only.
LEMMA EventStepInv ==
  ASSUME SweepInv, TypeOK', UNCHANGED <<mailVars, cursorVars, run>>,
         \A m \in Accepted : Stored(m) => Stored(m)',
         lateCommits' = lateCommits
  PROVE  SweepInv'
<1>1. Steady /\ cursor'.at <= now'
  BY DEF SweepInv, TypeOK, Steady, mailVars, cursorVars
<1>2. NothingSkipped' /\ MailInv'
  BY <1>1, KeptNothingSkipped DEF SweepInv, MailInv, mailVars
<1>3. \A s \in Sweep : RunInv(s)'
  BY <1>1, KeptRun DEF SweepInv
<1>4. \A q \in lateCommits' : Sound(q)'
  BY <1>1, KeptSound DEF SweepInv, TypeOK
<1> QED
  BY <1>1, <1>2, <1>3, <1>4 DEF SweepInv

LEMMA ReadCursorInv ==
  ASSUME SweepInv, TypeOK', NEW s \in Sweep, ReadCursor(s)
  PROVE  SweepInv'
<1>1. run'[s] = [IdleRun EXCEPT !.pc = "freeze", !.seen = cursor.at]
      /\ \A t \in Sweep \ {s} : run'[t] = run[t]
  BY DEF SweepInv, TypeOK, ReadCursor
<1>2. RunInv(s)'
  BY <1>1 DEF SweepInv, TypeOK, ReadCursor, RunInv, At, IdleRun, mailVars, cursorVars
<1> QED
  BY <1>1, <1>2, QuietStepInv DEF ReadCursor, Stored, lateVars

LEMMA FreezeInv ==
  ASSUME SweepInv, TypeOK', NEW s \in Sweep, Freeze(s)
  PROVE  SweepInv'
<1>1. run'[s] = [run[s] EXCEPT !.pc = "enumerate", !.upper = now] /\ run[s] \in Run
      /\ \A t \in Sweep \ {s} : run'[t] = run[t]
  BY DEF SweepInv, TypeOK, Freeze
<1>2. RunInv(s)'
  BY <1>1 DEF SweepInv, TypeOK, Freeze, Run, RunInv, At, mailVars, cursorVars
<1> QED
  BY <1>1, <1>2, QuietStepInv DEF Freeze, Stored, lateVars

\* Why the window misses nothing: a message below the bound minus the overlap
\* has been listed by the time the bound is frozen.
LEMMA WindowComplete ==
  ASSUME SweepInv, NEW s \in Sweep
  PROVE  Complete(Window(s), run[s].upper)
<1> SUFFICES ASSUME NEW m \in Message, received[m] # 0, cursor.at <= received[m] + Overlap,
                    received[m] + Overlap < run[s].upper
             PROVE  m \in Window(s)
  BY DEF Complete
<1>1. /\ now \in Nat /\ cursor.at \in Nat /\ received[m] \in Nat
      /\ run[s].seen \in Nat /\ run[s].upper \in Nat
      /\ run[s].seen <= cursor.at /\ run[s].upper <= now
  BY DEF SweepInv, TypeOK, Run, RunInv
<1>2. m \in listed
  BY <1>1 DEF SweepInv, MailInv
<1>3. received[m] >= Less(run[s].seen, Overlap) /\ received[m] < run[s].upper
  BY <1>1 DEF Less
<1> QED
  BY <1>2, <1>3 DEF Window

LEMMA EnumerateInv ==
  ASSUME SweepInv, TypeOK', NEW s \in Sweep, Enumerate(s)
  PROVE  SweepInv'
<1>1. CASE End(s)
  BY <1>1, EndTyped, IdleRunInv, QuietStepInv DEF SweepInv, Enumerate, Stored, lateVars
<1>2. CASE run' = [run EXCEPT ![s] = [@ EXCEPT !.pc = "ingest", !.found = Window(s),
                                               !.todo = Window(s) \cap Accepted]]
  <2>1. run'[s] = [run[s] EXCEPT !.pc = "ingest", !.found = Window(s),
                                 !.todo = Window(s) \cap Accepted]
        /\ run[s] \in Run /\ \A t \in Sweep \ {s} : run'[t] = run[t]
    BY <1>2 DEF SweepInv, TypeOK
  <2>2. /\ run'[s].pc = "ingest" /\ run'[s].found = Window(s)
        /\ run'[s].todo = Window(s) \cap Accepted
        /\ run'[s].upper = run[s].upper /\ run'[s].seen = run[s].seen
    BY <2>1 DEF Run
  <2>3. Complete(run[s].found, run[s].upper)'
    BY <2>2, WindowComplete DEF Complete, Enumerate, mailVars, cursorVars
  <2>4. RunInv(s)'
    BY <2>2, <2>3 DEF SweepInv, RunInv, At, Enumerate, mailVars, cursorVars
  <2> QED
    BY <2>1, <2>4, QuietStepInv DEF Enumerate, Stored, lateVars
<1> QED
  BY <1>1, <1>2 DEF Enumerate

LEMMA IngestEventInv ==
  ASSUME SweepInv, TypeOK', NEW s \in Sweep, IngestEvent(s)
  PROVE  SweepInv'
<1>0. TypeOK /\ run[s] \in Run /\ run[s].todo \subseteq Accepted
  BY DEF SweepInv, TypeOK, Run
<1>1. PICK m \in run[s].todo :
        IF UpsertAccepts(m)
        THEN /\ Upsert(m)
             /\ run' = [run EXCEPT ![s] = [@ EXCEPT !.pc = "acknowledge", !.event = m]]
        ELSE End(s) /\ UNCHANGED events
  BY DEF IngestEvent
<1>2. CASE End(s) /\ UNCHANGED events
  BY <1>0, <1>2, EndTyped, IdleRunInv, QuietStepInv DEF IngestEvent, Stored, lateVars
<1>3. CASE /\ UpsertAccepts(m) /\ Upsert(m)
           /\ run' = [run EXCEPT ![s] = [@ EXCEPT !.pc = "acknowledge", !.event = m]]
  <2>1. /\ Stored(m)' /\ \A n \in Accepted : Stored(n) => Stored(n)'
    BY <1>0, <1>3, UpsertTyped DEF Stored
  <2>2. run'[s] = [run[s] EXCEPT !.pc = "acknowledge", !.event = m]
        /\ \A t \in Sweep \ {s} : run'[t] = run[t]
    BY <1>3 DEF SweepInv, TypeOK
  <2>3. /\ run'[s].pc = "acknowledge" /\ run'[s].event = m
        /\ run'[s].found = run[s].found /\ run'[s].todo = run[s].todo
        /\ run'[s].upper = run[s].upper /\ run'[s].seen = run[s].seen
        /\ run'[s].digests = run[s].digests
    BY <1>0, <2>2 DEF Run
  <2>4. RunInv(s)'
    BY <2>1, <2>3 DEF SweepInv, RunInv, At, IngestEvent, Complete, mailVars, cursorVars
  <2> QED
    BY <2>1, <2>2, <2>4, QuietStepInv DEF IngestEvent, lateVars
<1> QED
  BY <1>1, <1>2, <1>3

LEMMA AcknowledgeInv ==
  ASSUME SweepInv, TypeOK', NEW s \in Sweep, Acknowledge(s)
  PROVE  SweepInv'
<1> DEFINE m == run[s].event
           todo == run[s].todo \ {m}
           digests == [run[s].digests EXCEPT ![m] = events[m]]
<1>0. /\ run[s] \in Run /\ m \in Accepted /\ run[s].digests \in [Accepted -> Event]
      /\ Stored(m)
  BY DEF SweepInv, TypeOK, Run, RunInv, Acknowledge
<1>1. run'[s] = [run[s] EXCEPT !.pc = "ingest", !.todo = todo, !.digests = digests]
      /\ \A t \in Sweep \ {s} : run'[t] = run[t]
  BY DEF SweepInv, TypeOK, Acknowledge
<1>2. /\ run'[s].pc = "ingest" /\ run'[s].todo = todo /\ run'[s].digests = digests
      /\ run'[s].found = run[s].found
      /\ run'[s].upper = run[s].upper /\ run'[s].seen = run[s].seen
  BY <1>0, <1>1 DEF Run
<1>3. \A n \in (Accepted \cap run[s].found) \ todo : digests[n].stored
  BY <1>0 DEF SweepInv, RunInv, At, Acknowledge, Stored
<1>4. RunInv(s)'
  BY <1>2, <1>3 DEF SweepInv, RunInv, At, Acknowledge, Complete, mailVars, cursorVars
<1> QED
  BY <1>1, <1>4, QuietStepInv DEF Acknowledge, Stored, lateVars

LEMMA SealInv ==
  ASSUME SweepInv, TypeOK', NEW s \in Sweep, Seal(s)
  PROVE  SweepInv'
<1>1. CASE End(s)
  BY <1>1, EndTyped, IdleRunInv, QuietStepInv DEF SweepInv, Seal, Stored, lateVars
<1>2. CASE run' = [run EXCEPT ![s].pc = "commit"]
  <2>1. run'[s] = [run[s] EXCEPT !.pc = "commit"] /\ run[s] \in Run
        /\ \A t \in Sweep \ {s} : run'[t] = run[t]
    BY <1>2 DEF SweepInv, TypeOK
  <2>2. RunInv(s)'
    BY <2>1 DEF SweepInv, Run, RunInv, At, Seal, Complete, mailVars, cursorVars
  <2> QED
    BY <2>1, <2>2, QuietStepInv DEF Seal, Stored, lateVars
<1> QED
  BY <1>1, <1>2 DEF Seal

\* The receipt an execution presents is sound.
LEMMA OwnReceiptSound ==
  ASSUME SweepInv, NEW s \in Sweep, At(s, "commit")
  PROVE  Sound(ReceiptOf(s))
  BY DEF SweepInv, RunInv, At, ReceiptOf, Sound

LEMMA CommitInv ==
  ASSUME SweepInv, TypeOK', NEW s \in Sweep, Commit(s)
  PROVE  SweepInv'
<1>1. NothingSkipped' /\ Steady /\ cursor'.at <= now'
  BY OwnReceiptSound, ReceiptTyped, CommitSkipsNothing DEF SweepInv, Commit, mailVars
<1>2. CASE End(s)
  BY <1>1, <1>2, EndTyped, IdleRunInv, StepInv DEF SweepInv, Commit, lateVars
<1>3. CASE run' = [run EXCEPT ![s].pc = "readBack"]
  <2>1. run'[s] = [run[s] EXCEPT !.pc = "readBack"] /\ run[s] \in Run
        /\ \A t \in Sweep \ {s} : run'[t] = run[t]
    BY <1>3 DEF SweepInv, TypeOK
  <2>2. /\ run[s].seen \in Nat /\ cursor.at \in Nat /\ cursor'.at \in Nat
    BY <2>1 DEF SweepInv, TypeOK, Run
  <2>3. RunInv(s)'
    BY <1>1, <2>1, <2>2 DEF SweepInv, Run, RunInv, At, Steady, Commit, mailVars
  <2> QED
    BY <1>1, <2>1, <2>3, StepInv DEF Commit, lateVars
<1> QED
  BY <1>2, <1>3 DEF Commit

LEMMA FailInv ==
  ASSUME SweepInv, TypeOK', NEW s \in Sweep, Fail(s)
  PROVE  SweepInv'
<1>1. \A q \in lateCommits' : q \in lateCommits \/ Sound(q)
  BY OwnReceiptSound DEF Fail
<1> QED
  BY <1>1, EndTyped, IdleRunInv, QuietStepInv DEF SweepInv, Fail, Stored

LEMMA ReadBackInv ==
  ASSUME SweepInv, TypeOK', NEW s \in Sweep, ReadBack(s)
  PROVE  SweepInv'
  BY EndTyped, IdleRunInv, QuietStepInv DEF SweepInv, ReadBack, Stored, lateVars

LEMMA ServeLateCommitInv ==
  ASSUME SweepInv, TypeOK', NEW q \in lateCommits, ServeLateCommit(q)
  PROVE  SweepInv'
<1>1. q \in Receipt /\ Sound(q)
  BY DEF SweepInv, TypeOK
<1>2. NothingSkipped' /\ Steady /\ cursor'.at <= now'
  BY <1>1, CommitSkipsNothing DEF ServeLateCommit
<1>3. MailInv'
  BY DEF SweepInv, MailInv, ServeLateCommit, mailVars
<1>4. \A s \in Sweep : RunInv(s)'
  BY <1>2, KeptRun DEF SweepInv, ServeLateCommit
<1>5. \A r \in lateCommits' : Sound(r)'
  BY <1>2, KeptSound DEF SweepInv, TypeOK, ServeLateCommit
<1> QED
  BY <1>2, <1>3, <1>4, <1>5 DEF SweepInv

LEMMA NextInv == SweepInv /\ TypeOK' /\ [Next]_vars => SweepInv'
<1> SUFFICES ASSUME SweepInv, TypeOK', [Next]_vars PROVE SweepInv'
  OBVIOUS
<1>1. CASE UNCHANGED vars
  BY <1>1, EventStepInv DEF vars, mailVars, cursorVars, lateVars, Stored
<1>2. ASSUME NEW m \in Accepted, Correct(m) PROVE SweepInv'
  BY <1>2, CorrectTypes, EventStepInv DEF SweepInv, Correct, lateVars
<1>3. ASSUME NEW m \in Accepted, Reconcile(m) PROVE SweepInv'
  BY <1>3, ReconcileTypes, EventStepInv DEF SweepInv, Reconcile, lateVars
<1>4. ASSUME NEW m \in Accepted, ServeLateEvent(m) PROVE SweepInv'
  BY <1>4, UpsertTyped, EventStepInv DEF SweepInv, ServeLateEvent, Stored
<1>5. ASSUME NEW s \in Sweep, ReadCursor(s) \/ Step(s) \/ Fail(s) PROVE SweepInv'
  BY <1>5, ReadCursorInv, FreezeInv, EnumerateInv, IngestEventInv, AcknowledgeInv, SealInv,
     CommitInv, ReadBackInv, FailInv DEF Step
<1> QED
  BY <1>1, <1>2, <1>3, <1>4, <1>5, MailStepInv, ServeLateCommitInv DEF Next

-----------------------------------------------------------------------------
(* Theorems.                                                               *)

\* The invariant behind the scan: receipts that can still be committed account
\* for every message between the cursor and their own bound.
THEOREM SweepInvariant == Spec => []SweepInv
<1>1. Init => SweepInv
  <2> SUFFICES ASSUME Init PROVE SweepInv
    OBVIOUS
  <2>1. TypeOK
    BY InitTypes
  <2>2. MailInv /\ NothingSkipped /\ cursor.at <= now
    BY DEF Init, MailInv, NothingSkipped
  <2>3. ASSUME NEW s \in Sweep PROVE RunInv(s)
    <3>1. run[s] = IdleRun
      BY DEF Init
    <3> QED
      BY <3>1 DEF Init, RunInv, At, IdleRun
  <2> QED
    BY <2>1, <2>2, <2>3 DEF Init, SweepInv
<1> QED
  BY <1>1, NextInv, SweepTypes, PTL DEF Spec

\* No message older than the cursor minus the overlap is missing from the
\* committed receipts or, when it is a transaction, from the event store.
THEOREM NoMessageSkipped == Spec => []NothingSkipped
<1>1. SweepInv => NothingSkipped
  BY DEF SweepInv
<1> QED
  BY <1>1, SweepInvariant, PTL

\* Every step either leaves the cursor alone or commits a sound receipt whose
\* rows the service finds unchanged.
LEMMA CursorStep ==
  ASSUME SweepInv, [Next]_vars, cursor' # cursor
  PROVE  \E q \in Receipt :
           /\ Sound(q) /\ Committable(q)
           /\ cursor' = [at |-> q.upper, version |-> cursor.version + 1, receipt |-> q]
<1>1. ASSUME NEW s \in Sweep, Commit(s)
      PROVE  ReceiptOf(s) \in Receipt /\ Sound(ReceiptOf(s)) /\ CommitCursor(ReceiptOf(s))
  BY <1>1, ReceiptTyped, OwnReceiptSound DEF SweepInv, Commit
<1>2. ASSUME NEW q \in lateCommits, ServeLateCommit(q)
      PROVE  q \in Receipt /\ Sound(q) /\ CommitCursor(q)
  BY <1>2 DEF SweepInv, TypeOK, ServeLateCommit
<1>3. (\E s \in Sweep : Commit(s)) \/ (\E q \in lateCommits : ServeLateCommit(q))
  BY DEF Next, Step, vars, Tick, Receive, Appear, Correct, Reconcile, ReadCursor, Freeze,
     Enumerate, IngestEvent, Acknowledge, Seal, ReadBack, Fail, ServeLateEvent, cursorVars
<1> QED
  BY <1>1, <1>2, <1>3 DEF CommitCursor, cursorVars

\* The cursor moves forward, one version at a time.
THEOREM CursorNeverRegresses == Spec => CursorMovesForward
<1>1. SweepInv /\ [Next]_vars =>
        [cursor' # cursor =>
           /\ cursor'.at > cursor.at
           /\ cursor'.version = cursor.version + 1
           /\ cursor'.receipt.upper = cursor'.at]_vars
  BY CursorStep DEF Committable
<1> QED
  BY <1>1, SweepInvariant, PTL DEF Spec, CursorMovesForward

\* A receipt whose rows have changed since cannot commit the cursor.
THEOREM StaleRowsBlockTheCursor == Spec => CommitSeesCurrentRows
<1>1. SweepInv /\ [Next]_vars =>
        [cursor' # cursor =>
           \A m \in Accepted \cap cursor'.receipt.scanned :
             Stored(m) /\ events[m] = cursor'.receipt.digests[m]]_vars
  BY CursorStep DEF Committable, DigestsHold, Sound, Stored
<1> QED
  BY <1>1, SweepInvariant, PTL DEF Spec, CommitSeesCurrentRows

\* Sweeps and late requests never touch a stored event.
THEOREM SweepsKeepEvents == Spec => ReplaysChangeNothing
<1> DEFINE Kept == \A m \in Accepted :
                     Stored(m) /\ events'[m] # events[m] =>
                       \/ corrections' > corrections
                       \/ ~events[m].reconciled /\ events'[m].reconciled
<1>1. TypeOK /\ [Next]_vars => Kept
  <2> SUFFICES ASSUME TypeOK, [Next]_vars PROVE Kept
    OBVIOUS
  <2>1. ASSUME NEW m \in Accepted, Upsert(m) PROVE Kept
    BY <2>1, UpsertTyped
  <2>2. ASSUME NEW m \in Accepted, Correct(m) PROVE Kept
    BY <2>2 DEF TypeOK, Correct
  <2>3. ASSUME NEW m \in Accepted, Reconcile(m) PROVE Kept
    <3>1. events[m] \in Event /\ Stored(m) /\ ~events[m].reconciled
      BY <2>3 DEF TypeOK, Reconcile
    <3>2. events[m] \in [stored : {TRUE}, facts : Facts, tagged : BOOLEAN, reconciled : BOOLEAN]
      <4>1. events[m] # NoEvent
        BY <3>1 DEF NoEvent, Stored
      <4> QED
        BY <3>1, <4>1 DEF Event
    <3>3. \A n \in Accepted \ {m} : events'[n] = events[n]
      BY <2>3 DEF TypeOK, Reconcile
    <3>4. events'[m].reconciled
      BY <2>3, <3>2 DEF TypeOK, Reconcile
    <3> QED
      BY <3>1, <3>3, <3>4
  <2>4. ASSUME NEW s \in Sweep, IngestEvent(s) PROVE Kept
    <3>1. (\E m \in Accepted : Upsert(m)) \/ UNCHANGED events
      BY <2>4 DEF TypeOK, Run, IngestEvent
    <3> QED
      BY <2>1, <3>1
  <2>5. \/ UNCHANGED events \/ \E m \in Accepted : Upsert(m) \/ Correct(m) \/ Reconcile(m)
        \/ \E s \in Sweep : IngestEvent(s)
    BY DEF Next, Step, vars, Tick, Receive, Appear, ReadCursor, Freeze, Enumerate, Acknowledge,
       Seal, Commit, ReadBack, Fail, ServeLateEvent, ServeLateCommit
  <2> QED
    BY <2>1, <2>2, <2>3, <2>4, <2>5
<1> QED
  BY <1>1, SweepTypes, PTL DEF Spec, ReplaysChangeNothing

=============================================================================
