--------------------------- MODULE OperatorProofs ----------------------------
(***************************************************************************)
(* What an operator sees, reviews and drills.                              *)
(*                                                                         *)
(* DashboardPush: the file, the alerts and the routing maps, for any       *)
(* number of handlers, devices, maps and alerts, of writes and of faults.  *)
(*                                                                         *)
(* PeriodHistory: the periods of a card, for any purchases, stored         *)
(* periods, close days and calendar.                                       *)
(*                                                                         *)
(* RuleReview: any candidates, reviewers and feedback.                     *)
(*                                                                         *)
(* RestoreDrill: any number of runs, signals and faults.                   *)
(***************************************************************************)
EXTENDS DashboardPush, PeriodHistory, RuleReview, RestoreDrill, CalendarProofs,
        SequenceTheorems, WellFoundedInduction, TLAPS

\* A thread that evaluates holds PUSH_LOCK; the others have nothing to send.
LockInv ==
  \A t \in Thread :
    /\ thread[t].pc \in {"send", "record"} <=> pushLock = t
    /\ thread[t].pc \notin {"send", "record"} => thread[t].todo = {}
    /\ thread[t].pc # "record" => thread[t].onItsWay = {}

\* Who has read a routing map has read one.
MapInv ==
  /\ store.route \in Route
  /\ \A t \in Thread : thread[t].pc \in {"read", "push"} => thread[t].payload.route \in Route

\* WRITE_LOCK.
OneReader == \A t, u \in Thread : thread[t].pc = "read" /\ thread[u].pc = "read" => t = u

\* Unless a rebuild has failed, a file that is out of date is about to be replaced: a thread
\* that has not read the store yet, or one whose first read is still what the store says.
Waiting == \E t \in Thread : thread[t].pc = "build"
FileInv ==
  pushFaults = 0 /\ ~Waiting =>
    /\ \A t \in Thread : thread[t].pc = "read" => thread[t].payload.route = store.route
    /\ file = store \/ \E t \in Thread : thread[t].pc = "read"

\* What was sent is recorded, is being recorded, or could not be.
OnRecord(p) ==
  \/ delivery[p] = "SENT"
  \/ p \in unrecorded
  \/ \E t \in Thread : p \in thread[t].onItsWay
SentInv == SentOnce /\ \A p \in Pair : sent[p] > 0 => OnRecord(p)

\* A device the present map was meant for has it, has lost it, or its turn will come.
Served(d) ==
  LET p == <<routingMap, d>> IN
  \/ delivery[p] = "SENT"
  \/ d \in dropped
  \/ \E t \in Thread : p \in thread[t].todo \cup thread[t].onItsWay
AudienceInv ==
  /\ routingMap = NoRoute => audience = {}
  /\ \A d \in audience : Served(d)

PushInv == PushTypeOK /\ LockInv /\ MapInv /\ OneReader /\ FileInv /\ SentInv /\ AudienceInv

\* What a thread may be doing, as PushTypeOK has it.
ThreadState == [pc : {"idle", "build", "read", "push", "send", "record"},
                payload : Payload, todo : SUBSET Pair, onItsWay : SUBSET Pair]

\* What the steps of a rebuild make of it.
LEMMA StateChanges ==
  ASSUME NEW s \in ThreadState
  PROVE  /\ \A route \in Route :
              [s EXCEPT !.pc = "read", !.payload = [@ EXCEPT !.route = route]] \in ThreadState
         /\ \A payload \in Payload : [s EXCEPT !.pc = "push", !.payload = payload] \in ThreadState
         /\ \A todo \in SUBSET Pair : [s EXCEPT !.pc = "send", !.todo = todo] \in ThreadState
         /\ \A p \in Pair :
              [s EXCEPT !.pc = "record", !.todo = @ \ {p}, !.onItsWay = {p}] \in ThreadState
         /\ [s EXCEPT !.pc = "send", !.onItsWay = {}] \in ThreadState
BY DEF ThreadState, Payload

USE PushAssumption

-----------------------------------------------------------------------------
\* The threads keep their type; todo takes keys only from a map somebody has read.
LEMMA ThreadTypes ==
  ASSUME PushTypeOK, MapInv, [PushNext]_pushVars
  PROVE  thread' \in [Thread -> ThreadState]
<1>0. thread \in [Thread -> ThreadState] BY DEF PushTypeOK, ThreadState
<1>1. ASSUME NEW t \in Handler, Write(t) PROVE thread' \in [Thread -> ThreadState]
  BY <1>0, <1>1 DEF Write, Becomes, ThreadState
<1>2. ASSUME Refresh PROVE thread' \in [Thread -> ThreadState]
  BY <1>0, <1>2 DEF Refresh, Becomes, Thread, ThreadState
<1>3. ASSUME NEW t \in Thread, ReadFirst(t)
      PROVE  thread' \in [Thread -> ThreadState]
  <2>s. thread[t] \in ThreadState BY <1>0
  <2>1. store.route \in Route BY DEF MapInv
  <2> DEFINE s == [thread[t] EXCEPT !.pc = "read", !.payload = [@ EXCEPT !.route = store.route]]
  <2>2. s \in ThreadState BY <2>s, <2>1, StateChanges
  <2>3. thread' = [thread EXCEPT ![t] = s] BY <1>3 DEF ReadFirst
  <2> HIDE DEF s
  <2> QED BY <1>0, <2>2, <2>3
<1>4. ASSUME NEW t \in Thread, ReadRest(t) PROVE thread' \in [Thread -> ThreadState]
  <2>s. thread[t] \in ThreadState BY <1>0
  <2>1. file' \in Payload
    BY <2>s, <1>4 DEF ReadRest, Payload, ThreadState, PushTypeOK
  <2> DEFINE s == [thread[t] EXCEPT !.pc = "push", !.payload = file']
  <2>2. s \in ThreadState BY <2>s, <2>1, StateChanges
  <2>3. thread' = [thread EXCEPT ![t] = s] BY <1>4 DEF ReadRest
  <2> HIDE DEF s
  <2> QED BY <1>0, <2>2, <2>3
<1>5. ASSUME NEW t \in Thread, Evaluate(t) PROVE thread' \in [Thread -> ThreadState]
  <2>s. thread[t] \in ThreadState BY <1>0
  <2> DEFINE todo == Notifications(thread[t].payload) \X Enabled
  <2>0. thread[t].payload \in Payload BY <1>0 DEF ThreadState
  <2>1. todo \subseteq Pair
    BY <2>0, <1>5 DEF Evaluate, Notifications, RouteChanged, Enabled, MapInv, Payload, Pair,
       Key
  <2> DEFINE s == [thread[t] EXCEPT !.pc = "send", !.todo = todo]
  <2>2. s \in ThreadState BY <2>s, <2>1, StateChanges
  <2>3. thread' = [thread EXCEPT ![t] = s] BY <1>5 DEF Evaluate
  <2> HIDE DEF s
  <2> QED BY <1>0, <2>2, <2>3
<1>6. ASSUME NEW t \in Thread, RecordSent(t)
      PROVE  thread' \in [Thread -> ThreadState]
  <2>s. thread[t] \in ThreadState BY <1>0
  <2> DEFINE s == [thread[t] EXCEPT !.pc = "send", !.onItsWay = {}]
  <2>2. s \in ThreadState BY <2>s, StateChanges
  <2>3. thread' = [thread EXCEPT ![t] = s] BY <1>6 DEF RecordSent
  <2> HIDE DEF s
  <2> QED BY <1>0, <2>2, <2>3
<1>7. ASSUME NEW t \in Thread, Done(t) PROVE thread' \in [Thread -> ThreadState]
  <2>1. Idle \in ThreadState /\ [Idle EXCEPT !.pc = "build"] \in ThreadState
    BY DEF ThreadState, Idle, BlankPayload, Payload
  <2> QED BY <1>0, <2>1, <1>7 DEF Done
<1>8. ASSUME NEW t \in Thread, RebuildFails(t)
      PROVE  thread' \in [Thread -> ThreadState]
  <2>1. Idle \in ThreadState /\ [Idle EXCEPT !.pc = "build"] \in ThreadState
    BY DEF ThreadState, Idle, BlankPayload, Payload
  <2> QED BY <1>0, <2>1, <1>8 DEF RebuildFails
<1>9. ASSUME NEW t \in Thread, NEW p \in thread[t].todo, Skip(t, p)
      PROVE  thread' \in [Thread -> ThreadState]
  BY <1>0, <1>9 DEF Skip, ThreadState
<1>10. ASSUME NEW t \in Thread, NEW p \in thread[t].todo, Send(t, p)
       PROVE  thread' \in [Thread -> ThreadState]
  <2>s. thread[t] \in ThreadState BY <1>0
  <2>1. p \in Pair BY <1>0 DEF ThreadState
  <2> DEFINE s == [thread[t] EXCEPT !.pc = "record", !.todo = thread[t].todo \ {p}, !.onItsWay = {p}]
  <2>2. s \in ThreadState BY <2>s, <2>1, StateChanges
  <2>3. thread' = [thread EXCEPT ![t] = s] BY <1>10 DEF Send
  <2> HIDE DEF s
  <2> QED BY <1>0, <2>2, <2>3
<1>11. ASSUME NEW t \in Thread, NEW p \in thread[t].todo, SendFails(t, p)
       PROVE  thread' \in [Thread -> ThreadState]
  BY <1>0, <1>11 DEF SendFails, ThreadState
<1>12. ASSUME NEW d \in Device, Subscribe(d)
       PROVE  thread' \in [Thread -> ThreadState]
  BY <1>0, <1>12 DEF Subscribe, ThreadState
<1>13. ASSUME NEW d \in Device, Unsubscribe(d)
       PROVE  thread' \in [Thread -> ThreadState]
  BY <1>0, <1>13 DEF Unsubscribe, ThreadState
<1>14. ASSUME Restart PROVE thread' \in [Thread -> ThreadState]
  <2>1. Idle \in ThreadState /\ [Idle EXCEPT !.pc = "build"] \in ThreadState
    BY DEF ThreadState, Idle, BlankPayload, Payload
  <2> QED BY <1>0, <2>1, <1>14 DEF Restart
<1>15. ASSUME UNCHANGED pushVars PROVE thread' \in [Thread -> ThreadState]
  BY <1>0, <1>15 DEF pushVars
<1> QED
  BY <1>1, <1>2, <1>3, <1>4, <1>5, <1>6, <1>7, <1>8, <1>9, <1>10, <1>11, <1>12, <1>13, <1>14,
     <1>15 DEF PushNext, Rebuild

\* So does everything else.
LEMMA TypeStep ==
  ASSUME PushTypeOK, MapInv, [PushNext]_pushVars
  PROVE  PushTypeOK'
<1> USE DEF PushTypeOK, Thread, Payload, Pair, Key, Idle, BlankPayload, Becomes, tableVars,
            historyVars, MapInv, ThreadState
<1>0. thread' \in [Thread -> ThreadState] BY ThreadTypes
<1>1. ASSUME NEW t \in Handler, Write(t) PROVE PushTypeOK'
  BY <1>0, <1>1 DEF Write
<1>2. ASSUME Refresh PROVE PushTypeOK'
  BY <1>0, <1>2 DEF Refresh
<1>3. ASSUME NEW t \in Thread, ReadFirst(t) PROVE PushTypeOK'
  BY <1>0, <1>3 DEF ReadFirst
<1>4. ASSUME NEW t \in Thread, ReadRest(t) PROVE PushTypeOK'
  <2>1. file' \in Payload BY <1>4 DEF ReadRest
  <2> QED BY <1>0, <2>1, <1>4 DEF ReadRest, ThreadState
<1>5. ASSUME NEW t \in Thread, Evaluate(t) PROVE PushTypeOK'
  <2>1. thread[t].payload.route \in Route BY <1>5 DEF Evaluate
  <2>2. audience' \subseteq Device /\ dropped' \subseteq Device BY <1>5 DEF Evaluate, Enabled
  <2> QED BY <1>0, <2>1, <2>2, <1>5 DEF Evaluate, ThreadState
<1>6. ASSUME NEW t \in Thread, RecordSent(t) PROVE PushTypeOK'
  <2>1. delivery' \in [Pair -> {"none", "FAILED", "SENT"}] BY <1>6 DEF RecordSent
  <2> QED BY <1>0, <2>1, <1>6 DEF RecordSent, ThreadState
<1>7. ASSUME NEW t \in Thread, Done(t) PROVE PushTypeOK'
  BY <1>0, <1>7 DEF Done
<1>8. ASSUME NEW t \in Thread, RebuildFails(t) PROVE PushTypeOK'
  <2>1. pushFaults' \in 0..MaxPushFaults BY <1>8 DEF RebuildFails
  <2> QED BY <1>0, <2>1, <1>8 DEF RebuildFails, ThreadState
<1>9. ASSUME NEW t \in Thread, NEW p \in thread[t].todo, Skip(t, p)
      PROVE  PushTypeOK'
  BY <1>0, <1>9 DEF Skip
<1>10. ASSUME NEW t \in Thread, NEW p \in thread[t].todo, Send(t, p)
       PROVE  PushTypeOK'
  <2>1. p \in Pair OBVIOUS
  <2>2. sent' \in [Pair -> Nat] BY <2>1, <1>10 DEF Send
  <2> QED BY <1>0, <2>2, <1>10 DEF Send, ThreadState
<1>11. ASSUME NEW t \in Thread, NEW p \in thread[t].todo, SendFails(t, p)
       PROVE  PushTypeOK'
  <2>1. p \in Pair /\ p[1] \in Key /\ p[2] \in Device OBVIOUS
  <2>3. sent' \in [Pair -> Nat] /\ unrecorded' \subseteq Pair /\ dropped' \subseteq Device
    BY <2>1, <1>11 DEF SendFails
  <2>4. subscription' \in [Device -> {"none", "enabled", "disabled"}] BY <2>1,
                                                                         <1>11 DEF SendFails
  <2>5. delivery' \in [Pair -> {"none", "FAILED", "SENT"}] BY <2>1, <1>11 DEF SendFails
  <2>6. pushFaults' \in 0..MaxPushFaults BY <1>11 DEF SendFails
  <2> QED BY <1>0, <2>3, <2>4, <2>5, <2>6, <1>11 DEF SendFails, ThreadState
<1>12. ASSUME NEW d \in Device, Subscribe(d) PROVE PushTypeOK'
  BY <1>0, <1>12 DEF Subscribe
<1>13. ASSUME NEW d \in Device, Unsubscribe(d) PROVE PushTypeOK'
  BY <1>0, <1>13 DEF Unsubscribe
<1>14. ASSUME Restart PROVE PushTypeOK'
  <2>3. pushFaults' \in 0..MaxPushFaults BY <1>14 DEF Restart
  <2>4. \A t \in Thread : thread[t].todo \subseteq Pair /\ thread[t].onItsWay \subseteq Pair OBVIOUS
  <2>5. unrecorded' \subseteq Pair BY <2>4, <1>14 DEF Restart
  <2>6. dropped' \subseteq Device BY <2>4, <1>14 DEF Restart
  <2> QED BY <1>0, <2>3, <2>5, <2>6, <1>14 DEF Restart, ThreadState
<1>15. ASSUME UNCHANGED pushVars PROVE PushTypeOK'
  BY <1>0, <1>15 DEF pushVars
<1> QED
  BY <1>1, <1>2, <1>3, <1>4, <1>5, <1>6, <1>7, <1>8, <1>9, <1>10, <1>11, <1>12, <1>13, <1>14,
     <1>15 DEF PushNext, Rebuild

\* A map is read from the store, which has one from the beginning.
LEMMA MapStep ==
  ASSUME PushTypeOK, MapInv, [PushNext]_pushVars
  PROVE  MapInv'
<1> USE DEF PushTypeOK, Thread, Payload, Pair, Key, Idle, BlankPayload, Becomes, tableVars,
            historyVars, MapInv
<1>1. ASSUME NEW t \in Handler, Write(t) PROVE MapInv'
  BY <1>1 DEF Write
<1>2. ASSUME Refresh PROVE MapInv'
  BY <1>2 DEF Refresh
<1>3. ASSUME NEW t \in Thread, ReadFirst(t) PROVE MapInv'
  BY <1>3 DEF ReadFirst
<1>4. ASSUME NEW t \in Thread, ReadRest(t) PROVE MapInv'
  BY <1>4 DEF ReadRest
<1>5. ASSUME NEW t \in Thread, Evaluate(t) PROVE MapInv'
  BY <1>5 DEF Evaluate
<1>6. ASSUME NEW t \in Thread, RecordSent(t) PROVE MapInv'
  BY <1>6 DEF RecordSent
<1>7. ASSUME NEW t \in Thread, Done(t) PROVE MapInv'
  BY <1>7 DEF Done
<1>8. ASSUME NEW t \in Thread, RebuildFails(t) PROVE MapInv'
  BY <1>8 DEF RebuildFails
<1>9. ASSUME NEW t \in Thread, NEW p \in thread[t].todo, Skip(t, p) PROVE MapInv'
  BY <1>9 DEF Skip
<1>10. ASSUME NEW t \in Thread, NEW p \in thread[t].todo, Send(t, p) PROVE MapInv'
  BY <1>10 DEF Send
<1>11. ASSUME NEW t \in Thread, NEW p \in thread[t].todo, SendFails(t, p)
       PROVE  MapInv'
  BY <1>11 DEF SendFails
<1>12. ASSUME NEW d \in Device, Subscribe(d) PROVE MapInv'
  BY <1>12 DEF Subscribe
<1>13. ASSUME NEW d \in Device, Unsubscribe(d) PROVE MapInv'
  BY <1>13 DEF Unsubscribe
<1>14. ASSUME Restart PROVE MapInv'
  BY <1>14 DEF Restart
<1>15. ASSUME UNCHANGED pushVars PROVE MapInv'
  BY <1>15 DEF pushVars
<1> QED
  BY <1>1, <1>2, <1>3, <1>4, <1>5, <1>6, <1>7, <1>8, <1>9, <1>10, <1>11, <1>12, <1>13, <1>14,
     <1>15 DEF PushNext, Rebuild

\* Evaluate waits for PUSH_LOCK; only its holder, or a restart, releases it.
LEMMA LockStep ==
  ASSUME PushTypeOK, LockInv, [PushNext]_pushVars
  PROVE  LockInv'
<1> USE DEF PushTypeOK, Thread, Payload, Pair, Key, Idle, BlankPayload, Becomes, tableVars,
            historyVars, LockInv
<1>1. ASSUME NEW t \in Handler, Write(t) PROVE LockInv'
  BY <1>1 DEF Write
<1>2. ASSUME Refresh PROVE LockInv'
  BY <1>2 DEF Refresh
<1>3. ASSUME NEW t \in Thread, ReadFirst(t) PROVE LockInv'
  BY <1>3 DEF ReadFirst
<1>4. ASSUME NEW t \in Thread, ReadRest(t) PROVE LockInv'
  BY <1>4 DEF ReadRest
<1>5. ASSUME NEW t \in Thread, Evaluate(t) PROVE LockInv'
  BY <1>5 DEF Evaluate
<1>6. ASSUME NEW t \in Thread, RecordSent(t) PROVE LockInv'
  BY <1>6 DEF RecordSent
<1>7. ASSUME NEW t \in Thread, Done(t) PROVE LockInv'
  BY <1>7 DEF Done
<1>8. ASSUME NEW t \in Thread, RebuildFails(t) PROVE LockInv'
  BY <1>8 DEF RebuildFails
<1>9. ASSUME NEW t \in Thread, NEW p \in thread[t].todo, Skip(t, p) PROVE LockInv'
  BY <1>9 DEF Skip
<1>10. ASSUME NEW t \in Thread, NEW p \in thread[t].todo, Send(t, p) PROVE LockInv'
  BY <1>10 DEF Send
<1>11. ASSUME NEW t \in Thread, NEW p \in thread[t].todo, SendFails(t, p)
       PROVE  LockInv'
  BY <1>11 DEF SendFails
<1>12. ASSUME NEW d \in Device, Subscribe(d) PROVE LockInv'
  BY <1>12 DEF Subscribe
<1>13. ASSUME NEW d \in Device, Unsubscribe(d) PROVE LockInv'
  BY <1>13 DEF Unsubscribe
<1>14. ASSUME Restart PROVE LockInv'
  BY <1>14 DEF Restart
<1>15. ASSUME UNCHANGED pushVars PROVE LockInv'
  BY <1>15 DEF pushVars
<1> QED
  BY <1>1, <1>2, <1>3, <1>4, <1>5, <1>6, <1>7, <1>8, <1>9, <1>10, <1>11, <1>12, <1>13, <1>14,
     <1>15 DEF PushNext, Rebuild

\* ReadFirst waits for WRITE_LOCK.
LEMMA ReaderStep ==
  ASSUME PushTypeOK, OneReader, [PushNext]_pushVars
  PROVE  OneReader'
<1> USE DEF PushTypeOK, Thread, Payload, Pair, Key, Idle, BlankPayload, Becomes, tableVars,
            historyVars, OneReader
<1>1. ASSUME NEW t \in Handler, Write(t) PROVE OneReader'
  BY <1>1 DEF Write
<1>2. ASSUME Refresh PROVE OneReader'
  BY <1>2 DEF Refresh
<1>3. ASSUME NEW t \in Thread, ReadFirst(t) PROVE OneReader'
  BY <1>3 DEF ReadFirst, WriteLockFree
<1>4. ASSUME NEW t \in Thread, ReadRest(t) PROVE OneReader'
  BY <1>4 DEF ReadRest
<1>5. ASSUME NEW t \in Thread, Evaluate(t) PROVE OneReader'
  BY <1>5 DEF Evaluate
<1>6. ASSUME NEW t \in Thread, RecordSent(t) PROVE OneReader'
  BY <1>6 DEF RecordSent
<1>7. ASSUME NEW t \in Thread, Done(t) PROVE OneReader'
  BY <1>7 DEF Done
<1>8. ASSUME NEW t \in Thread, RebuildFails(t) PROVE OneReader'
  BY <1>8 DEF RebuildFails
<1>9. ASSUME NEW t \in Thread, NEW p \in thread[t].todo, Skip(t, p) PROVE OneReader'
  BY <1>9 DEF Skip
<1>10. ASSUME NEW t \in Thread, NEW p \in thread[t].todo, Send(t, p)
       PROVE  OneReader'
  BY <1>10 DEF Send
<1>11. ASSUME NEW t \in Thread, NEW p \in thread[t].todo, SendFails(t, p)
       PROVE  OneReader'
  BY <1>11 DEF SendFails
<1>12. ASSUME NEW d \in Device, Subscribe(d) PROVE OneReader'
  BY <1>12 DEF Subscribe
<1>13. ASSUME NEW d \in Device, Unsubscribe(d) PROVE OneReader'
  BY <1>13 DEF Unsubscribe
<1>14. ASSUME Restart PROVE OneReader'
  BY <1>14 DEF Restart
<1>15. ASSUME UNCHANGED pushVars PROVE OneReader'
  BY <1>15 DEF pushVars
<1> QED
  BY <1>1, <1>2, <1>3, <1>4, <1>5, <1>6, <1>7, <1>8, <1>9, <1>10, <1>11, <1>12, <1>13, <1>14,
     <1>15 DEF PushNext, Rebuild

\* A write is followed by its own rebuild, and what ReadFirst has read stays what the store
\* says until the next write.
LEMMA FileStep ==
  ASSUME PushTypeOK, OneReader, FileInv, [PushNext]_pushVars
  PROVE  FileInv'
<1> USE DEF PushTypeOK, Thread, Payload, Pair, Key, Idle, BlankPayload, Becomes, tableVars,
            historyVars, OneReader, FileInv, Waiting
<1>1. ASSUME NEW t \in Handler, Write(t) PROVE FileInv'
  BY <1>1 DEF Write
<1>2. ASSUME Refresh PROVE FileInv'
  BY <1>2 DEF Refresh
<1>3. ASSUME NEW t \in Thread, ReadFirst(t) PROVE FileInv'
  BY <1>3 DEF ReadFirst, WriteLockFree
<1>4. ASSUME NEW t \in Thread, ReadRest(t) PROVE FileInv'
  BY <1>4 DEF ReadRest
<1>5. ASSUME NEW t \in Thread, Evaluate(t) PROVE FileInv'
  BY <1>5 DEF Evaluate
<1>6. ASSUME NEW t \in Thread, RecordSent(t) PROVE FileInv'
  BY <1>6 DEF RecordSent
<1>7. ASSUME NEW t \in Thread, Done(t) PROVE FileInv'
  BY <1>7 DEF Done
<1>8. ASSUME NEW t \in Thread, RebuildFails(t) PROVE FileInv'
  BY <1>8 DEF RebuildFails
<1>9. ASSUME NEW t \in Thread, NEW p \in thread[t].todo, Skip(t, p) PROVE FileInv'
  BY <1>9 DEF Skip
<1>10. ASSUME NEW t \in Thread, NEW p \in thread[t].todo, Send(t, p) PROVE FileInv'
  BY <1>10 DEF Send
<1>11. ASSUME NEW t \in Thread, NEW p \in thread[t].todo, SendFails(t, p)
       PROVE  FileInv'
  BY <1>11 DEF SendFails
<1>12. ASSUME NEW d \in Device, Subscribe(d) PROVE FileInv'
  BY <1>12 DEF Subscribe
<1>13. ASSUME NEW d \in Device, Unsubscribe(d) PROVE FileInv'
  BY <1>13 DEF Unsubscribe
<1>14. ASSUME Restart PROVE FileInv'
  BY <1>14 DEF Restart
<1>15. ASSUME UNCHANGED pushVars PROVE FileInv'
  BY <1>15 DEF pushVars
<1> QED
  BY <1>1, <1>2, <1>3, <1>4, <1>5, <1>6, <1>7, <1>8, <1>9, <1>10, <1>11, <1>12, <1>13, <1>14,
     <1>15 DEF PushNext, Rebuild

\* Only the holder of PUSH_LOCK sends, so what has been sent without an entry yet is on its
\* way in the same thread, and that thread records it before it sends again.
LEMMA SentStep ==
  ASSUME PushTypeOK, LockInv, SentInv, [PushNext]_pushVars
  PROVE  SentInv'
<1> USE DEF PushTypeOK, Thread, Payload, Pair, Key, Idle, BlankPayload, Becomes, tableVars,
            historyVars, LockInv, SentInv, SentOnce, OnRecord, DeliverySent
<1>1. ASSUME NEW t \in Handler, Write(t) PROVE SentInv'
  BY <1>1 DEF Write
<1>2. ASSUME Refresh PROVE SentInv'
  BY <1>2 DEF Refresh
<1>3. ASSUME NEW t \in Thread, ReadFirst(t) PROVE SentInv'
  BY <1>3 DEF ReadFirst
<1>4. ASSUME NEW t \in Thread, ReadRest(t) PROVE SentInv'
  BY <1>4 DEF ReadRest
<1>5. ASSUME NEW t \in Thread, Evaluate(t) PROVE SentInv'
  BY <1>5 DEF Evaluate
<1>6. ASSUME NEW t \in Thread, RecordSent(t) PROVE SentInv'
  BY <1>6 DEF RecordSent
<1>7. ASSUME NEW t \in Thread, Done(t) PROVE SentInv'
  BY <1>7 DEF Done
<1>8. ASSUME NEW t \in Thread, RebuildFails(t) PROVE SentInv'
  BY <1>8 DEF RebuildFails
<1>9. ASSUME NEW t \in Thread, NEW p \in thread[t].todo, Skip(t, p) PROVE SentInv'
  BY <1>9 DEF Skip
<1>10. ASSUME NEW t \in Thread, NEW p \in thread[t].todo, Send(t, p) PROVE SentInv'
  BY <1>10 DEF Send
<1>11. ASSUME NEW t \in Thread, NEW p \in thread[t].todo, SendFails(t, p)
       PROVE  SentInv'
  BY <1>11 DEF SendFails
<1>12. ASSUME NEW d \in Device, Subscribe(d) PROVE SentInv'
  BY <1>12 DEF Subscribe
<1>13. ASSUME NEW d \in Device, Unsubscribe(d) PROVE SentInv'
  BY <1>13 DEF Unsubscribe
<1>14. ASSUME Restart PROVE SentInv'
  BY <1>14 DEF Restart
<1>15. ASSUME UNCHANGED pushVars PROVE SentInv'
  BY <1>15 DEF pushVars
<1> QED
  BY <1>1, <1>2, <1>3, <1>4, <1>5, <1>6, <1>7, <1>8, <1>9, <1>10, <1>11, <1>12, <1>13, <1>14,
     <1>15 DEF PushNext, Rebuild

\* Evaluate replaces the audience and puts all of it into todo at once; from there a device
\* goes to what is recorded or to what a fault has dropped.
LEMMA AudienceStep ==
  ASSUME PushTypeOK, MapInv, LockInv, AudienceInv, [PushNext]_pushVars
  PROVE  AudienceInv'
<1> USE DEF PushTypeOK, Thread, Payload, Pair, Key, Idle, BlankPayload, Becomes, tableVars,
            historyVars, MapInv, LockInv, AudienceInv, Served, DeliverySent
<1>1. ASSUME NEW t \in Handler, Write(t) PROVE AudienceInv'
  BY <1>1 DEF Write
<1>2. ASSUME Refresh PROVE AudienceInv'
  BY <1>2 DEF Refresh
<1>3. ASSUME NEW t \in Thread, ReadFirst(t) PROVE AudienceInv'
  BY <1>3 DEF ReadFirst
<1>4. ASSUME NEW t \in Thread, ReadRest(t) PROVE AudienceInv'
  BY <1>4 DEF ReadRest
<1>5. ASSUME NEW t \in Thread, Evaluate(t) PROVE AudienceInv'
  <2> DEFINE payload == thread[t].payload
             s == [thread[t] EXCEPT !.pc = "send", !.todo = Notifications(payload) \X Enabled]
  <2>0. payload.route \in Route BY <1>5 DEF Evaluate
  <2>1. thread' = [thread EXCEPT ![t] = s] BY <1>5 DEF Evaluate
  <2>2. CASE RouteChanged(payload)
    <3>1. payload.route \in Notifications(payload) BY <2>2 DEF Notifications
    <3>2. audience' = Enabled BY <2>2, <1>5 DEF Evaluate
    <3>3. \A d \in Enabled : <<payload.route, d>> \in s.todo BY <3>1
    <3>4. thread'[t].todo = s.todo BY <2>1
    <3> QED BY <2>0, <3>2, <3>3, <3>4, <1>5 DEF Evaluate
  <2>3. CASE ~RouteChanged(payload)
    <3>1. audience' = audience /\ dropped' = dropped BY <2>3, <1>5 DEF Evaluate
    <3>2. routingMap = NoRoute \/ routingMap' = routingMap BY <2>3, <1>5 DEF Evaluate,
                                                              RouteChanged
    <3>3. CASE routingMap = NoRoute BY <2>0, <3>1, <3>3, <1>5 DEF Evaluate
    <3>4. CASE routingMap # NoRoute
      <4>1. routingMap' = routingMap BY <3>2, <3>4
      <4>2. \A u \in Thread : thread[u].todo = {} /\ thread[u].onItsWay = {} BY <1>5
                                                                                  DEF Evaluate
      <4>3. delivery' = delivery BY <1>5 DEF Evaluate
      <4> QED BY <3>1, <4>1, <4>2, <4>3
    <3> QED BY <3>3, <3>4
  <2> QED BY <2>2, <2>3
<1>6. ASSUME NEW t \in Thread, RecordSent(t) PROVE AudienceInv'
  <2>1. \A q \in Pair : q \in thread[t].onItsWay => delivery'[q] = "SENT" BY <1>6
                                                                               DEF RecordSent
  <2>2. \A q \in Pair : delivery[q] = "SENT" => delivery'[q] = "SENT" BY <1>6 DEF RecordSent
  <2>3. \A u \in Thread : thread'[u].todo = thread[u].todo
                          /\ (u # t => thread'[u].onItsWay = thread[u].onItsWay)
    BY <1>6 DEF RecordSent
  <2>4. routingMap' = routingMap /\ audience' = audience /\ dropped' = dropped BY <1>6
                                                                                    DEF RecordSent
  <2>5. \A d \in audience : <<routingMap, d>> \in Pair OBVIOUS
  <2> QED BY <2>1, <2>2, <2>3, <2>4, <2>5
<1>7. ASSUME NEW t \in Thread, Done(t) PROVE AudienceInv'
  BY <1>7 DEF Done
<1>8. ASSUME NEW t \in Thread, RebuildFails(t) PROVE AudienceInv'
  BY <1>8 DEF RebuildFails
<1>9. ASSUME NEW t \in Thread, NEW p \in thread[t].todo, Skip(t, p)
      PROVE  AudienceInv'
  BY <1>9 DEF Skip
<1>10. ASSUME NEW t \in Thread, NEW p \in thread[t].todo, Send(t, p)
       PROVE  AudienceInv'
  <2>1. \A u \in Thread : u # t => thread'[u] = thread[u] BY <1>10 DEF Send
  <2>2. thread'[t].todo \cup thread'[t].onItsWay = thread[t].todo \cup thread[t].onItsWay
    <3>0. thread' = [thread EXCEPT ![t] = [@ EXCEPT !.pc = "record", !.todo = thread[t].todo \ {p},
                                                   !.onItsWay = {p}]]
      BY <1>10 DEF Send
    <3>1. thread'[t].todo = thread[t].todo \ {p} /\ thread'[t].onItsWay = {p} BY <3>0
    <3>2. thread[t].onItsWay = {} BY <1>10 DEF Send
    <3> QED BY <3>1, <3>2
  <2>3. UNCHANGED <<routingMap, audience, dropped, delivery>> BY <1>10 DEF Send
  <2>4. \A d \in audience, u \in Thread :
          <<routingMap, d>> \in thread[u].todo \cup thread[u].onItsWay =>
            <<routingMap, d>> \in thread'[u].todo \cup thread'[u].onItsWay
    BY <2>1, <2>2
  <2> QED BY <2>3, <2>4
<1>11. ASSUME NEW t \in Thread, NEW p \in thread[t].todo, SendFails(t, p)
       PROVE  AudienceInv'
  BY <1>11 DEF SendFails
<1>12. ASSUME NEW d \in Device, Subscribe(d) PROVE AudienceInv'
  BY <1>12 DEF Subscribe
<1>13. ASSUME NEW d \in Device, Unsubscribe(d) PROVE AudienceInv'
  BY <1>13 DEF Unsubscribe
<1>14. ASSUME Restart PROVE AudienceInv'
  BY <1>14 DEF Restart
<1>15. ASSUME UNCHANGED pushVars PROVE AudienceInv'
  BY <1>15 DEF pushVars
<1> QED
  BY <1>1, <1>2, <1>3, <1>4, <1>5, <1>6, <1>7, <1>8, <1>9, <1>10, <1>11, <1>12, <1>13, <1>14,
     <1>15 DEF PushNext, Rebuild

-----------------------------------------------------------------------------
\* The three facts of the induction.
LEMMA PushStarts == PushInit => PushInv
<1> SUFFICES ASSUME PushInit PROVE PushInv OBVIOUS
<1> USE DEF PushInit, Thread, Payload, Idle, BlankPayload
<1>1. \A t \in Thread : thread[t].pc \in {"idle", "build"} /\ thread[t].todo = {}
                        /\ thread[t].onItsWay = {}
  OBVIOUS
<1>2. PushTypeOK
  <2>1. Idle \in ThreadState /\ [Idle EXCEPT !.pc = "build"] \in ThreadState BY DEF ThreadState
  <2>2. thread \in [Thread -> ThreadState]
    <3> HIDE DEF Idle
    <3> QED BY <2>1
  <2>3. store \in Payload /\ file \in Payload OBVIOUS
  <2>4. delivery \in [Pair -> {"none", "FAILED", "SENT"}] /\ sent \in [Pair -> Nat] OBVIOUS
  <2>5. subscription \in [Device -> {"none", "enabled", "disabled"}] OBVIOUS
  <2>6. /\ pushLock \in Thread \cup {Nobody} /\ routingMap \in Route \cup {NoRoute}
        /\ writes \in 0..MaxWrites /\ pushFaults \in 0..MaxPushFaults
        /\ unrecorded \subseteq Pair /\ audience \subseteq Device /\ dropped \subseteq Device
    OBVIOUS
  <2>7. serving \in BOOLEAN OBVIOUS
  <2> HIDE DEF Payload, PushInit, Thread, Idle, BlankPayload
  <2> QED BY <2>2, <2>3, <2>4, <2>5, <2>6, <2>7 DEF PushTypeOK, ThreadState
<1>3. LockInv BY <1>1 DEF LockInv
<1>4. MapInv BY <1>1 DEF MapInv
<1>5. OneReader BY <1>1 DEF OneReader
<1>6. FileInv BY DEF FileInv, Waiting
<1>7. SentInv BY DEF SentInv, SentOnce, OnRecord
<1>8. AudienceInv BY DEF AudienceInv
<1> QED BY <1>2, <1>3, <1>4, <1>5, <1>6, <1>7, <1>8 DEF PushInv

LEMMA PushContinues == PushInv /\ [PushNext]_pushVars => PushInv'
BY TypeStep, MapStep, LockStep, ReaderStep, FileStep, SentStep, AudienceStep DEF PushInv

LEMMA PushHolds == PushInv => PushIsHonest
<1> SUFFICES ASSUME PushInv PROVE PushIsHonest OBVIOUS
<1>1. QuietFileIsCurrent BY DEF PushInv, FileInv, Waiting, QuietFileIsCurrent
<1>2. SentOnce BY DEF PushInv, SentInv
<1>3. RoutingLostOnlyByFault
  <2> SUFFICES ASSUME pushLock = Nobody, NEW d \in audience
               PROVE  delivery[<<routingMap, d>>] = "SENT" \/ d \in dropped
    BY DEF RoutingLostOnlyByFault
  <2>1. \A t \in Thread : thread[t].todo = {} /\ thread[t].onItsWay = {}
    BY DEF PushInv, LockInv, Thread
  <2> QED BY <2>1 DEF PushInv, AudienceInv, Served
<1> QED BY <1>1, <1>2, <1>3 DEF PushIsHonest

(* The types, in every reachable state. *)
THEOREM PushTypes == PushSpec => []PushTypeOK
<1>1. PushInv => PushTypeOK BY DEF PushInv
<1> QED BY <1>1, PushStarts, PushContinues, PTL DEF PushSpec

(* However many threads rebuild and evaluate at once and however often the  *)
(* process dies: the file is current when no rebuild is under way and none  *)
(* has failed, no device is sent a key twice unless that could not be       *)
(* recorded, and a change of the map misses a device only by a fault.       *)
THEOREM PushHonesty == PushSpec => []PushIsHonest
BY PushStarts, PushContinues, PushHolds, PTL DEF PushSpec

-----------------------------------------------------------------------------
Segment == [start : Int, end : Int]

Apart(s, q) == s.end <= q.start \/ q.end <= s.start

\* What the segments X are that the periods of T leave of the segment d.
Leaves(T, d, X) ==
  /\ \A s \in X : s \in Segment /\ s.start < s.end /\ d.start <= s.start /\ s.end <= d.end
  /\ \A s \in X, q \in T : Apart(s, q)
  /\ \A s, t \in X : s = t \/ Apart(s, t)
  /\ \A i \in Int : In(i, d) /\ (\A q \in T : ~In(i, q)) => \E s \in X : In(i, s)

LEMMA NothingCut ==
  ASSUME NEW d \in Segment, d.start < d.end
  PROVE  Leaves({}, d, {d})
BY DEF Leaves, Segment

\* The pieces that a period leaves of a segment.
LEMMA PiecesOf ==
  ASSUME NEW t \in Segment, t.start < t.end, NEW p \in Segment, p.start < p.end
  PROVE  /\ \A s \in Around(t, p) : (s \in Segment /\ t.start <= s.start /\ s.end <= t.end)
                                  \/ s.start >= s.end
         /\ \A s \in Around(t, p) : s \in Segment /\ (s.start < s.end => Apart(s, p))
         /\ \A s, r \in Around(t, p) : s.start < s.end /\ r.start < r.end => s = r \/ Apart(s, r)
         /\ \A i \in Int : In(i, t) /\ ~In(i, p) => \E s \in Around(t, p) : In(i, s)
<1>1. CASE Apart(t, p)
  <2>1. Around(t, p) = {t} BY <1>1 DEF Around, Apart
  <2> QED BY <1>1, <2>1 DEF Segment
<1>2. CASE ~Apart(t, p)
  <2> DEFINE a == [start |-> t.start, end |-> p.start]
             b == [start |-> p.end, end |-> t.end]
  <2>1. Around(t, p) = {a, b} BY <1>2 DEF Around, Apart
  <2>2. /\ t.start \in Int /\ t.end \in Int /\ p.start \in Int /\ p.end \in Int
        /\ a \in Segment /\ a.start = t.start /\ a.end = p.start
        /\ b \in Segment /\ b.start = p.end /\ b.end = t.end
    BY DEF Segment
  <2>3. p.start < t.end /\ t.start < p.end BY <1>2, <2>2 DEF Apart
  <2> HIDE DEF a, b
  <2>4. \A s \in {a, b} : (s \in Segment /\ t.start <= s.start /\ s.end <= t.end) \/ s.start >= s.end
    BY <2>2, <2>3
  <2>5. \A s \in {a, b} : s \in Segment /\ (s.start < s.end => Apart(s, p)) BY <2>2 DEF Apart
  <2>6. Apart(a, b) /\ Apart(b, a) BY <2>2 DEF Apart
  <2>7. \A i \in Int : In(i, t) /\ ~In(i, p) => In(i, a) \/ In(i, b) BY <2>2 DEF In
  <2> QED BY <2>1, <2>4, <2>5, <2>6, <2>7
<1> QED BY <1>1, <1>2

LEMMA CutSegments ==
  ASSUME NEW T, T \subseteq Segment, NEW d, NEW X, Leaves(T, d, X),
         d \in Segment, NEW p \in Segment, p.start < p.end
  PROVE  Leaves(T \cup {p}, d, Cut(p, X))
<1> DEFINE Y == Cut(p, X)
<1>1. \A s \in Y : /\ \E t \in X : s \in Around(t, p)
                   /\ s.start < s.end
  BY DEF Cut
<1>2. ASSUME NEW s, NEW t \in X, s \in Around(t, p), s.start < s.end
      PROVE  s \in Y
  BY <1>2 DEF Cut
<1> HIDE DEF Y
<1>3. ASSUME NEW t \in X
      PROVE  /\ t \in Segment /\ t.start < t.end /\ d.start <= t.start /\ t.end <= d.end
             /\ t.start \in Int /\ t.end \in Int /\ d.start \in Int /\ d.end \in Int
  BY <1>3 DEF Leaves, Segment
<1>4. ASSUME NEW t \in X, NEW s \in Around(t, p), s.start < s.end
      PROVE  /\ s \in Segment /\ s.start \in Int /\ s.end \in Int
             /\ t.start <= s.start /\ s.end <= t.end /\ Apart(s, p)
  <2>1. s \in Segment /\ (s.start < s.end => Apart(s, p)) BY <1>3, PiecesOf
  <2>2. s.start \in Int /\ s.end \in Int BY <2>1 DEF Segment
  <2>3. t.start <= s.start /\ s.end <= t.end
    <3>1. (s \in Segment /\ t.start <= s.start /\ s.end <= t.end) \/ s.start >= s.end BY <1>3, PiecesOf
    <3> QED BY <1>4, <2>2, <3>1
  <2> QED BY <1>4, <2>1, <2>2, <2>3
<1>5. \A s \in Y : s \in Segment /\ s.start < s.end /\ d.start <= s.start /\ s.end <= d.end
  <2> TAKE s \in Y
  <2>1. PICK t \in X : s \in Around(t, p) BY <1>1
  <2>2. s.start < s.end BY <1>1
  <2> QED BY <1>3, <1>4, <2>1, <2>2
<1>6. \A s \in Y, q \in T \cup {p} : Apart(s, q)
  <2> TAKE s \in Y, q \in T \cup {p}
  <2>1. PICK t \in X : s \in Around(t, p) BY <1>1
  <2>2. s.start < s.end BY <1>1
  <2>3. CASE q = p BY <1>4, <2>1, <2>2, <2>3
  <2>4. CASE q \in T
    <3>1. Apart(t, q) BY <2>4 DEF Leaves
    <3>2. q.start \in Int /\ q.end \in Int BY <2>4 DEF Segment
    <3> QED BY <1>3, <1>4, <2>1, <2>2, <3>1, <3>2 DEF Apart
  <2> QED BY <2>3, <2>4
<1>7. \A s, r \in Y : s = r \/ Apart(s, r)
  <2> TAKE s, r \in Y
  <2>1. PICK t \in X : s \in Around(t, p) BY <1>1
  <2>2. PICK u \in X : r \in Around(u, p) BY <1>1
  <2>3. s.start < s.end /\ r.start < r.end BY <1>1
  <2>4. CASE t = u
    <3>1. t \in Segment /\ t.start < t.end BY <1>3
    <3> QED BY <2>1, <2>2, <2>3, <2>4, <3>1, PiecesOf
  <2>5. CASE t # u
    <3>1. Apart(t, u) BY <2>5 DEF Leaves
    <3>2. t.start \in Int /\ t.end \in Int /\ u.start \in Int /\ u.end \in Int BY <1>3
    <3>3. /\ s.start \in Int /\ s.end \in Int /\ t.start <= s.start /\ s.end <= t.end
          /\ r.start \in Int /\ r.end \in Int /\ u.start <= r.start /\ r.end <= u.end
      BY <1>4, <2>1, <2>2, <2>3
    <3> QED BY <3>1, <3>2, <3>3 DEF Apart
  <2> QED BY <2>4, <2>5
<1>8. \A i \in Int : In(i, d) /\ (\A q \in T \cup {p} : ~In(i, q)) => \E s \in Y : In(i, s)
  <2> SUFFICES ASSUME NEW i \in Int, In(i, d), \A q \in T \cup {p} : ~In(i, q)
               PROVE  \E s \in Y : In(i, s)
    OBVIOUS
  <2>1. PICK t \in X : In(i, t) BY DEF Leaves
  <2>2. t \in Segment /\ t.start < t.end BY <1>3
  <2>3. ~In(i, p) OBVIOUS
  <2>4. PICK s \in Around(t, p) : In(i, s) BY <2>1, <2>2, <2>3, PiecesOf
  <2>5. s \in Segment BY <2>2, PiecesOf
  <2>6. s.start < s.end BY <2>4, <2>5 DEF In, Segment
  <2> QED BY <1>2, <2>4, <2>6
<1> QED BY <1>5, <1>6, <1>7, <1>8 DEF Leaves, Y

\* The fold of historical_periods as a function of the set of periods that is cut away.
Left(d, f, T) == IF T = {} THEN {d} ELSE LET p == CHOOSE x \in T : TRUE IN Cut(p, f[T \ {p}])
CutBody(S, d, f) == [T \in SUBSET S |-> Left(d, f, T)]

LEMMA SubsetsShrink ==
  ASSUME NEW S, IsFiniteSet(S), NEW T, T \subseteq S
  PROVE  /\ IsFiniteSet(T) /\ Cardinality(T) \in Nat
         /\ T # {} => LET p == CHOOSE x \in T : TRUE
                      IN  /\ p \in T /\ T = (T \ {p}) \cup {p}
                          /\ Cardinality(T \ {p}) \in Nat /\ Cardinality(T \ {p}) < Cardinality(T)
<1>1. IsFiniteSet(T) /\ Cardinality(T) \in Nat BY FS_Subset, FS_CardinalityType
<1>2. ASSUME T # {}
      PROVE  LET p == CHOOSE x \in T : TRUE
             IN  /\ p \in T /\ T = (T \ {p}) \cup {p}
                 /\ Cardinality(T \ {p}) \in Nat /\ Cardinality(T \ {p}) < Cardinality(T)
  <2> DEFINE p == CHOOSE x \in T : TRUE
  <2>1. p \in T BY <1>2
  <2> HIDE DEF p
  <2>2. IsFiniteSet(T \ {p}) /\ Cardinality(T \ {p}) = Cardinality(T) - 1 BY <1>1, <2>1, FS_RemoveElement
  <2>3. Cardinality(T \ {p}) \in Nat BY <2>2, FS_CardinalityType
  <2>4. Cardinality(T \ {p}) < Cardinality(T) BY <1>1, <2>2
  <2>5. T = (T \ {p}) \cup {p} BY <2>1
  <2> QED BY <2>1, <2>3, <2>4, <2>5 DEF p
<1> QED BY <1>1, <1>2

LEMMA FoldExists ==
  ASSUME NEW S, IsFiniteSet(S), NEW d
  PROVE  \E f : f = CutBody(S, d, f)
<1> DEFINE Small(n) == {T \in SUBSET S : Cardinality(T) <= n}
           Longer(f, n) == [T \in Small(n) |-> Left(d, f, T)]
           D == {n \in Nat : ~\E f : f = Longer(f, n)}
<1>1. D = {}
  <2> SUFFICES ASSUME D # {} PROVE FALSE OBVIOUS
  <2>1. PICK n \in D : \A m \in D : n <= m
    <3>1. D \subseteq Nat OBVIOUS
    <3> HIDE DEF D
    <3> QED BY <3>1, LeastNumber
  <2>2. n \in Nat /\ ~\E f : f = Longer(f, n) OBVIOUS
  <2>3. CASE n = 0
    <3> DEFINE g == [T \in Small(0) |-> {d}]
    <3>1. \A T \in Small(0) : Left(d, g, T) = {d}
      <4> TAKE T \in Small(0)
      <4>1. Cardinality(T) = 0 /\ IsFiniteSet(T)
        <5>1. T \subseteq S /\ Cardinality(T) <= 0 OBVIOUS
        <5>2. IsFiniteSet(T) /\ Cardinality(T) \in Nat BY <5>1, SubsetsShrink
        <5> QED BY <5>1, <5>2
      <4>2. T = {} BY <4>1, FS_EmptySet
      <4> QED BY <4>2 DEF Left
    <3>2. g = Longer(g, 0) BY <3>1
    <3> QED BY <2>2, <2>3, <3>2
  <2>4. CASE n # 0
    <3>1. n - 1 \in Nat /\ ~(n <= n - 1) BY <2>2, <2>4
    <3>2. n - 1 \notin D
      <4> HIDE DEF D
      <4> QED BY <2>1, <3>1
    <3>3. PICK f : f = Longer(f, n - 1) BY <3>1, <3>2
    <3> DEFINE g == [T \in Small(n) |-> Left(d, f, T)]
    <3>4. \A T \in Small(n - 1) : T \in Small(n) /\ g[T] = f[T]
      <4> TAKE T \in Small(n - 1)
      <4>1. T \in Small(n)
        <5>1. Cardinality(T) \in Nat BY SubsetsShrink
        <5> QED BY <2>2, <5>1
      <4>2. g[T] = Left(d, f, T) BY <4>1
      <4>3. f[T] = Left(d, f, T) BY <3>3
      <4> QED BY <4>1, <4>2, <4>3
    <3>5. \A T \in Small(n) : Left(d, g, T) = Left(d, f, T)
      <4> TAKE T \in Small(n)
      <4>1. CASE T = {} BY <4>1 DEF Left
      <4>2. CASE T # {}
        <5> DEFINE p == CHOOSE x \in T : TRUE
        <5>1. p \in T /\ Cardinality(T \ {p}) \in Nat /\ Cardinality(T \ {p}) < Cardinality(T)
              /\ Cardinality(T) \in Nat
          BY <4>2, SubsetsShrink
        <5>2. T \ {p} \in Small(n - 1) BY <2>2, <5>1
        <5>3. g[T \ {p}] = f[T \ {p}] BY <3>4, <5>2
        <5> HIDE DEF g
        <5>4. Left(d, g, T) = Cut(p, g[T \ {p}]) BY <4>2 DEF Left
        <5>5. Left(d, f, T) = Cut(p, f[T \ {p}]) BY <4>2 DEF Left
        <5> QED BY <5>3, <5>4, <5>5
      <4> QED BY <4>1, <4>2
    <3>6. g = Longer(g, n) BY <3>5
    <3> QED BY <2>2, <3>6
  <2> QED BY <2>3, <2>4
<1>2. Cardinality(S) \in Nat BY FS_CardinalityType
<1>3. PICK f : f = Longer(f, Cardinality(S)) BY <1>1, <1>2
<1>4. Small(Cardinality(S)) = SUBSET S
  <2>1. \A T \in SUBSET S : Cardinality(T) <= Cardinality(S) BY FS_Subset
  <2> QED BY <2>1
<1>5. f = CutBody(S, d, f) BY <1>3, <1>4 DEF CutBody
<1> QED BY <1>5

\* What historical_periods leaves of a cycle: what no stored period covers.
LEMMA FoldLeaves ==
  ASSUME NEW S, IsFiniteSet(S), S \subseteq Segment, \A p \in S : p.start < p.end,
         NEW d \in Segment, d.start < d.end
  PROVE  Leaves(S, d, FoldSet(Cut, {d}, S))
<1> DEFINE iter == CHOOSE f : f = CutBody(S, d, f)
<1>1. FoldSet(Cut, {d}, S) = iter[S] BY DEF FoldSet, MapThenFoldSet, CutBody, Left
<1>2. iter = CutBody(S, d, iter) BY FoldExists
<1> HIDE DEF iter
<1> DEFINE Bad == {T \in SUBSET S : ~Leaves(T, d, iter[T])}
           D == {Cardinality(T) : T \in Bad}
<1>3. Bad = {}
  <2> SUFFICES ASSUME Bad # {} PROVE FALSE OBVIOUS
  <2>1. D \subseteq Nat /\ D # {}
    <3>1. \A T \in Bad : T \subseteq S OBVIOUS
    <3> HIDE DEF Bad
    <3>2. \A T \in Bad : Cardinality(T) \in Nat BY <3>1, SubsetsShrink
    <3> QED BY <3>2
  <2>2. PICK n \in D : \A m \in D : n <= m
    <3> HIDE DEF D
    <3> QED BY <2>1, LeastNumber
  <2>3. PICK T \in Bad : Cardinality(T) = n OBVIOUS
  <2>4. T \subseteq S /\ ~Leaves(T, d, iter[T]) OBVIOUS
  <2>5. \A R \in Bad : n <= Cardinality(R) BY <2>2
  <2>6. iter[T] = Left(d, iter, T) BY <1>2, <2>4 DEF CutBody
  <2>7. T # {}
    <3>1. Left(d, iter, {}) = {d} BY DEF Left
    <3> QED BY <2>4, <2>6, <3>1, NothingCut
  <2> DEFINE p == CHOOSE x \in T : TRUE
  <2>8. /\ p \in T /\ T = (T \ {p}) \cup {p}
        /\ Cardinality(T \ {p}) \in Nat /\ Cardinality(T \ {p}) < Cardinality(T) /\ Cardinality(T) \in Nat
    BY <2>4, <2>7, SubsetsShrink
  <2>9. Left(d, iter, T) = Cut(p, iter[T \ {p}]) BY <2>7 DEF Left
  <2> HIDE DEF p
  <2>10. T \ {p} \notin Bad
    <3> HIDE DEF Bad
    <3> QED BY <2>3, <2>5, <2>8
  <2>11. Leaves(T \ {p}, d, iter[T \ {p}]) BY <2>4, <2>10
  <2>12. T \ {p} \subseteq Segment /\ p \in Segment /\ p.start < p.end BY <2>4, <2>8
  <2>13. Leaves((T \ {p}) \cup {p}, d, Cut(p, iter[T \ {p}])) BY <2>11, <2>12, CutSegments
  <2> QED BY <2>4, <2>6, <2>8, <2>9, <2>13
<1>4. Leaves(S, d, iter[S]) BY <1>3
<1> QED BY <1>1, <1>4

-----------------------------------------------------------------------------
(* The history.                                                            *)

HistoryInv == HistoryTypeOK /\ IsFiniteSet(DOMAIN stored)

LEMMA PeriodShape ==
  ASSUME HistoryInv
  PROVE  /\ DOMAIN stored \subseteq Segment /\ IsFiniteSet(DOMAIN stored)
         /\ \A p \in DOMAIN stored : p.start < p.end
BY HistoryAssumption DEF HistoryInv, HistoryTypeOK, Segment

LEMMA Halves ==
  ASSUME NEW e \in Nat, NEW a \in Int, NEW b \in Int
  PROVE  /\ e \div 2 \in Nat
         /\ a <= e \div 2 <=> 2 * a <= e
         /\ e \div 2 <= b <=> e < 2 * (b + 1)
OBVIOUS

\* The cycle of a purchase that the history reads.
LEMMA KnownPurchase ==
  ASSUME HistoryInv, NEW e \in Known
  PROVE  /\ e \in Nat /\ e \div 2 \in Nat /\ e \div 2 \in CalendarDay /\ e \div 2 <= today
         /\ today \in Nat
         /\ VersionAt(e \div 2) \in InForce(e \div 2) /\ VersionAt(e \div 2) \in Version
         /\ VersionAt(e \div 2).from \in Int /\ VersionAt(e \div 2).from <= e \div 2
         /\ VersionAt(e \div 2).close \in 1..31
         /\ Cycle(e).first \in Int /\ Cycle(e).last \in Int
         /\ Cycle(e).first <= e \div 2 /\ e \div 2 <= Cycle(e).last
<1>1. /\ e \in Nat /\ e \div 2 \in CalendarDay /\ e \div 2 <= today /\ InForce(e \div 2) # {}
      /\ today \in CalendarDay
  BY HistoryAssumption DEF Known, HistoryInv, HistoryTypeOK
<1>2. e \div 2 \in Nat BY <1>1, CalendarShape
<1>3. /\ VersionAt(e \div 2) \in InForce(e \div 2) /\ VersionAt(e \div 2) \in Version
      /\ VersionAt(e \div 2).from \in Int /\ VersionAt(e \div 2).from <= e \div 2
      /\ VersionAt(e \div 2).close \in 1..31
  BY <1>1, <1>2, VersionInForce
<1>4. today \in Nat BY <1>1, CalendarShape
<1>5. PICK j \in 2..Length - 1 :
           /\ Cycle(e) = CycleTo(j, VersionAt(e \div 2).close)
           /\ CycleTo(j, VersionAt(e \div 2).close).first \in Int
           /\ CycleTo(j, VersionAt(e \div 2).close).last \in Int
           /\ CycleTo(j, VersionAt(e \div 2).close).first <= e \div 2
           /\ e \div 2 <= CycleTo(j, VersionAt(e \div 2).close).last
  BY <1>1, <1>3, CycleOfDay DEF Cycle
<1> QED BY <1>1, <1>2, <1>3, <1>4, <1>5

\* The last purchase of a cycle, and what is derived from it.
LEMMA DerivedShape ==
  ASSUME HistoryInv, NEW e \in Unstored
  PROVE  LET d == Derived(Cycle(e)) IN
         /\ d \in Segment /\ d.start < d.end /\ d.end = 2 * (Cycle(e).last + 1)
         /\ 2 * Cycle(e).first <= d.start
         /\ ~In(e, d) => Superseded(e)
<1> DEFINE c == Cycle(e)
           S == {f \in Unstored : Cycle(f) = c}
           g == Max(S)
           v == VersionAt(g \div 2)
           starts == {2 * c.first, 2 * v.from}
           d == Derived(c)
<1>1. e \in Known /\ S \subseteq Known /\ e \in S BY DEF Unstored
<1>2. \A f \in Known : f \in Int /\ f <= 2 * today + 1
  <2> TAKE f \in Known
  <2>1. f \in Nat /\ f \div 2 <= today /\ today \in Nat BY KnownPurchase
  <2> QED BY <2>1
<1>3. g \in S /\ \A f \in S : f <= g
  <2>1. S \subseteq Int /\ S # {} /\ \A f \in S : f <= 2 * today + 1 BY <1>1, <1>2
  <2>2. 2 * today + 1 \in Int BY <1>1, KnownPurchase
  <2> HIDE DEF S
  <2>3. Max(S) \in S /\ \A f \in S : f <= Max(S) BY <2>1, <2>2, Greatest
  <2> QED BY <2>3
<1>4. g \in Known /\ g \in Unstored /\ Cycle(g) = c BY <1>1, <1>3
<1> HIDE DEF g
<1>5. /\ e \in Nat /\ e \div 2 \in Nat /\ c.first \in Int /\ c.last \in Int
      /\ c.first <= e \div 2 /\ e \div 2 <= c.last
  BY <1>1, KnownPurchase
<1>6. /\ g \in Nat /\ g \div 2 \in Nat /\ v.from \in Int /\ v.from <= g \div 2 /\ g \div 2 <= c.last
      /\ v \in InForce(g \div 2)
  BY <1>4, KnownPurchase
<1>7. d = [start |-> Max(starts), end |-> 2 * (c.last + 1)] BY DEF Derived, g
<1>8. Max(starts) \in starts /\ 2 * c.first <= Max(starts) /\ 2 * v.from <= Max(starts)
  <2>1. starts \subseteq Int /\ starts # {} BY <1>5, <1>6
  <2>2. \E b \in Int : \A x \in starts : x <= b
    <3>1. CASE c.first <= v.from BY <1>5, <1>6, <3>1
    <3>2. CASE ~(c.first <= v.from) BY <1>5, <1>6, <3>2
    <3> QED BY <3>1, <3>2
  <2>3. Max(starts) \in starts /\ \A x \in starts : x <= Max(starts)
    <3> HIDE DEF starts
    <3> QED BY <2>1, <2>2, Greatest
  <2> QED BY <2>3
<1> HIDE DEF c, v
<1>9. Max(starts) \in Int /\ Max(starts) < 2 * (c.last + 1) BY <1>5, <1>6, <1>8
<1>10. d \in Segment /\ d.start = Max(starts) /\ d.end = 2 * (c.last + 1)
  <2> HIDE DEF d, starts
  <2> QED BY <1>5, <1>7, <1>9 DEF Segment
<1>11. ASSUME ~In(e, d) PROVE Superseded(e)
  <2>1. e < d.end BY <1>5, <1>10
  <2>2. e < Max(starts) BY <1>5, <1>9, <1>10, <1>11, <2>1 DEF In
  <2>3. 2 * c.first <= e BY <1>5
  <2>4. Max(starts) = 2 * v.from
    <3>1. Max(starts) = 2 * c.first \/ Max(starts) = 2 * v.from BY <1>8
    <3> QED BY <1>5, <2>2, <2>3, <3>1
  <2>5. e \div 2 < v.from BY <1>5, <1>6, <2>2, <2>4
  <2>6. e < g BY <1>5, <1>6, <2>2, <2>4
  <2>7. VersionAt(e \div 2).from <= e \div 2 /\ VersionAt(e \div 2).from \in Int BY <1>1, KnownPurchase
  <2>8. v # VersionAt(e \div 2) BY <1>5, <1>6, <2>5, <2>7
  <2> QED BY <1>4, <1>5, <1>6, <2>6, <2>8 DEF Superseded, v, c
<1> QED BY <1>8, <1>9, <1>10, <1>11 DEF c

LEMMA UncoveredLeaves ==
  ASSUME HistoryInv, NEW e \in Unstored
  PROVE  Leaves(DOMAIN stored, Derived(Cycle(e)), Uncovered(Cycle(e)))
<1>1. Derived(Cycle(e)) \in Segment /\ Derived(Cycle(e)).start < Derived(Cycle(e)).end BY DerivedShape
<1> QED BY <1>1, PeriodShape, FoldLeaves DEF Uncovered

LEMMA DerivedApart ==
  ASSUME HistoryInv, NEW s \in DerivedPeriods
  PROVE  s \in Segment /\ \A q \in DOMAIN stored : Apart(s, q)
<1>1. PICK e \in Unstored : s \in Uncovered(Cycle(e)) BY DEF DerivedPeriods
<1> QED BY <1>1, UncoveredLeaves DEF Leaves

\* Of finitely many stored periods one is the shortest, and the earliest of those.
LEMMA HomeIsStored ==
  ASSUME HistoryInv, NEW e \in Nat, StoredOf(e) # {}
  PROVE  Home(e) \in StoredOf(e)
<1> DEFINE Size(p) == p.end - p.start
           Sizes == {Size(p) : p \in StoredOf(e)}
<1>1. \A p \in StoredOf(e) : /\ p \in Segment /\ p.start \in Int /\ p.end \in Int
                             /\ p.start < p.end /\ Size(p) \in Nat /\ In(e, p)
  BY PeriodShape DEF StoredOf, Segment
<1>2. PICK n \in Sizes : \A m \in Sizes : n <= m
  <2>1. Sizes \subseteq Nat /\ Sizes # {} BY <1>1
  <2> HIDE DEF Sizes
  <2> QED BY <2>1, LeastNumber
<1> DEFINE Short == {p \in StoredOf(e) : Size(p) = n}
           Place(p) == p.start + n - e
           Places == {Place(p) : p \in Short}
<1>3. n \in Nat /\ \A p \in StoredOf(e) : n <= Size(p) BY <1>1, <1>2
<1>4. PICK k \in Places : \A m \in Places : k <= m
  <2>1. Short # {} BY <1>2
  <2>2. \A p \in Short : Place(p) \in Nat BY <1>1, <1>3 DEF In
  <2>3. Places \subseteq Nat /\ Places # {} BY <2>1, <2>2
  <2> HIDE DEF Places
  <2> QED BY <2>3, LeastNumber
<1>5. PICK p \in Short : k = Place(p) OBVIOUS
<1>6. \A q \in Short : Place(p) <= Place(q) BY <1>4, <1>5
<1>7. ASSUME NEW q \in StoredOf(e) \ {p}
      PROVE  \/ p.end - p.start < q.end - q.start
             \/ p.end - p.start = q.end - q.start /\ p.start < q.start
  <2>1. /\ p.start \in Int /\ p.end \in Int /\ q.start \in Int /\ q.end \in Int
        /\ p \in Segment /\ q \in Segment /\ p # q /\ p.end - p.start = n /\ n <= q.end - q.start
    BY <1>1, <1>3
  <2>2. CASE q.end - q.start = n
    <3>1. q \in Short BY <2>2
    <3>2. p.start <= q.start BY <1>3, <1>6, <2>1, <3>1
    <3>3. p.start # q.start \/ p.end # q.end BY <2>1 DEF Segment
    <3>4. p.start # q.start BY <2>1, <2>2, <3>3
    <3> QED BY <2>1, <2>2, <3>2, <3>4
  <2>3. CASE q.end - q.start # n BY <1>3, <2>1, <2>3
  <2> QED BY <2>2, <2>3
<1>8. p \in StoredOf(e) OBVIOUS
<1>9. \E r \in StoredOf(e) : \A q \in StoredOf(e) \ {r} :
        \/ r.end - r.start < q.end - q.start
        \/ r.end - r.start = q.end - q.start /\ r.start < q.start
  BY <1>7, <1>8
<1> QED BY <1>9 DEF Home

-----------------------------------------------------------------------------
\* A purchase that lies in a stored period is counted in stored periods only.
LEMMA StoredCounted ==
  ASSUME HistoryInv, NEW e \in Known, StoredOf(e) # {}
  PROVE  /\ Ended(Home(e)) => Shown(e) # {}
         /\ Cardinality(Shown(e)) <= Cardinality(StoredOf(e))
<1>1. e \in Nat /\ Home(e) \in StoredOf(e) BY KnownPurchase, HomeIsStored
<1>2. Home(e) \in DOMAIN stored /\ In(e, Home(e)) BY <1>1 DEF StoredOf
<1>3. ASSUME Ended(Home(e)) PROVE Home(e) \in Shown(e)
  <2>1. Home(e) \in StoredShown BY <1>1, <1>2, <1>3 DEF StoredShown
  <2> QED BY <1>2, <2>1 DEF Shown
<1>4. Shown(e) \subseteq StoredOf(e)
  <2> SUFFICES ASSUME NEW p \in Shown(e) PROVE p \in StoredOf(e) OBVIOUS
  <2>1. In(e, p) /\ (p \in StoredShown \/ p \in DerivedPeriods) BY DEF Shown
  <2>2. p \notin DerivedPeriods
    <3> SUFFICES ASSUME p \in DerivedPeriods PROVE FALSE OBVIOUS
    <3>1. p \in Segment /\ Apart(p, Home(e)) BY <1>2, DerivedApart
    <3>2. Home(e) \in Segment BY <1>2, PeriodShape
    <3> QED BY <1>1, <1>2, <2>1, <3>1, <3>2 DEF Apart, In, Segment
  <2> QED BY <2>1, <2>2 DEF StoredShown, StoredOf
<1>5. IsFiniteSet(StoredOf(e))
  <2>1. StoredOf(e) \subseteq DOMAIN stored BY DEF StoredOf
  <2> QED BY <2>1, PeriodShape, FS_Subset
<1>6. Cardinality(Shown(e)) <= Cardinality(StoredOf(e)) BY <1>4, <1>5, FS_Subset
<1> QED BY <1>3, <1>6

\* A purchase of a cycle that is over is missing only behind a newer programme.
LEMMA UnstoredShown ==
  ASSUME HistoryInv, NEW e \in Unstored, Shown(e) = {}
  PROVE  Superseded(e)
<1>1. e \in Known /\ StoredOf(e) = {} BY DEF Unstored
<1>2. e \in Nat BY <1>1, KnownPurchase
<1>3. ASSUME In(e, Derived(Cycle(e))) PROVE FALSE
  <2>1. \A q \in DOMAIN stored : ~In(e, q) BY <1>1 DEF StoredOf
  <2>2. PICK s \in Uncovered(Cycle(e)) : In(e, s) BY <1>2, <1>3, <2>1, UncoveredLeaves DEF Leaves
  <2>3. s \in DerivedPeriods BY <2>2 DEF DerivedPeriods
  <2> QED BY <2>2, <2>3 DEF Shown
<1> QED BY <1>3, DerivedShape

\* With one close day the cycles of two purchases are one or have no day in common.
LEMMA UnstoredOnce ==
  ASSUME HistoryInv, NEW e \in Unstored, ~CloseDayChanged(e)
  PROVE  Cardinality(Shown(e)) \in 0..1
<1>1. e \in Known /\ StoredOf(e) = {} BY DEF Unstored
<1>2. e \in Nat /\ e \div 2 \in Nat /\ e \div 2 \in CalendarDay BY <1>1, KnownPurchase
<1>3. ASSUME NEW p \in Shown(e) PROVE p \in Uncovered(Cycle(e)) /\ In(e, p)
  <2>1. In(e, p) /\ p \notin StoredShown BY <1>1 DEF Shown, StoredShown, StoredOf
  <2>2. PICK f \in Unstored : p \in Uncovered(Cycle(f)) BY <2>1 DEF Shown, DerivedPeriods
  <2>3. f \in Known BY DEF Unstored
  <2>4. /\ Derived(Cycle(f)) \in Segment /\ Derived(Cycle(f)).end = 2 * (Cycle(f).last + 1)
        /\ 2 * Cycle(f).first <= Derived(Cycle(f)).start
    BY DerivedShape
  <2>5. /\ p \in Segment
        /\ Derived(Cycle(f)).start <= p.start /\ p.end <= Derived(Cycle(f)).end
    BY <2>2, UncoveredLeaves DEF Leaves
  <2>6. /\ Cycle(f).first \in Int /\ Cycle(f).last \in Int /\ f \div 2 \in CalendarDay
        /\ VersionAt(f \div 2).close \in 1..31
    BY <2>3, KnownPurchase
  <2>7. /\ Derived(Cycle(f)).start \in Int /\ Derived(Cycle(f)).end \in Int
        /\ p.start \in Int /\ p.end \in Int
    BY <2>4, <2>5 DEF Segment
  <2>8. p.start <= e /\ e < p.end BY <2>1 DEF In
  <2>9. Cycle(f).first <= e \div 2 /\ e \div 2 <= Cycle(f).last
    <3>1. 2 * Cycle(f).first <= e /\ e < 2 * (Cycle(f).last + 1)
      BY <1>2, <2>4, <2>5, <2>6, <2>7, <2>8
    <3> QED BY <1>2, <2>6, <3>1
  <2>10. VersionAt(f \div 2).close = VersionAt(e \div 2).close BY DEF CloseDayChanged
  <2>11. CycleOf(e \div 2, VersionAt(f \div 2).close) = CycleOf(f \div 2, VersionAt(f \div 2).close)
    BY <1>2, <2>6, <2>9, CycleIsItsDays DEF Cycle
  <2>12. Cycle(e) = Cycle(f) BY <2>10, <2>11 DEF Cycle
  <2> QED BY <2>1, <2>2, <2>12
<1>4. \A p, q \in Shown(e) : p = q
  <2> TAKE p, q \in Shown(e)
  <2>1. p \in Uncovered(Cycle(e)) /\ q \in Uncovered(Cycle(e)) /\ In(e, p) /\ In(e, q) BY <1>3
  <2>2. p \in Segment /\ q \in Segment /\ (p = q \/ Apart(p, q)) BY <2>1, UncoveredLeaves DEF Leaves
  <2> QED BY <1>2, <2>1, <2>2 DEF Apart, In, Segment
<1>5. CASE Shown(e) = {} BY <1>5, FS_EmptySet
<1>6. CASE Shown(e) # {}
  <2>1. PICK p : Shown(e) = {p} BY <1>4, <1>6
  <2>2. Cardinality({p}) = 1 BY FS_Singleton
  <2> QED BY <2>1, <2>2
<1> QED BY <1>5, <1>6

LEMMA InvCounts ==
  ASSUME HistoryInv
  PROVE  HistoryCounts
<1>1. \A p \in DerivedPeriods, q \in DOMAIN stored : p.end <= q.start \/ q.end <= p.start
  BY DerivedApart DEF Apart
<1>2. \A e \in Known : StoredOf(e) # {} =>
        /\ Ended(Home(e)) => Shown(e) # {}
        /\ Cardinality(Shown(e)) <= Cardinality(StoredOf(e))
  BY StoredCounted
<1>3. \A e \in Unstored : Shown(e) = {} => Superseded(e) BY UnstoredShown
<1>4. \A e \in Unstored : Cardinality(Shown(e)) > 1 => CloseDayChanged(e)
  <2> SUFFICES ASSUME NEW e \in Unstored, ~CloseDayChanged(e), Cardinality(Shown(e)) > 1
               PROVE  FALSE
    OBVIOUS
  <2>1. Cardinality(Shown(e)) \in 0..1 BY UnstoredOnce
  <2> QED BY <2>1
<1> QED BY <1>1, <1>2, <1>3, <1>4 DEF HistoryCounts

-----------------------------------------------------------------------------
LEMMA HistoryInitInv == HistoryInit => HistoryInv
<1> SUFFICES ASSUME HistoryInit PROVE HistoryInv OBVIOUS
<1>1. DOMAIN stored = {} BY DEF HistoryInit
<1>2. MonthStart[2] \in CalendarDay
  <2>1. /\ Length \in Nat /\ Length >= 4 /\ 2 \in 1..Length /\ Length - 1 \in 1..Length /\ 2 < Length - 1
    BY CalendarShape
  <2>2. MonthStart[2] < MonthStart[Length - 1] /\ MonthStart[2] \in Nat
    BY <2>1, MonthsAscend, CalendarShape
  <2> QED BY <2>2, CalendarShape
<1>3. IsFiniteSet(DOMAIN stored) BY <1>1, FS_EmptySet
<1> QED BY <1>1, <1>2, <1>3 DEF HistoryInit, HistoryInv, HistoryTypeOK

LEMMA HistoryStep ==
  ASSUME HistoryInv, [HistoryNext]_pastVars
  PROVE  HistoryInv'
<1> USE DEF HistoryInv, HistoryTypeOK
<1>1. ASSUME NEW e \in Bought, LearnPurchase(e) PROVE HistoryInv'
  BY <1>1 DEF LearnPurchase
<1>2. ASSUME NEW p \in StoredPeriod, NEW status \in {"OPEN", "FINALIZED"}, StorePeriod(p, status)
      PROVE  HistoryInv'
  <2>1. DOMAIN stored' = DOMAIN stored \cup {p} BY <1>2 DEF StorePeriod
  <2>2. \A q \in DOMAIN stored' : stored'[q] \in {"OPEN", "FINALIZED"} BY <1>2 DEF StorePeriod
  <2>3. IsFiniteSet(DOMAIN stored') BY <2>1, FS_AddElement
  <2>4. UNCHANGED <<purchases, evidenced, today>> BY <1>2 DEF StorePeriod
  <2> QED BY <2>1, <2>2, <2>3, <2>4
<1>3. ASSUME NEW p \in DOMAIN stored, KeepReceipt(p) PROVE HistoryInv'
  BY <1>3 DEF KeepReceipt
<1>4. ASSUME NextDay PROVE HistoryInv'
  BY <1>4 DEF NextDay
<1>5. ASSUME UNCHANGED pastVars PROVE HistoryInv'
  BY <1>5 DEF pastVars
<1> QED BY <1>1, <1>2, <1>3, <1>4, <1>5 DEF HistoryNext

LEMMA HistoryAlways == HistorySpec => []HistoryInv
<1>1. HistoryInv /\ [HistoryNext]_pastVars => HistoryInv' BY HistoryStep
<1> QED BY <1>1, HistoryInitInv, PTL DEF HistorySpec

(* The stored periods and the days of the purchases keep their types.        *)
THEOREM HistoryTyped == HistorySpec => []HistoryTypeOK
<1>1. HistoryInv => HistoryTypeOK BY DEF HistoryInv
<1> QED BY <1>1, HistoryAlways, PTL

(* The history of a card is a partition: a purchase whose period is over is  *)
(* counted in one period, unless stored ones overlap, a later purchase of    *)
(* its cycle was made under a newer programme, or the close day has changed. *)
THEOREM HistoryCountsAll == HistorySpec => []HistoryCounts
<1>1. HistoryInv => HistoryCounts BY InvCounts
<1> QED BY <1>1, HistoryAlways, PTL

-----------------------------------------------------------------------------
(* The review of rules.                                                     *)

\* A proposal's record, by its fields.
Of(relation, initial, state, ambiguous, feedback, approval) ==
  [relation |-> relation, initial |-> initial, state |-> state, ambiguous |-> ambiguous,
   feedback |-> feedback, approval |-> approval]

IsRecord(r) == r = Of(r.relation, r.initial, r.state, r.ambiguous, r.feedback, r.approval)

\* The k-th event of p's chain continues the events before it, as its author saw them.
Link(p, chain, k) ==
  LET e == chain[k] IN
  /\ e = [facts |-> e.facts, seen |-> e.seen]
  /\ e.facts = [id |-> e.facts.id, proposal |-> p, decision |-> e.facts.decision, sequence |-> k,
                previous |-> IF k = 1 THEN NoEvent ELSE chain[k - 1].facts]
  /\ e.facts.decision \in Decision
  /\ e.seen = SubSeq(chain, 1, k - 1)
  /\ \A j \in 1..(k - 1) : chain[j].facts.id # e.facts.id

\* A chain is its links; the last one's facts hold all of it (SameChain).
Chain(p, chain) ==
  /\ chain \in Seq(Range(chain))
  /\ \A k \in 1..Len(chain) : Link(p, chain, k)

\* The state a record had before its n-th event.
StateBefore(r, n) == IF n = 1 THEN r.initial ELSE r.feedback[n - 1].facts.decision

\* The approval a record has after n events: of the acceptance, if there was one.
ApprovalAfter(p, r, n) ==
  IF \E k \in 1..n : r.feedback[k].facts.decision = "ACCEPTED"
  THEN [proposal |-> p, relation |-> r.relation]
  ELSE NoApproval

\* What the constructor demands of the event that follows.
Admitted(r, n) ==
  LET decision == r.feedback[n].facts.decision IN
  /\ StateBefore(r, n) \notin Terminal
  /\ decision = "ACCEPTED" => ~r.ambiguous
  /\ ~(decision = "REVIEW_ONLY" /\ StateBefore(r, n) = "ACCEPTED")

\* The record of the proposal p follows from its chain.
RecordInv(p, r) ==
  /\ IsRecord(r) /\ Chain(p, r.feedback)
  /\ r.relation \in Relation /\ r.ambiguous = p[1].ambiguous
  /\ r.initial \in {"REVIEW_ONLY", "PROPOSED"}
  /\ r.state = StateBefore(r, Len(r.feedback) + 1)
  /\ r.approval = ApprovalAfter(p, r, Len(r.feedback))
  /\ \A n \in 1..Len(r.feedback) : Admitted(r, n)

\* A value, by its fields.
Holding(candidates, proposals, fields, relations) ==
  [candidates |-> candidates, proposals |-> proposals, fields |-> fields, relations |-> relations]

\* A value that the operations have built; only what is not rejected has proposals.
ValueInv(value) ==
  /\ value = Holding(value.candidates, value.proposals, value.fields, value.relations)
  /\ value.candidates \subseteq Candidate
  /\ \A c, d \in value.candidates : c.id = d.id => c = d
  /\ value.proposals = [p \in DOMAIN value.proposals |-> value.proposals[p]]
  /\ DOMAIN value.proposals \subseteq Proposal
  /\ \A p \in DOMAIN value.proposals :
       p[1].outcome # "rejected" /\ RecordInv(p, value.proposals[p])
  /\ value.fields \subseteq Field
  /\ value.relations \subseteq Relation \ {NoRelation}

ReviewInv == ValueInv(lifecycle) /\ ValueInv(kept) /\ lockChanges \in 0..MaxLockChanges

-----------------------------------------------------------------------------
(* Numbers and sequences.                                                   *)

\* A set of numbers has a least one.
LEMMA Least == 
  ASSUME NEW S, S \subseteq Nat, S # {} 
  PROVE \E n \in S : \A m \in S : n <= m
<1> DEFINE R == OpToRel(<, Nat)
<1>1. IsWellFoundedOn(R, Nat) BY NatLessThanWellFounded
<1>3. \A x, y \in Nat : y < x => <<y, x>> \in R BY DEF OpToRel
<1> HIDE DEF R
<1>2. PICK n \in S : \A y \in S : ~(<<y, n>> \in R) BY <1>1, WFMin
<1>4. \A y \in S : ~(y < n) BY <1>2, <1>3
<1>5. \A y \in S : n <= y BY <1>4
<1> QED BY <1>5

\* A sequence, of whatever it holds.
List(s) == s \in Seq(Range(s))

\* The length of a sequence.
LEMMA ListLength ==
  ASSUME NEW s, List(s)
  PROVE  Len(s) \in Nat /\ DOMAIN s = 1..Len(s) /\ (Len(s) = 0 <=> s = <<>>)
BY LenProperties, EmptySeq DEF List

\* Sequences with the same elements.
LEMMA Equal ==
  ASSUME NEW s, NEW t, List(s), List(t), Len(s) = Len(t), \A i \in 1..Len(s) : s[i] = t[i]
  PROVE  s = t
<1>1. s \in Seq(Range(s) \cup Range(t)) /\ t \in Seq(Range(s) \cup Range(t))
  BY SeqMonotonic DEF List
<1> QED BY <1>1, SeqEqual

\* Every sequence is one.
LEMMA Listed ==
  ASSUME NEW S, NEW s \in Seq(S)
  PROVE  List(s)
<1>1. Len(s) \in Nat /\ s \in [1..Len(s) -> S] /\ DOMAIN s = 1..Len(s) BY LenProperties
<1>2. \A i \in 1..Len(s) : s[i] \in Range(s) BY <1>1 DEF Range
<1>3. s \in [1..Len(s) -> Range(s)] BY <1>1, <1>2
<1> QED BY <1>1, <1>3, SeqDef DEF List

\* The first n elements.
LEMMA PrefixList ==
  ASSUME NEW s, List(s), NEW n \in 0..Len(s)
  PROVE  /\ List(SubSeq(s, 1, n)) /\ Len(SubSeq(s, 1, n)) = n
         /\ \A i \in 1..n : SubSeq(s, 1, n)[i] = s[i]
<1>1. Len(s) \in Nat /\ \A i \in 1..Len(s) : s[i] \in Range(s) BY ListLength DEF Range
<1>2. /\ SubSeq(s, 1, n) \in Seq(Range(s))
      /\ Len(SubSeq(s, 1, n)) = IF 1 <= n THEN n - 1 + 1 ELSE 0
      /\ \A i \in 1..(n - 1 + 1) : SubSeq(s, 1, n)[i] = s[1 + i - 1]
  BY <1>1, SubSeqProperties
<1>3. List(SubSeq(s, 1, n)) BY <1>2, Listed
<1>4. n \in Nat BY <1>1
<1> HIDE DEF List
<1>5. Len(SubSeq(s, 1, n)) = n BY <1>1, <1>2, <1>4
<1>6. \A i \in 1..n : SubSeq(s, 1, n)[i] = s[i] BY <1>2, <1>4
<1> QED BY <1>3, <1>5, <1>6

\* One element more.
LEMMA Appending ==
  ASSUME NEW s, List(s), NEW e
  PROVE  /\ List(Append(s, e)) /\ Len(Append(s, e)) = Len(s) + 1
         /\ \A i \in 1..Len(s) : Append(s, e)[i] = s[i]
         /\ Append(s, e)[Len(s) + 1] = e
         /\ \A n \in 0..Len(s) : SubSeq(Append(s, e), 1, n) = SubSeq(s, 1, n)
         /\ SubSeq(Append(s, e), 1, Len(s)) = s
<1> DEFINE S == Range(s) \cup {e}  t == Append(s, e)
<1>1. s \in Seq(S) /\ e \in S BY SeqMonotonic DEF List
<1>2. Len(s) \in Nat BY ListLength
<1>3. /\ t \in Seq(S) /\ Len(t) = Len(s) + 1 /\ t[Len(s) + 1] = e
      /\ \A i \in 1..Len(s) : t[i] = s[i]
  BY <1>1, AppendProperties
<1>4. List(t) BY <1>3, Listed
<1> HIDE DEF t
<1>5. ASSUME NEW n \in 0..Len(s) PROVE SubSeq(t, 1, n) = SubSeq(s, 1, n)
  <2>1. /\ List(SubSeq(s, 1, n)) /\ Len(SubSeq(s, 1, n)) = n
        /\ \A i \in 1..n : SubSeq(s, 1, n)[i] = s[i]
    BY PrefixList
  <2>2. /\ List(SubSeq(t, 1, n)) /\ Len(SubSeq(t, 1, n)) = n
        /\ \A i \in 1..n : SubSeq(t, 1, n)[i] = t[i]
    BY <1>2, <1>3, <1>4, PrefixList
  <2> QED BY <1>2, <1>3, <2>1, <2>2, Equal
<1>6. SubSeq(s, 1, Len(s)) = s
  <2>1. Len(s) \in 0..Len(s) BY <1>2
  <2>2. /\ List(SubSeq(s, 1, Len(s))) /\ Len(SubSeq(s, 1, Len(s))) = Len(s)
        /\ \A i \in 1..Len(s) : SubSeq(s, 1, Len(s))[i] = s[i]
    BY <2>1, PrefixList
  <2> QED BY <2>2, Equal
<1> QED BY <1>2, <1>3, <1>4, <1>5, <1>6 DEF t

\* A prefix grows by the next element.
LEMMA PrefixGrows ==
  ASSUME NEW s, List(s), NEW n \in 1..Len(s)
  PROVE  Append(SubSeq(s, 1, n - 1), s[n]) = SubSeq(s, 1, n)
<1>1. Len(s) \in Nat /\ n \in Nat /\ n - 1 \in 0..Len(s) BY ListLength
<1> DEFINE r == SubSeq(s, 1, n - 1)
<1>2. List(r) /\ Len(r) = n - 1 /\ \A i \in 1..(n - 1) : r[i] = s[i] BY <1>1, PrefixList
<1>3. List(SubSeq(s, 1, n)) /\ Len(SubSeq(s, 1, n)) = n /\ \A i \in 1..n : SubSeq(s, 1, n)[i] = s[i]
  BY <1>1, PrefixList
<1> HIDE DEF r
<1>4. /\ List(Append(r, s[n])) /\ Len(Append(r, s[n])) = n
      /\ \A i \in 1..(n - 1) : Append(r, s[n])[i] = s[i]
      /\ Append(r, s[n])[n] = s[n]
  BY <1>1, <1>2, Appending
<1>5. \A i \in 1..n : Append(r, s[n])[i] = SubSeq(s, 1, n)[i] BY <1>1, <1>3, <1>4
<1> QED BY <1>3, <1>4, <1>5, Equal DEF r

-----------------------------------------------------------------------------
(* Chains.                                                                  *)

\* The facts of an event, one by one.
LEMMA Facts ==
  ASSUME NEW f, NEW p, NEW k, NEW before,
         f = [id |-> f.id, proposal |-> p, decision |-> f.decision, sequence |-> k,
              previous |-> before]
  PROVE  f.proposal = p /\ f.sequence = k /\ f.previous = before
OBVIOUS

\* The last event of a chain holds all that went before it.
LEMMA SameChain ==
  ASSUME NEW p, NEW s, NEW t, Chain(p, s), Chain(p, t), Len(s) = Len(t),
         LastFacts(s) = LastFacts(t)
  PROVE  s = t
<1> DEFINE N == Len(s)
<1>1. List(s) /\ List(t) /\ N \in Nat /\ (N = 0 <=> s = <<>>) /\ (N = 0 <=> t = <<>>)
  BY ListLength DEF Chain, List
<1> HIDE DEF N
<1>2. \A k \in 1..N : Link(p, s, k) /\ Link(p, t, k) BY DEF Chain, N
<1>3. \A k \in 2..N : s[k].facts = t[k].facts => s[k - 1].facts = t[k - 1].facts
  <2> SUFFICES ASSUME NEW k \in 2..N, s[k].facts = t[k].facts
               PROVE  s[k - 1].facts = t[k - 1].facts
    OBVIOUS
  <2>1. k \in 1..N /\ k # 1 BY <1>1
  <2>2. s[k].facts = [id |-> s[k].facts.id, proposal |-> p, decision |-> s[k].facts.decision,
                      sequence |-> k, previous |-> s[k - 1].facts]
    BY <1>2, <2>1 DEF Link
  <2>3. t[k].facts = [id |-> t[k].facts.id, proposal |-> p, decision |-> t[k].facts.decision,
                      sequence |-> k, previous |-> t[k - 1].facts]
    BY <1>2, <2>1 DEF Link
  <2>4. s[k].facts.previous = s[k - 1].facts BY <2>2, Facts
  <2>5. t[k].facts.previous = t[k - 1].facts BY <2>3, Facts
  <2> QED BY <2>4, <2>5
<1>4. N > 0 => s[N].facts = t[N].facts
  BY <1>1 DEF LastFacts, Last, N
<1>5. \A k \in 1..N : s[k].facts = t[k].facts
  <2> DEFINE D == {m \in 0..(N - 1) : s[N - m].facts # t[N - m].facts}
  <2>1. CASE D = {}
    <3>1. ASSUME NEW k \in 1..N PROVE s[k].facts = t[k].facts
      <4>1. N - k \in 0..(N - 1) /\ N - (N - k) = k BY <1>1
      <4>2. N - k \notin D BY <2>1
      <4> HIDE DEF D
      <4> QED BY <4>1, <4>2 DEF D
    <3> QED BY <3>1
  <2>2. CASE D # {}
    <3>0. D \subseteq Nat BY <1>1
    <3>1. PICK m \in D : \A n \in D : m <= n BY <2>2, <3>0, Least
    <3>2. m \in 0..(N - 1) /\ s[N - m].facts # t[N - m].facts BY <3>1
    <3>3. m # 0 BY <1>1, <1>4, <3>2
    <3>4. m - 1 \notin D
      <4> HIDE DEF D
      <4>1. m \in Nat /\ ~(m <= m - 1) BY <3>2
      <4> QED BY <3>1, <4>1
    <3>5. s[N - (m - 1)].facts = t[N - (m - 1)].facts BY <1>1, <3>2, <3>3, <3>4
    <3>6. N - (m - 1) \in 2..N /\ (N - (m - 1)) - 1 = N - m BY <1>1, <3>2, <3>3
    <3> QED BY <1>3, <3>2, <3>5, <3>6
  <2> QED BY <2>1, <2>2
<1>6. \A k \in 1..N : s[k] = t[k]
  <2> DEFINE D == {k \in 1..N : s[k] # t[k]}
  <2> SUFFICES ASSUME D # {} PROVE FALSE OBVIOUS
  <2>0. D \subseteq Nat BY <1>1
  <2>1. PICK k \in D : \A n \in D : k <= n BY <2>0, Least
  <2>2. k \in 1..N /\ k - 1 \in 0..N /\ s[k] # t[k] BY <1>1, <2>1
  <2>3. \A j \in 1..(k - 1) : s[j] = t[j] BY <1>1, <2>1, <2>2
  <2>4. SubSeq(s, 1, k - 1) = SubSeq(t, 1, k - 1)
    <3>1. /\ List(SubSeq(s, 1, k - 1)) /\ Len(SubSeq(s, 1, k - 1)) = k - 1
          /\ \A i \in 1..(k - 1) : SubSeq(s, 1, k - 1)[i] = s[i]
      BY <1>1, <2>2, PrefixList DEF N
    <3>2. /\ List(SubSeq(t, 1, k - 1)) /\ Len(SubSeq(t, 1, k - 1)) = k - 1
          /\ \A i \in 1..(k - 1) : SubSeq(t, 1, k - 1)[i] = t[i]
      BY <1>1, <2>2, PrefixList DEF N
    <3> QED BY <2>3, <3>1, <3>2, Equal
  <2>5. s[k] = [facts |-> s[k].facts, seen |-> SubSeq(s, 1, k - 1)] BY <1>2, <2>2 DEF Link
  <2>6. t[k] = [facts |-> t[k].facts, seen |-> SubSeq(t, 1, k - 1)] BY <1>2, <2>2 DEF Link
  <2>7. s[k].facts = t[k].facts BY <1>5, <2>2
  <2>8. [facts |-> s[k].facts, seen |-> SubSeq(s, 1, k - 1)]
        = [facts |-> t[k].facts, seen |-> SubSeq(t, 1, k - 1)]
    BY <2>4, <2>7
  <2> QED BY <2>2, <2>5, <2>6, <2>8
<1> QED BY <1>1, <1>6, Equal DEF N

\* An event drafted on the very chain it is appended to continues it.
LEMMA ChainGrows ==
  ASSUME NEW p, NEW s, Chain(p, s), NEW e, e = [facts |-> e.facts, seen |-> s],
         e.facts = [id |-> e.facts.id, proposal |-> p, decision |-> e.facts.decision,
                    sequence |-> Len(s) + 1, previous |-> LastFacts(s)],
         e.facts.decision \in Decision,
         \A k \in DOMAIN s : s[k].facts.id # e.facts.id
  PROVE  Chain(p, Append(s, e))
<1> DEFINE t == Append(s, e)  N == Len(s)
<1>1. List(s) /\ N \in Nat /\ DOMAIN s = 1..N /\ (N = 0 <=> s = <<>>)
  BY ListLength DEF Chain, List
<1>2. /\ List(t) /\ Len(t) = N + 1 /\ t[N + 1] = e
      /\ \A i \in 1..N : t[i] = s[i]
      /\ \A n \in 0..N : SubSeq(t, 1, n) = SubSeq(s, 1, n)
      /\ SubSeq(t, 1, N) = s
  BY <1>1, Appending
<1> HIDE DEF t
<1>3. \A k \in 1..N : Link(p, s, k) BY DEF Chain
<1> HIDE DEF N
<1>4. ASSUME NEW k \in 1..N PROVE Link(p, t, k)
  <2>1. Link(p, s, k) BY <1>3
  <2>2. t[k] = s[k] /\ (k # 1 => t[k - 1] = s[k - 1]) /\ SubSeq(t, 1, k - 1) = SubSeq(s, 1, k - 1)
        /\ \A j \in 1..(k - 1) : t[j] = s[j]
    BY <1>1, <1>2
  <2> QED BY <2>1, <2>2 DEF Link
<1>5. Link(p, t, N + 1)
  <2>1. (N + 1) - 1 = N BY <1>1
  <2>2. LastFacts(s) = IF N + 1 = 1 THEN NoEvent ELSE t[N].facts
    BY <1>1, <1>2 DEF LastFacts, Last, N
  <2>3. \A j \in 1..N : t[j].facts.id # e.facts.id BY <1>1, <1>2
  <2>4. e.seen = SubSeq(t, 1, N)
    <3>1. e.seen = s OBVIOUS
    <3> QED BY <1>2, <3>1
  <2>5. e.facts = [id |-> e.facts.id, proposal |-> p, decision |-> e.facts.decision,
                   sequence |-> N + 1, previous |-> IF N + 1 = 1 THEN NoEvent ELSE t[N].facts]
    BY <2>2 DEF N
  <2> QED BY <1>2, <2>1, <2>3, <2>4, <2>5 DEF Link
<1>6. \A k \in 1..(N + 1) : Link(p, t, k) BY <1>1, <1>4, <1>5
<1>7. Chain(p, t) BY <1>2, <1>6 DEF Chain, List
<1> QED BY <1>7 DEF t

-----------------------------------------------------------------------------
(* Replays.                                                                 *)

\* The record after its first n events.
After(p, r, n) ==
  Of(r.relation, r.initial, StateBefore(r, n + 1), r.ambiguous, SubSeq(r.feedback, 1, n),
     ApprovalAfter(p, r, n))

\* What the changes of a record make of it.
LEMMA RecordFields ==
  ASSUME NEW r, IsRecord(r)
  PROVE  /\ Unreviewed(r)
            = Of(r.relation, r.initial, r.initial, r.ambiguous, <<>>, NoApproval)
         /\ \A event, approval :
              WithFeedback(r, event, approval)
              = Of(r.relation, r.initial, event.facts.decision, r.ambiguous,
                   Append(r.feedback, event),
                   IF event.facts.decision = "ACCEPTED" THEN approval ELSE r.approval)
<1>1. ASSUME NEW state, NEW feedback, NEW approval
      PROVE  [r EXCEPT !.state = state, !.feedback = feedback, !.approval = approval]
             = Of(r.relation, r.initial, state, r.ambiguous, feedback, approval)
  <2> DEFINE q == [r EXCEPT !.state = state, !.feedback = feedback, !.approval = approval]
  <2>1. q \in [relation : {r.relation}, initial : {r.initial}, state : {state},
               ambiguous : {r.ambiguous}, feedback : {feedback}, approval : {approval}]
    BY DEF IsRecord, Of
  <2> HIDE DEF q
  <2>2. q = Of(r.relation, r.initial, state, r.ambiguous, feedback, approval)
    BY <2>1 DEF Of
  <2> QED BY <2>2 DEF q
<1>2. ASSUME NEW event, NEW approval
      PROVE  WithFeedback(r, event, approval)
             = Of(r.relation, r.initial, event.facts.decision, r.ambiguous,
                  Append(r.feedback, event),
                  IF event.facts.decision = "ACCEPTED" THEN approval ELSE r.approval)
  <2> DEFINE decision == event.facts.decision  grown == Append(r.feedback, event)
             next == IF event.facts.decision = "ACCEPTED" THEN approval ELSE r.approval
  <2>1. WithFeedback(r, event, approval)
        = [r EXCEPT !.state = decision, !.feedback = grown, !.approval = next]
    BY Zenon DEF WithFeedback
  <2> HIDE DEF decision, grown, next
  <2>2. WithFeedback(r, event, approval)
        = Of(r.relation, r.initial, decision, r.ambiguous, grown, next)
    BY <1>1, <2>1
  <2> QED BY <2>2 DEF decision, grown, next
<1> QED BY <1>1, <1>2 DEF Unreviewed

\* A replay that has not been refused.
Fine(r) == [ok |-> TRUE, record |-> r]

\* One event more.
LEMMA ReplayStep ==
  ASSUME NEW p, NEW r, RecordInv(p, r), NEW n \in 1..Len(r.feedback)
  PROVE  ReplayEvent(r, r.feedback[n], Fine(After(p, r, n - 1)))
         = Fine(After(p, r, n))
<1> DEFINE chain == r.feedback  event == chain[n]  before == After(p, r, n - 1)
           accepts == event.facts.decision = "ACCEPTED"
           approval == IF accepts THEN r.approval ELSE NoApproval
<1>1. /\ List(chain) /\ Len(chain) \in Nat /\ n \in Nat
      /\ n - 1 \in 0..Len(chain) /\ n \in 0..Len(chain) /\ (n - 1) + 1 = n
  BY ListLength DEF RecordInv, Chain, List
<1>2. Link(p, chain, n) /\ Admitted(r, n) BY DEF RecordInv, Chain
<1>3. /\ IsRecord(before) /\ before.relation = r.relation /\ before.ambiguous = r.ambiguous
      /\ before.initial = r.initial
      /\ before.state = StateBefore(r, n) /\ before.feedback = SubSeq(chain, 1, n - 1)
      /\ before.approval = ApprovalAfter(p, r, n - 1)
  <2>1. before = Of(r.relation, r.initial, StateBefore(r, n), r.ambiguous,
                    SubSeq(chain, 1, n - 1), ApprovalAfter(p, r, n - 1))
    BY <1>1 DEF After
  <2> HIDE DEF before
  <2> QED BY <2>1 DEF Of, IsRecord
<1>4. /\ List(before.feedback) /\ Len(before.feedback) = n - 1
      /\ \A i \in 1..(n - 1) : before.feedback[i] = chain[i]
  <2> HIDE DEF before
  <2> QED BY <1>1, <1>3, PrefixList
<1>5. DOMAIN before.feedback = 1..(n - 1) /\ (n - 1 = 0 <=> before.feedback = <<>>)
  BY <1>4, ListLength
<1>6. LastFacts(before.feedback) = IF n = 1 THEN NoEvent ELSE chain[n - 1].facts
  BY <1>1, <1>4, <1>5 DEF LastFacts, Last
<1>7. event.facts.proposal = p /\ event.facts.sequence = n
      /\ event.facts.previous = LastFacts(before.feedback)
  <2>1. event.facts = [id |-> event.facts.id, proposal |-> p, decision |-> event.facts.decision,
                       sequence |-> n, previous |-> LastFacts(before.feedback)]
    BY <1>2, <1>6 DEF Link
  <2> HIDE DEF event, before
  <2> QED BY <2>1, Facts
<1>8. accepts => approval = [proposal |-> p, relation |-> r.relation]
  BY DEF RecordInv, ApprovalAfter
<1>9. Appends(before, event, approval)
  <2>1. \A k \in DOMAIN before.feedback : before.feedback[k].facts.id # event.facts.id
    BY <1>2, <1>4, <1>5 DEF Link
  <2>2. event.facts.sequence = Len(before.feedback) + 1 BY <1>1, <1>4, <1>7
  <2>3. /\ before.state \notin Terminal
        /\ ~(event.facts.decision = "REVIEW_ONLY" /\ before.state = "ACCEPTED")
    BY <1>2, <1>3 DEF Admitted
  <2>4. IF accepts
        THEN /\ ~before.ambiguous
             /\ approval = [proposal |-> event.facts.proposal, relation |-> before.relation]
        ELSE approval = NoApproval
    <3>1. accepts => ~r.ambiguous BY <1>2 DEF Admitted
    <3> QED BY <1>3, <1>7, <1>8, <3>1
  <2> HIDE DEF event, before, approval
  <2> QED BY <1>7, <2>1, <2>2, <2>3, <2>4 DEF Appends
<1>10. WithFeedback(before, event, approval) = After(p, r, n)
  <2>1. WithFeedback(before, event, approval)
        = Of(r.relation, r.initial, event.facts.decision, r.ambiguous,
             Append(SubSeq(chain, 1, n - 1), event),
             IF accepts THEN approval ELSE before.approval)
    <3> HIDE DEF before, event, approval
    <3> QED BY <1>3, RecordFields
  <2>2. Append(SubSeq(chain, 1, n - 1), event) = SubSeq(chain, 1, n) BY <1>1, PrefixGrows
  <2>3. StateBefore(r, n + 1) = event.facts.decision BY <1>1 DEF StateBefore
  <2>4. ApprovalAfter(p, r, n) = IF accepts THEN approval ELSE before.approval
    <3>1. CASE accepts
      <4>1. ApprovalAfter(p, r, n) = [proposal |-> p, relation |-> r.relation]
        BY <1>1, <3>1 DEF ApprovalAfter
      <4> QED BY <1>8, <3>1, <4>1
    <3>2. CASE ~accepts
      <4>1. \A k \in 1..n : chain[k].facts.decision = "ACCEPTED" => k \in 1..(n - 1) BY <1>1, <3>2
      <4>2. \A k \in 1..(n - 1) : k \in 1..n BY <1>1
      <4>3. ApprovalAfter(p, r, n) = ApprovalAfter(p, r, n - 1) BY <4>1, <4>2 DEF ApprovalAfter
      <4> QED BY <1>3, <3>2, <4>3
    <3> QED BY <3>1, <3>2
  <2> QED BY <2>1, <2>2, <2>3, <2>4 DEF After
<1> HIDE DEF before, event, approval
<1>11. ReplayEvent(r, event, Fine(before))
       = Fine(WithFeedback(before, event, approval))
  <2>1. Fine(before).ok /\ Fine(before).record = before BY DEF Fine
  <2>2. \A x : [Fine(before) EXCEPT !.record = x] = Fine(x)
    <3>1. ASSUME NEW x PROVE [Fine(before) EXCEPT !.record = x] \in [ok : {TRUE}, record : {x}]
      BY DEF Fine
    <3>2. ASSUME NEW x, NEW q \in [ok : {TRUE}, record : {x}] PROVE q = Fine(x) BY DEF Fine
    <3> QED BY <3>1, <3>2
  <2> QED BY <1>9, <2>1, <2>2 DEF ReplayEvent, approval
<1> QED BY <1>10, <1>11 DEF before, event

\* The chain makes the record again.
LEMMA ReplaysToItself ==
  ASSUME NEW p, NEW r, RecordInv(p, r)
  PROVE  Replayed(r) = Fine(r)
<1> DEFINE N == Len(r.feedback)
           base == Fine(Unreviewed(r))
           Reached(n, before) == ReplayEvent(r, r.feedback[n], before)
           made == [n \in 0..N |-> Fine(After(p, r, n))]
           Body(f) == [n \in 0..N |-> IF n = 0 THEN base ELSE Reached(n, f[n - 1])]
           replay == CHOOSE f : f = Body(f)
<1>1. N \in Nat /\ List(r.feedback) BY ListLength DEF RecordInv, Chain, List
<1>2. After(p, r, 0) = Unreviewed(r)
  <2>1. SubSeq(r.feedback, 1, 0) = <<>> BY SubSeqEmpty
  <2>2. ApprovalAfter(p, r, 0) = NoApproval BY DEF ApprovalAfter
  <2>3. StateBefore(r, 0 + 1) = r.initial BY DEF StateBefore
  <2> QED BY <2>1, <2>2, <2>3, RecordFields DEF After, RecordInv
<1>3. After(p, r, N) = r
  <2>1. SubSeq(r.feedback, 1, N) = r.feedback
    <3>1. N \in 0..N BY <1>1
    <3>2. List(SubSeq(r.feedback, 1, N)) /\ Len(SubSeq(r.feedback, 1, N)) = N
          /\ \A i \in 1..N : SubSeq(r.feedback, 1, N)[i] = r.feedback[i]
      BY <1>1, <3>1, PrefixList
    <3> QED BY <1>1, <3>2, Equal
  <2> QED BY <2>1 DEF After, RecordInv, IsRecord
<1>4. made[0] = base /\ \A n \in 1..N : made[n] = Reached(n, made[n - 1])
  <2>1. made[0] = base BY <1>1, <1>2
  <2>2. ASSUME NEW n \in 1..N PROVE made[n] = Reached(n, made[n - 1])
    <3>1. made[n - 1] = Fine(After(p, r, n - 1)) BY <1>1
    <3>2. made[n] = Fine(After(p, r, n)) BY <1>1
    <3> QED BY <3>1, <3>2, ReplayStep
  <2> QED BY <2>1, <2>2
<1>5. Replayed(r) = replay[N] BY DEF Replayed, Fine
<1>6. made[N] = Fine(r) BY <1>1, <1>3
<1>7. made = [n \in 0..N |-> made[n]] OBVIOUS
<1> HIDE DEF base, Reached, made
<1>8. made = Body(made)
  <2>1. \A n \in 0..N : made[n] = IF n = 0 THEN base ELSE Reached(n, made[n - 1]) BY <1>1, <1>4
  <2> QED BY <1>7, <2>1
<1>9. replay = Body(replay) BY <1>8
<1> HIDE DEF replay
<1>10. replay[0] = base /\ \A n \in 1..N : replay[n] = Reached(n, replay[n - 1])
  <2>1. \A n \in 0..N : replay[n] = IF n = 0 THEN base ELSE Reached(n, replay[n - 1]) BY <1>9
  <2> QED BY <1>1, <2>1
<1> HIDE DEF N
<1>11. \A n \in 0..N : replay[n] = made[n]
  <2> DEFINE D == {n \in 0..N : replay[n] # made[n]}
  <2> SUFFICES ASSUME D # {} PROVE FALSE OBVIOUS
  <2>1. D \subseteq Nat BY <1>1
  <2>2. PICK n \in D : \A m \in D : n <= m BY <2>1, Least
  <2>3. n \in 1..N /\ n - 1 \in 0..N BY <1>1, <1>4, <1>10, <2>2
  <2>4. n - 1 \notin D
    <3> HIDE DEF D
    <3>1. n \in Nat /\ ~(n <= n - 1) BY <1>1, <2>3
    <3> QED BY <2>2, <3>1
  <2>5. replay[n - 1] = made[n - 1] BY <2>3, <2>4
  <2> QED BY <1>4, <1>10, <2>2, <2>3, <2>5
<1> QED BY <1>1, <1>5, <1>6, <1>11

-----------------------------------------------------------------------------
(* Records.                                                                 *)

\* A new record has no feedback and no approval.
LEMMA NewRecords ==
  ASSUME NEW c \in Candidate, NEW f, NEW relation \in Relation
  PROVE  RecordInv(<<c, f>>, NewRecord(c, relation))
<1> DEFINE initial == IF c.outcome = "review_only" THEN "REVIEW_ONLY" ELSE "PROPOSED"
           r == NewRecord(c, relation)
<1>1. r = Of(relation, initial, initial, c.ambiguous, <<>>, NoApproval)
  BY DEF NewRecord, Of
<1>2. initial \in {"REVIEW_ONLY", "PROPOSED"} OBVIOUS
<1> HIDE DEF r, initial
<1>3. /\ IsRecord(r) /\ r.relation = relation /\ r.initial = initial /\ r.state = initial
      /\ r.ambiguous = c.ambiguous /\ r.feedback = <<>> /\ r.approval = NoApproval
  BY <1>1 DEF Of, IsRecord
<1>4. Len(r.feedback) = 0 BY <1>3, EmptySeq
<1>5. Chain(<<c, f>>, r.feedback)
  <2>1. r.feedback \in Seq(Range(r.feedback)) BY <1>3, EmptySeq
  <2> QED BY <1>4, <2>1 DEF Chain
<1>6. r.state = StateBefore(r, Len(r.feedback) + 1) BY <1>3, <1>4 DEF StateBefore
<1>7. r.approval = ApprovalAfter(<<c, f>>, r, Len(r.feedback)) BY <1>3, <1>4 DEF ApprovalAfter
<1>8. RecordInv(<<c, f>>, r)
  BY <1>2, <1>3, <1>4, <1>5, <1>6, <1>7 DEF RecordInv
<1> QED BY <1>8 DEF r

\* What a reviewer submits who has seen the chain s of the proposal p.
SeenAs(e, p, s) ==
  /\ e = [facts |-> e.facts, seen |-> s]
  /\ e.facts = [id |-> e.facts.id, proposal |-> p, decision |-> e.facts.decision,
                sequence |-> Len(s) + 1, previous |-> LastFacts(s)]
  /\ e.facts.decision \in Decision

\* Only an event that was drafted on the chain as it is is appended to it.
LEMMA RecordGrows ==
  ASSUME NEW p, NEW r, RecordInv(p, r), NEW s, Chain(p, s), NEW e, SeenAs(e, p, s),
         NEW approval, Appends(r, e, approval)
  PROVE  LET new == WithFeedback(r, e, approval)  accepts == e.facts.decision = "ACCEPTED" IN
         /\ RecordInv(p, new)
         /\ new.relation = r.relation /\ new.state = e.facts.decision
         /\ r.state \notin Terminal
         /\ accepts => ~p[1].ambiguous /\ new.approval = [proposal |-> p, relation |-> r.relation]
<1> DEFINE new == WithFeedback(r, e, approval)  accepts == e.facts.decision = "ACCEPTED"
           chain == r.feedback  N == Len(chain)
<1>1. IsRecord(r) /\ Chain(p, chain) /\ List(chain) /\ List(s) /\ N \in Nat /\ Len(s) \in Nat
  BY ListLength DEF RecordInv, Chain, List
<1>2. e.facts.proposal = p /\ e.facts.sequence = Len(s) + 1 /\ e.facts.previous = LastFacts(s)
  <2>1. e.facts = [id |-> e.facts.id, proposal |-> p, decision |-> e.facts.decision,
                   sequence |-> Len(s) + 1, previous |-> LastFacts(s)]
    BY DEF SeenAs
  <2> QED BY <2>1, Facts
<1>3. /\ \A k \in DOMAIN chain : chain[k].facts.id # e.facts.id
      /\ e.facts.sequence = N + 1 /\ e.facts.previous = LastFacts(chain)
      /\ r.state \notin Terminal
      /\ IF accepts THEN ~r.ambiguous /\ approval = [proposal |-> p, relation |-> r.relation]
         ELSE approval = NoApproval
      /\ ~(e.facts.decision = "REVIEW_ONLY" /\ r.state = "ACCEPTED")
  BY <1>2 DEF Appends
<1>4. s = chain
  <2>1. Len(s) = N BY <1>1, <1>2, <1>3
  <2>2. LastFacts(s) = LastFacts(chain) BY <1>2, <1>3
  <2> HIDE DEF chain
  <2> QED BY <1>1, <2>1, <2>2, SameChain DEF N
<1>5. Chain(p, Append(chain, e))
  <2>1. SeenAs(e, p, chain) BY <1>4
  <2> HIDE DEF chain
  <2> QED BY <1>1, <1>3, <2>1, ChainGrows DEF SeenAs
<1>6. /\ List(Append(chain, e)) /\ Len(Append(chain, e)) = N + 1
      /\ \A i \in 1..N : Append(chain, e)[i] = chain[i]
      /\ Append(chain, e)[N + 1] = e
  BY <1>1, Appending
<1> DEFINE after == IF accepts THEN approval ELSE r.approval
<1>7. new = Of(r.relation, r.initial, e.facts.decision, r.ambiguous, Append(chain, e), after)
  BY <1>1, RecordFields
<1> HIDE DEF new, after
<1>8. /\ IsRecord(new) /\ new.relation = r.relation /\ new.initial = r.initial
      /\ new.state = e.facts.decision /\ new.ambiguous = r.ambiguous
      /\ new.feedback = Append(chain, e) /\ new.approval = after
  BY <1>7 DEF Of, IsRecord
<1>9. Len(new.feedback) = N + 1 /\ new.feedback[N + 1] = e
      /\ \A i \in 1..N : new.feedback[i] = chain[i]
  BY <1>6, <1>8
<1> HIDE DEF N
<1>10. \A n \in 1..(N + 1) : StateBefore(new, n) = StateBefore(r, n)
  <2> SUFFICES ASSUME NEW n \in 1..(N + 1) PROVE StateBefore(new, n) = StateBefore(r, n) OBVIOUS
  <2>1. n # 1 => n - 1 \in 1..N BY <1>1
  <2> QED BY <1>8, <1>9, <2>1 DEF StateBefore
<1>11. StateBefore(new, (N + 1) + 1) = e.facts.decision
  <2>1. (N + 1) + 1 # 1 /\ ((N + 1) + 1) - 1 = N + 1 BY <1>1
  <2> QED BY <1>9, <2>1 DEF StateBefore
<1>12. ApprovalAfter(p, new, N + 1) = after
  <2>1. CASE accepts
    <3>1. N + 1 \in 1..(N + 1) BY <1>1
    <3> QED BY <1>3, <1>8, <1>9, <2>1, <3>1 DEF ApprovalAfter, after
  <2>2. CASE ~accepts
    <3>1. \A k \in 1..(N + 1) : new.feedback[k].facts.decision = "ACCEPTED" => k \in 1..N
      BY <1>1, <1>9, <2>2
    <3>2. \A k \in 1..N : k \in 1..(N + 1) /\ new.feedback[k] = chain[k] BY <1>1, <1>9
    <3>3. ApprovalAfter(p, new, N + 1) = ApprovalAfter(p, r, N)
      BY <1>8, <3>1, <3>2 DEF ApprovalAfter
    <3>4. r.approval = ApprovalAfter(p, r, N) BY DEF RecordInv, N
    <3> QED BY <2>2, <3>3, <3>4 DEF after
  <2> QED BY <2>1, <2>2
<1>13. \A n \in 1..(N + 1) : Admitted(new, n)
  <2>1. ASSUME NEW n \in 1..N PROVE Admitted(new, n)
    <3>1. Admitted(r, n) BY DEF RecordInv, N
    <3>2. n \in 1..(N + 1) BY <1>1
    <3> QED BY <1>8, <1>9, <1>10, <3>1, <3>2 DEF Admitted
  <2>2. Admitted(new, N + 1)
    <3>1. N + 1 \in 1..(N + 1) /\ r.state = StateBefore(r, N + 1) BY <1>1 DEF RecordInv, N
    <3> QED BY <1>3, <1>8, <1>9, <1>10, <3>1 DEF Admitted
  <2> QED BY <1>1, <2>1, <2>2
<1>14. r.relation \in Relation /\ r.ambiguous = p[1].ambiguous
       /\ r.initial \in {"REVIEW_ONLY", "PROPOSED"}
  BY DEF RecordInv
<1>15. RecordInv(p, new)
  BY <1>5, <1>8, <1>9, <1>11, <1>12, <1>13, <1>14 DEF RecordInv
<1>16. accepts => ~p[1].ambiguous /\ new.approval = [proposal |-> p, relation |-> r.relation]
  BY <1>3, <1>8, <1>14 DEF after
<1> QED BY <1>3, <1>8, <1>15, <1>16 DEF new

-----------------------------------------------------------------------------
(* Values.                                                                  *)

\* What the changes of a value make of it.
LEMMA ValueFields ==
  ASSUME NEW v, v = Holding(v.candidates, v.proposals, v.fields, v.relations)
  PROVE  /\ \A x, y : [v EXCEPT !.candidates = x, !.proposals = y]
                      = Holding(x, y, v.fields, v.relations)
         /\ \A x : [v EXCEPT !.proposals = x] = Holding(v.candidates, x, v.fields, v.relations)
         /\ \A x : [v EXCEPT !.fields = x] = Holding(v.candidates, v.proposals, x, v.relations)
         /\ \A x : [v EXCEPT !.relations = x] = Holding(v.candidates, v.proposals, v.fields, x)
<1>1. ASSUME NEW x, NEW y
      PROVE  [v EXCEPT !.candidates = x, !.proposals = y] = Holding(x, y, v.fields, v.relations)
  <2> DEFINE w == [v EXCEPT !.candidates = x, !.proposals = y]
  <2>1. w \in [candidates : {x}, proposals : {y},
               fields : {v.fields}, relations : {v.relations}]
    BY DEF Holding
  <2> HIDE DEF w
  <2>2. w = Holding(x, y, v.fields, v.relations) BY <2>1 DEF Holding
  <2> QED BY <2>2 DEF w
<1>2. ASSUME NEW x
      PROVE  [v EXCEPT !.proposals = x] = Holding(v.candidates, x, v.fields, v.relations)
  <2> DEFINE w == [v EXCEPT !.proposals = x]
  <2>1. w \in [candidates : {v.candidates}, proposals : {x},
               fields : {v.fields}, relations : {v.relations}]
    BY DEF Holding
  <2> HIDE DEF w
  <2>2. w = Holding(v.candidates, x, v.fields, v.relations) BY <2>1 DEF Holding
  <2> QED BY <2>2 DEF w
<1>3. ASSUME NEW x
      PROVE  [v EXCEPT !.fields = x] = Holding(v.candidates, v.proposals, x, v.relations)
  <2> DEFINE w == [v EXCEPT !.fields = x]
  <2>1. w \in [candidates : {v.candidates}, proposals : {v.proposals},
               fields : {x}, relations : {v.relations}]
    BY DEF Holding
  <2> HIDE DEF w
  <2>2. w = Holding(v.candidates, v.proposals, x, v.relations) BY <2>1 DEF Holding
  <2> QED BY <2>2 DEF w
<1>4. ASSUME NEW x
      PROVE  [v EXCEPT !.relations = x] = Holding(v.candidates, v.proposals, v.fields, x)
  <2> DEFINE w == [v EXCEPT !.relations = x]
  <2>1. w \in [candidates : {v.candidates}, proposals : {v.proposals},
               fields : {v.fields}, relations : {x}]
    BY DEF Holding
  <2> HIDE DEF w
  <2>2. w = Holding(v.candidates, v.proposals, v.fields, x) BY <2>1 DEF Holding
  <2> QED BY <2>2 DEF w
<1> QED BY <1>1, <1>2, <1>3, <1>4

\* The fields of a value that has been put together.
LEMMA HoldingFields ==
  ASSUME NEW a, NEW b, NEW c, NEW d, NEW v, v = Holding(a, b, c, d)
  PROVE  /\ v.candidates = a /\ v.proposals = b /\ v.fields = c /\ v.relations = d
         /\ v = Holding(v.candidates, v.proposals, v.fields, v.relations)
BY DEF Holding

\* Registering a candidate keeps the proposals there are.
LEMMA Registers ==
  ASSUME NEW v, ValueInv(v), NEW c \in Candidate, NEW relation \in Relation,
         MayRegister(v, c, relation)
  PROVE  LET w == Registered(v, c, relation) IN
         /\ ValueInv(w) /\ w.fields = v.fields /\ w.relations = v.relations
         /\ \A p \in DOMAIN v.proposals :
              p \in DOMAIN w.proposals /\ w.proposals[p] = v.proposals[p]
<1> DEFINE w == Registered(v, c, relation)
           all == DOMAIN v.proposals \cup ({c} \X c.fields)
           proposals == [p \in all |-> IF p \in DOMAIN v.proposals THEN v.proposals[p]
                                       ELSE NewRecord(c, relation)]
<1>1. w = Holding(v.candidates \cup {c}, proposals, v.fields, v.relations)
  <2>1. w = [v EXCEPT !.candidates = v.candidates \cup {c}, !.proposals = proposals]
    BY Zenon DEF Registered
  <2> HIDE DEF proposals, w
  <2> QED BY <2>1, ValueFields DEF ValueInv
<1>2. DOMAIN proposals = all /\ proposals = [p \in DOMAIN proposals |-> proposals[p]] OBVIOUS
<1>3. \A p \in DOMAIN v.proposals : proposals[p] = v.proposals[p] OBVIOUS
<1>4. \A p \in all \ DOMAIN v.proposals : proposals[p] = NewRecord(c, relation) OBVIOUS
<1> HIDE DEF proposals, w
<1>5. /\ w.candidates = v.candidates \cup {c} /\ w.proposals = proposals
      /\ w.fields = v.fields /\ w.relations = v.relations
      /\ w = Holding(w.candidates, w.proposals, w.fields, w.relations)
  BY <1>1, HoldingFields
<1>6. ASSUME NEW p \in all
      PROVE  p \in Proposal /\ p[1].outcome # "rejected" /\ RecordInv(p, proposals[p])
  <2>1. CASE p \in DOMAIN v.proposals BY <1>3, <2>1 DEF ValueInv
  <2>2. CASE p \notin DOMAIN v.proposals
    <3>1. PICK f \in c.fields : p = <<c, f>> BY <2>2
    <3>2. c.outcome # "rejected" BY <2>2, <3>1 DEF MayRegister
    <3>3. f \in Field BY ReviewAssumption
    <3>4. p \in Proposal /\ p[1] = c BY <3>1, <3>3 DEF Proposal
    <3>5. RecordInv(p, proposals[p]) BY <1>4, <2>2, <3>1, NewRecords
    <3> QED BY <3>2, <3>4, <3>5
  <2> QED BY <2>1, <2>2
<1>7. \A a, b \in w.candidates : a.id = b.id => a = b
  BY <1>5 DEF MayRegister, ValueInv
<1>8. ValueInv(w) BY <1>2, <1>5, <1>6, <1>7 DEF ValueInv
<1> QED BY <1>2, <1>3, <1>5, <1>8 DEF w

\* Feedback changes one record, and accepts only what is open and unambiguous.
LEMMA RecordsFeedback ==
  ASSUME NEW v, ValueInv(v), NEW u, ValueInv(u), NEW p \in DOMAIN u.proposals, NEW id,
         NEW decision \in Decision, NEW approval, MayRecord(v, Draft(u, p, id, decision), approval)
  PROVE  LET w == Recorded(v, Draft(u, p, id, decision), approval)  new == w.proposals[p] IN
         /\ ValueInv(w) /\ w.fields = v.fields /\ w.relations = v.relations
         /\ p \in DOMAIN v.proposals /\ v.proposals[p].state \notin Terminal
         /\ \A q \in DOMAIN v.proposals \ {p} : w.proposals[q] = v.proposals[q]
         /\ new.state = decision
         /\ decision = "ACCEPTED" =>
              /\ ~p[1].ambiguous /\ p[2] \notin v.fields /\ new.relation \notin v.relations
              /\ new.approval = [proposal |-> p, relation |-> new.relation]
<1> DEFINE e == Draft(u, p, id, decision)  s == u.proposals[p].feedback
           r == v.proposals[p]  new == WithFeedback(r, e, approval)
           w == Recorded(v, e, approval)
<1>1. SeenAs(e, p, s) /\ e.facts.proposal = p /\ e.facts.decision = decision
  <2>1. e = [facts |-> [id |-> id, proposal |-> p, decision |-> decision, sequence |-> Len(s) + 1,
                        previous |-> LastFacts(s)], seen |-> s]
    BY DEF Draft
  <2> HIDE DEF e, s
  <2>2. e.facts = [id |-> id, proposal |-> p, decision |-> decision, sequence |-> Len(s) + 1,
                   previous |-> LastFacts(s)]
        /\ e = [facts |-> e.facts, seen |-> s]
    BY <2>1
  <2>3. e.facts.id = id /\ e.facts.proposal = p /\ e.facts.decision = decision BY <2>2
  <2> QED BY <2>2, <2>3 DEF SeenAs
<1> HIDE DEF e
<1>2. p \in DOMAIN v.proposals /\ Appends(r, e, approval)
      /\ (decision = "ACCEPTED" => Unlocked(v, p[2], r.relation))
  BY <1>1 DEF MayRecord, e
<1>3. RecordInv(p, r) /\ p \in Proposal /\ p[1].outcome # "rejected" BY <1>2 DEF ValueInv
<1>4. Chain(p, s) BY DEF ValueInv, RecordInv
<1>5. /\ RecordInv(p, new) /\ new.relation = r.relation /\ new.state = decision
      /\ r.state \notin Terminal
      /\ decision = "ACCEPTED" => /\ ~p[1].ambiguous
                                  /\ new.approval = [proposal |-> p, relation |-> new.relation]
  <2> HIDE DEF r, s
  <2>1. /\ RecordInv(p, new) /\ new.relation = r.relation /\ new.state = e.facts.decision
        /\ r.state \notin Terminal
        /\ e.facts.decision = "ACCEPTED" =>
             ~p[1].ambiguous /\ new.approval = [proposal |-> p, relation |-> r.relation]
    BY <1>1, <1>2, <1>3, <1>4, RecordGrows
  <2> HIDE DEF new
  <2> QED BY <1>1, <2>1
<1> DEFINE proposals == [v.proposals EXCEPT ![p] = new]
<1>6. w = Holding(v.candidates, proposals, v.fields, v.relations)
  <2>1. w = [v EXCEPT !.proposals = proposals] BY <1>1, Zenon DEF Recorded
  <2> HIDE DEF proposals, w
  <2> QED BY <2>1, ValueFields DEF ValueInv
<1> HIDE DEF w, new, r
<1>7. /\ proposals = [q \in DOMAIN proposals |-> proposals[q]]
      /\ DOMAIN proposals = DOMAIN v.proposals /\ proposals[p] = new
      /\ \A q \in DOMAIN v.proposals \ {p} : proposals[q] = v.proposals[q]
  BY <1>2 DEF ValueInv
<1> HIDE DEF proposals
<1>8. /\ w.candidates = v.candidates /\ w.proposals = proposals
      /\ w.fields = v.fields /\ w.relations = v.relations
      /\ w = Holding(w.candidates, w.proposals, w.fields, w.relations)
  BY <1>6, HoldingFields
<1>9. ValueInv(w) BY <1>3, <1>5, <1>7, <1>8 DEF ValueInv
<1>10. decision = "ACCEPTED" => p[2] \notin v.fields /\ new.relation \notin v.relations
  BY <1>2, <1>5 DEF Unlocked, ValueInv
<1> QED BY <1>2, <1>5, <1>7, <1>8, <1>9, <1>10 DEF w, e, r

-----------------------------------------------------------------------------
(* Steps.                                                                   *)

\* What AcceptanceIsConfirmed says of two values, one made from the other.
Confirmed(v, w) ==
  \A p \in DOMAIN v.proposals \cap DOMAIN w.proposals :
    LET old == v.proposals[p]  new == w.proposals[p] IN
    /\ old.state \in Terminal => new = old
    /\ new.state = "ACCEPTED" /\ new # old =>
         /\ ~p[1].ambiguous /\ p[1].outcome # "rejected"
         /\ p[2] \notin w.fields /\ new.relation \notin w.relations
         /\ new.approval = [proposal |-> p, relation |-> new.relation]

\* Feedback, on the value at hand or on one that was just registered.
LEMMA FeedbackConfirms ==
  ASSUME ReviewInv, NEW v, ValueInv(v), NEW event \in Drafts, NEW approval,
         MayRecord(v, event, approval)
  PROVE  /\ ValueInv(Recorded(v, event, approval))
         /\ Confirmed(v, Recorded(v, event, approval))
<1> DEFINE w == Recorded(v, event, approval)
<1>1. PICK u \in {lifecycle, kept} :
        \E p \in DOMAIN u.proposals, id \in FeedbackId, decision \in Decision :
          event = Draft(u, p, id, decision)
  BY DEF Drafts
<1>2. PICK p \in DOMAIN u.proposals, id \in FeedbackId, decision \in Decision :
        event = Draft(u, p, id, decision)
  BY <1>1
<1>3. ValueInv(u) BY DEF ReviewInv
<1>4. /\ ValueInv(w) /\ w.fields = v.fields /\ w.relations = v.relations
      /\ p \in DOMAIN v.proposals /\ v.proposals[p].state \notin Terminal
      /\ \A q \in DOMAIN v.proposals \ {p} : w.proposals[q] = v.proposals[q]
      /\ w.proposals[p].state = decision
      /\ decision = "ACCEPTED" =>
           /\ ~p[1].ambiguous /\ p[2] \notin v.fields /\ w.proposals[p].relation \notin v.relations
           /\ w.proposals[p].approval = [proposal |-> p, relation |-> w.proposals[p].relation]
  BY <1>2, <1>3, RecordsFeedback
<1>5. p[1].outcome # "rejected" BY <1>4 DEF ValueInv
<1> HIDE DEF w
<1>6. Confirmed(v, w) BY <1>4, <1>5 DEF Confirmed
<1> QED BY <1>4, <1>6 DEF w

\* propose, with and without feedback.
LEMMA ProposeConfirms ==
  ASSUME ReviewInv, NEW c \in Candidate, NEW relation \in Relation, Propose(c, relation)
  PROVE  ValueInv(lifecycle') /\ Confirmed(lifecycle, lifecycle')
<1> DEFINE registered == Registered(lifecycle, c, relation)
<1>1. /\ ValueInv(registered)
      /\ registered.fields = lifecycle.fields /\ registered.relations = lifecycle.relations
      /\ \A p \in DOMAIN lifecycle.proposals :
           p \in DOMAIN registered.proposals /\ registered.proposals[p] = lifecycle.proposals[p]
  BY Registers DEF Propose, ReviewInv
<1>2. CASE lifecycle' = registered
  BY <1>1, <1>2 DEF Confirmed
<1>3. ASSUME NEW event \in Drafts, MayRecord(registered, event, NoApproval),
             lifecycle' = Recorded(registered, event, NoApproval)
      PROVE  ValueInv(lifecycle') /\ Confirmed(lifecycle, lifecycle')
  <2> HIDE DEF registered
  <2>1. ValueInv(lifecycle') /\ Confirmed(registered, lifecycle') BY <1>1, <1>3, FeedbackConfirms
  <2> QED BY <1>1, <2>1 DEF Confirmed
<1> QED BY <1>2, <1>3 DEF Propose

\* Locks change no record.
LEMMA LocksConfirm ==
  ASSUME ReviewInv, ChangeLocks
  PROVE  /\ ValueInv(lifecycle') /\ Confirmed(lifecycle, lifecycle')
         /\ lockChanges' \in 0..MaxLockChanges
<1> DEFINE v == lifecycle
<1>1. ValueInv(v) /\ v = Holding(v.candidates, v.proposals, v.fields, v.relations)
  BY DEF ReviewInv, ValueInv
<1>2. lockChanges' \in 0..MaxLockChanges BY ReviewAssumption DEF ReviewInv, ChangeLocks
<1>3. ASSUME NEW x \in SUBSET Field, lifecycle' = [lifecycle EXCEPT !.fields = x]
      PROVE  ValueInv(lifecycle') /\ Confirmed(lifecycle, lifecycle')
  <2>1. lifecycle' = Holding(v.candidates, v.proposals, x, v.relations) BY <1>1, <1>3, ValueFields
  <2>2. /\ lifecycle'.candidates = v.candidates /\ lifecycle'.proposals = v.proposals
        /\ lifecycle'.fields = x /\ lifecycle'.relations = v.relations
        /\ lifecycle' = Holding(lifecycle'.candidates, lifecycle'.proposals, lifecycle'.fields,
                                lifecycle'.relations)
    BY <2>1, HoldingFields
  <2>3. ValueInv(lifecycle') BY <1>1, <2>2 DEF ValueInv
  <2> QED BY <2>2, <2>3 DEF Confirmed
<1>4. ASSUME NEW x \in SUBSET (Relation \ {NoRelation}),
             lifecycle' = [lifecycle EXCEPT !.relations = x]
      PROVE  ValueInv(lifecycle') /\ Confirmed(lifecycle, lifecycle')
  <2>1. lifecycle' = Holding(v.candidates, v.proposals, v.fields, x) BY <1>1, <1>4, ValueFields
  <2>2. /\ lifecycle'.candidates = v.candidates /\ lifecycle'.proposals = v.proposals
        /\ lifecycle'.fields = v.fields /\ lifecycle'.relations = x
        /\ lifecycle' = Holding(lifecycle'.candidates, lifecycle'.proposals, lifecycle'.fields,
                                lifecycle'.relations)
    BY <2>1, HoldingFields
  <2>3. ValueInv(lifecycle') BY <1>1, <2>2 DEF ValueInv
  <2> QED BY <2>2, <2>3 DEF Confirmed
<1>5. v.fields \subseteq Field /\ v.relations \subseteq Relation \ {NoRelation} BY <1>1 DEF ValueInv
<1>6. CASE \E f \in Field : \/ lifecycle' = [lifecycle EXCEPT !.fields = @ \cup {f}]
                            \/ lifecycle' = [lifecycle EXCEPT !.fields = @ \ {f}]
  <2>1. PICK f \in Field : \/ lifecycle' = [lifecycle EXCEPT !.fields = v.fields \cup {f}]
                           \/ lifecycle' = [lifecycle EXCEPT !.fields = v.fields \ {f}]
    BY <1>6
  <2>2. v.fields \cup {f} \in SUBSET Field /\ v.fields \ {f} \in SUBSET Field BY <1>5
  <2> QED BY <1>2, <1>3, <2>1, <2>2
<1>7. CASE \E r \in Relation \ {NoRelation} :
             \/ lifecycle' = [lifecycle EXCEPT !.relations = @ \cup {r}]
             \/ lifecycle' = [lifecycle EXCEPT !.relations = @ \ {r}]
  <2>1. PICK r \in Relation \ {NoRelation} :
             \/ lifecycle' = [lifecycle EXCEPT !.relations = v.relations \cup {r}]
             \/ lifecycle' = [lifecycle EXCEPT !.relations = v.relations \ {r}]
    BY <1>7
  <2>2. /\ v.relations \cup {r} \in SUBSET (Relation \ {NoRelation})
        /\ v.relations \ {r} \in SUBSET (Relation \ {NoRelation})
    BY <1>5
  <2> QED BY <1>2, <1>4, <2>1, <2>2
<1> QED BY <1>2, <1>6, <1>7 DEF ChangeLocks

\* Every step keeps the invariant, and what it makes of the value at hand is confirmed.
LEMMA ReviewContinues ==
  ASSUME ReviewInv, [ReviewNext]_reviewVars
  PROVE  ReviewInv' /\ (lifecycle' = kept \/ Confirmed(lifecycle, lifecycle'))
<1>0. ValueInv(lifecycle) /\ ValueInv(kept) /\ lockChanges \in 0..MaxLockChanges BY DEF ReviewInv
<1>1. ASSUME NEW c \in Candidate, NEW relation \in Relation, Propose(c, relation)
      PROVE  ReviewInv' /\ Confirmed(lifecycle, lifecycle')
  <2>1. UNCHANGED <<kept, lockChanges>> BY <1>1 DEF Propose
  <2> QED BY <1>0, <1>1, <2>1, ProposeConfirms DEF ReviewInv
<1>2. ASSUME NEW event \in Drafts, NEW approval \in Approvals, Record(event, approval)
      PROVE  ReviewInv' /\ Confirmed(lifecycle, lifecycle')
  <2>1. UNCHANGED <<kept, lockChanges>> BY <1>2 DEF Record
  <2>2. MayRecord(lifecycle, event, approval) /\ lifecycle' = Recorded(lifecycle, event, approval)
    BY <1>2 DEF Record
  <2> QED BY <1>0, <2>1, <2>2, FeedbackConfirms DEF ReviewInv
<1>3. CASE ChangeLocks
  <2>1. UNCHANGED kept BY <1>3 DEF ChangeLocks
  <2> QED BY <1>0, <1>3, <2>1, LocksConfirm DEF ReviewInv
<1>4. CASE Keep BY <1>0, <1>4 DEF Keep, ReviewInv, Confirmed
<1>5. CASE GoOn BY <1>0, <1>5 DEF GoOn, ReviewInv
<1>6. CASE UNCHANGED reviewVars BY <1>0, <1>6 DEF reviewVars, ReviewInv, Confirmed
<1> QED BY <1>1, <1>2, <1>3, <1>4, <1>5, <1>6 DEF ReviewNext

\* The first value.
LEMMA ReviewStarts == ReviewInit => ReviewInv
<1> SUFFICES ASSUME ReviewInit PROVE ReviewInv OBVIOUS
<1> DEFINE v == EmptyLifecycle
<1>1. v = Holding({}, <<>>, {}, {}) BY DEF EmptyLifecycle, Holding
<1> HIDE DEF v
<1>2. /\ v.candidates = {} /\ v.proposals = <<>> /\ v.fields = {} /\ v.relations = {}
      /\ v = Holding(v.candidates, v.proposals, v.fields, v.relations)
  BY <1>1, HoldingFields
<1>3. DOMAIN v.proposals = {} /\ v.proposals = [p \in DOMAIN v.proposals |-> v.proposals[p]]
  BY <1>2
<1>4. ValueInv(v) BY <1>2, <1>3 DEF ValueInv
<1> QED BY <1>4, ReviewAssumption DEF ReviewInit, ReviewInv, v

-----------------------------------------------------------------------------
(* The types, in every reachable state.                                     *)
THEOREM ReviewTyped == ReviewSpec => []ReviewTypeOK
<1>1. ReviewInv => ReviewTypeOK
  <2> SUFFICES ASSUME ReviewInv PROVE ReviewTypeOK OBVIOUS
  <2>1. ASSUME NEW v, ValueInv(v), NEW p \in DOMAIN v.proposals
        PROVE  /\ v.proposals[p].state \in Decision \cup {"PROPOSED"}
               /\ v.proposals[p].relation \in Relation
    <3> DEFINE r == v.proposals[p]  N == Len(r.feedback)
    <3>1. RecordInv(p, r) BY <2>1 DEF ValueInv
    <3>2. N \in Nat BY <3>1, ListLength DEF RecordInv, Chain, List
    <3>3. N > 0 => r.feedback[N].facts.decision \in Decision
      <4>1. N > 0 => N \in 1..N BY <3>2
      <4> QED BY <3>1, <4>1 DEF RecordInv, Chain, Link
    <3>4. r.state = IF N + 1 = 1 THEN r.initial ELSE r.feedback[N].facts.decision
      BY <3>1, <3>2 DEF RecordInv, StateBefore
    <3>5. r.initial \in Decision \cup {"PROPOSED"} /\ r.relation \in Relation
      BY <3>1 DEF RecordInv, Decision
    <3> QED BY <3>2, <3>3, <3>4, <3>5
  <2>2. ASSUME NEW v \in {lifecycle, kept} PROVE ValueInv(v) BY DEF ReviewInv
  <2> QED BY <2>1, <2>2 DEF ReviewTypeOK, ReviewInv, ValueInv
<1>2. ReviewInv /\ [ReviewNext]_reviewVars => ReviewInv' BY ReviewContinues
<1> QED BY <1>1, <1>2, ReviewStarts, PTL DEF ReviewSpec

(* However old a draft is and whichever value a caller went on from: every  *)
(* event of a chain was written by someone who saw the events before it,    *)
(* and the chain alone makes the record again.                              *)
THEOREM ChainsSeen == ReviewSpec => []ChainsAreWhatWasSeen
<1>1. ReviewInv => ChainsAreWhatWasSeen
  <2> SUFFICES ASSUME ReviewInv, NEW p \in DOMAIN lifecycle.proposals
               PROVE  LET record == lifecycle.proposals[p] IN
                      /\ Replayed(record) = [ok |-> TRUE, record |-> record]
                      /\ \A k \in DOMAIN record.feedback :
                           record.feedback[k].seen = SubSeq(record.feedback, 1, k - 1)
    BY DEF ChainsAreWhatWasSeen
  <2> DEFINE record == lifecycle.proposals[p]
  <2>1. RecordInv(p, record) BY DEF ReviewInv, ValueInv
  <2> HIDE DEF record
  <2>2. Replayed(record) = [ok |-> TRUE, record |-> record] BY <2>1, ReplaysToItself DEF Fine
  <2>3. DOMAIN record.feedback = 1..Len(record.feedback)
    BY <2>1, ListLength DEF RecordInv, Chain, List
  <2>4. \A k \in DOMAIN record.feedback :
          record.feedback[k].seen = SubSeq(record.feedback, 1, k - 1)
    BY <2>1, <2>3 DEF RecordInv, Chain, Link
  <2> QED BY <2>2, <2>4 DEF record
<1>2. ReviewInv /\ [ReviewNext]_reviewVars => ReviewInv' BY ReviewContinues
<1> QED BY <1>1, <1>2, ReviewStarts, PTL DEF ReviewSpec

(* A proposal that becomes accepted is open, unambiguous and approved under *)
(* its own relation at that moment; what is rejected stays so.              *)
THEOREM AcceptanceConfirmed == ReviewSpec => AcceptanceIsConfirmed
<1> DEFINE Accepting ==
      \A p \in DOMAIN lifecycle.proposals \cap DOMAIN lifecycle'.proposals :
        LET old == lifecycle.proposals[p]  new == lifecycle'.proposals[p] IN
        lifecycle' # kept =>
          /\ old.state \in Terminal => new = old
          /\ new.state = "ACCEPTED" /\ new # old =>
               /\ ~p[1].ambiguous /\ p[1].outcome # "rejected"
               /\ p[2] \notin lifecycle'.fields /\ new.relation \notin lifecycle'.relations
               /\ new.approval = [proposal |-> p, relation |-> new.relation]
<1>1. ReviewInv /\ [ReviewNext]_reviewVars => [Accepting]_reviewVars
  BY ReviewContinues DEF Confirmed
<1>2. ReviewInv /\ [ReviewNext]_reviewVars => ReviewInv' BY ReviewContinues
<1> HIDE DEF Accepting
<1>3. ReviewSpec => [][Accepting]_reviewVars BY <1>1, <1>2, ReviewStarts, PTL DEF ReviewSpec
<1> QED BY <1>3 DEF AcceptanceIsConfirmed, Accepting

-----------------------------------------------------------------------------
(* The restore drill.                                                       *)

\* The steps of the try block, and those after the names have been claimed.
ClaimedStep == {"extract", "create network", "network", "identify", "create container",
                "container", "probe"}
AfterStep == {"finally", "outer", "write", "exit"}
TryStep == {"mkdtemp", "root", "verify", "preflight"} \cup ClaimedStep

\* Left behind: of the drill, and excused.
Excused(o) == world[o] = "ours" => o \in late

\* Where main is.
FlowInv ==
  /\ at \in TryStep /\ cleaning.caller = "nobody" => region = "try"
  /\ cleaning.caller = "run" => region = "try"
  /\ at \in AfterStep \/ cleaning.caller = "finally" => region = "finally"
  /\ at \in ClaimedStep /\ cleaning.caller = "nobody" => known.names = Object
  /\ at = "exit" => cleaning.caller = "nobody"
  /\ Running("root") => "root" \in creating

\* What is claimed no more, or was never, is excused; mkdtemp has not told its name yet.
ClaimInv ==
  \A o \in Object \ known.names : Excused(o) \/ (o = "root" /\ Running("root"))

\* What a clean-up has found absent is excused when it comes back.
CleanInv ==
  cleaning.caller # "nobody" =>
    /\ \A o \in cleaning.absent : Excused(o)
    /\ cleaning.step = "data" => cleaning.absent = Named
    /\ cleaning.step = "end" /\ cleaning.ok => ~Claimed

\* In the try block every run so far has passed and cleaned up.
RunInv == region = "try" => drill.verified /\ drill.passed = drillRun - 1

PassInv ==
  drill.status = "passed" =>
    /\ drill.passed = Repeat /\ ~Claimed
    /\ region = "finally" /\ cleaning.caller \in {"nobody", "handler"}
    /\ drill.verified \/ at = "exit"

ReceiptInv ==
  /\ at = "write" /\ drill.verified => \A o \in Object : Excused(o)
  /\ receipt.verified => at = "exit" /\ \A o \in Object : Excused(o)
  /\ receipt.status = "passed" => receipt.verified /\ receipt.passed = Repeat

OutsidersInv == \A o \in outsiders : world[o] = "foreign"

DrillInv ==
  DrillTypeOK /\ FlowInv /\ ClaimInv /\ CleanInv /\ RunInv /\ PassInv /\ ReceiptInv /\ OutsidersInv

-----------------------------------------------------------------------------
(* The labels and records of the model, so that no proof has to enumerate   *)
(* them again.                                                              *)

LEMMA Labels ==
  /\ "mkdtemp" \in Step /\ "root" \in Step /\ "verify" \in Step /\ "preflight" \in Step
  /\ "extract" \in Step /\ "create network" \in Step /\ "network" \in Step
  /\ "identify" \in Step /\ "create container" \in Step /\ "container" \in Step
  /\ "probe" \in Step /\ "cleanup" \in Step /\ "finally" \in Step /\ "outer" \in Step
  /\ "write" \in Step /\ "exit" \in Step
  /\ "mkdtemp" \in TryStep /\ "root" \in TryStep /\ "verify" \in TryStep
  /\ "preflight" \in TryStep /\ "extract" \in TryStep /\ "create network" \in TryStep
  /\ "network" \in TryStep /\ "identify" \in TryStep /\ "create container" \in TryStep
  /\ "container" \in TryStep /\ "probe" \in TryStep
  /\ "cleanup" \notin TryStep /\ "finally" \notin TryStep /\ "outer" \notin TryStep
  /\ "write" \notin TryStep /\ "exit" \notin TryStep
  /\ "extract" \in ClaimedStep /\ "create network" \in ClaimedStep
  /\ "network" \in ClaimedStep /\ "identify" \in ClaimedStep
  /\ "create container" \in ClaimedStep /\ "container" \in ClaimedStep
  /\ "probe" \in ClaimedStep
  /\ "mkdtemp" \notin ClaimedStep /\ "root" \notin ClaimedStep
  /\ "verify" \notin ClaimedStep /\ "preflight" \notin ClaimedStep
  /\ "cleanup" \notin ClaimedStep /\ "finally" \notin ClaimedStep
  /\ "outer" \notin ClaimedStep /\ "write" \notin ClaimedStep /\ "exit" \notin ClaimedStep
  /\ "finally" \in AfterStep /\ "outer" \in AfterStep /\ "write" \in AfterStep
  /\ "exit" \in AfterStep /\ "cleanup" \notin AfterStep
  /\ \A step \in TryStep : step \notin AfterStep
BY DEF Step, TryStep, ClaimedStep, AfterStep

\* The objects: two with names and ids, the data and the root directory.
LEMMA Objects ==
  /\ Named \subseteq Object /\ "network" \in Named /\ "container" \in Named
  /\ "data" \in Object /\ "root" \in Object /\ "data" \notin Named /\ "root" \notin Named
  /\ Object = Named \cup {"data", "root"} /\ "data" # "root"
BY DEF Object, Named

\* CleanUp and NoCleaning.
LEMMA CleanUps ==
  /\ CleanUp("run") \in Cleaning /\ CleanUp("run").caller = "run"
  /\ CleanUp("except") \in Cleaning /\ CleanUp("except").caller = "except"
  /\ CleanUp("finally") \in Cleaning /\ CleanUp("finally").caller = "finally"
  /\ CleanUp("handler") \in Cleaning /\ CleanUp("handler").caller = "handler"
  /\ CleanUp("run").step = "inspect" /\ CleanUp("run").absent = Named \ known.names
  /\ CleanUp("except").step = "inspect" /\ CleanUp("except").absent = Named \ known.names
  /\ CleanUp("finally").step = "inspect" /\ CleanUp("finally").absent = Named \ known.names
  /\ CleanUp("handler").step = "inspect" /\ CleanUp("handler").absent = Named \ known.names
  /\ NoCleaning \in Cleaning /\ NoCleaning.caller = "nobody"
<1>1. ASSUME NEW caller \in {"run", "except", "finally", "handler"}
      PROVE  CleanUp(caller) \in Cleaning
  BY DEF CleanUp, Cleaning
<1>2. ASSUME NEW caller
      PROVE  /\ CleanUp(caller).caller = caller /\ CleanUp(caller).step = "inspect"
             /\ CleanUp(caller).absent = Named \ known.names
  BY DEF CleanUp
<1>3. NoCleaning \in Cleaning /\ NoCleaning.caller = "nobody" BY DEF NoCleaning, Cleaning
<1> QED BY <1>1, <1>2, <1>3

\* The changes of a clean-up: to another step, one more object found absent, given up.
LEMMA CleanChanges ==
  ASSUME NEW c \in Cleaning
  PROVE  /\ \A step \in {"inspect", "remove", "verify", "data", "end"} :
              /\ [c EXCEPT !.step = step] \in Cleaning
              /\ [c EXCEPT !.step = step].caller = c.caller
              /\ [c EXCEPT !.step = step].ok = c.ok
              /\ [c EXCEPT !.step = step].absent = c.absent
              /\ [c EXCEPT !.step = step].step = step
         /\ [c EXCEPT !.ok = FALSE, !.step = "end"] \in Cleaning
         /\ [c EXCEPT !.ok = FALSE, !.step = "end"].caller = c.caller
         /\ [c EXCEPT !.ok = FALSE, !.step = "end"].absent = c.absent
         /\ ~[c EXCEPT !.ok = FALSE, !.step = "end"].ok
         /\ [c EXCEPT !.ok = FALSE, !.step = "end"].step = "end"
BY DEF Cleaning

\* A clean-up that has failed unverifies the drill, one that succeeds leaves it.
LEMMA Unverifies ==
  ASSUME drill \in Result, cleaning \in Cleaning, Unverified
  PROVE  /\ drill' \in Result /\ drill'.status = drill.status /\ drill'.passed = drill.passed
         /\ drill'.verified => drill.verified /\ cleaning.ok
<1>1. drill' \in Result BY DEF Unverified, Result, Cleaning
<1>2. drill'.status = drill.status /\ drill'.passed = drill.passed
      /\ (drill'.verified => drill.verified /\ cleaning.ok)
  BY DEF Unverified, Result
<1> QED BY <1>1, <1>2

\* What a step of a clean-up leaves of it.
CleaningGoes ==
  /\ cleaning' \in Cleaning /\ cleaning'.caller = cleaning.caller
  /\ cleaning'.step = "data" => cleaning'.absent = Named

\* Gone and NotGone, the two ways an object's part of a clean-up ends.
LEMMA Goes ==
  ASSUME cleaning \in Cleaning, Target \in Named
  PROVE  /\ Gone => CleaningGoes /\ cleaning'.absent = cleaning.absent \cup {Target}
                    /\ cleaning'.step # "end"
         /\ NotGone => CleaningGoes /\ cleaning'.absent = cleaning.absent
                       /\ cleaning'.step = "end" /\ ~cleaning'.ok
<1>1. ASSUME Gone
      PROVE  CleaningGoes /\ cleaning'.absent = cleaning.absent \cup {Target}
             /\ cleaning'.step # "end"
  <2> DEFINE absent == cleaning.absent \cup {Target}
             step == IF absent = Named THEN "data" ELSE "inspect"
  <2>1. absent \in SUBSET Named BY DEF Cleaning
  <2>2. cleaning' = [cleaning EXCEPT !.absent = absent, !.step = step] BY <1>1 DEF Gone
  <2>3. step \in {"inspect", "data"} /\ (step = "data" => absent = Named) OBVIOUS
  <2>4. cleaning' \in Cleaning /\ cleaning'.caller = cleaning.caller
        /\ cleaning'.absent = absent /\ cleaning'.step = step
    <3> HIDE DEF absent, step
    <3> QED BY <2>1, <2>2, <2>3 DEF Cleaning
  <2> QED BY <2>3, <2>4 DEF CleaningGoes
<1>2. ASSUME NotGone
      PROVE  CleaningGoes /\ cleaning'.absent = cleaning.absent
             /\ cleaning'.step = "end" /\ ~cleaning'.ok
  BY <1>2, CleanChanges DEF NotGone, CleaningGoes
<1> QED BY <1>1, <1>2

-----------------------------------------------------------------------------
(* The steps inside a clean-up, all that the invariants need of them.       *)

Cleaner == InspectObject \/ RemoveObject \/ VerifyGone \/ RemoveData

\* RemoveData drops every name but the root's.
Unclaim ==
  /\ cleaning.step = "data" /\ ~Claimed'
  /\ known' = [names |-> known.names \cap {"root"}, ids |-> {}]
  /\ "data" \in known.names => world'["data"] = "none"

\* A step of a clean-up removes nothing of others, and notes as absent what is not the drill's.
LEMMA CleanerDoes ==
  ASSUME DrillTypeOK, Cleaner
  PROVE  /\ cleaning.caller # "nobody" /\ CleaningGoes
         /\ UNCHANGED <<at, region, creating, drillRun, drill, receipt, late, signals, outsiders>>
         /\ UNCHANGED drillFaults \/ Fault
         /\ world' \in [Object -> {"none", "ours", "foreign"}]
         /\ \A o \in Object : world'[o] = "ours" => world[o] = "ours"
         /\ \A o \in Named : world[o] = "foreign" => world'[o] = "foreign"
         /\ \A o \in cleaning'.absent : o \in cleaning.absent \/ world'[o] # "ours"
         /\ known' = known \/ Unclaim
         /\ cleaning'.step = "end" /\ cleaning'.ok => ~Claimed'
<1>0. cleaning \in Cleaning /\ world \in [Object -> {"none", "ours", "foreign"}]
  BY DEF DrillTypeOK
<1>1. Target \in Named BY Objects DEF Target
<1>2. UNCHANGED <<at, region, creating, drillRun, drill, receipt, late, signals, outsiders>>
  BY DEF Cleaner, InspectObject, RemoveObject, VerifyGone, RemoveData, OutsideCounters
<1>3. CASE InspectObject
  <2>1. cleaning.caller # "nobody" /\ UNCHANGED <<world, known>> /\ (UNCHANGED drillFaults \/ Fault)
    BY <1>3 DEF InspectObject, CleanStep
  <2>2. CASE cleaning.absent = Named /\ cleaning' = [cleaning EXCEPT !.step = "data"]
    BY <1>0, <1>2, <2>1, <2>2, CleanChanges DEF CleaningGoes
  <2>3. CASE cleaning' = [cleaning EXCEPT !.step = "remove"]
    BY <1>0, <1>2, <2>1, <2>3, CleanChanges DEF CleaningGoes
  <2>4. CASE ~Exists(Target) /\ Gone
    <3>1. world'[Target] # "ours" BY <2>1, <2>4 DEF Exists
    <3> QED BY <1>0, <1>1, <1>2, <2>1, <2>4, <3>1, Goes
  <2>5. CASE NotGone BY <1>0, <1>1, <1>2, <2>1, <2>5, Goes
  <2> QED BY <1>3, <2>2, <2>3, <2>4, <2>5 DEF InspectObject
<1>4. CASE RemoveObject
  <2>1. cleaning.caller # "nobody" /\ UNCHANGED known /\ (UNCHANGED drillFaults \/ Fault)
    BY <1>4 DEF RemoveObject, CleanStep
  <2>2. CASE /\ world' = [world EXCEPT ![Target] = IF @ = "ours" THEN "none" ELSE @]
             /\ cleaning' = [cleaning EXCEPT !.step = "verify"]
    <3>1. CleaningGoes /\ cleaning'.absent = cleaning.absent /\ cleaning'.step = "verify"
      BY <1>0, <2>2, CleanChanges DEF CleaningGoes
    <3>2. world' \in [Object -> {"none", "ours", "foreign"}]
          /\ (\A o \in Object : world'[o] = "ours" => world[o] = "ours")
          /\ \A o \in Named : world[o] = "foreign" => world'[o] = "foreign"
      BY <1>0, <1>1, <2>2, Objects
    <3> QED BY <1>2, <2>1, <3>1, <3>2
  <2>3. CASE NotGone /\ UNCHANGED world BY <1>0, <1>1, <1>2, <2>1, <2>3, Goes
  <2> QED BY <1>4, <2>2, <2>3 DEF RemoveObject
<1>5. CASE VerifyGone
  <2>1. cleaning.caller # "nobody" /\ UNCHANGED <<world, known>> /\ (UNCHANGED drillFaults \/ Fault)
    BY <1>5 DEF VerifyGone, CleanStep
  <2>2. CASE ~Exists(Target) /\ Gone
    <3>1. world'[Target] # "ours" BY <2>1, <2>2 DEF Exists
    <3> QED BY <1>0, <1>1, <1>2, <2>1, <2>2, <3>1, Goes
  <2>3. CASE NotGone BY <1>0, <1>1, <1>2, <2>1, <2>3, Goes
  <2> QED BY <1>5, <2>2, <2>3 DEF VerifyGone
<1>6. CASE RemoveData
  <2>1. cleaning.caller # "nobody" /\ cleaning.step = "data" /\ (UNCHANGED drillFaults \/ Fault)
    BY <1>6 DEF RemoveData, CleanStep
  <2>2. CASE /\ world' = IF "data" \in known.names THEN [world EXCEPT !["data"] = "none"] ELSE world
             /\ cleaning' = [cleaning EXCEPT !.step = "end"]
             /\ known' = [names |-> known.names \cap {"root"}, ids |-> {}]
    <3>1. CleaningGoes /\ cleaning'.absent = cleaning.absent /\ cleaning'.step = "end"
      BY <1>0, <2>2, CleanChanges DEF CleaningGoes
    <3>2. world' \in [Object -> {"none", "ours", "foreign"}]
          /\ (\A o \in Object : world'[o] = "ours" => world[o] = "ours")
          /\ \A o \in Named : world[o] = "foreign" => world'[o] = "foreign"
      BY <1>0, <2>2, Objects
    <3>3. Unclaim BY <1>0, <2>1, <2>2, Objects DEF Unclaim, Claimed
    <3> QED BY <1>2, <2>1, <3>1, <3>2, <3>3 DEF Unclaim
  <2>3. CASE NotGone /\ UNCHANGED <<world, known>> BY <1>0, <1>1, <1>2, <2>1, <2>3, Goes
  <2> QED BY <1>6, <2>2, <2>3 DEF RemoveData
<1> QED BY <1>3, <1>4, <1>5, <1>6 DEF Cleaner

-----------------------------------------------------------------------------
(* The ends of a clean-up.                                                  *)

\* A run that has passed counts only when its clean-up was complete.
LEMMA EndOfRunDoes ==
  ASSUME DrillTypeOK, EndOfRun, drill.passed = drillRun - 1
  PROVE  /\ cleaning.caller = "run" /\ cleaning.step = "end"
         /\ UNCHANGED <<world, known, creating, receipt, drillFaults, late, outsiders, signals>>
         /\ drill' \in Result
         /\ \/ /\ cleaning.ok /\ cleaning' = NoCleaning /\ drillRun < Repeat
               /\ at' = "preflight" /\ region' = region /\ drillRun' = drillRun + 1
               /\ drill'.passed = drill.passed + 1 /\ drill'.status = drill.status
               /\ drill.verified => drill'.verified
            \/ /\ cleaning.ok /\ cleaning' = NoCleaning /\ drillRun = Repeat
               /\ at' = "finally" /\ region' = "finally" /\ drillRun' = drillRun
               /\ drill'.passed = drill.passed + 1 /\ drill'.status = "passed"
               /\ drill.verified => drill'.verified
            \/ /\ cleaning' = CleanUp("except") /\ region' = "except" /\ at' = at
               /\ drillRun' = drillRun /\ drill'.status = drill.status
<1>1. /\ cleaning.caller = "run" /\ cleaning.step = "end"
      /\ UNCHANGED <<world, known, creating, receipt, drillFaults, late, outsiders, signals>>
  BY DEF EndOfRun, CleanStep, OutsideCounters
<1>2. drill \in Result /\ cleaning \in Cleaning /\ drillRun \in 1..Repeat BY DEF DrillTypeOK
<1>3. drill.passed + 1 \in 0..Repeat BY <1>2, DrillAssumption
<1>4. CASE cleaning.ok /\ drillRun < Repeat
  <2>1. drill' = [drill EXCEPT !.passed = @ + 1] /\ cleaning' = NoCleaning /\ at' = "preflight"
        /\ region' = region /\ drillRun' = drillRun + 1
    BY <1>4 DEF EndOfRun
  <2>2. drill' \in Result BY <1>2, <1>3, <2>1 DEF Result
  <2>3. drill'.passed = drill.passed + 1 /\ drill'.status = drill.status
        /\ (drill.verified => drill'.verified)
    BY <1>2, <2>1 DEF Result
  <2> QED BY <1>1, <1>4, <2>1, <2>2, <2>3
<1>5. CASE cleaning.ok /\ ~(drillRun < Repeat)
  <2>1. drill' = [drill EXCEPT !.passed = @ + 1, !.status = "passed"] /\ cleaning' = NoCleaning
        /\ at' = "finally" /\ region' = "finally" /\ drillRun' = drillRun
    BY <1>5 DEF EndOfRun
  <2>2. drill' \in Result BY <1>2, <1>3, <2>1 DEF Result
  <2>3. drill'.passed = drill.passed + 1 /\ drill'.status = "passed"
        /\ (drill.verified => drill'.verified)
    BY <1>2, <2>1 DEF Result
  <2>4. drillRun = Repeat BY <1>2, <1>5, DrillAssumption
  <2> QED BY <1>1, <1>5, <2>1, <2>2, <2>3, <2>4
<1>6. CASE ~cleaning.ok
  <2>1. Unverified /\ Raise /\ UNCHANGED <<at, drillRun>> BY <1>6 DEF EndOfRun
  <2>2. drill' \in Result /\ drill'.status = drill.status BY <1>2, <2>1, Unverifies
  <2> QED BY <1>1, <2>1, <2>2 DEF Raise
<1> QED BY <1>4, <1>5, <1>6

\* The other ends touch no object and pass no drill.
LEMMA EndDoes ==
  ASSUME DrillTypeOK, EndOfExcept \/ EndOfFinally \/ EndOfHandler
  PROVE  /\ cleaning.caller # "nobody" /\ cleaning' = NoCleaning /\ at' # "write"
         /\ UNCHANGED <<world, known, creating, drillRun, receipt, drillFaults, late, outsiders,
                        signals>>
         /\ drill' \in Result /\ drill'.status = drill.status /\ drill'.passed = drill.passed
         /\ drill'.verified => drill.verified
<1>1. drill \in Result /\ cleaning \in Cleaning BY DEF DrillTypeOK
<1>2. Unverified BY DEF EndOfExcept, EndOfFinally, EndOfHandler
<1>3. /\ cleaning.caller # "nobody" /\ cleaning' = NoCleaning /\ at' # "write"
      /\ UNCHANGED <<world, known, creating, drillRun, receipt, drillFaults, late, outsiders,
                     signals>>
  BY DEF EndOfExcept, EndOfFinally, EndOfHandler, CleanStep, OutsideCounters
<1> QED BY <1>1, <1>2, <1>3, Unverifies

\* Where main is: only Raise and a signal leave the try block, and names are dropped only by
\* a clean-up.
LEMMA Flow ==
  ASSUME DrillTypeOK, FlowInv, [DrillNext]_drillVars
  PROVE  FlowInv'
<1> USE DEF FlowInv, Running
<1>1. CASE MakeRoot BY Labels, CleanUps, <1>1 DEF MakeRoot, Proceed
<1>2. CASE KnowRoot BY Labels, CleanUps, <1>2 DEF KnowRoot, Proceed
<1>3. CASE VerifyBackup BY Labels, CleanUps, <1>3 DEF VerifyBackup, Raise, Proceed
<1>4. CASE Preflight
  <2>1. \/ known'.names = Object /\ at' = "extract" /\ UNCHANGED <<region, cleaning>>
        \/ cleaning' = CleanUp("except") /\ at' = at
    BY <1>4 DEF Preflight, Raise, Proceed
  <2>2. at = "preflight" /\ cleaning.caller = "nobody" BY <1>4 DEF Preflight
  <2> QED BY <2>1, <2>2, Labels, CleanUps
<1>5. CASE Extract BY Labels, CleanUps, <1>5 DEF Extract, Raise, Proceed
<1>6. CASE Identify
  <2>1. \/ at' = "create container" /\ UNCHANGED <<region, cleaning>>
        \/ cleaning' = CleanUp("except") /\ at' = at
    BY <1>6 DEF Identify, Raise, Proceed
  <2>2. at = "identify" /\ cleaning.caller = "nobody" BY <1>6 DEF Identify
  <2>3. known'.names = known.names
    <3>1. known.names = Object BY <2>2, Labels
    <3> QED BY <1>6 DEF Identify, DrillTypeOK, Knowledge
  <2> QED BY <2>1, <2>2, <2>3, Labels, CleanUps
<1>7. CASE Probe BY Labels, CleanUps, <1>7 DEF Probe, Raise
<1>8. ASSUME NEW o \in Named, Create(o) PROVE FlowInv'
  <2>1. /\ at = CreateStep[o] /\ at' = o /\ cleaning.caller = "nobody"
        /\ UNCHANGED <<region, cleaning, known>>
    BY <1>8 DEF Create, Proceed
  <2>2. CreateStep["network"] = "create network" /\ CreateStep["container"] = "create container"
    BY DEF CreateStep
  <2>3. at \in ClaimedStep /\ at \in TryStep BY <2>1, <2>2, Labels DEF Named
  <2>4. o \in ClaimedStep /\ o \in TryStep /\ o # "exit" /\ o # "root"
    BY Labels DEF Named
  <2>5. at' \notin AfterStep BY <2>1, <2>4, Labels
  <2> QED BY <2>1, <2>3, <2>4, <2>5, Labels
<1>9. ASSUME NEW o \in Named, Created(o) PROVE FlowInv'
  <2>1. UNCHANGED <<at, region, known, cleaning>> /\ creating' = creating \ {o}
    BY <1>9 DEF Created
  <2> QED BY <2>1, Objects
<1>10. ASSUME NEW o \in Named, Reported(o) PROVE FlowInv'
  <2>1. \/ at' \in {"probe", "identify"} /\ UNCHANGED <<region, cleaning>>
        \/ cleaning' = CleanUp("except") /\ at' = at
    BY <1>10 DEF Reported, Raise, Proceed
  <2>2. at = o /\ cleaning.caller = "nobody" BY <1>10 DEF Reported
  <2>3. o \in ClaimedStep /\ o \in TryStep /\ o # "exit" /\ o # "root"
    BY Labels DEF Named
  <2>4. known'.names = known.names
    <3>1. known' = known \/ known' = [known EXCEPT !.ids = @ \cup {o}] BY <1>10 DEF Reported
    <3> QED BY <3>1 DEF DrillTypeOK, Knowledge
  <2> QED BY <2>1, <2>2, <2>3, <2>4, Labels, CleanUps
<1>11. ASSUME NEW o \in Named, TakeName(o) PROVE FlowInv'
  BY Labels, CleanUps, <1>11 DEF TakeName
<1>12. ASSUME NEW o \in Named, RemoveOurs(o) PROVE FlowInv'
  BY Labels, CleanUps, <1>12 DEF RemoveOurs
<1>13. CASE Cleaner
  BY <1>13, CleanerDoes DEF CleaningGoes
<1>14. CASE EndOfRun BY Labels, CleanUps, <1>14 DEF EndOfRun, CleanStep, Unverified, Raise
<1>15. CASE EndOfExcept BY Labels, CleanUps, <1>15 DEF EndOfExcept, CleanStep, Unverified
<1>16. CASE EndOfFinally BY Labels, CleanUps, <1>16 DEF EndOfFinally, CleanStep, Unverified
<1>17. CASE EndOfHandler BY Labels, CleanUps, <1>17 DEF EndOfHandler, CleanStep, Unverified
<1>18. CASE Finally BY Labels, CleanUps, <1>18 DEF Finally
<1>19. CASE RemoveRoot BY Labels, CleanUps, <1>19 DEF RemoveRoot
<1>20. CASE WriteReceipt BY Labels, CleanUps, <1>20 DEF WriteReceipt
<1>21. CASE Signal BY Labels, CleanUps, <1>21 DEF Signal
<1>22. CASE UNCHANGED drillVars BY Labels, CleanUps, <1>22 DEF drillVars
<1> QED
  BY <1>1, <1>2, <1>3, <1>4, <1>5, <1>6, <1>7, <1>8, <1>9, <1>10, <1>11, <1>12, <1>13, <1>14,
     <1>15, <1>16, <1>17, <1>18, <1>19, <1>20, <1>21, <1>22 DEF DrillNext, Cleaner

\* A name is dropped only when a clean-up has found its object gone, and what a command creates
\* when main does not wait for it is late.
LEMMA Claims ==
  ASSUME DrillTypeOK, FlowInv, ClaimInv, CleanInv, [DrillNext]_drillVars
  PROVE  ClaimInv'
<1> USE DEF ClaimInv, Excused, Running
<1>0. world \in [Object -> {"none", "ours", "foreign"}] /\ known \in Knowledge BY DEF DrillTypeOK
<1>1. CASE MakeRoot BY <1>0, Objects, CleanUps, <1>1 DEF MakeRoot, OutsideCounters, Proceed
<1>2. CASE KnowRoot
  <2>1. known'.names = known.names \cup {"root"} BY <1>0, <1>2 DEF KnowRoot, Knowledge
  <2>2. UNCHANGED <<world, late>> BY <1>2 DEF KnowRoot
  <2> QED BY <2>1, <2>2
<1>3. CASE VerifyBackup BY <1>0, Objects, CleanUps, <1>3 DEF VerifyBackup, OutsideCounters,
                           Raise, Proceed
<1>4. CASE Preflight
  <2>1. known'.names = Object \/ UNCHANGED known BY <1>4 DEF Preflight
  <2>2. at = "preflight" /\ UNCHANGED <<world, late>> BY <1>4 DEF Preflight
  <2> QED BY <2>1, <2>2
<1>5. CASE Extract
  <2>1. known.names = Object BY <1>5, Labels DEF Extract, FlowInv
  <2> QED BY <2>1, <1>5 DEF Extract
<1>6. CASE Identify
  <2>1. known' = known \/ known' = [known EXCEPT !.ids = @ \cup {"network"}]
    BY <1>6 DEF Identify
  <2>2. known'.names = known.names BY <1>0, <2>1 DEF Knowledge
  <2>3. at # "root" /\ UNCHANGED <<world, late>> BY <1>6 DEF Identify
  <2> QED BY <2>2, <2>3
<1>7. CASE Probe BY <1>0, Objects, CleanUps, <1>7 DEF Probe, OutsideCounters, Raise
<1>8. ASSUME NEW o \in Named, Create(o) PROVE ClaimInv'
  <2>1. at = CreateStep[o] /\ UNCHANGED <<world, known, late>> BY <1>8 DEF Create
  <2>2. CreateStep["network"] # "root" /\ CreateStep["container"] # "root" BY DEF CreateStep
  <2> QED BY <2>1, <2>2 DEF Named
<1>9. ASSUME NEW o \in Named, Created(o) PROVE ClaimInv'
  <2>1. UNCHANGED <<at, known, cleaning>> /\ late \subseteq late' BY <1>9 DEF Created
  <2>2. \A p \in Object \ {o} : world'[p] = world[p] BY <1>0, <1>9 DEF Created
  <2>3. CASE at = o /\ cleaning.caller = "nobody"
    <3>1. at \in ClaimedStep BY <2>3, Labels DEF Named
    <3> QED BY <2>1, <2>3, <3>1 DEF FlowInv
  <2>4. CASE ~(at = o /\ cleaning.caller = "nobody")
    <3>1. o \in late' BY <1>9, <2>4 DEF Created
    <3> QED BY <2>1, <2>2, <3>1
  <2> QED BY <2>3, <2>4
<1>10. ASSUME NEW o \in Named, Reported(o) PROVE ClaimInv'
  <2>1. known' = known \/ known' = [known EXCEPT !.ids = @ \cup {o}] BY <1>10 DEF Reported
  <2>2. known'.names = known.names BY <1>0, <2>1 DEF Knowledge
  <2>3. at # "root" /\ UNCHANGED <<world, late>> BY <1>10, Objects DEF Reported
  <2> QED BY <2>2, <2>3
<1>11. ASSUME NEW o \in Named, TakeName(o) PROVE ClaimInv'
  BY <1>0, Objects, CleanUps, <1>11 DEF TakeName
<1>12. ASSUME NEW o \in Named, RemoveOurs(o) PROVE ClaimInv'
  BY <1>0, Objects, CleanUps, <1>12 DEF RemoveOurs, OutsideCounters
<1>13. CASE Cleaner
  <2>1. /\ cleaning.caller # "nobody" /\ UNCHANGED late /\ (known' = known \/ Unclaim)
        /\ \A o \in Object : world'[o] = "ours" => world[o] = "ours"
    BY <1>13, CleanerDoes
  <2>2. CASE known' = known BY <2>1, <2>2
  <2>3. CASE Unclaim
    <3>1. known'.names = known.names \cap {"root"} BY <2>3 DEF Unclaim
    <3>2. \A o \in Named : Excused(o)
      BY <2>1, <2>3 DEF Unclaim, CleanInv
    <3>3. "data" \in known.names => world'["data"] # "ours" BY <2>3 DEF Unclaim
    <3> QED BY <2>1, <3>1, <3>2, <3>3, Objects
  <2> QED BY <2>1, <2>2, <2>3
<1>14. CASE EndOfRun BY <1>0, Objects, CleanUps, <1>14 DEF EndOfRun, OutsideCounters,
                        CleanStep, Unverified, Raise
<1>15. CASE EndOfExcept BY <1>0, Objects, CleanUps, <1>15 DEF EndOfExcept, OutsideCounters,
                           CleanStep, Unverified
<1>16. CASE EndOfFinally BY <1>0, Objects, CleanUps, <1>16 DEF EndOfFinally, OutsideCounters,
                            CleanStep, Unverified
<1>17. CASE EndOfHandler BY <1>0, Objects, CleanUps, <1>17 DEF EndOfHandler, OutsideCounters,
                            CleanStep, Unverified
<1>18. CASE Finally BY <1>0, Objects, CleanUps, <1>18 DEF Finally, OutsideCounters
<1>19. CASE RemoveRoot BY <1>0, Objects, CleanUps, <1>19 DEF RemoveRoot, OutsideCounters
<1>20. CASE WriteReceipt BY <1>0, Objects, CleanUps, <1>20 DEF WriteReceipt, OutsideCounters
<1>21. CASE Signal
  <2>1. UNCHANGED <<world, known>> /\ late' = late \cup (creating \cap {"root"})
    BY <1>21 DEF Signal
  <2>2. Running("root") => "root" \in creating BY DEF FlowInv
  <2> QED BY <2>1, <2>2
<1>22. CASE UNCHANGED drillVars BY <1>0, Objects, CleanUps, <1>22 DEF drillVars
<1> QED
  BY <1>1, <1>2, <1>3, <1>4, <1>5, <1>6, <1>7, <1>8, <1>9, <1>10, <1>11, <1>12, <1>13, <1>14,
     <1>15, <1>16, <1>17, <1>18, <1>19, <1>20, <1>21, <1>22 DEF DrillNext, Cleaner

\* What a clean-up takes for absent is so for good, but for what is late.
LEMMA Cleans ==
  ASSUME DrillTypeOK, FlowInv, ClaimInv, CleanInv, [DrillNext]_drillVars
  PROVE  CleanInv'
<1> USE DEF CleanInv, Excused, Running, Claimed
<1>0. world \in [Object -> {"none", "ours", "foreign"}] /\ known \in Knowledge BY DEF DrillTypeOK
<1>1. CASE MakeRoot BY <1>0, Objects, CleanUps, <1>1 DEF MakeRoot, OutsideCounters, Proceed
<1>2. CASE KnowRoot BY <1>0, Objects, CleanUps, <1>2 DEF KnowRoot, OutsideCounters, Proceed
<1>3. CASE VerifyBackup
  <2>1. cleaning.caller = "nobody" /\ (UNCHANGED cleaning \/ cleaning' = CleanUp("except"))
    BY <1>3 DEF VerifyBackup, OutsideCounters, Raise, Proceed
  <2>2. UNCHANGED <<world, late>> BY <1>3 DEF VerifyBackup
  <2> QED BY <2>1, <2>2, CleanUps, Objects DEF ClaimInv
<1>4. CASE Preflight
  <2>1. cleaning.caller = "nobody" /\ (UNCHANGED cleaning \/ cleaning' = CleanUp("except"))
    BY <1>4 DEF Preflight, OutsideCounters, Raise, Proceed
  <2>2. UNCHANGED <<world, late>> BY <1>4 DEF Preflight
  <2> QED BY <2>1, <2>2, CleanUps, Objects DEF ClaimInv
<1>5. CASE Extract
  <2>1. known.names = Object BY <1>5, Labels DEF Extract, FlowInv
  <2>2. cleaning.caller = "nobody" /\ (UNCHANGED cleaning \/ cleaning' = CleanUp("except"))
    BY <1>5 DEF Extract, Raise, Proceed
  <2> QED BY <2>1, <2>2, CleanUps, Objects
<1>6. CASE Identify
  <2>1. cleaning.caller = "nobody" /\ (UNCHANGED cleaning \/ cleaning' = CleanUp("except"))
    BY <1>6 DEF Identify, OutsideCounters, Raise, Proceed
  <2>2. UNCHANGED <<world, late>> BY <1>6 DEF Identify
  <2> QED BY <2>1, <2>2, CleanUps, Objects DEF ClaimInv
<1>7. CASE Probe
  <2>1. /\ cleaning.caller = "nobody"
        /\ UNCHANGED cleaning \/ cleaning' = CleanUp("except") \/ cleaning' = CleanUp("run")
    BY <1>7 DEF Probe, OutsideCounters, Raise
  <2>2. UNCHANGED <<world, late>> BY <1>7 DEF Probe
  <2> QED BY <2>1, <2>2, CleanUps, Objects DEF ClaimInv
<1>8. ASSUME NEW o \in Named, Create(o) PROVE CleanInv'
  BY <1>0, Objects, CleanUps, <1>8 DEF Create, OutsideCounters, CreateStep, Proceed
<1>9. ASSUME NEW o \in Named, Created(o) PROVE CleanInv'
  <2>1. UNCHANGED <<known, cleaning>> /\ late \subseteq late' BY <1>9 DEF Created
  <2>2. \A p \in Object \ {o} : world'[p] = world[p] BY <1>0, <1>9 DEF Created
  <2>3. CASE cleaning.caller # "nobody"
    <3>1. o \in late' BY <2>3, <1>9 DEF Created
    <3>2. cleaning.absent \subseteq Object BY Objects DEF DrillTypeOK, Cleaning
    <3> QED BY <2>1, <2>2, <3>1, <3>2 DEF Claimed
  <2> QED BY <2>1, <2>3
<1>10. ASSUME NEW o \in Named, Reported(o) PROVE CleanInv'
  <2>1. cleaning.caller = "nobody" /\ (UNCHANGED cleaning \/ cleaning' = CleanUp("except"))
    BY <1>10 DEF Reported, OutsideCounters, Raise, Proceed
  <2>2. UNCHANGED <<world, late>> BY <1>10 DEF Reported
  <2> QED BY <2>1, <2>2, CleanUps, Objects DEF ClaimInv
<1>11. ASSUME NEW o \in Named, TakeName(o) PROVE CleanInv'
  BY <1>0, Objects, CleanUps, <1>11 DEF TakeName
<1>12. ASSUME NEW o \in Named, RemoveOurs(o) PROVE CleanInv'
  BY <1>0, Objects, CleanUps, <1>12 DEF RemoveOurs, OutsideCounters
<1>13. CASE Cleaner
  <2>1. /\ cleaning.caller # "nobody" /\ UNCHANGED late /\ CleaningGoes
        /\ \A o \in Object : world'[o] = "ours" => world[o] = "ours"
        /\ \A o \in cleaning'.absent : o \in cleaning.absent \/ world'[o] # "ours"
        /\ cleaning'.step = "end" /\ cleaning'.ok => ~Claimed'
    BY <1>13, CleanerDoes
  <2>2. cleaning'.absent \subseteq Object BY <2>1, Objects DEF CleaningGoes, Cleaning
  <2> QED BY <2>1, <2>2 DEF CleaningGoes
<1>14. CASE EndOfRun
  <2>1. /\ UNCHANGED <<world, late, known>>
        /\ cleaning' = NoCleaning \/ cleaning' = CleanUp("except")
    BY <1>14 DEF EndOfRun, Raise
  <2> QED BY <2>1, CleanUps, Objects DEF ClaimInv
<1>15. CASE EndOfExcept BY <1>0, Objects, CleanUps, <1>15 DEF EndOfExcept, OutsideCounters,
                           CleanStep, Unverified
<1>16. CASE EndOfFinally BY <1>0, Objects, CleanUps, <1>16 DEF EndOfFinally, OutsideCounters,
                            CleanStep, Unverified
<1>17. CASE EndOfHandler BY <1>0, Objects, CleanUps, <1>17 DEF EndOfHandler, OutsideCounters,
                            CleanStep, Unverified
<1>18. CASE Finally
  <2>1. UNCHANGED <<world, late, known>> /\ cleaning.caller = "nobody"
        /\ (UNCHANGED cleaning \/ cleaning' = CleanUp("finally"))
    BY <1>18 DEF Finally
  <2> QED BY <2>1, CleanUps, Objects DEF ClaimInv
<1>19. CASE RemoveRoot BY <1>0, Objects, CleanUps, <1>19 DEF RemoveRoot, OutsideCounters
<1>20. CASE WriteReceipt BY <1>0, Objects, CleanUps, <1>20 DEF WriteReceipt, OutsideCounters
<1>21. CASE Signal
  <2>1. UNCHANGED <<world, known>> /\ late \subseteq late' /\ cleaning' = CleanUp("handler")
    BY <1>21 DEF Signal
  <2> QED BY <2>1, CleanUps, Objects DEF ClaimInv
<1>22. CASE UNCHANGED drillVars BY <1>0, Objects, CleanUps, <1>22 DEF drillVars
<1> QED
  BY <1>1, <1>2, <1>3, <1>4, <1>5, <1>6, <1>7, <1>8, <1>9, <1>10, <1>11, <1>12, <1>13, <1>14,
     <1>15, <1>16, <1>17, <1>18, <1>19, <1>20, <1>21, <1>22 DEF DrillNext, Cleaner

-----------------------------------------------------------------------------
(* The steps of the try block, as far as runs and receipts are concerned.   *)

TryAct ==
  \/ MakeRoot \/ KnowRoot \/ VerifyBackup \/ Preflight \/ Extract \/ Identify \/ Probe
  \/ \E o \in Named : Create(o) \/ Reported(o)

\* A step of the try block leaves results alone, and what it raises goes to the except block.
LEMMA TryDoes ==
  ASSUME TryAct
  PROVE  /\ at \in TryStep /\ cleaning.caller = "nobody"
         /\ at # "exit" /\ at' # "write" /\ at' # "exit"
         /\ cleaning' = cleaning \/ cleaning'.caller \in {"except", "run"}
         /\ UNCHANGED <<drill, drillRun, receipt, late, outsiders, signals>>
         /\ region' = region \/ region' = "except"
<1> USE DEF Running, OutsideCounters, Proceed, Raise
<1>1. CASE MakeRoot BY <1>1, Labels DEF MakeRoot
<1>2. CASE KnowRoot BY <1>2, Labels DEF KnowRoot
<1>3. CASE VerifyBackup BY <1>3, Labels, CleanUps DEF VerifyBackup
<1>4. CASE Preflight
  <2>1. \/ at' = "extract" /\ UNCHANGED <<region, cleaning>>
        \/ cleaning' = CleanUp("except") /\ at' = at /\ region' = "except"
    BY <1>4 DEF Preflight
  <2>2. UNCHANGED <<drill, drillRun, receipt, late, outsiders, signals>> BY <1>4 DEF Preflight
  <2>3. at = "preflight" /\ cleaning.caller = "nobody" BY <1>4 DEF Preflight
  <2> QED BY <2>1, <2>2, <2>3, Labels, CleanUps
<1>5. CASE Extract BY <1>5, Labels, CleanUps DEF Extract
<1>6. CASE Identify BY <1>6, Labels, CleanUps DEF Identify
<1>7. CASE Probe BY <1>7, Labels, CleanUps DEF Probe
<1>8. ASSUME NEW o \in Named, Create(o)
      PROVE  /\ at = CreateStep[o] /\ at' = o /\ cleaning.caller = "nobody"
             /\ UNCHANGED <<region, cleaning>>
             /\ UNCHANGED <<drill, drillRun, receipt, late, outsiders, signals>>
  BY <1>8 DEF Create
<1>9. CreateStep["network"] = "create network" /\ CreateStep["container"] = "create container"
  BY DEF CreateStep
<1>10. ASSUME NEW o \in Named, Reported(o)
       PROVE /\ at = o /\ cleaning.caller = "nobody"
             /\ UNCHANGED <<drill, drillRun, receipt, late, outsiders, signals>>
             /\ \/ at' \in {"probe", "identify"} /\ UNCHANGED <<region, cleaning>>
                \/ cleaning' = CleanUp("except") /\ at' = at /\ region' = "except"
  BY <1>10 DEF Reported
<1> QED BY <1>1, <1>2, <1>3, <1>4, <1>5, <1>6, <1>7, <1>8, <1>9, <1>10, Labels,
           CleanUps DEF TryAct, Named

\* A run that has not both passed and cleaned up ends the try block.
LEMMA Runs ==
  ASSUME DrillTypeOK, FlowInv, RunInv, [DrillNext]_drillVars
  PROVE  RunInv'
<1> USE DEF RunInv
<1>1. CASE TryAct BY <1>1, TryDoes
<1>2. ASSUME NEW o \in Named, Created(o) PROVE RunInv'
  BY <1>2 DEF Created, OutsideCounters, Running
<1>3. ASSUME NEW o \in Named, TakeName(o) PROVE RunInv'
  BY <1>3 DEF TakeName
<1>4. ASSUME NEW o \in Named, RemoveOurs(o) PROVE RunInv'
  BY <1>4 DEF RemoveOurs, OutsideCounters
<1>5. CASE Cleaner
  BY <1>5, CleanerDoes
<1>6. CASE EndOfRun
  <2>1. region = "try" /\ drill.verified /\ drill.passed = drillRun - 1
    BY <1>6 DEF EndOfRun, CleanStep, FlowInv
  <2>2. drillRun \in Nat BY DEF DrillTypeOK
  <2> QED BY <2>1, <2>2, <1>6, EndOfRunDoes
<1>7. CASE EndOfExcept
  BY <1>7, EndDoes, CleanUps DEF FlowInv, EndOfExcept, CleanStep
<1>8. CASE EndOfFinally
  BY <1>8, EndDoes, CleanUps DEF FlowInv, EndOfFinally, CleanStep
<1>9. CASE EndOfHandler
  BY <1>9, EndDoes, CleanUps DEF FlowInv, EndOfHandler, CleanStep
<1>10. CASE Finally BY <1>10 DEF Finally, OutsideCounters, Running
<1>11. CASE RemoveRoot
  BY <1>11, Labels DEF RemoveRoot, Running, FlowInv
<1>12. CASE WriteReceipt BY <1>12 DEF WriteReceipt, OutsideCounters, Running
<1>13. CASE Signal
  <2>1. drill'.verified = drill.verified /\ drill'.passed = drill.passed
    BY <1>13 DEF Signal, DrillTypeOK, Result
  <2> QED BY <2>1, <1>13 DEF Signal
<1>14. CASE UNCHANGED drillVars BY <1>14 DEF drillVars
<1> QED
  BY <1>1, <1>2, <1>3, <1>4, <1>5, <1>6, <1>7, <1>8, <1>9, <1>10, <1>11, <1>12, <1>13,
     <1>14 DEF DrillNext, Cleaner, TryAct

\* A drill that has passed has nothing left to clean up; only a signal can still interrupt it,
\* and then it writes no receipt.
LEMMA Passes ==
  ASSUME DrillTypeOK, FlowInv, CleanInv, RunInv, PassInv, [DrillNext]_drillVars
  PROVE  PassInv'
<1> USE DEF PassInv, Claimed
<1>1. CASE TryAct
  <2>1. region = "try" BY <1>1, TryDoes DEF FlowInv
  <2> QED BY <2>1, <1>1, TryDoes
<1>2. ASSUME NEW o \in Named, Created(o) PROVE PassInv'
  BY <1>2 DEF Created, OutsideCounters, Running
<1>3. ASSUME NEW o \in Named, TakeName(o) PROVE PassInv'
  BY <1>3 DEF TakeName
<1>4. ASSUME NEW o \in Named, RemoveOurs(o) PROVE PassInv'
  BY <1>4 DEF RemoveOurs, OutsideCounters
<1>5. CASE Cleaner
  BY <1>5, CleanerDoes DEF CleaningGoes, Unclaim
<1>6. CASE EndOfRun
  <2>1. region = "try" /\ drill.verified /\ drill.passed = drillRun - 1
    BY <1>6 DEF EndOfRun, CleanStep, FlowInv, RunInv
  <2>2. drillRun \in Nat BY DEF DrillTypeOK
  <2>3. cleaning.ok => ~Claimed BY <1>6 DEF EndOfRun, CleanStep, CleanInv
  <2> QED BY <2>1, <2>2, <2>3, <1>6, EndOfRunDoes, CleanUps
<1>7. CASE EndOfExcept
  BY <1>7, EndDoes, CleanUps DEF FlowInv, EndOfExcept, CleanStep
<1>8. CASE EndOfFinally
  BY <1>8, EndDoes, CleanUps DEF FlowInv, EndOfFinally, CleanStep
<1>9. CASE EndOfHandler
  <2>1. drill.status = "passed" => at' = "exit" /\ region' = "finally"
    BY <1>9 DEF EndOfHandler
  <2> QED BY <2>1, <1>9, EndDoes, CleanUps
<1>10. CASE Finally BY <1>10 DEF Finally, OutsideCounters, Running
<1>11. CASE RemoveRoot
  <2>1. drill' = drill \/ drill'.status = "failed"
    BY <1>11 DEF RemoveRoot, DrillTypeOK, Result
  <2>2. at = "outer" /\ UNCHANGED <<known, region, cleaning>> BY <1>11 DEF RemoveRoot, Running
  <2> QED BY <2>1, <2>2
<1>12. CASE WriteReceipt BY <1>12 DEF WriteReceipt, OutsideCounters, Running
<1>13. CASE Signal
  <2>1. (region = "finally" /\ drill' = drill) \/ drill'.status = "failed"
    BY <1>13 DEF Signal, DrillTypeOK, Result
  <2>2. at # "exit" /\ cleaning' = CleanUp("handler") /\ UNCHANGED <<known, region, at>>
    BY <1>13 DEF Signal
  <2> QED BY <2>1, <2>2, CleanUps
<1>14. CASE UNCHANGED drillVars BY <1>14 DEF drillVars
<1> QED
  BY <1>1, <1>2, <1>3, <1>4, <1>5, <1>6, <1>7, <1>8, <1>9, <1>10, <1>11, <1>12, <1>13,
     <1>14 DEF DrillNext, Cleaner, TryAct

\* What is left when the receipt is written is late, and what comes later is late too.
LEMMA Receipts ==
  ASSUME DrillTypeOK, FlowInv, ClaimInv, PassInv, ReceiptInv, [DrillNext]_drillVars
  PROVE  ReceiptInv'
<1> USE DEF ReceiptInv, Excused
<1>0. world \in [Object -> {"none", "ours", "foreign"}] /\ known \in Knowledge BY DEF DrillTypeOK
<1>1. CASE TryAct BY <1>0, Objects, <1>1, TryDoes
<1>2. ASSUME NEW o \in Named, Created(o) PROVE ReceiptInv'
  <2>1. UNCHANGED <<at, drill, receipt>> /\ late \subseteq late' BY <1>2 DEF Created
  <2>2. \A p \in Object \ {o} : world'[p] = world[p] BY <1>0, <1>2 DEF Created
  <2>3. at \in {"write", "exit"} => o \in late' BY <1>2 DEF Created, Running, Named
  <2> QED BY <2>1, <2>2, <2>3
<1>3. ASSUME NEW o \in Named, TakeName(o) PROVE ReceiptInv'
  BY <1>0, Objects, <1>3 DEF TakeName
<1>4. ASSUME NEW o \in Named, RemoveOurs(o) PROVE ReceiptInv'
  BY <1>0, Objects, <1>4 DEF RemoveOurs, OutsideCounters
<1>5. CASE Cleaner
  BY <1>5, CleanerDoes DEF FlowInv
<1>6. CASE EndOfRun
  <2>1. /\ cleaning.caller = "run" /\ UNCHANGED <<world, late, receipt>>
        /\ at' \in {"preflight", "finally", at}
    BY <1>6 DEF EndOfRun, CleanStep
  <2>2. at # "exit" /\ at # "write" BY <2>1, Labels DEF FlowInv
  <2> QED BY <2>1, <2>2
<1>7. CASE EndOfExcept
  <2>1. cleaning.caller # "nobody" /\ at' # "write" /\ UNCHANGED <<world, late, receipt>>
    BY <1>7, EndDoes DEF CleanStep, EndOfExcept
  <2>2. at # "exit" BY <2>1 DEF FlowInv
  <2> QED BY <2>1, <2>2
<1>8. CASE EndOfFinally
  <2>1. cleaning.caller # "nobody" /\ at' # "write" /\ UNCHANGED <<world, late, receipt>>
    BY <1>8, EndDoes DEF CleanStep, EndOfFinally
  <2>2. at # "exit" BY <2>1 DEF FlowInv
  <2> QED BY <2>1, <2>2
<1>9. CASE EndOfHandler
  <2>1. cleaning.caller # "nobody" /\ at' # "write" /\ UNCHANGED <<world, late, receipt>>
    BY <1>9, EndDoes DEF CleanStep, EndOfHandler
  <2>2. at # "exit" BY <2>1 DEF FlowInv
  <2> QED BY <2>1, <2>2
<1>10. CASE Finally
  <2>1. at = "finally" /\ at' # "write" /\ UNCHANGED <<world, late, receipt>>
    BY <1>10 DEF Finally, Running
  <2> QED BY <2>1
<1>11. CASE RemoveRoot
  <2>1. at = "outer" /\ at' = "write" /\ UNCHANGED <<late, receipt>> BY <1>11 DEF RemoveRoot,
                                                                        Running
  <2>2. CASE /\ ~Claimed
             /\ world' = IF "root" \in known.names THEN [world EXCEPT !["root"] = "none"] ELSE world
    <3>1. \A o \in Object \ {"root"} : world[o] = "ours" => o \in late
      BY <2>1, <2>2 DEF ClaimInv, Claimed, Running
    <3>2. world'["root"] = "ours" => "root" \in late
      BY <1>0, <2>1, <2>2, Objects DEF ClaimInv, Running
    <3> QED BY <1>0, <2>1, <2>2, <3>1, <3>2, Objects
  <2>3. CASE drill' = [drill EXCEPT !.verified = FALSE, !.status = "failed"]
    <3>1. ~drill'.verified BY <2>3 DEF DrillTypeOK, Result
    <3> QED BY <2>1, <3>1
  <2> QED BY <2>2, <2>3, <1>11 DEF RemoveRoot
<1>12. CASE WriteReceipt
  <2>1. /\ at = "write" /\ at' = "exit" /\ UNCHANGED <<world, late>>
        /\ receipt' = drill \/ receipt' = receipt
    BY <1>12 DEF WriteReceipt, Running
  <2>2. drill.status = "passed" => drill.verified /\ drill.passed = Repeat BY <2>1 DEF PassInv
  <2> QED BY <2>1, <2>2
<1>13. CASE Signal BY <1>0, Objects, <1>13 DEF Signal, OutsideCounters
<1>14. CASE UNCHANGED drillVars BY <1>0, Objects, <1>14 DEF drillVars
<1> QED
  BY <1>1, <1>2, <1>3, <1>4, <1>5, <1>6, <1>7, <1>8, <1>9, <1>10, <1>11, <1>12, <1>13,
     <1>14 DEF DrillNext, Cleaner, TryAct

\* A foreign object is never removed or replaced.
LEMMA Outside ==
  ASSUME DrillTypeOK, OutsidersInv, [DrillNext]_drillVars
  PROVE  OutsidersInv'
<1> USE DEF OutsidersInv
<1>0. /\ world \in [Object -> {"none", "ours", "foreign"}] /\ known \in Knowledge
      /\ outsiders \subseteq Named
  BY DEF DrillTypeOK
<1>1. CASE MakeRoot BY <1>0, Objects, <1>1 DEF MakeRoot, OutsideCounters, Running, Proceed
<1>2. CASE KnowRoot BY <1>0, Objects, <1>2 DEF KnowRoot, OutsideCounters, Running, Proceed
<1>3. CASE VerifyBackup BY <1>0, Objects, <1>3 DEF VerifyBackup, OutsideCounters, Running,
                           Raise, Proceed
<1>4. CASE Preflight
  BY <1>4 DEF Preflight, OutsideCounters
<1>5. CASE Extract BY <1>0, Objects, <1>5 DEF Extract, OutsideCounters, Running, Raise,
                      Proceed
<1>6. CASE Identify BY <1>0, Objects, <1>6 DEF Identify, OutsideCounters, Running, Raise,
                       Proceed
<1>7. CASE Probe BY <1>0, Objects, <1>7 DEF Probe, OutsideCounters, Running, Raise
<1>8. ASSUME NEW o \in Named, Create(o) PROVE OutsidersInv'
  BY <1>0, Objects, <1>8 DEF Create, OutsideCounters, CreateStep, Running, Proceed
<1>9. ASSUME NEW o \in Named, Created(o) PROVE OutsidersInv'
  BY <1>0, Objects, <1>9 DEF Created, OutsideCounters, Running
<1>10. ASSUME NEW o \in Named, Reported(o) PROVE OutsidersInv'
  BY <1>0, Objects, <1>10 DEF Reported, OutsideCounters, Running, Raise, Proceed
<1>11. ASSUME NEW o \in Named, TakeName(o) PROVE OutsidersInv'
  BY <1>0, Objects, <1>11 DEF TakeName
<1>12. ASSUME NEW o \in Named, RemoveOurs(o) PROVE OutsidersInv'
  BY <1>0, Objects, <1>12 DEF RemoveOurs, OutsideCounters
<1>13. CASE Cleaner
  BY <1>13, CleanerDoes DEF DrillTypeOK
<1>14. CASE EndOfRun BY <1>0, Objects, <1>14 DEF EndOfRun, OutsideCounters, CleanStep,
                        Unverified, Raise
<1>15. CASE EndOfExcept BY <1>0, Objects, <1>15 DEF EndOfExcept, OutsideCounters, CleanStep,
                           Unverified
<1>16. CASE EndOfFinally BY <1>0, Objects, <1>16 DEF EndOfFinally, OutsideCounters,
                            CleanStep, Unverified
<1>17. CASE EndOfHandler BY <1>0, Objects, <1>17 DEF EndOfHandler, OutsideCounters,
                            CleanStep, Unverified
<1>18. CASE Finally BY <1>0, Objects, <1>18 DEF Finally, OutsideCounters, Running
<1>19. CASE RemoveRoot BY <1>0, Objects, <1>19 DEF RemoveRoot, OutsideCounters, Running
<1>20. CASE WriteReceipt BY <1>0, Objects, <1>20 DEF WriteReceipt, OutsideCounters, Running
<1>21. CASE Signal BY <1>0, Objects, <1>21 DEF Signal, OutsideCounters
<1>22. CASE UNCHANGED drillVars BY <1>0, Objects, <1>22 DEF drillVars
<1> QED
  BY <1>1, <1>2, <1>3, <1>4, <1>5, <1>6, <1>7, <1>8, <1>9, <1>10, <1>11, <1>12, <1>13, <1>14,
     <1>15, <1>16, <1>17, <1>18, <1>19, <1>20, <1>21, <1>22 DEF DrillNext, Cleaner

-----------------------------------------------------------------------------
(* The types.                                                               *)

\* The record of the running clean-up.
LEMMA CleaningType ==
  ASSUME DrillTypeOK, [DrillNext]_drillVars
  PROVE  cleaning' \in Cleaning
<1> USE CleanUps DEF Raise, Proceed
<1>0. cleaning \in Cleaning BY DEF DrillTypeOK
<1>1. CASE Cleaner BY <1>1, CleanerDoes DEF CleaningGoes
<1>2. CASE EndOfRun BY <1>2 DEF EndOfRun
<1>3. CASE EndOfExcept \/ EndOfFinally \/ EndOfHandler BY <1>3, EndDoes
<1>4. CASE MakeRoot \/ KnowRoot \/ VerifyBackup \/ Preflight \/ Extract \/ Identify \/ Probe
  BY <1>0, <1>4 DEF MakeRoot, KnowRoot, VerifyBackup, Preflight, Extract, Identify, Probe
<1>5. ASSUME NEW o \in Named, Create(o) \/ Created(o) \/ Reported(o) \/ TakeName(o) \/ RemoveOurs(o)
      PROVE  cleaning' \in Cleaning
  BY <1>0, <1>5 DEF Create, Created, Reported, TakeName, RemoveOurs
<1>6. CASE Finally \/ RemoveRoot \/ WriteReceipt \/ Signal \/ UNCHANGED drillVars
  BY <1>0, <1>6 DEF Finally, RemoveRoot, WriteReceipt, Signal, drillVars
<1> QED BY <1>1, <1>2, <1>3, <1>4, <1>5, <1>6 DEF DrillNext, Cleaner

\* An id is kept only of an object whose name is claimed.
LEMMA KnowledgeType ==
  ASSUME DrillTypeOK, FlowInv, [DrillNext]_drillVars
  PROVE  known' \in Knowledge
<1> USE Objects
<1>0. known \in Knowledge BY DEF DrillTypeOK
<1>1. CASE Cleaner
  <2>1. CASE known' = known BY <1>0, <2>1
  <2>2. CASE Unclaim BY <1>0, <2>2 DEF Knowledge, Unclaim
  <2> QED BY <1>1, <2>1, <2>2, CleanerDoes
<1>2. CASE KnowRoot BY <1>0, <1>2 DEF KnowRoot, Knowledge
<1>3. CASE Preflight BY <1>0, <1>3 DEF Preflight, Knowledge
<1>4. CASE Identify
  <2>0. at = "identify" /\ cleaning.caller = "nobody" BY <1>4 DEF Identify, Running
  <2>1. known.names = Object BY <2>0, Labels DEF FlowInv
  <2>2. known' = known \/ known' = [known EXCEPT !.ids = @ \cup {"network"}]
    BY <1>4 DEF Identify
  <2> QED BY <1>0, <2>1, <2>2 DEF Knowledge
<1>5. ASSUME NEW o \in Named, Reported(o) PROVE known' \in Knowledge
  <2>1. at = o /\ cleaning.caller = "nobody" BY <1>5 DEF Reported, Running
  <2>2. known.names = Object BY <2>1, Labels DEF Named, FlowInv
  <2>3. known' = known \/ known' = [known EXCEPT !.ids = @ \cup {o}] BY <1>5 DEF Reported
  <2> QED BY <1>0, <2>2, <2>3 DEF Knowledge
<1>6. CASE MakeRoot \/ VerifyBackup \/ Extract \/ Probe \/ Finally \/ RemoveRoot \/ WriteReceipt
           \/ Signal \/ UNCHANGED drillVars
  BY <1>0, <1>6 DEF MakeRoot, VerifyBackup, Extract, Probe, Finally, RemoveRoot, WriteReceipt,
                    Signal, drillVars
<1>7. ASSUME NEW o \in Named, Create(o) \/ Created(o) \/ TakeName(o) \/ RemoveOurs(o)
      PROVE  known' \in Knowledge
  BY <1>0, <1>7 DEF Create, Created, TakeName, RemoveOurs
<1>8. CASE EndOfRun \/ EndOfExcept \/ EndOfFinally \/ EndOfHandler
  BY <1>0, <1>8 DEF EndOfRun, EndOfExcept, EndOfFinally, EndOfHandler
<1> QED BY <1>1, <1>2, <1>3, <1>4, <1>5, <1>6, <1>7, <1>8 DEF DrillNext, Cleaner

\* No more runs pass than there are.
LEMMA ResultType ==
  ASSUME DrillTypeOK, FlowInv, RunInv, [DrillNext]_drillVars
  PROVE  drill' \in Result /\ receipt' \in Result /\ drillRun' \in 1..Repeat
<1>0. drill \in Result /\ receipt \in Result /\ drillRun \in 1..Repeat BY DEF DrillTypeOK
<1>1. CASE TryAct BY <1>0, <1>1, TryDoes
<1>2. CASE Cleaner BY <1>0, <1>2, CleanerDoes
<1>3. CASE EndOfRun
  <2>1. drill.passed = drillRun - 1 BY <1>3 DEF EndOfRun, CleanStep, FlowInv, RunInv
  <2>2. drillRun' \in 1..Repeat BY <1>0, <1>3, <2>1, EndOfRunDoes, DrillAssumption
  <2> QED BY <1>0, <1>3, <2>1, <2>2, EndOfRunDoes
<1>4. CASE EndOfExcept \/ EndOfFinally \/ EndOfHandler BY <1>0, <1>4, EndDoes
<1>5. ASSUME NEW o \in Named, Created(o) \/ TakeName(o) \/ RemoveOurs(o)
      PROVE  drill' \in Result /\ receipt' \in Result /\ drillRun' \in 1..Repeat
  BY <1>0, <1>5 DEF Created, TakeName, RemoveOurs
<1>6. CASE Finally \/ WriteReceipt \/ UNCHANGED drillVars
  BY <1>0, <1>6 DEF Finally, WriteReceipt, drillVars
<1>7. CASE RemoveRoot
  <2>1. [drill EXCEPT !.verified = FALSE, !.status = "failed"] \in Result BY <1>0 DEF Result
  <2> QED BY <1>0, <1>7, <2>1 DEF RemoveRoot
<1>8. CASE Signal
  <2>1. [drill EXCEPT !.status = "failed"] \in Result BY <1>0 DEF Result
  <2> QED BY <1>0, <1>8, <2>1 DEF Signal
<1> QED BY <1>1, <1>2, <1>3, <1>4, <1>5, <1>6, <1>7, <1>8 DEF DrillNext, Cleaner, TryAct

\* Faults are counted up to their bound.
LEMMA FaultsType ==
  ASSUME DrillTypeOK, UNCHANGED drillFaults \/ Fault
  PROVE  drillFaults' \in 0..MaxDrillFaults
BY DrillAssumption DEF DrillTypeOK, Fault

\* The parts of the next state that are plain values.
DrillPlain ==
  /\ world' \in [Object -> {"none", "ours", "foreign"}] /\ at' \in Step
  /\ region' \in {"try", "except", "finally"}
  /\ creating' \subseteq Object /\ late' \subseteq Object /\ outsiders' \subseteq Named
  /\ UNCHANGED drillFaults \/ Fault

\* Labels, objects and sets of objects.
LEMMA PlainTypes ==
  ASSUME DrillTypeOK, [DrillNext]_drillVars
  PROVE  DrillPlain
<1> USE DEF DrillPlain
<1>0. /\ world \in [Object -> {"none", "ours", "foreign"}] /\ at \in Step
      /\ region \in {"try", "except", "finally"}
      /\ creating \subseteq Object /\ late \subseteq Object /\ outsiders \subseteq Named
  BY DEF DrillTypeOK
<1>1. CASE MakeRoot BY <1>0, Labels, Objects, <1>1 DEF MakeRoot, OutsideCounters, Running,
                       Proceed
<1>2. CASE KnowRoot BY <1>0, Labels, Objects, <1>2 DEF KnowRoot, OutsideCounters, Running,
                       Proceed
<1>3. CASE VerifyBackup BY <1>0, Labels, Objects, <1>3 DEF VerifyBackup, OutsideCounters,
                           Running, Raise, Proceed
<1>4. CASE Preflight
  <2>1. at' \in {"extract", at} /\ region' \in {"except", region}
    BY <1>4 DEF Preflight, Raise, Proceed
  <2>2. UNCHANGED <<world, creating, late, outsiders>> /\ (UNCHANGED drillFaults \/ Fault)
    BY <1>4 DEF Preflight, OutsideCounters
  <2> QED BY <1>0, <2>1, <2>2, Labels
<1>5. CASE Extract BY <1>0, Labels, Objects, <1>5 DEF Extract, OutsideCounters, Running,
                      Raise, Proceed
<1>6. CASE Identify BY <1>0, Labels, Objects, <1>6 DEF Identify, OutsideCounters, Running,
                       Raise, Proceed
<1>7. CASE Probe BY <1>0, Labels, Objects, <1>7 DEF Probe, OutsideCounters, Running, Raise
<1>8. ASSUME NEW o \in Named, Create(o) PROVE DrillPlain
  <2>1. at' = o /\ creating' = creating \cup {o}
        /\ UNCHANGED <<world, region, late, outsiders, drillFaults>>
    BY <1>8 DEF Create, OutsideCounters, Proceed
  <2>2. at' \in Step BY <2>1, Labels DEF Named
  <2> QED BY <1>0, <2>1, <2>2, Objects
<1>9. ASSUME NEW o \in Named, Created(o) PROVE DrillPlain
  BY <1>0, Labels, Objects, <1>9 DEF Created, OutsideCounters, Running
<1>10. ASSUME NEW o \in Named, Reported(o) PROVE DrillPlain
  BY <1>0, Labels, Objects, <1>10 DEF Reported, OutsideCounters, Running, Raise, Proceed
<1>11. ASSUME NEW o \in Named, TakeName(o) PROVE DrillPlain
  BY <1>0, Labels, Objects, <1>11 DEF TakeName
<1>12. ASSUME NEW o \in Named, RemoveOurs(o) PROVE DrillPlain
  BY <1>0, Labels, Objects, <1>12 DEF RemoveOurs, OutsideCounters
<1>13. CASE Cleaner
  BY <1>0, <1>13, CleanerDoes
<1>14. CASE EndOfRun BY <1>0, Labels, Objects, <1>14 DEF EndOfRun, OutsideCounters,
                        CleanStep, Unverified, Raise
<1>15. CASE EndOfExcept BY <1>0, Labels, Objects, <1>15 DEF EndOfExcept, OutsideCounters,
                           CleanStep, Unverified
<1>16. CASE EndOfFinally BY <1>0, Labels, Objects, <1>16 DEF EndOfFinally, OutsideCounters,
                            CleanStep, Unverified
<1>17. CASE EndOfHandler BY <1>0, Labels, Objects, <1>17 DEF EndOfHandler, OutsideCounters,
                            CleanStep, Unverified
<1>18. CASE Finally BY <1>0, Labels, Objects, <1>18 DEF Finally, OutsideCounters, Running
<1>19. CASE RemoveRoot
  <2>1. at' = "write" /\ (UNCHANGED drillFaults \/ Fault) /\ UNCHANGED <<region, creating, late, outsiders>>
    BY <1>19 DEF RemoveRoot, OutsideCounters
  <2>2. world' = world \/ world' = [world EXCEPT !["root"] = "none"] BY <1>19 DEF RemoveRoot
  <2>3. world' \in [Object -> {"none", "ours", "foreign"}] BY <1>0, <2>2
  <2> QED BY <1>0, <2>1, <2>3, Labels
<1>20. CASE WriteReceipt BY <1>0, Labels, Objects, <1>20 DEF WriteReceipt, OutsideCounters,
                            Running
<1>21. CASE Signal
  BY <1>0, Objects, <1>21 DEF Signal, OutsideCounters
<1>22. CASE UNCHANGED drillVars BY <1>0, Labels, Objects, <1>22 DEF drillVars
<1> QED
  BY <1>1, <1>2, <1>3, <1>4, <1>5, <1>6, <1>7, <1>8, <1>9, <1>10, <1>11, <1>12, <1>13, <1>14,
     <1>15, <1>16, <1>17, <1>18, <1>19, <1>20, <1>21, <1>22 DEF DrillNext, Cleaner

\* All of the type invariant.
LEMMA DrillTypes ==
  ASSUME DrillTypeOK, FlowInv, RunInv, [DrillNext]_drillVars
  PROVE  DrillTypeOK'
<1>1. signals' \in 0..MaxSignals
  <2>1. UNCHANGED signals \/ (signals < MaxSignals /\ signals' = signals + 1)
    <3>1. CASE TryAct BY <3>1, TryDoes
    <3>2. CASE Cleaner BY <3>2, CleanerDoes
    <3>3. CASE EndOfExcept \/ EndOfFinally \/ EndOfHandler BY <3>3, EndDoes
    <3>4. ASSUME NEW o \in Named, Created(o) \/ TakeName(o) \/ RemoveOurs(o)
          PROVE  UNCHANGED signals
      BY <3>4 DEF Created, TakeName, RemoveOurs, OutsideCounters
    <3>5. CASE EndOfRun \/ Finally \/ RemoveRoot \/ WriteReceipt \/ UNCHANGED drillVars
      BY <3>5 DEF EndOfRun, Finally, RemoveRoot, WriteReceipt, drillVars, OutsideCounters
    <3>6. CASE Signal BY <3>6 DEF Signal
    <3> QED BY <3>1, <3>2, <3>3, <3>4, <3>5, <3>6 DEF DrillNext, TryAct, Cleaner
  <2> QED BY <2>1, DrillAssumption DEF DrillTypeOK
<1> QED BY <1>1, CleaningType, KnowledgeType, ResultType, FaultsType, PlainTypes
        DEF DrillTypeOK, DrillPlain

-----------------------------------------------------------------------------
\* The three facts of the induction.
LEMMA DrillStarts == DrillInit => DrillInv
<1> SUFFICES ASSUME DrillInit PROVE DrillInv OBVIOUS
<1> USE DEF DrillInit, NoCleaning, NoReceipt, Object, Named
<1>1. DrillTypeOK
  <2>1. drill \in Result /\ receipt \in Result BY DrillAssumption DEF Result
  <2>2. drillRun \in 1..Repeat /\ signals \in 0..MaxSignals /\ drillFaults \in 0..MaxDrillFaults
    BY DrillAssumption
  <2>3. known \in Knowledge BY DEF Knowledge
  <2> QED BY <2>1, <2>2, <2>3, Labels, CleanUps DEF DrillTypeOK
<1>2. FlowInv BY Labels DEF FlowInv, Running
<1>3. ClaimInv BY DEF ClaimInv, Excused
<1>4. CleanInv BY DEF CleanInv
<1>5. RunInv BY DEF RunInv
<1>6. PassInv BY DEF PassInv
<1>7. ReceiptInv BY DEF ReceiptInv
<1>8. OutsidersInv BY DEF OutsidersInv
<1> QED BY <1>1, <1>2, <1>3, <1>4, <1>5, <1>6, <1>7, <1>8 DEF DrillInv

\* Every step keeps the invariant.
LEMMA DrillContinues == DrillInv /\ [DrillNext]_drillVars => DrillInv'
BY DrillTypes, Flow, Claims, Cleans, Runs, Passes, Receipts, Outside DEF DrillInv

(* The types, in every reachable state. *)
THEOREM DrillTyped == DrillSpec => []DrillTypeOK
<1>1. DrillInv => DrillTypeOK BY DEF DrillInv
<1> QED BY <1>1, DrillStarts, DrillContinues, PTL DEF DrillSpec

(* Wherever signals and faults hit: a receipt that says the clean-up was    *)
(* verified is true, up to what came too late to be seen; a passed drill    *)
(* has passed and cleaned up every run; and no object of others is touched. *)
THEOREM DrillHonesty == DrillSpec => []DrillIsHonest
<1>1. DrillInv => DrillIsHonest
  BY DEF DrillInv, ReceiptInv, OutsidersInv, Excused, DrillIsHonest
<1> QED BY <1>1, DrillStarts, DrillContinues, PTL DEF DrillSpec
==============================================================================
