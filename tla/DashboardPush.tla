--------------------------- MODULE DashboardPush ---------------------------
(***************************************************************************)
(* The dashboard of the cashback server and the push messages it causes    *)
(* (apps/cashback-control/server.py, finance_tracker/web_push.py).         *)
(* Handlers that change what the map or the alerts rest on commit to the   *)
(* store and then rebuild the dashboard; a thread rebuilds it every minute.*)
(* A rebuild reads the store and replaces the file under WRITE_LOCK, then  *)
(* evaluates its payload under PUSH_LOCK: compares the routing map with    *)
(* the one in push_state and sends what no device has been sent.  Any      *)
(* rebuild may fail, any send may fail, and the process may die between    *)
(* any two steps.                                                          *)
(*                                                                         *)
(* The store is reduced to the routing map and the alerts that are not     *)
(* acknowledged (their keys name the period or the stale episode).         *)
(* Receipts of statement mails and of scans are not part of it: their      *)
(* handlers only commit, and data_status shows them at the next rebuild of *)
(* any thread.                                                             *)
(***************************************************************************)
EXTENDS Naturals, FiniteSets

CONSTANTS
  Handler,     \* threads of ThreadingHTTPServer that serve a write
  Refresher,   \* the thread of refresh_dashboard_periodically, and main at start
  Device,      \* endpoints of push subscriptions
  Route,       \* routing maps
  Alert,       \* keys of alerts
  NoRoute, Nobody,
  MaxWrites, MaxPushFaults

ASSUME PushAssumption ==
  /\ Refresher \notin Handler /\ NoRoute \notin Route /\ Nobody \notin Handler \cup {Refresher}
  /\ Route \cap Alert = {} /\ MaxWrites \in Nat /\ MaxPushFaults \in Nat

VARIABLES
  store,         \* [route, alerts] as committed
  file,          \* [route, alerts] in the dashboard file
  thread,        \* what each thread is doing
  pushLock,      \* holder of PUSH_LOCK
  routingMap,    \* the routing-map row of push_state
  subscription,  \* "none", "enabled" or "disabled" per device
  delivery,      \* push_deliveries: status per notification key and device
  serving,       \* the server is past the rebuild at its start
  writes, pushFaults,
  sent,          \* history: how often a key was sent to a device
  unrecorded,    \* history: pairs that may have been sent without a record of it
  audience,      \* history: devices the last change of the routing map was meant for
  dropped        \* history: those a failed send or the end of the process cost it

pushVars == <<store, file, thread, pushLock, routingMap, subscription, delivery, serving,
              writes, pushFaults, sent, unrecorded, audience, dropped>>

Thread == Handler \cup {Refresher}
Key == Route \cup Alert          \* routing:<digest of the map>, or the alert's key
Pair == Key \X Device
Payload == [route : Route \cup {NoRoute}, alerts : SUBSET Alert]

historyVars == <<sent, unrecorded, audience, dropped>>
tableVars == <<routingMap, subscription, delivery>>

BlankPayload == [route |-> NoRoute, alerts |-> {}]
Idle == [pc |-> "idle", payload |-> BlankPayload, todo |-> {}, onItsWay |-> {}]

PushTypeOK ==
  /\ store \in Payload /\ file \in Payload
  /\ thread \in [Thread -> [pc : {"idle", "build", "read", "push", "send", "record"},
                            payload : Payload, todo : SUBSET Pair, onItsWay : SUBSET Pair]]
  /\ pushLock \in Thread \cup {Nobody}
  /\ routingMap \in Route \cup {NoRoute}
  /\ subscription \in [Device -> {"none", "enabled", "disabled"}]
  /\ delivery \in [Pair -> {"none", "FAILED", "SENT"}]
  /\ serving \in BOOLEAN /\ writes \in 0..MaxWrites /\ pushFaults \in 0..MaxPushFaults
  /\ sent \in [Pair -> Nat] /\ unrecorded \subseteq Pair
  /\ audience \subseteq Device /\ dropped \subseteq Device

PushInit ==
  /\ \E r \in Route : store = [route |-> r, alerts |-> {}]
  /\ file = BlankPayload
  /\ thread = [t \in Thread |-> IF t = Refresher THEN [Idle EXCEPT !.pc = "build"] ELSE Idle]
  /\ pushLock = Nobody
  /\ routingMap = NoRoute
  /\ subscription = [d \in Device |-> "none"]
  /\ delivery = [p \in Pair |-> "none"]
  /\ serving = FALSE /\ writes = 0 /\ pushFaults = 0
  /\ sent = [p \in Pair |-> 0] /\ unrecorded = {} /\ audience = {} /\ dropped = {}

-----------------------------------------------------------------------------
(* The dashboard.                                                          *)

Becomes(t, pc) == thread' = [thread EXCEPT ![t].pc = pc]

\* A handler of such a write: its own transaction, then rebuild_dashboard.
Write(t) ==
  /\ serving /\ thread[t].pc = "idle" /\ writes < MaxWrites
  /\ \E r \in Route, a \in SUBSET Alert : store' = [route |-> r, alerts |-> a]
  /\ Becomes(t, "build")
  /\ writes' = writes + 1
  /\ UNCHANGED <<file, pushLock, tableVars, serving, pushFaults, historyVars>>

Refresh ==
  /\ serving /\ thread[Refresher].pc = "idle"
  /\ Becomes(Refresher, "build")
  /\ UNCHANGED <<store, file, pushLock, tableVars, serving, writes, pushFaults, historyVars>>

WriteLockFree == \A t \in Thread : thread[t].pc # "read"

\* build_live_dashboard reads with several connections, so a write may be
\* committed between two of its reads.
ReadFirst(t) ==
  /\ thread[t].pc = "build" /\ WriteLockFree
  /\ thread' = [thread EXCEPT ![t] = [@ EXCEPT !.pc = "read", !.payload.route = store.route]]
  /\ UNCHANGED <<store, file, pushLock, tableVars, serving, writes, pushFaults, historyVars>>

ReadRest(t) ==
  /\ thread[t].pc = "read"
  /\ file' = [thread[t].payload EXCEPT !.alerts = store.alerts]
  /\ thread' = [thread EXCEPT ![t] = [@ EXCEPT !.pc = "push", !.payload = file']]
  /\ UNCHANGED <<store, pushLock, tableVars, serving, writes, pushFaults, historyVars>>

\* A rebuild that raises: the handler answers 500, the refresher waits for the
\* next interval, and a server that cannot start is started again.
RebuildFails(t) ==
  /\ thread[t].pc \in {"build", "read"} /\ pushFaults < MaxPushFaults
  /\ thread' = [thread EXCEPT ![t] = IF serving THEN Idle ELSE [Idle EXCEPT !.pc = "build"]]
  /\ pushFaults' = pushFaults + 1
  /\ UNCHANGED <<store, file, pushLock, tableVars, serving, writes, historyVars>>

-----------------------------------------------------------------------------
(* WebPushDispatcher.                                                      *)

Enabled == {d \in Device : subscription[d] = "enabled"}

\* The map differs from the stored one; the first map ever is no change.  Route has no
\* map that only lacks entries of another one, which the code does not announce.
RouteChanged(payload) == routingMap # NoRoute /\ payload.route # routingMap

Notifications(payload) ==
  payload.alerts \cup IF RouteChanged(payload) THEN {payload.route} ELSE {}

\* A variant without PUSH_LOCK.
EvaluateUnlocked(t) ==
  LET payload == thread[t].payload IN
  /\ thread[t].pc = "push"
  /\ pushLock' = t
  /\ routingMap' = payload.route
  /\ thread' = [thread EXCEPT ![t] = [@ EXCEPT !.pc = "send",
                                              !.todo = Notifications(payload) \X Enabled]]
  /\ audience' = IF RouteChanged(payload) THEN Enabled ELSE audience
  /\ dropped' = IF RouteChanged(payload) THEN {} ELSE dropped
  /\ UNCHANGED <<store, file, subscription, delivery, serving, writes, pushFaults, sent, unrecorded>>

\* evaluate: swap_state commits before anything is sent.
Evaluate(t) ==
  LET payload == thread[t].payload IN
  /\ thread[t].pc = "push" /\ pushLock = Nobody
  /\ pushLock' = t
  /\ routingMap' = payload.route
  /\ thread' = [thread EXCEPT ![t] = [@ EXCEPT !.pc = "send",
                                              !.todo = Notifications(payload) \X Enabled]]
  /\ audience' = IF RouteChanged(payload) THEN Enabled ELSE audience
  /\ dropped' = IF RouteChanged(payload) THEN {} ELSE dropped
  /\ UNCHANGED <<store, file, subscription, delivery, serving, writes, pushFaults, sent, unrecorded>>

\* A variant that takes a failed delivery for one that arrived.
TriedBefore(p) == delivery[p] # "none"

\* delivery_sent
DeliverySent(p) == delivery[p] = "SENT"

\* Every candidate to every subscription read at the start; the order is left open.
Skip(t, p) ==
  /\ thread[t].pc = "send" /\ p \in thread[t].todo
  /\ DeliverySent(p)
  /\ thread' = [thread EXCEPT ![t].todo = @ \ {p}]
  /\ UNCHANGED <<store, file, pushLock, tableVars, serving, writes, pushFaults, historyVars>>

\* The network call; recording it is another transaction.
Send(t, p) ==
  /\ thread[t].pc = "send" /\ p \in thread[t].todo
  /\ ~DeliverySent(p)
  /\ sent' = [sent EXCEPT ![p] = @ + 1]
  /\ thread' = [thread EXCEPT ![t] = [@ EXCEPT !.pc = "record", !.todo = thread[t].todo \ {p},
                                              !.onItsWay = {p}]]
  /\ UNCHANGED <<store, file, pushLock, tableVars, serving, writes, pushFaults,
                 unrecorded, audience, dropped>>

RecordSent(t) ==
  /\ thread[t].pc = "record"
  /\ delivery' = [p \in Pair |-> IF p \in thread[t].onItsWay THEN "SENT" ELSE delivery[p]]
  /\ thread' = [thread EXCEPT ![t] = [@ EXCEPT !.pc = "send", !.onItsWay = {}]]
  /\ UNCHANGED <<store, file, pushLock, routingMap, subscription, serving, writes, pushFaults,
                 historyVars>>

\* The push service refuses (404 and 410 disable the device), cannot be reached, or
\* delivers and its answer is lost.
SendFails(t, p) ==
  /\ thread[t].pc = "send" /\ p \in thread[t].todo
  /\ ~DeliverySent(p)
  /\ pushFaults < MaxPushFaults
  /\ pushFaults' = pushFaults + 1
  /\ delivery' = [delivery EXCEPT ![p] = "FAILED"]
  /\ \/ UNCHANGED subscription
     \/ subscription' = [subscription EXCEPT
                           ![p[2]] = IF @ = "enabled" THEN "disabled" ELSE @]
  /\ thread' = [thread EXCEPT ![t].todo = @ \ {p}]
  /\ dropped' = IF p[1] \in Route THEN dropped \cup {p[2]} ELSE dropped
  /\ \/ UNCHANGED <<sent, unrecorded>>
     \/ sent' = [sent EXCEPT ![p] = @ + 1] /\ unrecorded' = unrecorded \cup {p}
  /\ UNCHANGED <<store, file, pushLock, routingMap, serving, writes, audience>>

Done(t) ==
  /\ thread[t].pc = "send" /\ thread[t].todo = {}
  /\ thread' = [thread EXCEPT ![t] = Idle]
  /\ pushLock' = Nobody
  /\ serving' = TRUE
  /\ UNCHANGED <<store, file, tableVars, writes, pushFaults, historyVars>>

\* upsert_subscription; the test message it causes has a key of its own and
\* shares nothing with an evaluation.
Subscribe(d) ==
  /\ serving /\ subscription[d] # "enabled"
  /\ subscription' = [subscription EXCEPT ![d] = "enabled"]
  /\ UNCHANGED <<store, file, thread, pushLock, routingMap, delivery, serving, writes, pushFaults,
                 historyVars>>

\* remove_subscription keeps the deliveries of the endpoint.
Unsubscribe(d) ==
  /\ serving /\ subscription[d] # "none"
  /\ subscription' = [subscription EXCEPT ![d] = "none"]
  /\ UNCHANGED <<store, file, thread, pushLock, routingMap, delivery, serving, writes, pushFaults,
                 historyVars>>

\* The process dies and is started again; the tables and the file stay.
Restart ==
  /\ pushFaults < MaxPushFaults
  /\ pushFaults' = pushFaults + 1
  /\ thread' = [t \in Thread |-> IF t = Refresher THEN [Idle EXCEPT !.pc = "build"] ELSE Idle]
  /\ pushLock' = Nobody
  /\ serving' = FALSE
  /\ unrecorded' = unrecorded \cup UNION {thread[t].onItsWay : t \in Thread}
  /\ dropped' = dropped \cup
       {p[2] : p \in {q \in UNION {thread[t].todo \cup thread[t].onItsWay : t \in Thread} :
                       q[1] \in Route}}
  /\ UNCHANGED <<store, file, tableVars, writes, sent, audience>>

Rebuild(t) ==
  \/ ReadFirst(t) \/ ReadRest(t) \/ Evaluate(t) \/ RecordSent(t) \/ Done(t)
  \/ \E p \in thread[t].todo : Skip(t, p) \/ Send(t, p)

PushNext ==
  \/ \E t \in Handler : Write(t)
  \/ Refresh
  \/ \E t \in Thread : Rebuild(t) \/ RebuildFails(t) \/ \E p \in thread[t].todo : SendFails(t, p)
  \/ \E d \in Device : Subscribe(d) \/ Unsubscribe(d)
  \/ Restart

\* Threads run on, the refresher wakes up for ever; a thread may wait for a lock
\* the others keep taking.
PushFairness == WF_pushVars(Refresh) /\ \A t \in Thread : WF_pushVars(Rebuild(t))

PushSpec == PushInit /\ [][PushNext]_pushVars /\ PushFairness

-----------------------------------------------------------------------------
\* A write that is committed between the reads of another rebuild is made good by its own.
QuietFileIsCurrent ==
  pushFaults = 0 /\ serving /\ (\A t \in Thread : thread[t].pc \notin {"build", "read"})
    => file = store

\* Unless it was sent without a record: the process died, or the answer was lost.
SentOnce == \A p \in Pair : sent[p] > 1 => p \in unrecorded

\* push_state moves on before anything is sent, and nothing compares with the old map again.
RoutingLostOnlyByFault ==
  pushLock = Nobody =>
    \A d \in audience : delivery[<<routingMap, d>>] = "SENT" \/ d \in dropped

(* Without a failed rebuild, the file shows what the store holds whenever  *)
(* no rebuild is about to replace it.  No device is sent one key twice,    *)
(* whichever threads evaluate and however often it unsubscribes, unless    *)
(* nothing could record that it had been sent.  And when no evaluation is  *)
(* running, a change of the map has reached every device it was meant for, *)
(* now or when the same map was announced before, except where its one     *)
(* send failed or the process died.                                        *)
PushIsHonest == QuietFileIsCurrent /\ SentOnce /\ RoutingLostOnlyByFault

(* Alerts, unlike changes of the map, are looked at again by every rebuild: *)
(* one that stays gets through to every device that stays subscribed, in    *)
(* spite of failed rebuilds, failed sends and restarts.                     *)
AlertsGetThrough ==
  \A a \in Alert, d \in Device :
    <>[](a \in store.alerts /\ subscription[d] = "enabled") => <>(delivery[<<a, d>>] = "SENT")
=============================================================================
