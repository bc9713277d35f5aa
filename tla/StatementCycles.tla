---------------------------- MODULE StatementCycles ----------------------------
(***************************************************************************)
(* The bank's statements of one card as they arrive by mail                *)
(* (statement_cycles.py, bank_statement_receipts of cashback_events.py)    *)
(* and the views that the dashboard derives from them: the previous cycle, *)
(* the dashboard of a past day and the past days it offers                 *)
(* (apps/cashback-control/server.py).                                      *)
(*                                                                         *)
(* Day d is the instants 2 * d and 2 * d + 1.  A receipt names its first   *)
(* and its last day; a stored period is a half-open interval of instants.  *)
(* What a receipt says of its document, and its processing and             *)
(* reconciliation states, which may be set to anything in any order, are   *)
(* left out: no view depends on them.                                      *)
(***************************************************************************)
EXTENDS CardCalendar, FiniteSetsExt

CONSTANTS
  Mail,          \* [id, received, first, last]: what a producer sends
  CardPeriod,    \* [start, end], what card_periods may come to hold
  Spend,         \* instants of purchases
  NoDay

ASSUME CyclesAssumption ==
  /\ \A m \in Mail : m.received \in Int /\ m.first \in Int /\ m.last \in Int
  /\ CardPeriod \subseteq [start : Int, end : Int] /\ \A p \in CardPeriod : p.start < p.end
  /\ Spend \subseteq Nat /\ \A e \in Spend : e \div 2 \in CalendarDay
  /\ NoDay \notin CalendarDay

VARIABLES receipts, cardPeriods, spent, day
cyclesVars == <<receipts, cardPeriods, spent, day>>

CyclesInit == receipts = <<>> /\ cardPeriods = <<>> /\ spent = {} /\ day = MonthStart[2]

Dated(r) == r.first # NoDay
Bounds(r) == <<r.first, r.last>>
Interval(r) == [start |-> 2 * r.first, end |-> 2 * (r.last + 1)]

-----------------------------------------------------------------------------
(* Receipts.                                                               *)

Normalized(m) == (m.first = NoDay) = (m.last = NoDay) /\ (Dated(m) => m.first <= m.last)

\* A message that is known is answered as a replay, or refused if anything differs: also
\* if only its days have become known.
ReceiveStatement(m) ==
  /\ Normalized(m) /\ m.received <= day /\ m.id \notin DOMAIN receipts
  /\ receipts' = [i \in DOMAIN receipts \cup {m.id} |->
                    IF i = m.id THEN [received |-> m.received, first |-> m.first, last |-> m.last]
                                ELSE receipts[i]]
  /\ UNCHANGED <<cardPeriods, spent, day>>

UpdateReceipt(i, bounds) ==
  /\ bounds[1] <= bounds[2] /\ ~Dated(receipts[i])
  /\ receipts' = [receipts EXCEPT ![i].first = bounds[1], ![i].last = bounds[2]]
  /\ UNCHANGED <<cardPeriods, spent, day>>

-----------------------------------------------------------------------------
(* The rest of the store: ensure_period and finalize_period, upsert.       *)

StoreCardPeriod(p, status) ==
  /\ p \in DOMAIN cardPeriods => cardPeriods[p] = "OPEN"
  /\ cardPeriods' = [q \in DOMAIN cardPeriods \cup {p} |-> IF q = p THEN status ELSE cardPeriods[q]]
  /\ UNCHANGED <<receipts, spent, day>>

LearnSpend(e) ==
  /\ e \div 2 <= day
  /\ spent' = spent \cup {e}
  /\ UNCHANGED <<receipts, cardPeriods, day>>

PassDay ==
  /\ day + 1 \in CalendarDay
  /\ day' = day + 1
  /\ UNCHANGED <<receipts, cardPeriods, spent>>

CyclesNext ==
  \/ \E m \in Mail : ReceiveStatement(m)
  \/ \E i \in DOMAIN receipts, m \in Mail : NoDay \notin {m.first, m.last} /\ UpdateReceipt(i, Bounds(m))
  \/ \E p \in CardPeriod, status \in {"OPEN", "FINALIZED"} : StoreCardPeriod(p, status)
  \/ \E e \in Spend : LearnSpend(e)
  \/ PassDay

CyclesSpec == CyclesInit /\ [][CyclesNext]_cyclesVars

-----------------------------------------------------------------------------
(* build_live_dashboard: the purchases of the card on a day.               *)

Covers(p, d) == p.start < 2 * (d + 1) /\ p.end > 2 * d

\* An open period goes before a finalized one, then the earlier one; a card that has
\* stored periods has none at all on a day that they leave out.
CurrentPeriod(status, d) ==
  {p \in DOMAIN status :
     /\ status[p] \in {"OPEN", "FINALIZED"} /\ Covers(p, d)
     /\ \A q \in DOMAIN status :
          status[q] \in {"OPEN", "FINALIZED"} /\ Covers(q, d) =>
            \/ status[p] = "OPEN" /\ status[q] # "OPEN"
            \/ status[p] = status[q] /\ p.start <= q.start}

DashboardOf(status, d) ==
  IF InForce(d) = {} THEN {}
  ELSE IF status = <<>>
  THEN LET cycle == CycleOf(d, VersionAt(d).close)
       IN {e \in spent : cycle.first <= e \div 2 /\ e \div 2 <= d}
  ELSE IF CurrentPeriod(status, d) = {} THEN {}
  ELSE LET p == CHOOSE q \in CurrentPeriod(status, d) : TRUE
       IN {e \in spent : p.start <= e /\ e < p.end /\ e < 2 * (d + 1)}

\* _HistoricalPeriodStore: the selected periods are open, the others are not.
Selected(status, chosen) ==
  [p \in DOMAIN status \cup chosen |->
     IF p \in chosen THEN "OPEN"
     ELSE IF chosen # {} /\ status[p] = "OPEN" THEN "HISTORICAL" ELSE status[p]]

LiveDashboard == DashboardOf(cardPeriods, day)
DashboardAsOf(d) == DashboardOf(Selected(cardPeriods, {p \in DOMAIN cardPeriods : Covers(p, d)}), d)

-----------------------------------------------------------------------------
(* _previous_statement_cycles.                                             *)

EligibleReceipts ==
  {i \in DOMAIN receipts :
     LET r == receipts[i]
     IN Dated(r) /\ r.last <= day /\ r.first < CycleOf(day, VersionAt(day).close).first}

Newest(i, j) ==
  LET r == receipts[i]  s == receipts[j]
  IN \/ r.last > s.last
     \/ r.last = s.last /\ r.first > s.first
     \/ r.last = s.last /\ r.first = s.first /\ r.received >= s.received

\* The newest statement that is over, else the latest arrival without days.
PreviousReceipts ==
  IF EligibleReceipts # {} THEN {i \in EligibleReceipts : \A j \in EligibleReceipts : Newest(i, j)}
  ELSE {i \in DOMAIN receipts :
          ~Dated(receipts[i]) /\ \A j \in DOMAIN receipts :
            ~Dated(receipts[j]) => receipts[j].received <= receipts[i].received}

\* The dashboard of the last day, of a stored period with exactly its bounds or of the
\* interval itself.
PreviousSummary(i) ==
  DashboardOf(Selected(cardPeriods, {Interval(receipts[i])}), receipts[i].last)

Settled(i) ==
  /\ Dated(receipts[i]) /\ Interval(receipts[i]) \in DOMAIN cardPeriods
  /\ cardPeriods[Interval(receipts[i])] = "FINALIZED"

\* _available_as_of_dates: the last day of each finalized period, and of the cycle that
\* today's programme gives each purchase.
OfferedDays ==
  {d \in CalendarDay :
     /\ d <= day
     /\ \/ \E p \in DOMAIN cardPeriods : cardPeriods[p] = "FINALIZED" /\ d = (p.end - 1) \div 2
        \/ InForce(day) # {} /\ \E e \in spent : d = CycleOf(e \div 2, VersionAt(day).close).last}

-----------------------------------------------------------------------------
CyclesTypeOK ==
  /\ DOMAIN receipts \subseteq {m.id : m \in Mail}
  /\ \A i \in DOMAIN receipts : Normalized(receipts[i])
  /\ DOMAIN cardPeriods \subseteq CardPeriod /\ spent \subseteq Spend /\ day \in CalendarDay

\* The previous cycle shows what was bought in the days of the statement, whatever periods
\* are stored: none, the same one open or finalized, or others that overlap it.
\* The dashboard of a past day never shows a later purchase, and shows a purchase that a
\* stored period has on one of its days, unless another period covers that day as well.
ViewsAreExact ==
  /\ InForce(day) # {} =>
       \A i \in PreviousReceipts :
         Dated(receipts[i]) /\ InForce(receipts[i].last) # {} =>
           PreviousSummary(i) = {e \in spent : LET p == Interval(receipts[i])
                                               IN p.start <= e /\ e < p.end}
  /\ \A d \in CalendarDay : d <= day => \A e \in DashboardAsOf(d) : e \div 2 <= d
  /\ \A d \in OfferedDays :
       InForce(d) # {} =>
         \A p \in DOMAIN cardPeriods :
           d = (p.end - 1) \div 2 /\ (\A q \in DOMAIN cardPeriods \ {p} : ~Covers(q, d)) =>
             DashboardAsOf(d) = {e \in spent : p.start <= e /\ e < p.end}
  /\ LET open == {p \in DOMAIN cardPeriods : Covers(p, day)}
     IN Cardinality(open) <= 1 => DashboardAsOf(day) = LiveDashboard

\* The days of a statement are final once they are known, a settled statement stays
\* settled, and the previous cycle never goes back to an earlier statement while the close
\* day is the same.
CyclesOnlyAdvance ==
  /\ \A i \in DOMAIN receipts :
       /\ receipts'[i].received = receipts[i].received
       /\ Dated(receipts[i]) => Bounds(receipts'[i]) = Bounds(receipts[i])
       /\ Settled(i) => Settled(i)'
  /\ InForce(day) # {} /\ VersionAt(day).close = VersionAt(day').close =>
       \A i \in PreviousReceipts, j \in PreviousReceipts' :
         Dated(receipts[i]) => Dated(receipts'[j]) /\ receipts'[j].last >= receipts[i].last
==============================================================================
