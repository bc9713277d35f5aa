--------------------------- MODULE PeriodHistory ---------------------------
(***************************************************************************)
(* The history of one card on the cashback dashboard: past statement       *)
(* periods and what was bought in each (historical_periods of              *)
(* apps/cashback-control/server.py).  A stored period is shown as it is    *)
(* stored.  A purchase that lies in none belongs to the statement cycle    *)
(* that the programme in force on its day gives it; a cycle that is over   *)
(* is shown where stored periods leave it uncovered.  Purchases are        *)
(* learned late and in any order, periods are stored late.                 *)
(*                                                                         *)
(* Day d is the instants 2 * d and 2 * d + 1, and a period a half-open     *)
(* interval of instants.  The newest 24 periods that are shown are all.    *)
(***************************************************************************)
EXTENDS CardCalendar, FiniteSetsExt

CONSTANTS
  Bought,         \* instants of purchases
  StoredPeriod    \* [start, end], what card_periods may come to hold

ASSUME HistoryAssumption ==
  /\ Bought \subseteq Nat /\ \A e \in Bought : e \div 2 \in CalendarDay
  /\ StoredPeriod \subseteq [start : Int, end : Int] /\ \A p \in StoredPeriod : p.start < p.end

VARIABLES
  purchases,    \* cashback_events of the card that are ACTIVE
  stored,       \* card_periods of the card: the status of each
  evidenced,    \* stored periods a receipt of cashback_receipts names
  today

pastVars == <<purchases, stored, evidenced, today>>

HistoryTypeOK ==
  /\ purchases \subseteq Bought
  /\ DOMAIN stored \subseteq StoredPeriod
  /\ \A p \in DOMAIN stored : stored[p] \in {"OPEN", "FINALIZED"}
  /\ evidenced \subseteq DOMAIN stored
  /\ today \in CalendarDay

In(e, p) == p.start <= e /\ e < p.end

\* The cycle of a purchase.
Cycle(e) == CycleOf(e \div 2, VersionAt(e \div 2).close)

-----------------------------------------------------------------------------
(* historical_periods.                                                     *)

\* The purchases it reads: none of a later day, none before the first version.
Known == {e \in purchases : e \div 2 <= today /\ InForce(e \div 2) # {}}

StoredOf(e) == {p \in DOMAIN stored : In(e, p)}

Unstored == {e \in Known : StoredOf(e) = {} /\ Cycle(e).last <= today}

\* Of the stored periods a purchase lies in, the shortest, then the earliest.
Home(e) ==
  CHOOSE p \in StoredOf(e) :
    \A q \in StoredOf(e) \ {p} :
      \/ p.end - p.start < q.end - q.start
      \/ p.end - p.start = q.end - q.start /\ p.start < q.start

\* A cycle does not begin before the programme of the last of its purchases.
Derived(cycle) ==
  LET version == VersionAt(Max({e \in Unstored : Cycle(e) = cycle}) \div 2)
  IN [start |-> Max({2 * cycle.first, 2 * version.from}), end |-> 2 * (cycle.last + 1)]

\* A variant that drops what comes after the stored period.
BeforeOnly(s, p) == IF p.end <= s.start \/ s.end <= p.start THEN {s}
                    ELSE {[start |-> s.start, end |-> p.start]}

\* What a stored period leaves of one segment, and of several.
Around(s, p) == IF p.end <= s.start \/ s.end <= p.start THEN {s}
                ELSE {[start |-> s.start, end |-> p.start], [start |-> p.end, end |-> s.end]}

Cut(p, segments) == {s \in UNION {Around(t, p) : t \in segments} : s.start < s.end}

Uncovered(cycle) == FoldSet(Cut, {Derived(cycle)}, DOMAIN stored)

DerivedPeriods ==
  {s \in UNION {Uncovered(Cycle(e)) : e \in Unstored} :
     \E e \in Unstored : s \in Uncovered(Cycle(e)) /\
       \E f \in Unstored : Cycle(f) = Cycle(e) /\ In(f, s)}

Ended(p) == (p.end - 1) \div 2 <= today

StoredShown ==
  {p \in DOMAIN stored :
     /\ Ended(p)
     /\ stored[p] = "FINALIZED" \/ p \in evidenced \/ \E e \in Known : p \in StoredOf(e) /\ Home(e) = p}

-----------------------------------------------------------------------------
HistoryInit ==
  /\ purchases = {} /\ stored = <<>> /\ evidenced = {}
  /\ today = MonthStart[2]

\* CashbackEventStore.upsert, at any time after the purchase.
LearnPurchase(e) ==
  /\ e \div 2 <= today
  /\ purchases' = purchases \cup {e}
  /\ UNCHANGED <<stored, evidenced, today>>

\* ensure_period, and the closing of a period, which may store one that overlaps.
StorePeriod(p, status) ==
  /\ p \in DOMAIN stored => stored[p] = "OPEN"
  /\ stored' = [q \in DOMAIN stored \cup {p} |-> IF q = p THEN status ELSE stored[q]]
  /\ UNCHANGED <<purchases, evidenced, today>>

KeepReceipt(p) ==
  /\ evidenced' = evidenced \cup {p}
  /\ UNCHANGED <<purchases, stored, today>>

NextDay ==
  /\ today + 1 \in CalendarDay
  /\ today' = today + 1
  /\ UNCHANGED <<purchases, stored, evidenced>>

HistoryNext ==
  \/ \E e \in Bought : LearnPurchase(e)
  \/ \E p \in StoredPeriod, status \in {"OPEN", "FINALIZED"} : StorePeriod(p, status)
  \/ \E p \in DOMAIN stored : KeepReceipt(p)
  \/ NextDay

HistorySpec == HistoryInit /\ [][HistoryNext]_pastVars

-----------------------------------------------------------------------------
Shown(e) == {p \in StoredShown \cup DerivedPeriods : In(e, p)}

\* A later purchase of the same cycle was made under a newer programme.
Superseded(e) ==
  \E f \in Unstored : f > e /\ Cycle(f) = Cycle(e) /\ VersionAt(f \div 2) # VersionAt(e \div 2)

CloseDayChanged(e) ==
  \E f \in Unstored : VersionAt(f \div 2).close # VersionAt(e \div 2).close

(* The history is a partition: no derived period meets a stored one, and a *)
(* purchase whose period is over is counted, in one period unless stored   *)
(* ones overlap.  It is counted nowhere only when a later purchase of its  *)
(* cycle was made under a newer programme, and in two derived periods only *)
(* when the close day has changed.                                         *)
HistoryCounts ==
  /\ \A p \in DerivedPeriods, q \in DOMAIN stored : p.end <= q.start \/ q.end <= p.start
  /\ \A e \in Known :
       StoredOf(e) # {} =>
         /\ Ended(Home(e)) => Shown(e) # {}
         /\ Cardinality(Shown(e)) <= Cardinality(StoredOf(e))
  /\ \A e \in Unstored :
       /\ Shown(e) = {} => Superseded(e)
       /\ Cardinality(Shown(e)) > 1 => CloseDayChanged(e)
=============================================================================
