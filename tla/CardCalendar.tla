---------------------------- MODULE CardCalendar ----------------------------
(***************************************************************************)
(* Programme versions of a card and the statement cycles their close day   *)
(* gives (cashback.py).  Days are numbers; a month is named by its place   *)
(* in MonthStart.                                                          *)
(***************************************************************************)
EXTENDS Integers, FiniteSets, Sequences

CONSTANTS
  MonthStart,     \* the first day of each month, and the day after the last
  Version         \* of the card's programme: [from, close]; each is in force
                  \* from its first day until the next one is

Month == {m \in DOMAIN MonthStart : m + 1 \in DOMAIN MonthStart}

\* The first and the last month only lend their close day to their neighbours.
CalendarDay == {d \in 0..MonthStart[Cardinality(Month) + 1] :
                 MonthStart[2] <= d /\ d < MonthStart[Cardinality(Month)]}

ASSUME CalendarAssumption ==
  /\ MonthStart \in Seq(Nat) /\ Len(MonthStart) >= 4
  /\ \A m, n \in DOMAIN MonthStart : m < n => MonthStart[m] < MonthStart[n]
  /\ \A v \in Version : v.from \in Int /\ v.close \in 1..31
  /\ \A v, w \in Version : v.from = w.from => v = w

InForce(d) == {v \in Version : v.from <= d}
VersionAt(d) == CHOOSE v \in InForce(d) : \A w \in InForce(d) : w.from <= v.from

\* close_for: the close day, or the last day of a month that is too short for it.
CloseFor(m, close) ==
  IF close > MonthStart[m + 1] - MonthStart[m] THEN MonthStart[m + 1] - 1
                                               ELSE MonthStart[m] + close - 1

MonthOf(d) == CHOOSE m \in Month : MonthStart[m] <= d /\ d < MonthStart[m + 1]

\* statement_period: the first and the last day of the cycle a day is in.
CycleOf(d, close) ==
  LET m == MonthOf(d)  thisClose == CloseFor(m, close) IN
  IF d <= thisClose THEN [first |-> CloseFor(m - 1, close) + 1, last |-> thisClose]
                    ELSE [first |-> thisClose + 1, last |-> CloseFor(m + 1, close)]
=============================================================================
