--------------------------- MODULE CalendarProofs ----------------------------
(***************************************************************************)
(* The calendar of statement cycles, and StatementCycles over it, for any  *)
(* months, close days, mails, stored periods and purchases.                *)
(*                                                                         *)
(* A month is a step of MonthStart and every close day falls into its      *)
(* month, so the cycles of a close day follow one another without a gap:   *)
(* that is what every view of a cycle is cut from.                         *)
(***************************************************************************)
EXTENDS StatementCycles, FiniteSetTheorems, TLAPS

Length == Len(MonthStart)

LEMMA LeastNumber ==
  ASSUME NEW S, S \subseteq Nat, S # {}
  PROVE  \E n \in S : \A m \in S : n <= m
<1> DEFINE R == OpToRel(<, Nat)
<1>1. IsWellFoundedOn(R, Nat) BY NatLessThanWellFounded
<1>2. \A x, y \in Nat : y < x => <<y, x>> \in R BY DEF OpToRel
<1> HIDE DEF R
<1>3. PICK n \in S : \A y \in S : ~(<<y, n>> \in R) BY <1>1, WFMin
<1>4. \A y \in S : ~(y < n) BY <1>2, <1>3
<1>5. \A y \in S : n <= y BY <1>4
<1> QED BY <1>5

\* A set of integers with a bound has a greatest element.
LEMMA Greatest ==
  ASSUME NEW S, S \subseteq Int, S # {}, NEW b \in Int, \A x \in S : x <= b
  PROVE  /\ Max(S) \in S
         /\ \A x \in S : x <= Max(S)
<1> DEFINE D == {n \in Nat : b - n \in S}
<1>1. D \subseteq Nat /\ D # {}
  <2>1. PICK x \in S : TRUE OBVIOUS
  <2>2. b - x \in Nat /\ b - (b - x) = x BY <2>1
  <2> QED BY <2>2
<1>2. PICK n \in D : \A m \in D : n <= m BY <1>1, LeastNumber
<1>3. \A x \in S : b - n >= x
  <2> TAKE x \in S
  <2>1. b - x \in Nat /\ b - (b - x) = x OBVIOUS
  <2>2. n <= b - x BY <1>2, <2>1
  <2> QED BY <2>1, <2>2
<1>4. b - n \in S BY <1>2
<1>5. \E x \in S : \A y \in S : x >= y BY <1>3, <1>4
<1>6. Max(S) \in S /\ \A y \in S : Max(S) >= y BY <1>5 DEF Max
<1> QED BY <1>6

-----------------------------------------------------------------------------
(* The calendar.                                                           *)

LEMMA CalendarShape ==
  /\ Length \in Nat /\ Length >= 4 /\ DOMAIN MonthStart = 1..Length
  /\ \A m \in 1..Length : MonthStart[m] \in Nat
  /\ Month = 1..Length - 1 /\ Cardinality(Month) = Length - 1
  /\ \A d : d \in CalendarDay
            <=> d \in Nat /\ MonthStart[2] <= d /\ d < MonthStart[Length - 1]
<1>1. /\ Length \in Nat /\ Length >= 4 /\ DOMAIN MonthStart = 1..Length
      /\ \A m \in 1..Length : MonthStart[m] \in Nat
  BY CalendarAssumption DEF Length
<1>2. Month = 1..Length - 1 BY <1>1 DEF Month
<1>3. Cardinality(1..Length - 1) = Length - 1 BY <1>1, FS_Interval
<1>4. Cardinality(Month) = Length - 1 BY <1>2, <1>3
<1>5. MonthStart[Length - 1] < MonthStart[Length] BY <1>1, CalendarAssumption
<1>6. Cardinality(Month) + 1 = Length BY <1>1, <1>4
<1>7. MonthStart[2] \in Nat /\ MonthStart[Length - 1] \in Nat /\ MonthStart[Length] \in Nat BY <1>1
<1>8. CalendarDay = {d \in 0..MonthStart[Length] : MonthStart[2] <= d /\ d < MonthStart[Length - 1]}
  BY <1>4, <1>6 DEF CalendarDay
<1>9. \A d : d \in CalendarDay
             <=> d \in Nat /\ MonthStart[2] <= d /\ d < MonthStart[Length - 1]
  BY <1>5, <1>7, <1>8
<1> QED BY <1>1, <1>2, <1>4, <1>9

LEMMA MonthsAscend ==
  ASSUME NEW m \in 1..Length, NEW n \in 1..Length
  PROVE  /\ m < n => MonthStart[m] < MonthStart[n]
         /\ m <= n => MonthStart[m] <= MonthStart[n]
<1>1. m \in DOMAIN MonthStart /\ n \in DOMAIN MonthStart BY CalendarShape
<1>2. m \in Int /\ n \in Int /\ MonthStart[m] \in Nat /\ MonthStart[n] \in Nat BY CalendarShape
<1>3. m < n => MonthStart[m] < MonthStart[n] BY <1>1, CalendarAssumption
<1>4. m = n => MonthStart[m] = MonthStart[n] OBVIOUS
<1> QED BY <1>2, <1>3, <1>4

\* A day is in one month, which is not on the edge of the calendar.
LEMMA MonthOfDay ==
  ASSUME NEW d \in CalendarDay
  PROVE  /\ MonthOf(d) \in 2..Length - 2
         /\ MonthStart[MonthOf(d)] <= d /\ d < MonthStart[MonthOf(d) + 1]
         /\ \A m \in Month : MonthStart[m] <= d /\ d < MonthStart[m + 1] => m = MonthOf(d)
<1> DEFINE S == {m \in 1..Length - 1 : MonthStart[m] <= d}
<1>1. /\ Length \in Nat /\ Length >= 4 /\ d \in Nat
      /\ MonthStart[2] <= d /\ d < MonthStart[Length - 1]
  BY CalendarShape
<1>2. 2 \in S BY <1>1
<1>3. S \subseteq Int /\ \A m \in S : m <= Length BY <1>1
<1>4. PICK m \in S : \A n \in S : n <= m
  <2>1. Length \in Int /\ S # {} BY <1>1, <1>2
  <2> HIDE DEF S
  <2>2. Max(S) \in S /\ \A n \in S : n <= Max(S) BY <1>3, <2>1, Greatest
  <2> QED BY <2>2
<1>5. m \in 2..Length - 2
  <2>1. MonthStart[m] <= d /\ m \in 1..Length - 1 OBVIOUS
  <2>2. m >= 2 BY <1>2, <1>4
  <2>3. m # Length - 1 BY <1>1, <2>1, CalendarShape
  <2> QED BY <1>1, <2>1, <2>2, <2>3
<1>6. d < MonthStart[m + 1]
  <2>1. m + 1 \notin S BY <1>4, <1>5
  <2>2. m + 1 \in 1..Length - 1 BY <1>1, <1>5
  <2>3. ~(MonthStart[m + 1] <= d) BY <2>1, <2>2
  <2>4. MonthStart[m + 1] \in Nat BY <1>1, <2>2, CalendarShape
  <2> QED BY <1>1, <2>3, <2>4
<1>7. m \in Month /\ MonthStart[m] <= d BY <1>1, <1>5, CalendarShape
<1>8. ASSUME NEW a \in Month, NEW b \in Month, a < b,
             d < MonthStart[a + 1], MonthStart[b] <= d
      PROVE  FALSE
  <2>1. a \in 1..Length - 1 /\ b \in 1..Length - 1 BY CalendarShape
  <2>2. a + 1 \in 1..Length /\ b \in 1..Length /\ a + 1 <= b BY <1>1, <1>8, <2>1
  <2>3. MonthStart[a + 1] <= MonthStart[b] BY <2>2, MonthsAscend
  <2>4. MonthStart[a + 1] \in Nat /\ MonthStart[b] \in Nat BY <2>2, CalendarShape
  <2> QED BY <1>1, <1>8, <2>3, <2>4
<1>9. \A n \in Month : MonthStart[n] <= d /\ d < MonthStart[n + 1] => n = m
  <2> SUFFICES ASSUME NEW n \in Month, MonthStart[n] <= d, d < MonthStart[n + 1]
               PROVE  n = m
    OBVIOUS
  <2>1. n \in Int /\ m \in Int BY <1>1, <1>7, CalendarShape
  <2>2. ~(n < m) BY <1>7, <1>8
  <2>3. ~(m < n) BY <1>6, <1>7, <1>8
  <2> QED BY <2>1, <2>2, <2>3
<1>10. MonthOf(d) = m BY <1>6, <1>7, <1>9 DEF MonthOf
<1> QED BY <1>5, <1>6, <1>7, <1>9, <1>10

LEMMA CloseInMonth ==
  ASSUME NEW m \in Month, NEW close \in 1..31
  PROVE  /\ CloseFor(m, close) \in Nat
         /\ MonthStart[m] <= CloseFor(m, close) /\ CloseFor(m, close) < MonthStart[m + 1]
<1>1. m \in 1..Length /\ m + 1 \in 1..Length /\ m < m + 1 BY CalendarShape
<1>2. MonthStart[m] \in Nat /\ MonthStart[m + 1] \in Nat BY <1>1, CalendarShape
<1>3. MonthStart[m] < MonthStart[m + 1] BY <1>1, MonthsAscend
<1> QED BY <1>2, <1>3 DEF CloseFor

\* The cycles of a close day: after the close of a month, up to that of the next.
CycleTo(j, close) == [first |-> CloseFor(j - 1, close) + 1, last |-> CloseFor(j, close)]

LEMMA CycleOfDay ==
  ASSUME NEW d \in CalendarDay, NEW close \in 1..31
  PROVE  \E j \in 2..Length - 1 :
           /\ CycleOf(d, close) = CycleTo(j, close)
           /\ CycleTo(j, close).first \in Int /\ CycleTo(j, close).last \in Int
           /\ CycleTo(j, close).first <= d /\ d <= CycleTo(j, close).last
<1> DEFINE m == MonthOf(d)
<1>1. /\ m \in 2..Length - 2 /\ Length \in Nat /\ d \in Nat
      /\ MonthStart[m] <= d /\ d < MonthStart[m + 1]
  BY MonthOfDay, CalendarShape
<1>2. CycleOf(d, close) = IF d <= CloseFor(m, close) THEN CycleTo(m, close) ELSE CycleTo(m + 1, close)
  BY <1>1 DEF CycleOf, CycleTo
<1> HIDE DEF m
<1>3. /\ m - 1 \in Month /\ m \in Month /\ m + 1 \in Month /\ (m - 1) + 1 = m /\ (m + 1) - 1 = m
      /\ m \in 2..Length - 1 /\ m + 1 \in 2..Length - 1
  BY <1>1, CalendarShape
<1>4. /\ CloseFor(m - 1, close) \in Nat /\ CloseFor(m, close) \in Nat /\ CloseFor(m + 1, close) \in Nat
      /\ CloseFor(m - 1, close) < MonthStart[m] /\ MonthStart[m + 1] <= CloseFor(m + 1, close)
  BY <1>3, CloseInMonth
<1>5. MonthStart[m] \in Nat /\ MonthStart[m + 1] \in Nat BY <1>1, CalendarShape
<1>6. CASE d <= CloseFor(m, close)
  <2>1. /\ CycleTo(m, close).first = CloseFor(m - 1, close) + 1
        /\ CycleTo(m, close).last = CloseFor(m, close)
    BY DEF CycleTo
  <2>2. CloseFor(m - 1, close) + 1 <= d BY <1>1, <1>4, <1>5
  <2>3. CycleOf(d, close) = CycleTo(m, close) BY <1>2, <1>6
  <2> QED BY <1>3, <1>4, <1>6, <2>1, <2>2, <2>3
<1>7. CASE ~(d <= CloseFor(m, close))
  <2>1. /\ CycleTo(m + 1, close).first = CloseFor(m, close) + 1
        /\ CycleTo(m + 1, close).last = CloseFor(m + 1, close)
    BY <1>3 DEF CycleTo
  <2>2. CloseFor(m, close) + 1 <= d /\ d <= CloseFor(m + 1, close) BY <1>1, <1>4, <1>5, <1>7
  <2>3. CycleOf(d, close) = CycleTo(m + 1, close) BY <1>2, <1>7
  <2> QED BY <1>3, <1>4, <2>1, <2>2, <2>3
<1> QED BY <1>6, <1>7

\* A day has one cycle under a close day.
LEMMA CycleIsItsDays ==
  ASSUME NEW d \in CalendarDay, NEW e \in CalendarDay, NEW close \in 1..31,
         CycleOf(d, close).first <= e, e <= CycleOf(d, close).last
  PROVE  CycleOf(e, close) = CycleOf(d, close)
<1>1. PICK j \in 2..Length - 1 : CycleOf(d, close) = CycleTo(j, close) BY CycleOfDay
<1>2. /\ CycleTo(j, close).first = CloseFor(j - 1, close) + 1
      /\ CycleTo(j, close).last = CloseFor(j, close)
  BY DEF CycleTo
<1> DEFINE m == MonthOf(e)
<1>3. /\ m \in 2..Length - 2 /\ Length \in Nat /\ e \in Nat
      /\ MonthStart[m] <= e /\ e < MonthStart[m + 1]
      /\ \A n \in Month : MonthStart[n] <= e /\ e < MonthStart[n + 1] => n = m
  BY MonthOfDay, CalendarShape
<1>4. CycleOf(e, close) = IF e <= CloseFor(m, close) THEN CycleTo(m, close) ELSE CycleTo(m + 1, close)
  BY <1>3 DEF CycleOf, CycleTo
<1> HIDE DEF m
<1>5. j - 1 \in Month /\ j \in Month /\ (j - 1) + 1 = j BY <1>3, CalendarShape
<1>6. /\ CloseFor(j - 1, close) \in Nat /\ CloseFor(j, close) \in Nat
      /\ MonthStart[j - 1] <= CloseFor(j - 1, close) /\ CloseFor(j, close) < MonthStart[j + 1]
  BY <1>5, CloseInMonth
<1>7. MonthStart[j - 1] \in Nat /\ MonthStart[j] \in Nat /\ MonthStart[j + 1] \in Nat
  <2>1. j - 1 \in 1..Length /\ j \in 1..Length /\ j + 1 \in 1..Length BY <1>3
  <2> QED BY <2>1, CalendarShape
<1>8. CloseFor(j - 1, close) + 1 <= e /\ e <= CloseFor(j, close) BY <1>1, <1>2
<1>9. CASE e < MonthStart[j]
  <2>1. m = j - 1 BY <1>3, <1>5, <1>6, <1>7, <1>8, <1>9
  <2>2. ~(e <= CloseFor(m, close)) BY <1>3, <1>6, <1>8, <2>1
  <2> QED BY <1>1, <1>4, <1>5, <2>1, <2>2
<1>10. CASE ~(e < MonthStart[j])
  <2>1. m = j BY <1>3, <1>5, <1>6, <1>7, <1>8, <1>10
  <2> QED BY <1>1, <1>4, <1>8, <2>1
<1> QED BY <1>9, <1>10

LEMMA VersionInForce ==
  ASSUME NEW d \in Int, InForce(d) # {}
  PROVE  /\ VersionAt(d) \in InForce(d) /\ VersionAt(d) \in Version
         /\ VersionAt(d).from \in Int /\ VersionAt(d).from <= d
         /\ VersionAt(d).close \in 1..31
<1> DEFINE F == {v.from : v \in InForce(d)}
<1>1. F \subseteq Int /\ F # {} /\ \A x \in F : x <= d BY CalendarAssumption DEF InForce
<1>2. PICK x \in F : \A y \in F : y <= x BY <1>1, Greatest
<1>3. \E v \in InForce(d) : \A w \in InForce(d) : w.from <= v.from BY <1>2
<1>4. VersionAt(d) \in InForce(d) BY <1>3 DEF VersionAt
<1> QED BY <1>4, CalendarAssumption DEF InForce

-----------------------------------------------------------------------------
(* Statement cycles.                                                       *)

KnownReceipt == [received : Int, first : Int, last : Int]

CyclesInv ==
  /\ CyclesTypeOK
  /\ IsFiniteSet(DOMAIN cardPeriods)
  /\ cardPeriods = [p \in DOMAIN cardPeriods |-> cardPeriods[p]]
  /\ \A p \in DOMAIN cardPeriods : cardPeriods[p] \in {"OPEN", "FINALIZED"}
  /\ receipts = [i \in DOMAIN receipts |-> receipts[i]]
  /\ \A i \in DOMAIN receipts : receipts[i] \in KnownReceipt

LEMMA CyclesPeriod ==
  ASSUME CyclesInv, NEW p \in DOMAIN cardPeriods
  PROVE  p.start \in Int /\ p.end \in Int /\ p.start < p.end
BY CyclesAssumption DEF CyclesInv, CyclesTypeOK

LEMMA CyclesDays ==
  ASSUME CyclesInv
  PROVE  day \in Nat /\ \A e \in spent : e \in Nat /\ e \div 2 \in CalendarDay
BY CyclesAssumption, CalendarShape DEF CyclesInv, CyclesTypeOK

\* A period that goes before every other one of a day is what the dashboard shows.
LEMMA OnlyPeriod ==
  ASSUME NEW d \in Int, InForce(d) # {}, NEW status, NEW p \in DOMAIN status,
         p.start \in Int, status[p] \in {"OPEN", "FINALIZED"}, Covers(p, d),
         \A q \in DOMAIN status \ {p} :
           \/ status[q] \notin {"OPEN", "FINALIZED"} \/ ~Covers(q, d)
           \/ status[p] = "OPEN" /\ status[q] # "OPEN"
  PROVE  DashboardOf(status, d) = {e \in spent : p.start <= e /\ e < p.end /\ e < 2 * (d + 1)}
<1>1. p \in CurrentPeriod(status, d)
  <2>1. p.start <= p.start OBVIOUS
  <2> QED BY <2>1 DEF CurrentPeriod
<1>2. ASSUME NEW q \in CurrentPeriod(status, d), q # p PROVE FALSE
  <2>1. /\ q \in DOMAIN status \ {p} /\ status[q] \in {"OPEN", "FINALIZED"} /\ Covers(q, d)
        /\ \/ status[q] = "OPEN" /\ status[p] # "OPEN"
           \/ status[q] = status[p] /\ q.start <= p.start
    BY <1>2 DEF CurrentPeriod
  <2> QED BY <2>1
<1>3. CurrentPeriod(status, d) = {p} BY <1>1, <1>2
<1>4. (CHOOSE q \in CurrentPeriod(status, d) : TRUE) = p BY <1>3
<1>5. status # <<>> OBVIOUS
<1> QED BY <1>3, <1>4, <1>5 DEF DashboardOf

LEMMA SelectedStatus ==
  ASSUME NEW chosen, chosen # {}, NEW q \in DOMAIN Selected(cardPeriods, chosen)
  PROVE  /\ q \in chosen => Selected(cardPeriods, chosen)[q] = "OPEN"
         /\ q \notin chosen => /\ q \in DOMAIN cardPeriods
                               /\ Selected(cardPeriods, chosen)[q] # "OPEN"
BY DEF Selected

LEMMA SelectedOne ==
  ASSUME CyclesInv, NEW d \in Int, InForce(d) # {}, NEW p, p.start \in Int, Covers(p, d)
  PROVE  DashboardOf(Selected(cardPeriods, {p}), d)
           = {e \in spent : p.start <= e /\ e < p.end /\ e < 2 * (d + 1)}
<1> DEFINE s == Selected(cardPeriods, {p})
<1>1. p \in DOMAIN s BY DEF Selected
<1>2. s[p] = "OPEN" BY <1>1, SelectedStatus
<1>3. \A q \in DOMAIN s \ {p} : s[q] # "OPEN" BY SelectedStatus
<1> HIDE DEF s
<1>4. DashboardOf(s, d) = {e \in spent : p.start <= e /\ e < p.end /\ e < 2 * (d + 1)}
  BY <1>1, <1>2, <1>3, OnlyPeriod
<1> QED BY <1>4 DEF s

LEMMA PreviousIsExact ==
  ASSUME CyclesInv, NEW i \in PreviousReceipts, Dated(receipts[i]), InForce(receipts[i].last) # {}
  PROVE  PreviousSummary(i) = {e \in spent : LET p == Interval(receipts[i])
                                             IN p.start <= e /\ e < p.end}
<1> DEFINE r == receipts[i]
           p == Interval(r)
<1>1. i \in DOMAIN receipts BY DEF PreviousReceipts, EligibleReceipts
<1>2. r.first \in Int /\ r.last \in Int /\ r.first <= r.last
  BY <1>1 DEF CyclesInv, CyclesTypeOK, KnownReceipt, Normalized
<1>3. p.start = 2 * r.first /\ p.end = 2 * (r.last + 1) BY DEF Interval
<1>4. Covers(p, r.last) BY <1>2, <1>3 DEF Covers
<1>5. DashboardOf(Selected(cardPeriods, {p}), r.last)
        = {e \in spent : p.start <= e /\ e < p.end /\ e < 2 * (r.last + 1)}
  <2> HIDE DEF p, r
  <2> QED BY <1>2, <1>3, <1>4, SelectedOne DEF r
<1>6. PreviousSummary(i) = {e \in spent : p.start <= e /\ e < p.end}
  <2>1. PreviousSummary(i) = DashboardOf(Selected(cardPeriods, {p}), r.last) BY DEF PreviousSummary
  <2> HIDE DEF p, r
  <2> QED BY <1>3, <1>5, <2>1
<1> QED BY <1>6

LEMMA PastIsPast ==
  ASSUME CyclesInv, NEW d \in CalendarDay, NEW status, NEW e \in DashboardOf(status, d)
  PROVE  e \div 2 <= d
<1>1. d \in Nat BY CalendarShape
<1>2. e \in spent /\ (e \div 2 <= d \/ e < 2 * (d + 1)) BY DEF DashboardOf
<1>3. e \in Nat BY <1>2, CyclesDays
<1> QED BY <1>1, <1>2, <1>3

LEMMA OfferedIsExact ==
  ASSUME CyclesInv, NEW d \in CalendarDay, InForce(d) # {}, NEW p \in DOMAIN cardPeriods,
         d = (p.end - 1) \div 2, \A q \in DOMAIN cardPeriods \ {p} : ~Covers(q, d)
  PROVE  DashboardAsOf(d) = {e \in spent : p.start <= e /\ e < p.end}
<1>1. d \in Nat /\ p.start \in Int /\ p.end \in Int /\ p.start < p.end BY CalendarShape, CyclesPeriod
<1>2. 2 * d < p.end /\ p.end <= 2 * (d + 1) BY <1>1
<1>3. Covers(p, d) BY <1>1, <1>2 DEF Covers
<1>4. {q \in DOMAIN cardPeriods : Covers(q, d)} = {p} BY <1>3
<1>5. DashboardAsOf(d) = {e \in spent : p.start <= e /\ e < p.end /\ e < 2 * (d + 1)}
  BY <1>1, <1>3, <1>4, SelectedOne DEF DashboardAsOf
<1>6. \A e \in spent : e < p.end => e < 2 * (d + 1) BY <1>1, <1>2, CyclesDays
<1> QED BY <1>5, <1>6

LEMMA TodayIsLive ==
  ASSUME CyclesInv, Cardinality({p \in DOMAIN cardPeriods : Covers(p, day)}) <= 1
  PROVE  DashboardAsOf(day) = LiveDashboard
<1> DEFINE open == {p \in DOMAIN cardPeriods : Covers(p, day)}
<1>1. day \in Nat BY CyclesDays
<1>2. CASE InForce(day) = {} BY <1>2 DEF DashboardAsOf, LiveDashboard, DashboardOf
<1>3. CASE InForce(day) # {} /\ open = {}
  <2>1. Selected(cardPeriods, open) = cardPeriods BY <1>3 DEF Selected, CyclesInv
  <2> QED BY <2>1 DEF DashboardAsOf, LiveDashboard
<1>4. CASE InForce(day) # {} /\ open # {}
  <2>1. PICK p : open = {p}
    <3>1. IsFiniteSet(DOMAIN cardPeriods) /\ open \subseteq DOMAIN cardPeriods BY DEF CyclesInv
    <3>2. IsFiniteSet(open) BY <3>1, FS_Subset
    <3>3. Cardinality(open) \in Nat /\ Cardinality(open) # 0 /\ Cardinality(open) <= 1
      BY <1>4, <3>2, FS_CardinalityType, FS_EmptySet
    <3>4. Cardinality(open) = 1 BY <3>3
    <3> QED BY <3>2, <3>4, FS_Singleton
  <2>2. p \in DOMAIN cardPeriods /\ Covers(p, day) /\ \A q \in DOMAIN cardPeriods \ {p} : ~Covers(q, day)
    BY <2>1
  <2>3. p.start \in Int /\ cardPeriods[p] \in {"OPEN", "FINALIZED"} BY <2>2, CyclesPeriod DEF CyclesInv
  <2>4. DashboardAsOf(day) = {e \in spent : p.start <= e /\ e < p.end /\ e < 2 * (day + 1)}
    <3>1. DashboardAsOf(day) = DashboardOf(Selected(cardPeriods, {p}), day) BY <2>1 DEF DashboardAsOf
    <3> QED BY <1>1, <1>4, <2>2, <2>3, <3>1, SelectedOne
  <2>5. LiveDashboard = {e \in spent : p.start <= e /\ e < p.end /\ e < 2 * (day + 1)}
    BY <1>1, <1>4, <2>2, <2>3, OnlyPeriod DEF LiveDashboard
  <2> QED BY <2>4, <2>5
<1> QED BY <1>2, <1>3, <1>4

LEMMA CyclesViews ==
  ASSUME CyclesInv
  PROVE  ViewsAreExact
<1>1. \A i \in PreviousReceipts :
         Dated(receipts[i]) /\ InForce(receipts[i].last) # {} =>
           PreviousSummary(i) = {e \in spent : LET p == Interval(receipts[i])
                                               IN p.start <= e /\ e < p.end}
  BY PreviousIsExact
<1>2. \A d \in CalendarDay : \A e \in DashboardAsOf(d) : e \div 2 <= d BY PastIsPast DEF DashboardAsOf
<1>3. \A d \in OfferedDays :
       InForce(d) # {} =>
         \A p \in DOMAIN cardPeriods :
           d = (p.end - 1) \div 2 /\ (\A q \in DOMAIN cardPeriods \ {p} : ~Covers(q, d)) =>
             DashboardAsOf(d) = {e \in spent : p.start <= e /\ e < p.end}
  <2>1. OfferedDays \subseteq CalendarDay BY DEF OfferedDays
  <2> QED BY <2>1, OfferedIsExact
<1>4. Cardinality({p \in DOMAIN cardPeriods : Covers(p, day)}) <= 1 => DashboardAsOf(day) = LiveDashboard
  BY TodayIsLive
<1> QED BY <1>1, <1>2, <1>3, <1>4 DEF ViewsAreExact

LEMMA FirstDay == MonthStart[2] \in CalendarDay
<1>1. /\ Length \in Nat /\ Length >= 4 /\ 2 \in 1..Length /\ Length - 1 \in 1..Length /\ 2 < Length - 1
  BY CalendarShape
<1>2. MonthStart[2] < MonthStart[Length - 1] /\ MonthStart[2] \in Nat
  BY <1>1, MonthsAscend, CalendarShape
<1> QED BY <1>2, CalendarShape

LEMMA CyclesInitInv == CyclesInit => CyclesInv
<1> SUFFICES ASSUME CyclesInit PROVE CyclesInv OBVIOUS
<1>1. DOMAIN receipts = {} /\ DOMAIN cardPeriods = {} /\ cardPeriods = <<>> BY DEF CyclesInit
<1>2. cardPeriods = [p \in DOMAIN cardPeriods |-> cardPeriods[p]] BY <1>1
<1>3. IsFiniteSet(DOMAIN cardPeriods) BY <1>1, FS_EmptySet
<1>4. CyclesTypeOK BY <1>1, FirstDay DEF CyclesInit, CyclesTypeOK
<1>5. receipts = [i \in DOMAIN receipts |-> receipts[i]] BY <1>1 DEF CyclesInit
<1> QED BY <1>1, <1>2, <1>3, <1>4, <1>5 DEF CyclesInv

LEMMA UpdatedReceipt ==
  ASSUME NEW i \in DOMAIN receipts, NEW m, UpdateReceipt(i, Bounds(m)),
         \A j \in DOMAIN receipts : receipts[j] \in KnownReceipt
  PROVE  /\ DOMAIN receipts' = DOMAIN receipts
         /\ receipts' = [j \in DOMAIN receipts' |-> receipts'[j]]
         /\ \A j \in DOMAIN receipts : j # i => receipts'[j] = receipts[j]
         /\ receipts'[i] = [received |-> receipts[i].received, first |-> m.first, last |-> m.last]
<1>1. receipts' = [receipts EXCEPT ![i].first = m.first, ![i].last = m.last]
  BY DEF UpdateReceipt, Bounds
<1>2. DOMAIN receipts' = DOMAIN receipts BY <1>1
<1>3. \A j \in DOMAIN receipts : j # i => receipts'[j] = receipts[j] BY <1>1
<1>4. receipts' = [j \in DOMAIN receipts' |-> receipts'[j]] BY <1>1
<1>5. receipts'[i] = [receipts[i] EXCEPT !.first = m.first, !.last = m.last] BY <1>1
<1>6. receipts'[i] = [received |-> receipts[i].received, first |-> m.first, last |-> m.last]
  BY <1>5 DEF KnownReceipt
<1> QED BY <1>2, <1>3, <1>4, <1>6

LEMMA CyclesStep ==
  ASSUME CyclesInv, [CyclesNext]_cyclesVars
  PROVE  CyclesInv'
<1>1. /\ DOMAIN receipts \subseteq {m.id : m \in Mail}
      /\ \A i \in DOMAIN receipts :
           Normalized(receipts[i]) /\ receipts[i] \in KnownReceipt
      /\ receipts = [i \in DOMAIN receipts |-> receipts[i]]
      /\ DOMAIN cardPeriods \subseteq CardPeriod /\ spent \subseteq Spend /\ day \in CalendarDay
      /\ IsFiniteSet(DOMAIN cardPeriods)
      /\ cardPeriods = [p \in DOMAIN cardPeriods |-> cardPeriods[p]]
      /\ \A p \in DOMAIN cardPeriods : cardPeriods[p] \in {"OPEN", "FINALIZED"}
  BY DEF CyclesInv, CyclesTypeOK
<1>2. ASSUME NEW m \in Mail, ReceiveStatement(m) PROVE CyclesInv'
  <2>1. DOMAIN receipts' = DOMAIN receipts \cup {m.id} /\ Normalized(m)
    BY <1>2 DEF ReceiveStatement
  <2>2. m.received \in Int /\ m.first \in Int /\ m.last \in Int BY CyclesAssumption
  <2>3. \A i \in DOMAIN receipts' : Normalized(receipts'[i]) /\ receipts'[i] \in KnownReceipt
    <3> TAKE i \in DOMAIN receipts'
    <3> DEFINE new == [received |-> m.received, first |-> m.first, last |-> m.last]
    <3>1. new.first = m.first /\ new.last = m.last OBVIOUS
    <3>2. receipts'[i] = IF i = m.id THEN new ELSE receipts[i] BY <1>2, <2>1 DEF ReceiveStatement
    <3>3. new \in KnownReceipt BY <2>2 DEF KnownReceipt
    <3> HIDE DEF new
    <3>4. Normalized(new) BY <2>1, <3>1 DEF Normalized, Dated
    <3> QED BY <1>1, <2>1, <3>2, <3>3, <3>4
  <2>4. UNCHANGED <<cardPeriods, spent, day>> BY <1>2 DEF ReceiveStatement
  <2>5. receipts' = [i \in DOMAIN receipts' |-> receipts'[i]] BY <1>2, <2>1 DEF ReceiveStatement
  <2> QED BY <1>1, <2>1, <2>3, <2>4, <2>5 DEF CyclesInv, CyclesTypeOK
<1>3. ASSUME NEW i \in DOMAIN receipts, NEW m \in Mail, NoDay \notin {m.first, m.last},
             UpdateReceipt(i, Bounds(m))
      PROVE  CyclesInv'
  <2>1. m.first \in Int /\ m.last \in Int /\ m.first # NoDay /\ m.last # NoDay
    BY <1>3, CyclesAssumption
  <2>2. m.first <= m.last /\ ~Dated(receipts[i]) /\ UNCHANGED <<cardPeriods, spent, day>>
    BY <1>3 DEF UpdateReceipt, Bounds
  <2>3. /\ DOMAIN receipts' = DOMAIN receipts
        /\ receipts' = [j \in DOMAIN receipts' |-> receipts'[j]]
        /\ \A j \in DOMAIN receipts : j # i => receipts'[j] = receipts[j]
        /\ receipts'[i] = [received |-> receipts[i].received, first |-> m.first, last |-> m.last]
    BY <1>1, <1>3, UpdatedReceipt
  <2>4. receipts'[i] \in KnownReceipt /\ receipts'[i].first = m.first /\ receipts'[i].last = m.last
    BY <1>1, <2>1, <2>3 DEF KnownReceipt
  <2>6. Normalized(receipts'[i]) BY <2>1, <2>2, <2>4 DEF Normalized, Dated
  <2>7. \A j \in DOMAIN receipts' : Normalized(receipts'[j]) /\ receipts'[j] \in KnownReceipt
    BY <1>1, <2>3, <2>4, <2>6
  <2> QED BY <1>1, <2>2, <2>3, <2>7 DEF CyclesInv, CyclesTypeOK
<1>4. ASSUME NEW p \in CardPeriod, NEW status \in {"OPEN", "FINALIZED"}, StoreCardPeriod(p, status)
      PROVE  CyclesInv'
  <2>1. /\ cardPeriods' = [q \in DOMAIN cardPeriods \cup {p} |-> IF q = p THEN status ELSE cardPeriods[q]]
        /\ UNCHANGED <<receipts, spent, day>>
    BY <1>4 DEF StoreCardPeriod
  <2>2. DOMAIN cardPeriods' = DOMAIN cardPeriods \cup {p} BY <2>1
  <2>3. IsFiniteSet(DOMAIN cardPeriods') BY <1>1, <2>2, FS_AddElement
  <2>4. cardPeriods' = [q \in DOMAIN cardPeriods' |-> cardPeriods'[q]] BY <2>1, <2>2
  <2>5. \A q \in DOMAIN cardPeriods' : cardPeriods'[q] \in {"OPEN", "FINALIZED"} BY <1>1, <2>1
  <2> QED BY <1>1, <2>1, <2>2, <2>3, <2>4, <2>5 DEF CyclesInv, CyclesTypeOK
<1>5. ASSUME NEW e \in Spend, LearnSpend(e) PROVE CyclesInv'
  BY <1>1, <1>5 DEF LearnSpend, CyclesInv, CyclesTypeOK
<1>6. ASSUME PassDay PROVE CyclesInv'
  BY <1>1, <1>6 DEF PassDay, CyclesInv, CyclesTypeOK
<1>7. ASSUME UNCHANGED cyclesVars PROVE CyclesInv'
  BY <1>1, <1>7 DEF cyclesVars, CyclesInv, CyclesTypeOK
<1> QED BY <1>2, <1>3, <1>4, <1>5, <1>6, <1>7 DEF CyclesNext

\* A later day has no earlier cycle.
LEMMA CyclesAscend ==
  ASSUME NEW d \in CalendarDay, NEW e \in CalendarDay, d <= e, NEW close \in 1..31
  PROVE  CycleOf(d, close).first <= CycleOf(e, close).first
<1>1. /\ CycleOf(d, close).first \in Int /\ CycleOf(e, close).first \in Int
      /\ CycleOf(e, close).last \in Int
      /\ CycleOf(d, close).first <= d /\ e <= CycleOf(e, close).last
  BY CycleOfDay
<1>2. d \in Nat /\ e \in Nat BY CalendarShape
<1>3. ASSUME CycleOf(e, close).first < CycleOf(d, close).first PROVE FALSE
  <2>1. CycleOf(e, close).first <= d /\ d <= CycleOf(e, close).last BY <1>1, <1>2, <1>3
  <2>2. CycleOf(d, close) = CycleOf(e, close) BY <2>1, CycleIsItsDays
  <2> QED BY <1>1, <1>3, <2>2
<1> QED BY <1>1, <1>3

\* No step takes back the days of a receipt, its arrival, or a finalized period.
LEMMA ReceiptsStay ==
  ASSUME CyclesInv, [CyclesNext]_cyclesVars
  PROVE  /\ \A i \in DOMAIN receipts :
              /\ i \in DOMAIN receipts'
              /\ receipts'[i].received = receipts[i].received
              /\ Dated(receipts[i]) => receipts'[i] = receipts[i]
         /\ \A p \in DOMAIN cardPeriods :
              cardPeriods[p] = "FINALIZED" => p \in DOMAIN cardPeriods' /\ cardPeriods'[p] = "FINALIZED"
         /\ day' \in CalendarDay /\ day <= day'
<1> DEFINE Kept == \A i \in DOMAIN receipts :
                     /\ i \in DOMAIN receipts'
                     /\ receipts'[i].received = receipts[i].received
                     /\ Dated(receipts[i]) => receipts'[i] = receipts[i]
           Final == \A p \in DOMAIN cardPeriods :
                      cardPeriods[p] = "FINALIZED" =>
                        p \in DOMAIN cardPeriods' /\ cardPeriods'[p] = "FINALIZED"
           Later == day' \in CalendarDay /\ day <= day'
<1>1. day \in CalendarDay /\ day \in Nat /\ \A i \in DOMAIN receipts : receipts[i] \in KnownReceipt
  BY CyclesDays DEF CyclesInv, CyclesTypeOK
<1>2. ASSUME NEW m \in Mail, ReceiveStatement(m) PROVE Kept /\ Final /\ Later
  BY <1>1, <1>2 DEF ReceiveStatement
<1>3. ASSUME NEW i \in DOMAIN receipts, NEW m \in Mail, UpdateReceipt(i, Bounds(m))
      PROVE  Kept /\ Final /\ Later
  <2>1. /\ DOMAIN receipts' = DOMAIN receipts
        /\ \A j \in DOMAIN receipts : j # i => receipts'[j] = receipts[j]
        /\ receipts'[i] = [received |-> receipts[i].received, first |-> m.first, last |-> m.last]
    BY <1>1, <1>3, UpdatedReceipt
  <2>2. receipts'[i].received = receipts[i].received BY <2>1
  <2>3. ~Dated(receipts[i]) /\ UNCHANGED <<cardPeriods, day>> BY <1>3 DEF UpdateReceipt
  <2>4. Kept BY <2>1, <2>2, <2>3
  <2>5. Final /\ Later BY <1>1, <2>3
  <2> QED BY <2>4, <2>5
<1>4. ASSUME NEW p \in CardPeriod, NEW status \in {"OPEN", "FINALIZED"}, StoreCardPeriod(p, status)
      PROVE  Kept /\ Final /\ Later
  <2>1. UNCHANGED <<receipts, day>> /\ (p \in DOMAIN cardPeriods => cardPeriods[p] = "OPEN")
    BY <1>4 DEF StoreCardPeriod
  <2>2. cardPeriods' = [q \in DOMAIN cardPeriods \cup {p} |-> IF q = p THEN status ELSE cardPeriods[q]]
    BY <1>4 DEF StoreCardPeriod
  <2>3. Final BY <2>1, <2>2
  <2> QED BY <1>1, <2>1, <2>3
<1>5. ASSUME NEW e \in Spend, LearnSpend(e) PROVE Kept /\ Final /\ Later BY <1>1, <1>5 DEF LearnSpend
<1>6. ASSUME PassDay PROVE Kept /\ Final /\ Later BY <1>1, <1>6 DEF PassDay
<1>7. ASSUME UNCHANGED cyclesVars PROVE Kept /\ Final /\ Later BY <1>1, <1>7 DEF cyclesVars
<1> QED BY <1>2, <1>3, <1>4, <1>5, <1>6, <1>7 DEF CyclesNext

LEMMA PreviousAdvances ==
  ASSUME CyclesInv, [CyclesNext]_cyclesVars, InForce(day) # {},
         VersionAt(day).close = VersionAt(day').close,
         NEW i \in PreviousReceipts, NEW j \in PreviousReceipts', Dated(receipts[i])
  PROVE  Dated(receipts'[j]) /\ receipts'[j].last >= receipts[i].last
<1> DEFINE close == VersionAt(day).close
<1>1. /\ i \in DOMAIN receipts /\ receipts[i].last <= day
      /\ receipts[i].first < CycleOf(day, close).first
  BY DEF PreviousReceipts, EligibleReceipts
<1>2. /\ i \in DOMAIN receipts' /\ receipts'[i] = receipts[i]
      /\ day' \in CalendarDay /\ day <= day'
  BY <1>1, ReceiptsStay
<1>3. day \in CalendarDay /\ day \in Nat /\ day' \in Nat BY <1>2, CyclesDays, CalendarShape DEF CyclesInv, CyclesTypeOK
<1>4. close \in 1..31 /\ close = VersionAt(day').close BY <1>3, VersionInForce
<1> HIDE DEF close
<1>5. CycleOf(day, close).first <= CycleOf(day', close).first BY <1>2, <1>3, <1>4, CyclesAscend
<1>6. CycleOf(day, close).first \in Int /\ CycleOf(day', close).first \in Int
  BY <1>2, <1>3, <1>4, CycleOfDay
<1>7. receipts[i].last \in Int /\ receipts[i].first \in Int
  BY <1>1 DEF CyclesInv, KnownReceipt
<1>8. receipts[i].last <= day' /\ receipts[i].first < CycleOf(day', close).first
  BY <1>1, <1>2, <1>3, <1>5, <1>6, <1>7
<1>9. i \in EligibleReceipts' BY <1>2, <1>4, <1>8 DEF EligibleReceipts
<1>10. j \in EligibleReceipts' /\ Newest(j, i)' BY <1>9 DEF PreviousReceipts
<1>11. Dated(receipts'[j]) BY <1>10 DEF EligibleReceipts
<1>12. CyclesInv' BY CyclesStep
<1>13. j \in DOMAIN receipts' BY <1>10 DEF EligibleReceipts
<1>14. receipts'[j].last \in Int BY <1>12, <1>13 DEF CyclesInv, KnownReceipt
<1>15. receipts'[j].last >= receipts'[i].last BY <1>2, <1>7, <1>10, <1>14 DEF Newest
<1> QED BY <1>2, <1>11, <1>15

LEMMA CyclesAdvance ==
  ASSUME CyclesInv, [CyclesNext]_cyclesVars
  PROVE  CyclesOnlyAdvance
<1>1. ASSUME NEW i \in DOMAIN receipts
      PROVE  /\ receipts'[i].received = receipts[i].received
             /\ Dated(receipts[i]) => Bounds(receipts'[i]) = Bounds(receipts[i])
             /\ Settled(i) => Settled(i)'
  <2>1. /\ receipts'[i].received = receipts[i].received
        /\ Dated(receipts[i]) => receipts'[i] = receipts[i]
    BY ReceiptsStay
  <2>2. ASSUME Settled(i) PROVE Settled(i)'
    <3>1. receipts'[i] = receipts[i] BY <2>1, <2>2 DEF Settled
    <3>2. \A p \in DOMAIN cardPeriods :
            cardPeriods[p] = "FINALIZED" => p \in DOMAIN cardPeriods' /\ cardPeriods'[p] = "FINALIZED"
      BY ReceiptsStay
    <3> QED BY <2>2, <3>1, <3>2 DEF Settled
  <2> QED BY <2>1, <2>2
<1>2. InForce(day) # {} /\ VersionAt(day).close = VersionAt(day').close =>
       \A i \in PreviousReceipts, j \in PreviousReceipts' :
         Dated(receipts[i]) => Dated(receipts'[j]) /\ receipts'[j].last >= receipts[i].last
  BY PreviousAdvances
<1> QED BY <1>1, <1>2 DEF CyclesOnlyAdvance

LEMMA CyclesAlways == CyclesSpec => []CyclesInv
BY CyclesInitInv, CyclesStep, PTL DEF CyclesSpec

(* The receipts and the stored periods of StatementCycles keep their types,  *)
(* for any calendar, close days, mails, periods and purchases.               *)
THEOREM CyclesTyped == CyclesSpec => []CyclesTypeOK
<1>1. CyclesInv => CyclesTypeOK BY DEF CyclesInv
<1> QED BY <1>1, CyclesAlways, PTL

(* The view of the previous cycle shows exactly what was bought in the days  *)
(* of its statement, whatever periods are stored, and no dashboard shows a   *)
(* purchase of a later day than its own: every close day cuts the calendar   *)
(* into cycles without a gap.                                                *)
THEOREM ViewsAlwaysExact == CyclesSpec => []ViewsAreExact
BY CyclesViews, CyclesAlways, PTL

(* The days of a statement are final once they are known, a settled          *)
(* statement stays settled, and while the close day stands the previous      *)
(* cycle never goes back to an earlier statement.                            *)
THEOREM PreviousCycleAdvances == CyclesSpec => [][CyclesOnlyAdvance]_cyclesVars
BY CyclesAdvance, CyclesAlways, PTL DEF CyclesSpec
==============================================================================
