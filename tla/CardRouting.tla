------------------------------ MODULE CardRouting ------------------------------
(***************************************************************************)
(* Which card to pay with (finance_tracker/cashback.py, actual_snapshot    *)
(* .py): the position of every card in its cycle, the recommendation for a *)
(* purchase of a known amount, and the routing graph, which ranks ways to  *)
(* pay by the room they have and not by an amount.                         *)
(*                                                                         *)
(* All cards have the same cycle here, its days numbered from 1.  Amounts  *)
(* are whole units and rates percents, so values are whole hundredths.     *)
(* Refunds, and tiers that ask for more than a total, are in               *)
(* CashbackReward.  A currency is the home currency or a foreign one.      *)
(* heldCards are the cards the dashboard takes as eligible: a membership   *)
(* is known to be held, or a finalized period of the day names the card.   *)
(***************************************************************************)
EXTENDS Integers, SequencesExt

CONSTANTS
  CardProgram,      \* [card, buckets, tiers, target, aim, fx, floor, priority, verified, live]
  RouteProfile,     \* [category, foreign, routes]
  RoutePolicy,      \* [needs, paceIn, paceNot, groups], by code
  PayIntent,        \* [category, channel, foreign, amount]
  HeldOnly,         \* cards that need a membership
  CycleDays, WeekDays, TolerancePercent, MinTolerance, RiskWeeks, CloseDays,
  Unlimited,        \* no cap, no target
  MaxSpend

ASSUME RoutingAssumption ==
  /\ CycleDays \in Nat \ {0} /\ WeekDays \in 1 .. 31
  /\ \A p \in CardProgram :
       /\ \E t \in p.tiers : t.minimum = 0
       /\ \A t, u \in p.tiers : t.minimum = u.minimum => t = u
       /\ p.aim = Unlimited \/ \E t \in p.tiers : t.minimum = p.aim
       /\ \A t \in p.tiers : \A code \in DOMAIN t.caps :
            code \in DOMAIN t.rates => t.caps[code] % t.rates[code] = 0

VARIABLES cardUse, weekUse, cycleDay, heldCards
routingVars == <<cardUse, weekUse, cycleDay, heldCards>>

Card == {p.card : p \in CardProgram}
ProgramOf(card) == CHOOSE p \in CardProgram : p.card = card
Codes(p) == {p.buckets[n].code : n \in DOMAIN p.buckets}
BucketOf(p, code) == CHOOSE b \in Range(p.buckets) : b.code = code
NothingUsed(p) == [total |-> 0, by |-> [code \in Codes(p) |-> 0]]

RoutingInit ==
  /\ cardUse = [card \in Card |-> NothingUsed(ProgramOf(card))]
  /\ weekUse = [card \in Card |-> 0]
  /\ cycleDay = 1 /\ heldCards \in SUBSET HeldOnly

-----------------------------------------------------------------------------
(* Buckets and tiers.                                                      *)

OneOf(set, value) == set = {} \/ value \in set
Currency(kind, foreign) == kind = "any" \/ (kind = "foreign") = foreign

Accepts(b, i) ==
  /\ i.category \notin b.without /\ OneOf(b.categories, i.category)
  /\ OneOf(b.channels, i.channel) /\ Currency(b.currency, i.foreign)

\* An assignment that names nothing matches nothing.
Assigned(b, i) ==
  /\ OneOf(b.assign.categories, i.category) /\ OneOf(b.assign.channels, i.channel)
  /\ Currency(b.assign.currency, i.foreign)
  /\ b.assign # [categories |-> {}, channels |-> {}, currency |-> "any"]

\* configured_reward_bucket: the first that is assigned, else the fallback, if any.
BucketFor(p, i) ==
  LET specific == SelectSeq(p.buckets, LAMBDA b : ~b.fallback /\ Assigned(b, i) /\ Accepts(b, i))
      fallback == SelectSeq(p.buckets, LAMBDA b : b.fallback /\ Accepts(b, i))
      found == IF specific # <<>> THEN specific ELSE IF i.channel = "UNKNOWN" THEN <<>> ELSE fallback
  IN {found[n].code : n \in 1 .. (IF found = <<>> THEN 0 ELSE 1)}

TierOf(p, total) ==
  CHOOSE t \in p.tiers :
    t.minimum <= total /\ \A u \in p.tiers : u.minimum <= total => u.minimum <= t.minimum

\* The tier the configuration names (by its minimum), else the one of the target.
AimedTier(p, total) ==
  IF p.aim = Unlimited THEN TierOf(p, total) ELSE CHOOSE t \in p.tiers : t.minimum = p.aim
TargetTier(p, total) == AimedTier(p, IF p.target = Unlimited THEN total ELSE p.target)

Rate(tier, code) == IF code \in DOMAIN tier.rates THEN tier.rates[code] ELSE 0
CashCap(tier, b) == IF b.code \in DOMAIN tier.caps THEN tier.caps[b.code] ELSE b.cap
CapOf(tier, b) ==
  IF b.spendCap # Unlimited THEN b.spendCap
  ELSE IF CashCap(tier, b) = Unlimited \/ Rate(tier, b.code) = 0 THEN Unlimited
  ELSE CashCap(tier, b) \div Rate(tier, b.code)

Smaller(a, b) == IF a = Unlimited THEN b ELSE IF b = Unlimited \/ a < b THEN a ELSE b
Left(cap, used) == IF cap = Unlimited THEN Unlimited ELSE IF used < cap THEN cap - used ELSE 0

BucketReward(tier, b, use) ==
  Smaller(use.by[b.code] * Rate(tier, b.code), CashCap(tier, b))
RewardOf(p, tier, use) ==
  LET gross == FoldLeft(LAMBDA sum, b : sum + BucketReward(tier, b, use), 0, p.buckets)
  IN IF p.floor THEN 100 * (gross \div 100) ELSE gross

Spent(use, codes, amount) ==
  [total |-> use.total + amount,
   by |-> [code \in DOMAIN use.by |-> use.by[code] + (IF code \in codes THEN amount ELSE 0)]]

-----------------------------------------------------------------------------
(* pace_status, in hundredths of CycleDays-ths of a unit.                  *)

WeekStart(d) == WeekDays * ((d - 1) \div WeekDays) + 1
WeekEnd(d) == IF WeekStart(d) + WeekDays - 1 < CycleDays THEN WeekStart(d) + WeekDays - 1 ELSE CycleDays

\* What was spent, what the target asks of these days, and of how many days.
PaceBand(total, target, spentNow, elapsed, days) ==
  LET off == 100 * (spentNow * CycleDays - target * elapsed)
      share == target * days * TolerancePercent
      least == 100 * MinTolerance * CycleDays
      tolerance == IF share > least THEN share ELSE least
  IN CASE total >= target -> "SECURED"
       [] total < target /\ off < -tolerance -> "UNDER"
       [] total < target /\ off > tolerance -> "OVER"
       [] OTHER -> "ON_PACE"

CyclePace(p) == PaceBand(cardUse[p.card].total, p.target, cardUse[p.card].total, cycleDay, CycleDays)
WeekPace(p) ==
  PaceBand(cardUse[p.card].total, p.target, weekUse[p.card],
           cycleDay - WeekStart(cycleDay) + 1, WeekEnd(cycleDay) - WeekStart(cycleDay) + 1)

RoutePace(p) ==
  IF p.target = Unlimited THEN "OPEN" ELSE IF p.weekly THEN WeekPace(p) ELSE CyclePace(p)

-----------------------------------------------------------------------------
(* The state of a card and its alerts.                                     *)

FullBucket(p, code) ==
  LET b == BucketOf(p, code)
      use == cardUse[p.card]
      cap == CapOf(AimedTier(p, IF p.target \in {0, Unlimited} THEN use.total ELSE p.target), b)
  IN cap \notin {0, Unlimited} /\ use.by[code] >= cap

\* A target that is missed is announced from the third week on, and otherwise near the close.
TargetAlerts(p) ==
  LET missed == p.target # Unlimited /\ cardUse[p.card].total < p.target
      near == CycleDays - cycleDay <= CloseDays
  IN (IF missed /\ ~near /\ cycleDay >= RiskWeeks * WeekDays THEN {"minimum"} ELSE {})
     \cup (IF missed /\ near THEN {"close"} ELSE {})

-----------------------------------------------------------------------------
(* evaluate_card and recommend.                                            *)

EligibleCards ==
  {p \in CardProgram : p.live /\ (p.card \in HeldOnly => p.card \in heldCards)}

\* One bucket: what it adds now, or what it would earn at the target tier.
ValueOf(p, b, i) ==
  LET use == cardUse[p.card]
      after == Spent(use, {b.code}, i.amount)
      tier == TargetTier(p, after.total)
      gain == RewardOf(p, TierOf(p, after.total), after) - RewardOf(p, TierOf(p, use.total), use)
      strategic == Smaller(i.amount, Left(CapOf(tier, b), use.by[b.code])) * Rate(tier, b.code)
  IN (IF gain > strategic THEN gain ELSE strategic) - (IF i.foreign THEN i.amount * p.fx ELSE 0)

Values(p, i) ==
  {[card |-> p.card, value |-> ValueOf(p, b, i)] :
     b \in {c \in Range(p.buckets) : p.verified /\ Accepts(c, i)}}

\* The card that is worth most, then the preferred one.
Recommended(i) ==
  LET best == {v \in UNION {Values(p, i) : p \in EligibleCards} :
                 \A w \in Values(ProgramOf(v.card), i) : w.value <= v.value}
      Better(v, w) ==
        \/ v.value > w.value
        \/ v.value = w.value /\ ProgramOf(v.card).priority < ProgramOf(w.card).priority
        \/ v.value = w.value /\ ProgramOf(v.card).priority = ProgramOf(w.card).priority
           /\ v.card > w.card
  IN {v \in best : \A w \in best \ {v} : Better(v, w)}

-----------------------------------------------------------------------------
(* The routing graph.                                                      *)

\* Mutant: the room is that of the tier of now.
RoomNow(p, b) ==
  Left(CapOf(TierOf(p, cardUse[p.card].total), b), cardUse[p.card].by[b.code])

RoomOf(p, b) == Left(CapOf(TargetTier(p, cardUse[p.card].total), b), cardUse[p.card].by[b.code])

\* A rate, not an amount: what a unit earns at the target tier, less its cost.
UnitValue(p, b, foreign) ==
  (IF RoomOf(p, b) = 0 THEN 0 ELSE Rate(TargetTier(p, cardUse[p.card].total), b.code))
    - (IF foreign THEN p.fx ELSE 0)

IntentOf(profile, route) ==
  [category |-> profile.category, channel |-> route.channel, foreign |-> profile.foreign]

Checked(profile, route, check) ==
  LET p == ProgramOf(route.card)
      b == BucketOf(p, route.bucket)
  IN CASE check = "bucket_open" -> RoomOf(p, b) # 0
       [] check = "target_rate_positive" -> Rate(TargetTier(p, cardUse[p.card].total), b.code) > 0
       [] check = "net_value_positive" -> UnitValue(p, b, profile.foreign) > 0
       [] check = "target_unmet" -> p.target # Unlimited /\ cardUse[p.card].total < p.target
       [] check = "target_met" -> p.target # Unlimited /\ cardUse[p.card].total >= p.target

ActiveRoute(profile, route) ==
  LET p == ProgramOf(route.card)
      policy == RoutePolicy[route.policy]
  IN /\ p \in EligibleCards /\ p.verified
     /\ route.bucket \in Codes(p) /\ Accepts(BucketOf(p, route.bucket), IntentOf(profile, route))
     /\ \A check \in policy.needs : Checked(profile, route, check)
     /\ OneOf(policy.paceIn, RoutePace(p)) /\ RoutePace(p) \notin policy.paceNot

RankOf(route) ==
  LET groups == RoutePolicy[route.policy].groups
      pace == RoutePace(ProgramOf(route.card))
  IN groups[IF pace \in DOMAIN groups THEN pace ELSE "*"]

SameWay(r, s) == r.card = s.card /\ r.bucket = s.bucket /\ r.channel = s.channel

\* Of two active routes for one way to pay, the one with the lower priority value.
Chosen(profile) ==
  LET routes == profile.routes
      active == {n \in DOMAIN routes : ActiveRoute(profile, routes[n])}
  IN {n \in active : \A m \in active :
        SameWay(routes[n], routes[m]) =>
          \/ routes[n].priority < routes[m].priority
          \/ routes[n].priority = routes[m].priority /\ n <= m}

\* The graph: each route with what it is sorted by, first to last.
RouteGraph(profile) ==
  LET routes == profile.routes
      Worth(r) == UnitValue(ProgramOf(r.card), BucketOf(ProgramOf(r.card), r.bucket), profile.foreign)
  IN {[route |-> routes[n],
       key |-> <<RankOf(routes[n]), routes[n].priority, -Worth(routes[n]), routes[n].card, n>>] :
        n \in Chosen(profile)}

-----------------------------------------------------------------------------
(* What happens to the cards (outside the code), and their days.           *)

Pay(p, i) ==
  /\ cardUse[p.card].total + i.amount <= MaxSpend
  /\ cardUse' = [cardUse EXCEPT ![p.card] = Spent(@, BucketFor(p, i), i.amount)]
  /\ weekUse' = [weekUse EXCEPT ![p.card] = @ + i.amount]
  /\ UNCHANGED <<cycleDay, heldCards>>

NextCycleDay ==
  /\ cycleDay < CycleDays
  /\ cycleDay' = cycleDay + 1
  /\ weekUse' = IF WeekStart(cycleDay + 1) = cycleDay + 1 THEN [card \in Card |-> 0] ELSE weekUse
  /\ UNCHANGED <<cardUse, heldCards>>

CloseCycle ==
  /\ cycleDay = CycleDays
  /\ cycleDay' = 1
  /\ cardUse' = [card \in Card |-> NothingUsed(ProgramOf(card))]
  /\ weekUse' = [card \in Card |-> 0]
  /\ UNCHANGED heldCards

\* A membership becomes known or ends, a period of the card is finalized or runs out.
LearnMembership(card) ==
  /\ \E held \in {heldCards \cup {card}, heldCards \ {card}} : heldCards' = held
  /\ UNCHANGED <<cardUse, weekUse, cycleDay>>

RoutingNext ==
  \/ \E p \in CardProgram, i \in PayIntent : Pay(p, i)
  \/ NextCycleDay
  \/ CloseCycle
  \/ \E card \in HeldOnly : LearnMembership(card)

RoutingSpec == RoutingInit /\ [][RoutingNext]_routingVars

-----------------------------------------------------------------------------
RoutingTypeOK ==
  /\ \A p \in CardProgram :
       /\ cardUse[p.card].total \in 0 .. MaxSpend
       /\ weekUse[p.card] <= cardUse[p.card].total
       /\ \A code \in Codes(p) : cardUse[p.card].by[code] <= cardUse[p.card].total
  /\ cycleDay \in 1 .. CycleDays /\ heldCards \subseteq HeldOnly

\* The assignment books a purchase made this way in another bucket.
Misrouted(profile, route) ==
  BucketFor(ProgramOf(route.card), IntentOf(profile, route)) # {route.bucket}

\* A bucket with a cap on the spend and one on the cashback: only the former is looked at.
TwoCaps(p, b) ==
  b.spendCap # Unlimited /\ CashCap(TargetTier(p, cardUse[p.card].total), b) # Unlimited

\* A way to pay that is shown is shown as open by its card as well; a purchase that is made
\* that way, and fits the room, earns at the target tier what the route promised, and the
\* card recommended for that amount is worth no less.
RoutingIsHonest ==
  \A profile \in RouteProfile : \A shown \in RouteGraph(profile) :
    LET route == shown.route
        p == ProgramOf(route.card)
        b == BucketOf(p, route.bucket)
        use == cardUse[p.card]
        tier == TargetTier(p, use.total)
    IN "bucket_open" \in RoutePolicy[route.policy].needs =>
         /\ ~FullBucket(p, route.bucket)
         /\ ~Misrouted(profile, route) /\ ~TwoCaps(p, b) =>
              \A i \in PayIntent :
                /\ i.category = profile.category /\ i.channel = route.channel
                /\ i.foreign = profile.foreign
                /\ RoomOf(p, b) = Unlimited \/ i.amount <= RoomOf(p, b)
                => LET after == Spent(use, BucketFor(p, i), i.amount)
                   IN /\ BucketReward(tier, b, after) - BucketReward(tier, b, use)
                           = i.amount * Rate(tier, route.bucket)
                      /\ \E v \in Recommended(i) :
                           v.value >= i.amount * UnitValue(p, b, profile.foreign)

PaceRank == [UNDER |-> 1, ON_PACE |-> 2, OVER |-> 3, SECURED |-> 4]
NewWeek(p) == p.weekly /\ WeekStart(cycleDay') # WeekStart(cycleDay)

\* Within a cycle, for a card with a target: a target that is met stays met and a bucket that
\* is full stays full; spending only raises the pace and waiting only lowers it, until a new
\* week is counted; and an alert on the target goes away by spending only.
RoutingStep ==
  cycleDay' >= cycleDay =>
    \A p \in {q \in CardProgram : q.target \notin {0, Unlimited}} :
      LET pace == RoutePace(p)
          next == RoutePace(p)'
      IN /\ pace = "SECURED" => next = "SECURED"
         /\ cycleDay' = cycleDay => PaceRank[next] >= PaceRank[pace]
         /\ cycleDay' > cycleDay /\ ~NewWeek(p) => PaceRank[next] <= PaceRank[pace]
         /\ \A code \in Codes(p) : FullBucket(p, code) => FullBucket(p, code)'
         /\ cycleDay' > cycleDay => (TargetAlerts(p) # {} => TargetAlerts(p)' # {})
==============================================================================
