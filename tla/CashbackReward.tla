--------------------------- MODULE CashbackReward ---------------------------
(***************************************************************************)
(* The cashback of one card and statement cycle (finance_tracker/          *)
(* cashback.py).  Purchases and refunds come to be known in any order, and *)
(* the reward is computed again from all of them: purchases count gross in *)
(* their bucket at the rate and cap of the tier the cycle has reached; a   *)
(* refund takes back what its purchase had earned at its own moment.       *)
(* Before a purchase, the advice says what it would add.                   *)
(*                                                                         *)
(* Only finalized transactions of cashback topics are facts here.  Amounts *)
(* are whole units of the currency and rates percents, so that rewards are *)
(* whole hundredths and CURRENCY_MINOR_UNIT rounds nothing.                *)
(***************************************************************************)
EXTENDS Naturals, FiniteSets, SequencesExt

CONSTANTS
  Program,     \* [tiers, floor]: tiers a set of [minimum, needs, rates, caps], rates and
               \* caps partial functions of buckets, needs minima of buckets
  Bucket, Amount, Instant,
  RefundId,    \* transaction ids of refunds; NoRefundId for purchases
  NoRefundId,
  MaxFacts

ASSUME RewardAssumption ==
  /\ \A v \in Amount : v \in Nat \ {0}
  /\ Instant \subseteq Nat /\ MaxFacts \in Nat /\ NoRefundId \notin RefundId
  \* the lowest tier asks for nothing, and no two tiers begin at one minimum
  /\ \A p \in Program :
       /\ \E t \in p.tiers : t.minimum = 0 /\ DOMAIN t.needs = {}
       /\ \A t, u \in p.tiers : t.minimum = u.minimum => t = u

VARIABLES program, facts

rewardVars == <<program, facts>>

Purchase == [at : Instant, id : {NoRefundId}, bucket : Bucket, amount : Amount]
Refund == [at : Instant, id : RefundId, bucket : Bucket, amount : Amount]

RewardTypeOK ==
  /\ program \in Program
  /\ facts \subseteq Purchase \cup Refund /\ Cardinality(facts) <= MaxFacts

-----------------------------------------------------------------------------
IsPurchase(f) == f.id = NoRefundId
Least(a, b) == IF a < b THEN a ELSE b
AtLeastZero(a, b) == IF a > b THEN a - b ELSE 0     \* max(a - b, 0)
At(function, bucket) == IF bucket \in DOMAIN function THEN function[bucket] ELSE 0

\* Usage: [total, buckets], the gross purchases so far.
NoUsage == [total |-> 0, buckets |-> [b \in Bucket |-> 0]]
Use(usage, bucket, amount) ==
  [total |-> usage.total + amount,
   buckets |-> [usage.buckets EXCEPT ![bucket] = @ + amount]]

\* _purchase_totals
Usage(set) ==
  FoldLeft(LAMBDA usage, f : Use(usage, f.bucket, f.amount), NoUsage,
           SetToSeq({f \in set : IsPurchase(f)}))

\* tier_for: the highest tier that qualifies.
Qualifies(tier, usage) ==
  /\ usage.total >= tier.minimum
  /\ \A b \in DOMAIN tier.needs : usage.buckets[b] >= tier.needs[b]

TierFor(p, usage) ==
  LET eligible == {t \in p.tiers : Qualifies(t, usage)} IN
  CHOOSE t \in eligible : \A u \in eligible : u.minimum <= t.minimum

Earned(tier, bucket, spend) ==
  LET earned == spend * At(tier.rates, bucket) IN
  IF bucket \in DOMAIN tier.caps THEN Least(earned, tier.caps[bucket]) ELSE earned

Rounded(p, reward) == IF p.floor THEN 100 * (reward \div 100) ELSE reward

\* The sum over the buckets before refunds and rounding.
Gross(p, usage) ==
  LET tier == TierFor(p, usage) IN
  FoldLeft(LAMBDA sum, b : sum + Earned(tier, b, usage.buckets[b]), 0, SetToSeq(Bucket))

\* reward_total
RewardTotal(p, usage, deduction) == Rounded(p, AtLeastZero(Gross(p, usage), deduction))

\* event_key: by time, purchases before refunds of the same instant, then by id.
Before(f, g) ==
  \/ f.at < g.at
  \/ f.at = g.at /\ IsPurchase(f) /\ ~IsPurchase(g)
  \/ f.at = g.at /\ ~IsPurchase(f) /\ ~IsPurchase(g) /\ f.id < g.id

\* A variant without seen_refunds.
ReplayEveryRefund(p, acc, f) ==
  LET tier == TierFor(p, acc.usage)
      remaining == AtLeastZero(Earned(tier, f.bucket, acc.usage.buckets[f.bucket]),
                               acc.deductions[f.bucket])
  IN IF IsPurchase(f) THEN [acc EXCEPT !.usage = Use(@, f.bucket, f.amount)]
     ELSE [acc EXCEPT !.deductions[f.bucket] =
             @ + Least(f.amount * At(tier.rates, f.bucket), remaining)]

\* One transaction of the replay; an id counts once.
ReplayFact(p, acc, f) ==
  LET tier == TierFor(p, acc.usage)
      rate == At(tier.rates, f.bucket)
      remaining == AtLeastZero(Earned(tier, f.bucket, acc.usage.buckets[f.bucket]),
                               acc.deductions[f.bucket])
  IN CASE IsPurchase(f) -> [acc EXCEPT !.usage = Use(@, f.bucket, f.amount)]
       [] ~IsPurchase(f) /\ f.id \in acc.seen -> acc
       [] OTHER -> [acc EXCEPT
                      !.seen = @ \cup {f.id},
                      !.deductions[f.bucket] = @ + Least(f.amount * rate, remaining)]

Replay(p, set) ==
  FoldLeft(LAMBDA acc, f : ReplayFact(p, acc, f),
           [usage |-> NoUsage, seen |-> {}, deductions |-> [b \in Bucket |-> 0]],
           SetToSortSeq(set, Before))

\* _refund_cashback_deduction
Deduction(p, set) ==
  LET replay == Replay(p, set) IN
  FoldLeft(LAMBDA sum, b : sum + replay.deductions[b], 0, SetToSeq(Bucket))

Reward(p, set) == RewardTotal(p, Usage(set), Deduction(p, set))

\* A variant that leaves the refunds out of the advice.
MarginalGross(p, set, bucket, amount) ==
  RewardTotal(p, Use(Usage(set), bucket, amount), 0) - RewardTotal(p, Usage(set), 0)

\* marginal_reward_aed of evaluate_card, for one bucket and amount.
Marginal(p, set, bucket, amount) ==
  LET usage == Usage(set)
      deduction == Deduction(p, set)
  IN RewardTotal(p, Use(usage, bucket, amount), deduction) - RewardTotal(p, usage, deduction)

-----------------------------------------------------------------------------
RewardInit == program \in Program /\ facts = {}

Learn(f) ==
  /\ f \notin facts /\ Cardinality(facts) < MaxFacts
  /\ facts' = facts \cup {f}
  /\ UNCHANGED program

RewardNext == \E f \in Purchase \cup Refund : Learn(f)

RewardSpec == RewardInit /\ [][RewardNext]_rewardVars

-----------------------------------------------------------------------------
(* What refunds take back, each at the tier and usage of its own moment,   *)
(* is never more than what the cycle earns in the end, in no bucket: the   *)
(* reward is not floored at zero because of a refund priced too high, and  *)
(* a refund known under two times takes back once.                         *)
RefundsFitEarnings ==
  LET tier == TierFor(program, Usage(facts))
      deductions == Replay(program, facts).deductions
  IN \A b \in {f.bucket : f \in facts} :
       /\ deductions[b] <= Earned(tier, b, Usage(facts).buckets[b])
       /\ deductions[b] <=
            FoldLeft(LAMBDA sum, id :
                       sum + At(tier.rates, b) *
                         Max({0} \cup {f.amount : f \in {g \in facts : g.id = id /\ g.bucket = b}}),
                     0, SetToSeq(RefundId))

(* The advice keeps its word: a purchase that is made after everything     *)
(* known adds exactly the marginal reward it was told, tier changes, caps, *)
(* refunds and rounding included; it does not reprice a refund.            *)
AdviceIsKept ==
  [][\A f \in facts' \ facts :
       IsPurchase(f) /\ (\A g \in facts : g.at < f.at) =>
         Reward(program, facts') =
           Reward(program, facts) + Marginal(program, facts, f.bucket, f.amount)]_rewardVars
=============================================================================
