------------------------------ MODULE Enrichment ------------------------------
(***************************************************************************)
(* How a statement row becomes a classified row (actual_pipeline.py,       *)
(* rules.py, transaction_semantics.py, history.py, ai_rules.py,            *)
(* properties.py, classification_audit.py, platforms.py).  The row is      *)
(* staged from its source again on every run; between runs the requests    *)
(* for a decision of the last run are answered (full_restage_ai.py) and    *)
(* the owner edits the rules.                                              *)
(*                                                                         *)
(* A condition is the set of values of its field that it accepts, whatever *)
(* its operator; a description is what the code looks for in it; the       *)
(* confidence of a proposal is whether it reaches its policy's minimum.    *)
(***************************************************************************)
EXTENDS Naturals, FiniteSets, SequencesExt

CONSTANTS
  SourceRow,       \* rows as stage_statement leaves them
  RuleBook,        \* the sets of rules the owner goes through
  History,         \* what earlier rows of the merchant may agree on: [values, tags], or <<>>
  Policy,          \* [id, priority, when, targets, triggers, values, tags]
  Response,        \* for each policy, the responses a model may give: sequences of proposals
  Property,        \* the registry: [code, unit, kind, tags]
  MaxRuleEdits

VARIABLES row, past, rules, responses, outcome, ruleEdits
enrichVars == <<row, past, rules, responses, outcome, ruleEdits>>

DerivedField == {"vendor", "category", "channel", "property", "unit", "evidence"}
Unset == ""
NoOutcome == [status |-> "none"]

EnrichInit ==
  /\ row \in SourceRow /\ past \in History /\ rules \in RuleBook
  /\ responses = <<>> /\ outcome = NoOutcome /\ ruleEdits = 0

-----------------------------------------------------------------------------
(* Rules: any group of which every condition holds.                        *)

Holds(tx, c) == IF c.field = "tags" THEN tx.tags \cap c.in # {} ELSE tx[c.field] \in c.in
RuleMatches(tx, groups) == \E g \in groups : \A c \in g : Holds(tx, c)

SetField(tx, field, value) ==
  IF field \in tx.locked THEN tx ELSE [tx EXCEPT ![field] = value]

ApplyAction(tx, a) ==
  CASE a.do = "set" -> SetField(tx, a.field, a.value)
    [] a.do = "set_if_empty" -> IF tx[a.field] = Unset THEN SetField(tx, a.field, a.value) ELSE tx
    [] a.do = "add_tag" -> SetField(tx, "tags", tx.tags \cup {a.value})
    [] a.do = "remove_tag" -> SetField(tx, "tags", tx.tags \ {a.value})
    [] a.do = "require_review" -> SetField(tx, "review", TRUE)

Normalization == 1
RulesInOrder ==
  SetToSortSeq(rules, LAMBDA a, b :
    \/ a.stage < b.stage
    \/ a.stage = b.stage /\ a.priority < b.priority
    \/ a.stage = b.stage /\ a.priority = b.priority /\ a.id < b.id)

\* A rule that stops ends its own stage only.
ApplyStages(tx, stages) ==
  LET Step(s, r) ==
        IF r.stage \in s.stopped \/ ~RuleMatches(s.tx, r.when) THEN s
        ELSE [tx |-> FoldLeft(ApplyAction, s.tx, r.actions),
              stopped |-> IF r.stop THEN s.stopped \cup {r.stage} ELSE s.stopped]
  IN FoldLeft(Step, [tx |-> tx, stopped |-> {}],
              SelectSeq(RulesInOrder, LAMBDA r : r.stage \in stages)).tx

-----------------------------------------------------------------------------
(* The topic of a row, from its source.                                    *)

Credits == {"REFUND", "REIMBURSEMENT", "REVERSAL", "REWARD_CREDIT", "INCOME"}
Neutral == {"TRANSFER", "INVESTMENT", "PAYMENT"}
Directions(topic) ==
  CASE topic \in Neutral -> {"CREDIT", "DEBIT"}
    [] topic \in Credits \cup {"CREDIT"} -> {"CREDIT"}
    [] OTHER -> {"DEBIT"}

Topic(tx) ==
  LET t == tx.type
      credit == tx.direction = "CREDIT"
      raw == IF credit /\ tx.text = "reversal" THEN "REVERSAL"
             ELSE IF t = "PAYMENT" \/ (t = "PURCHASE" /\ tx.text = "card payment") THEN "TRANSFER"
             ELSE IF t = "PURCHASE" /\ tx.text = "investment" THEN "INVESTMENT"
             ELSE IF credit /\ t \notin Credits \cup Neutral THEN "REFUND"
             ELSE IF tx.direction = "DEBIT" /\ t \in Credits \cup {"CREDIT"} THEN "PURCHASE"
             ELSE IF t = "PURCHASE" /\ tx.text \in {"interest", "fee"}
             THEN IF tx.text = "fee" THEN "FEE" ELSE "INTEREST"
             ELSE t
  IN IF raw = "REIMBURSEMENT" THEN "REFUND" ELSE raw   \* a statement row links no original

OwnTag == [TRANSFER |-> "transfer", INVESTMENT |-> "investment", INCOME |-> "income",
           FEE |-> "fee", INTEREST |-> "interest"]
TopicTags(topic, tags) ==
  CASE topic = "REVERSAL" -> (tags \ {"reimbursement", "reward"}) \cup {"reversal", "refund"}
    [] topic = "REFUND" -> (tags \ {"reimbursement", "reward"}) \cup {"refund"}
    [] topic = "REWARD_CREDIT" -> (tags \ {"refund", "reimbursement"}) \cup {"reward"}
    [] topic = "PURCHASE" -> tags
    [] OTHER -> (tags \ {"refund", "reimbursement"}) \cup {OwnTag[topic]}

FinalizeTopic(tx) ==
  LET topic == Topic(tx)
      paid == topic = "TRANSFER" /\ tx.type # "TRANSFER"
  IN [tx EXCEPT !.type = topic, !.locked = @ \cup {"type", "direction"},
                !.tags = TopicTags(topic, @ \cup (IF paid THEN {"card-payment"} ELSE {}))]

-----------------------------------------------------------------------------
(* History, and the model's decisions.                                     *)

Unresolved(tx, field) == tx[field] \in {Unset, "UNKNOWN"}

ApplyHistory(tx) ==
  IF past = <<>> THEN tx
  ELSE LET fill == {f \in DOMAIN past.values : Unresolved(tx, f) /\ f \notin tx.locked}
       IN SetField([x \in DOMAIN tx |-> IF x \in fill THEN past.values[x] ELSE tx[x]],
                   "tags", tx.tags \cup past.tags)

Open(tx, p) ==
  {f \in p.targets \ tx.locked : f \in {"tags", "recommendation"} \/ Unresolved(tx, f)}
Asks(tx, p) == (p.when = {} \/ RuleMatches(tx, p.when)) /\ p.triggers \cap Open(tx, p) # {}

AcceptsAnswer(p, open, q) ==
  /\ q.field \in open /\ q.sure
  /\ IF q.field = "tags" THEN q.value \in p.tags
     ELSE /\ q.field \in DOMAIN p.values => q.value \in p.values[q.field]
          /\ q.value # Unset

Proposed(tx, q) ==
  CASE q.field = "tags" -> [tx EXCEPT !.tags = @ \cup {q.value}]
    [] q.field = "recommendation" ->
         SetField(SetField(tx, "tags", tx.tags \cup {"category-review"}), "review", TRUE)
    [] OTHER -> SetField(tx, q.field, q.value)

\* The first accepted proposal of a field is the last.
Decide(tx, p) ==
  LET Step(s, q) ==
        IF AcceptsAnswer(p, s.open, q)
        THEN [tx |-> Proposed(s.tx, q),
              open |-> IF q.field = "tags" THEN s.open ELSE s.open \ {q.field}, refused |-> s.refused]
        ELSE [s EXCEPT !.tx = SetField(@, "review", TRUE), !.refused = TRUE]
  IN FoldLeft(Step, [tx |-> tx, open |-> Open(tx, p), refused |-> FALSE], responses[p.id])

PoliciesInOrder ==
  SetToSortSeq(Policy, LAMBDA a, b :
    a.priority < b.priority \/ (a.priority = b.priority /\ a.id < b.id))

EnrichStep(s, p) ==
  IF ~Asks(s.tx, p) THEN s
  ELSE IF p.id \notin DOMAIN responses THEN [s EXCEPT !.pending = @ \cup {p.id}]
  ELSE LET d == Decide(s.tx, p)
       IN [s EXCEPT !.tx = d.tx, !.refused = @ \/ d.refused]

\* A variant of Enrich: an open request does not end the pass.
AskEverything(tx) == FoldLeft(EnrichStep, [tx |-> tx, pending |-> {}, refused |-> FALSE], PoliciesInOrder)

Enrich(tx) ==
  LET Step(s, p) == IF s.pending # {} THEN s ELSE EnrichStep(s, p)
  IN FoldLeft(Step, [tx |-> tx, pending |-> {}, refused |-> FALSE], PoliciesInOrder)

-----------------------------------------------------------------------------
(* Properties and the review queue.                                        *)

UnitTags == {"rental:" \o p.unit : p \in {q \in Property : q.unit # Unset}}

\* The identity has to be there already; a doubtful one goes to review.
ProjectProperty(tx) ==
  LET byCode == {p \in Property : tx.property # Unset /\ p.code = tx.property}
      byUnit == {p \in Property : tx.unit # Unset /\ p.unit = tx.unit}
      found == IF byCode # {} THEN byCode ELSE byUnit
      doubtful == \/ byCode # {} /\ byUnit # {} /\ byCode # byUnit
                  \/ found = {} /\ {tx.property, tx.unit} # {Unset}
  IN IF doubtful THEN [tx EXCEPT !.review = TRUE]
     ELSE IF found = {} THEN tx
     ELSE LET p == CHOOSE q \in found : TRUE
              kept == CASE p.kind = "RENTAL" -> tx.tags \ (UnitTags \cup {"home"})
                        [] p.kind = "OWNER_OCCUPIED" -> tx.tags \ (UnitTags \cup {"rental"})
                        [] OTHER -> tx.tags
          IN [tx EXCEPT !.property = IF @ = Unset THEN p.code ELSE @,
                        !.unit = IF @ = Unset THEN p.unit ELSE @,
                        !.tags = kept \cup p.tags]

Rented(tags) == "rental" \in tags \/ tags \cap UnitTags # {}

EnforceInvariants(tx) ==
  LET queued == IF "review" \in tx.tags THEN (tx.tags \ {"review"}) \cup {"needs-review"} ELSE tx.tags
      tags == IF Rented(queued) THEN (queued \ {"home"}) \cup {"rental"} ELSE queued
      reviewed == \/ tx.category \in {Unset, "Needs Review"}
                  \/ Rented(tags) /\ Cardinality(tags \cap UnitTags) # 1
                  \/ tx.review \/ "needs-review" \in tags
  IN SetField(SetField(tx, "tags", IF reviewed THEN tags \cup {"needs-review"} ELSE tags),
              "review", reviewed)

\* What the rules make of the row: the topic is final before they classify.
Finalized(tx) == FinalizeTopic(ApplyStages(tx, {Normalization}))
Ruled(tx) == ApplyStages(Finalized(tx), {r.stage : r \in rules} \ {Normalization})

\* A card payment credits the card whatever the bank calls it.  One text stands for the
\* words of either of its two lists.
CardPayment(tx) == "card-payment" \in tx.tags /\ tx.text = "card payment"
IsCredit(tx) ==
  \/ CardPayment(tx) \/ tx.direction = "CREDIT"
  \/ tx.direction = Unset /\ tx.type \in Credits

\* A topic that contradicts the direction, and a neutral one without a direction, fail the run.
Outcome ==
  LET final == Finalized(row)
      ai == Enrich(ApplyHistory(Ruled(row)))
      done == EnforceInvariants(ProjectProperty(ai.tx))
      fits == IF final.direction = Unset THEN done.type \notin Neutral \/ CardPayment(done)
              ELSE final.direction \in Directions(final.type)
  IN IF fits THEN [status |-> "staged", tx |-> done, credit |-> IsCredit(done), pending |-> ai.pending,
                   refused |-> ai.refused, rules |-> rules]
     ELSE [status |-> "failed"]

-----------------------------------------------------------------------------
StageStatement ==
  /\ outcome' = Outcome
  /\ UNCHANGED <<row, past, rules, responses, ruleEdits>>

\* An answer is filed under its row and policy.
RespondTo(policy, response) ==
  /\ outcome.status = "staged" /\ policy \in outcome.pending
  /\ responses' = [p \in DOMAIN responses \cup {policy} |->
                     IF p = policy THEN response ELSE responses[p]]
  /\ UNCHANGED <<row, past, rules, outcome, ruleEdits>>

EditRules(book) ==
  /\ ruleEdits < MaxRuleEdits /\ book # rules
  /\ rules' = book /\ ruleEdits' = ruleEdits + 1
  /\ UNCHANGED <<row, past, responses, outcome>>

EnrichNext ==
  \/ StageStatement
  \/ \E p \in Policy : \E r \in Response[p.id] : RespondTo(p.id, r)
  \/ \E book \in RuleBook : EditRules(book)

EnrichSpec == EnrichInit /\ [][EnrichNext]_enrichVars

-----------------------------------------------------------------------------
EnrichTypeOK ==
  /\ row \in SourceRow /\ past \in History /\ rules \in RuleBook /\ ruleEdits \in 0 .. MaxRuleEdits
  /\ DOMAIN responses \subseteq {p.id : p \in Policy}
  /\ outcome.status \in {"none", "staged", "failed"}

\* What a rule decided neither history nor a model changes, also not a response that was
\* given before the rule was there; a row that is booked as a credit has the topic of one;
\* and a row that is not queued for review has a category, no refused proposal and at most
\* one rental unit.  (A rule may take a row out of review that the statement put there.)
DecisionsAreOrdered ==
  outcome.status = "staged" =>
    LET tx == outcome.tx
        ruled == Ruled(row)
    IN /\ outcome.rules = rules =>
            \A f \in DerivedField : ~Unresolved(ruled, f) => tx[f] = ruled[f]
       /\ tx.type \notin Neutral => (outcome.credit <=> tx.type \in Credits)
       /\ ~tx.review =>
            /\ tx.category # Unset /\ ~outcome.refused
            /\ Cardinality(tx.tags \cap UnitTags) <= 1
            /\ "rental" \in tx.tags => tx.tags \cap UnitTags # {}

\* Responses may come in any number of runs: under the same rules a later run keeps what
\* an earlier one decided, except tags a property takes away.
RunsExtendEachOther ==
  outcome.status = "staged" /\ outcome'.status = "staged" /\ outcome'.rules = outcome.rules =>
    /\ \A f \in DerivedField : ~Unresolved(outcome.tx, f) => outcome'.tx[f] = outcome.tx[f]
    /\ outcome.tx.tags \subseteq outcome'.tx.tags \cup UnitTags \cup {"needs-review", "home", "rental"}
    /\ outcome.refused => outcome'.refused
==============================================================================
