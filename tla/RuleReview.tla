----------------------------- MODULE RuleReview -----------------------------
(***************************************************************************)
(* The review of rule proposals (finance_tracker/rule_analysis.py,         *)
(* rule_analysis_lifecycle.py, rule_analysis_validation.py).  A workbench  *)
(* registers a candidate with one proposal per target field, reviewers     *)
(* append feedback to a proposal's chain, and people lock fields and       *)
(* relations.  Every operation takes an immutable lifecycle value and      *)
(* returns the next one or raises; a caller may hold an older value and go *)
(* on from it, and a reviewer submits what it drafted against the value it *)
(* saw.                                                                    *)
(*                                                                         *)
(* A hash stands for what it is taken of: a proposal is its candidate and  *)
(* field, and a feedback event holds its predecessor.                      *)
(***************************************************************************)
EXTENDS Naturals, FiniteSets, SequencesExt

CONSTANTS
  Candidate,     \* [id, outcome, ambiguous, fields, locked]: the outcome of its
                 \* reason code and the fields its observation shows locked
  Field,         \* fields Policy A lets a proposal change
  Relation,      \* NoRelation among them
  FeedbackId, NoRelation, NoEvent, NoApproval,
  MaxLockChanges, MaxFeedback

ASSUME ReviewAssumption ==
  /\ NoRelation \in Relation /\ MaxLockChanges \in Nat /\ MaxFeedback \in Nat
  /\ \A c \in Candidate :
       /\ c.outcome \in {"accepted", "review_only", "rejected"}
       /\ c.fields \subseteq Field /\ c.fields # {} /\ c.locked \subseteq Field
       \* the ambiguous reasons are review-only ones
       /\ c.ambiguous => c.outcome = "review_only"

VARIABLES
  lifecycle,     \* the value of the workbench
  kept,          \* an older value some caller or reviewer still holds
  lockChanges

reviewVars == <<lifecycle, kept, lockChanges>>

Proposal == {p \in Candidate \X Field : p[2] \in p[1].fields}
Decision == {"ACCEPTED", "REVIEW_ONLY", "REJECTED"}
Terminal == {"REJECTED"}     \* and STALE, which is REJECTED for another reason

EmptyLifecycle == [candidates |-> {}, proposals |-> <<>>, fields |-> {}, relations |-> {}]

ReviewTypeOK ==
  /\ \A value \in {lifecycle, kept} :
       /\ value.candidates \subseteq Candidate
       /\ \A c, d \in value.candidates : c.id = d.id => c = d
       /\ DOMAIN value.proposals \subseteq Proposal
       /\ \A p \in DOMAIN value.proposals :
            /\ value.proposals[p].state \in Decision \cup {"PROPOSED"}
            /\ value.proposals[p].relation \in Relation
       /\ value.fields \subseteq Field /\ value.relations \subseteq Relation
  /\ lockChanges \in 0..MaxLockChanges

-----------------------------------------------------------------------------
(* ProposalRecord and RuleAnalysisLifecycle: what an operation returns.    *)

\* An event is its facts, and in seen the chain its author saw (history).
LastFacts(feedback) == IF feedback = <<>> THEN NoEvent ELSE Last(feedback).facts

Draft(value, p, id, decision) ==
  LET feedback == value.proposals[p].feedback IN
  [facts |-> [id |-> id, proposal |-> p, decision |-> decision,
              sequence |-> Len(feedback) + 1, previous |-> LastFacts(feedback)],
   seen |-> feedback]

\* ExactTargetApproval.for_proposal
Approval(value, p) == [proposal |-> p, relation |-> value.proposals[p].relation]

\* guard_target; the protected fields are not in Field.
Unlocked(value, field, relation) ==
  field \notin value.fields /\ (relation = NoRelation \/ relation \notin value.relations)

\* A variant that does not compare the predecessor of an event.
AppendsAfterAny(record, event, approval) ==
  LET e == event.facts IN
  /\ \A k \in DOMAIN record.feedback : record.feedback[k].facts.id # e.id
  /\ e.sequence = Len(record.feedback) + 1
  /\ record.state \notin Terminal
  /\ IF e.decision = "ACCEPTED"
     THEN ~record.ambiguous
          /\ approval = [proposal |-> e.proposal, relation |-> record.relation]
     ELSE approval = NoApproval
  /\ ~(e.decision = "REVIEW_ONLY" /\ record.state = "ACCEPTED")

\* with_feedback
Appends(record, event, approval) ==
  LET e == event.facts IN
  /\ \A k \in DOMAIN record.feedback : record.feedback[k].facts.id # e.id
  /\ e.sequence = Len(record.feedback) + 1
  /\ e.previous = LastFacts(record.feedback)
  /\ record.state \notin Terminal
  /\ IF e.decision = "ACCEPTED"
     THEN ~record.ambiguous
          /\ approval = [proposal |-> e.proposal, relation |-> record.relation]
     ELSE approval = NoApproval
  \* the constructor replays the chain of the new record
  /\ ~(e.decision = "REVIEW_ONLY" /\ record.state = "ACCEPTED")

WithFeedback(record, event, approval) ==
  [record EXCEPT !.state = event.facts.decision, !.feedback = Append(@, event),
                 !.approval = IF event.facts.decision = "ACCEPTED" THEN approval ELSE @]

FeedbackCount(value) ==
  FoldFunctionOnSet(LAMBDA record, n : n + Len(record.feedback), 0,
                    value.proposals, DOMAIN value.proposals)

\* A variant that accepts whatever is locked by now.
MayRecordLocked(value, event, approval) ==
  LET p == event.facts.proposal IN
  /\ FeedbackCount(value) < MaxFeedback
  /\ p \in DOMAIN value.proposals
  /\ Appends(value.proposals[p], event, approval)

\* record_feedback
MayRecord(value, event, approval) ==
  LET p == event.facts.proposal IN
  /\ FeedbackCount(value) < MaxFeedback
  /\ p \in DOMAIN value.proposals
  /\ event.facts.decision = "ACCEPTED" => Unlocked(value, p[2], value.proposals[p].relation)
  /\ Appends(value.proposals[p], event, approval)

Recorded(value, event, approval) ==
  [value EXCEPT !.proposals[event.facts.proposal] = WithFeedback(@, event, approval)]

NewRecord(c, relation) ==
  LET state == IF c.outcome = "review_only" THEN "REVIEW_ONLY" ELSE "PROPOSED" IN
  [relation |-> relation, initial |-> state, state |-> state, ambiguous |-> c.ambiguous,
   feedback |-> <<>>, approval |-> NoApproval]

\* register_candidate and register_proposal as propose calls them: known facts
\* are passed over, known ids with other facts or another relation refused.
MayRegister(value, c, relation) ==
  /\ c.fields \cap c.locked = {}
  /\ \A d \in value.candidates : d.id = c.id => d = c
  /\ \A f \in c.fields :
       LET p == <<c, f>> IN
       IF p \in DOMAIN value.proposals
       THEN value.proposals[p].relation = relation
       ELSE c.outcome # "rejected" /\ Unlocked(value, f, relation)

Registered(value, c, relation) ==
  [value EXCEPT
     !.candidates = @ \cup {c},
     !.proposals = [p \in DOMAIN value.proposals \cup ({c} \X c.fields) |->
                      IF p \in DOMAIN value.proposals THEN value.proposals[p]
                      ELSE NewRecord(c, relation)]]

\* replayed: the chain applied once more to the record as it was registered.
Unreviewed(record) ==
  [record EXCEPT !.state = record.initial, !.feedback = <<>>, !.approval = NoApproval]

ReplayEvent(record, event, done) ==
  LET approval == IF event.facts.decision = "ACCEPTED" THEN record.approval ELSE NoApproval IN
  IF done.ok /\ Appends(done.record, event, approval)
  THEN [done EXCEPT !.record = WithFeedback(done.record, event, approval)]
  ELSE [done EXCEPT !.ok = FALSE]

Replayed(record) ==
  LET replay[n \in 0..Len(record.feedback)] ==
        IF n = 0 THEN [ok |-> TRUE, record |-> Unreviewed(record)]
        ELSE ReplayEvent(record, record.feedback[n], replay[n - 1])
  IN replay[Len(record.feedback)]

-----------------------------------------------------------------------------
ReviewInit == lifecycle = EmptyLifecycle /\ kept = EmptyLifecycle /\ lockChanges = 0

\* What reviewers may submit: drafted against the value of now or an older one.
Drafts ==
  UNION {{Draft(value, p, id, decision) :
            p \in DOMAIN value.proposals, id \in FeedbackId, decision \in Decision}
         : value \in {lifecycle, kept}}

Approvals ==
  {NoApproval} \cup
  UNION {{Approval(value, p) : p \in DOMAIN value.proposals} : value \in {lifecycle, kept}}

\* propose: all proposals of the candidate and all the feedback, or nothing.
\* Feedback comes without an approval here, so it cannot accept.
Propose(c, relation) ==
  /\ MayRegister(lifecycle, c, relation)
  /\ LET registered == Registered(lifecycle, c, relation) IN
     \/ lifecycle' = registered
     \/ \E event \in Drafts :
          /\ event.facts.proposal \in {c} \X c.fields
          /\ MayRecord(registered, event, NoApproval)
          /\ lifecycle' = Recorded(registered, event, NoApproval)
  /\ UNCHANGED <<kept, lockChanges>>

\* accept_proposal, reject_proposal, mark_proposal_stale and record_feedback.
Record(event, approval) ==
  /\ MayRecord(lifecycle, event, approval)
  /\ lifecycle' = Recorded(lifecycle, event, approval)
  /\ UNCHANGED <<kept, lockChanges>>

\* with_field_locked, with_relation_locked and their releases.
ChangeLocks ==
  /\ lockChanges < MaxLockChanges
  /\ lockChanges' = lockChanges + 1
  /\ \/ \E f \in Field :
          \/ lifecycle' = [lifecycle EXCEPT !.fields = @ \cup {f}]
          \/ lifecycle' = [lifecycle EXCEPT !.fields = @ \ {f}]
     \/ \E r \in Relation \ {NoRelation} :
          \/ lifecycle' = [lifecycle EXCEPT !.relations = @ \cup {r}]
          \/ lifecycle' = [lifecycle EXCEPT !.relations = @ \ {r}]
  /\ UNCHANGED kept

\* Somebody keeps the value of now, or goes on from the one that was kept, while
\* others still hold the value of now.
Keep == kept' = lifecycle /\ UNCHANGED <<lifecycle, lockChanges>>
GoOn == lifecycle' = kept /\ kept' = lifecycle /\ UNCHANGED lockChanges

ReviewNext ==
  \/ \E c \in Candidate, relation \in Relation : Propose(c, relation)
  \/ \E event \in Drafts, approval \in Approvals : Record(event, approval)
  \/ ChangeLocks \/ Keep \/ GoOn

ReviewSpec == ReviewInit /\ [][ReviewNext]_reviewVars

-----------------------------------------------------------------------------
(* Whichever value a caller went on from and however old a draft is, every *)
(* event of a chain was written by someone who saw exactly the events      *)
(* before it; and the chain alone makes the record again, so that          *)
(* replay_feedback never refuses a lifecycle the operations have built.    *)
ChainsAreWhatWasSeen ==
  \A p \in DOMAIN lifecycle.proposals :
    LET record == lifecycle.proposals[p] IN
    /\ Replayed(record) = [ok |-> TRUE, record |-> record]
    /\ \A k \in DOMAIN record.feedback :
         record.feedback[k].seen = SubSeq(record.feedback, 1, k - 1)

(* A proposal that becomes accepted is neither locked nor ambiguous at that *)
(* moment, and was approved under the relation it is registered with, also  *)
(* when another value of the lifecycle has it under another relation.  A    *)
(* rejected or stale proposal stays so in every value made from this one.   *)
AcceptanceIsConfirmed ==
  [][\A p \in DOMAIN lifecycle.proposals \cap DOMAIN lifecycle'.proposals :
       LET old == lifecycle.proposals[p]  new == lifecycle'.proposals[p] IN
       lifecycle' # kept =>
         /\ old.state \in Terminal => new = old
         /\ new.state = "ACCEPTED" /\ new # old =>
              /\ ~p[1].ambiguous /\ p[1].outcome # "rejected"
              /\ p[2] \notin lifecycle'.fields /\ new.relation \notin lifecycle'.relations
              /\ new.approval = [proposal |-> p, relation |-> new.relation]]_reviewVars
=============================================================================
