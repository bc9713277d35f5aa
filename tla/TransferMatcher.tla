---------------------------- MODULE TransferMatcher ----------------------------
(***************************************************************************)
(* The transfer matcher of the rule analysis workbench                     *)
(* (rule_analysis_matcher.py) and the verification of a candidate against  *)
(* it (rule_analysis.py, rule_analysis_validation.py).  Two rows are the   *)
(* two sides of a transfer when every hard check passes and neither has    *)
(* another possible counterpart, however indirect.                         *)
(*                                                                         *)
(* The ledger grows, and its rows are linked and locked in Actual, between *)
(* the evaluations.  A hash is the value it is taken of; dates are day     *)
(* numbers; a reference is what is left of it after normalisation.         *)
(***************************************************************************)
EXTENDS Integers, FiniteSets

CONSTANTS
  Observation,      \* the rows that may come to the ledger
  SettlementDays,   \* MatcherPolicy.settlement_days
  Reason,           \* what a candidate may give as its reason
  Target,           \* the fields a candidate may set
  Suggested,        \* those of them that an agent may set
  MaxLedgerEdits,   \* bound on links and locks set in Actual
  MaxCandidates

ASSUME MatcherAssumption == SettlementDays \in 0 .. 31 /\ Suggested \subseteq Target

VARIABLES observed, answers, candidates, verified, ledgerEdits
matchVars == <<observed, answers, candidates, verified, ledgerEdits>>

Absent == "absent"

MatchInit ==
  /\ observed = {} /\ answers = {} /\ candidates = {} /\ verified = {} /\ ledgerEdits = 0

-----------------------------------------------------------------------------
(* The identity of a row, and the hard checks of a pair.                   *)

IdentityKey(o) ==
  <<o.source, o.account,
    IF o.actual # Absent THEN <<"actual", o.actual>>
    ELSE IF o.imported # Absent THEN <<"imported", o.imported>>
    ELSE <<"transaction", o.transaction>> >>

\* Two different rows under one identity fail the query of every row.
UniqueSnapshots(pool) == \A a, b \in pool : IdentityKey(a) = IdentityKey(b) => a = b

TransferEligible(o) ==
  \/ o.type = "TRANSFER"
  \/ /\ o.tags \cap {"card-payment", "transfer"} # {}
     /\ o.type \notin {"INCOME", "REFUND", "REWARD"} /\ ~o.refund
     /\ o.tags \cap {"cashback", "income", "refund", "reimbursement", "reward"} = {}

\* The sign in Actual counts only if neither source names a direction.
OppositeDirections(a, b) ==
  IF a.direction # Absent \/ b.direction # Absent
  THEN Absent \notin {a.direction, b.direction} /\ a.direction # b.direction
  ELSE a.signed * b.signed < 0

LinkIdentifiers(o) == {o.id, o.transaction, o.actual, o.imported} \ {Absent}
Reciprocal(a, b) ==
  /\ a.link # Absent /\ a.link \in LinkIdentifiers(b)
  /\ b.link # Absent /\ b.link \in LinkIdentifiers(a)

CoreChecks(a, b) ==
  /\ IdentityKey(a) # IdentityKey(b) /\ a.account # b.account
  /\ TransferEligible(a) /\ TransferEligible(b)
  /\ OppositeDirections(a, b)
  /\ a.amount = b.amount /\ a.currency = b.currency
  /\ a.currency # "AED" => a.original # Absent /\ a.original = b.original
  /\ a.day - b.day \in -SettlementDays .. SettlementDays
  /\ Absent \in {a.reference, b.reference} \/ a.reference = b.reference
  /\ a.counterparty \in {Absent, b.account} /\ b.counterparty \in {Absent, a.account}

RelationLocked(o) == "existing_link" \in o.locked

Eligible(a, b) ==
  /\ CoreChecks(a, b)
  /\ Reciprocal(a, b) \/ (a.link = Absent /\ b.link = Absent)
  /\ Reciprocal(a, b) \/ ~(RelationLocked(a) \/ RelationLocked(b))

-----------------------------------------------------------------------------
(* The decision.                                                           *)

Peers(o, pool) == {p \in pool : Eligible(o, p)}

\* A variant of Component: only the row's own counterparts.
OwnPeers(o, pool) == {o} \cup Peers(o, pool)

\* Every row that can be reached over possible counterparts.
Component(o, pool) ==
  LET reached[n \in 0 .. Cardinality(pool)] ==
        IF n = 0 THEN {o}
        ELSE reached[n - 1] \cup UNION {Peers(p, pool) : p \in reached[n - 1]}
  IN reached[Cardinality(pool)]

NoRelation == [outcome |-> "MISSING", peers |-> {}, reasons |-> {"missing"}]

\* The trace of a row: its outcome, the selected counterpart and the reasons.
Trace(o, pool) ==
  LET linked == {p \in pool : Reciprocal(o, p) /\ Eligible(o, p)}
      blocked == \E p \in pool : CoreChecks(o, p) /\ ~Eligible(o, p)
      locked == IF RelationLocked(o) THEN {"locked"} ELSE {}
      Conflict(reasons) == [outcome |-> "CONFLICTING", peers |-> {}, reasons |-> reasons]
  IN IF o.link # Absent
     THEN IF Cardinality(linked) = 1
          THEN [outcome |-> "EXISTING_LINK", peers |-> linked, reasons |-> {"precedence"}]
          ELSE Conflict({"conflicting"} \cup locked)
     ELSE IF RelationLocked(o) THEN Conflict(locked)
     ELSE IF Peers(o, pool) = {} THEN IF blocked THEN Conflict({"conflicting"}) ELSE NoRelation
     ELSE IF Cardinality(Component(o, pool)) = 2
     THEN [outcome |-> "UNIQUE", peers |-> Peers(o, pool), reasons |-> {"unique"}]
     ELSE [outcome |-> "AMBIGUOUS", peers |-> {}, reasons |-> {"ambiguous"}]

ReviewReasons == {"conflicting", "missing", "ambiguous"}
AcceptedReasons == {"precedence", "unique"}
ReviewOnly(t) ==
  t.outcome \in {"AMBIGUOUS", "CONFLICTING", "MISSING"} \/ t.reasons \cap ReviewReasons # {}

-----------------------------------------------------------------------------
(* Actual, and the authors of candidates (outside the code).               *)

ArriveRow(o) ==
  /\ o.id \notin {p.id : p \in observed}
  /\ observed' = observed \cup {o}
  /\ UNCHANGED <<answers, candidates, verified, ledgerEdits>>

EditRow(o, edited) ==
  /\ ledgerEdits < MaxLedgerEdits /\ edited # o
  /\ observed' = (observed \ {o}) \cup {edited} /\ ledgerEdits' = ledgerEdits + 1
  /\ UNCHANGED <<answers, candidates, verified>>

\* Actual links a transaction by the id of the other one.
LinkRow(o, p) == p.actual # Absent /\ p.account # o.account /\ EditRow(o, [o EXCEPT !.link = p.actual])
LockRow(o, field) == EditRow(o, [o EXCEPT !.locked = @ \cup {field}])

\* What the workbench answers about a row, for the ledger as it is; the latest answer.
Evaluate(o) ==
  /\ UniqueSnapshots(observed)
  /\ answers' = {[row |-> o, pool |-> observed, trace |-> Trace(o, observed)]}
  /\ UNCHANGED <<observed, candidates, verified, ledgerEdits>>

\* A rule, or an agent, proposes a value for what it was shown.
Author(a, kind, reason, target) ==
  /\ Cardinality(candidates) < MaxCandidates
  /\ candidates' = candidates \cup
       {[row |-> a.row, pool |-> a.pool, kind |-> kind, reason |-> reason, target |-> target]}
  /\ UNCHANGED <<observed, answers, verified, ledgerEdits>>

-----------------------------------------------------------------------------
\* An agent sets suggestions only; the row and everything the matcher saw are as the
\* candidate names them; nobody locked the field by hand.
ValidCandidate(c) ==
  /\ c.kind = "AGENT_POLICY" => c.target \in Suggested
  /\ c.row \in observed /\ c.pool = observed
  /\ c.target \notin c.row.locked

Sanctioned(c, t) ==
  /\ ReviewOnly(t) => c.reason \in ReviewReasons
  /\ c.kind = "DETERMINISTIC_RULE" => c.reason \in t.reasons

Verify(c) ==
  /\ UniqueSnapshots(observed) /\ ValidCandidate(c)
  /\ LET t == Trace(c.row, observed)
     IN Sanctioned(c, t) /\ verified' = verified \cup {[candidate |-> c, trace |-> t]}
  /\ UNCHANGED <<observed, answers, candidates, ledgerEdits>>

\* An effect is described only for a reason that accepts.
HasEffect(v) == v.candidate.reason \in AcceptedReasons

MatchNext ==
  \/ \E o \in Observation : ArriveRow(o)
  \/ \E o, p \in observed : LinkRow(o, p)
  \/ \E o \in observed, field \in Target \cup {"existing_link"} : LockRow(o, field)
  \/ \E o \in observed : Evaluate(o)
  \/ \E a \in answers, kind \in {"DETERMINISTIC_RULE", "AGENT_POLICY"},
        reason \in Reason, target \in Target : Author(a, kind, reason, target)
  \/ \E c \in candidates : Verify(c)

MatchSpec == MatchInit /\ [][MatchNext]_matchVars

-----------------------------------------------------------------------------
MatchTypeOK ==
  /\ {o.id : o \in observed} \subseteq {o.id : o \in Observation}
  /\ \A a \in answers : a.row \in a.pool /\ a.trace.peers \subseteq a.pool
  /\ Cardinality(candidates) <= MaxCandidates /\ ledgerEdits \in 0 .. MaxLedgerEdits

\* A counterpart is selected by both rows or by neither, a transfer has exactly two rows,
\* and neither is on hold; an existing link is one of the two rows' own (a second
\* observation of the same transaction shares the link).  No effect comes of a row that the
\* matcher could not decide.
PairsAreMutual ==
  /\ UniqueSnapshots(observed) =>
       \A o \in observed : LET t == Trace(o, observed)
                           IN \A p \in t.peers :
                                LET back == Trace(p, observed)
                                IN /\ o.account # p.account /\ o.amount = p.amount
                                   /\ t.outcome = "UNIQUE" => back.outcome = "UNIQUE" /\ back.peers = {o}
                                   /\ t.outcome = "EXISTING_LINK" =>
                                        back.peers = {o} \/ back.outcome = "CONFLICTING"
  /\ \A v \in verified : HasEffect(v) => Cardinality(v.trace.peers) = 1
  /\ \A v, w \in verified :
       HasEffect(v) /\ HasEffect(w) /\ v.candidate.pool = w.candidate.pool
         /\ v.trace.outcome = "UNIQUE" /\ w.trace.outcome = "UNIQUE"
         /\ v.trace.peers = w.trace.peers => v.candidate.row = w.candidate.row

\* Rows that come later may make a unique pair ambiguous; they never give a row another
\* counterpart, and they never decide what was ambiguous.
GrowthKeepsPairs ==
  \A a \in answers, b \in answers' :
    a.row = b.row /\ a.pool \subseteq b.pool =>
      /\ a.trace.outcome = "UNIQUE" =>
           b.trace.outcome = "AMBIGUOUS" \/ (b.trace.outcome = "UNIQUE" /\ b.trace.peers = a.trace.peers)
      /\ a.trace.outcome = "AMBIGUOUS" => b.trace.outcome = "AMBIGUOUS"
      /\ a.trace.outcome = "EXISTING_LINK" =>
           b.trace.peers = a.trace.peers \/ b.trace.outcome = "CONFLICTING"
==============================================================================
