----------------------------- MODULE BrowserReview -----------------------------
(***************************************************************************)
(* From a capture of a bank portal to what is handed over to Actual        *)
(* (finance_tracker/browser_ingestion.py): the account, the reasons to     *)
(* look at a row, the balances, credits that one purchase explains, and    *)
(* whether the capture may be imported.  It is ingested again when its     *)
(* owner approved it or accounts were configured meanwhile.                *)
(*                                                                         *)
(* A row is [day, text, amount, direction, type, doubts]: text stands for  *)
(* payee, currency and card, the type is empty unless the portal says it,  *)
(* the doubts are the source's own and a missing amount in the home        *)
(* currency.  BrowserRules tells what the rules make of a text; how they   *)
(* get there, with history and the AI, is in Enrichment.                   *)
(***************************************************************************)
EXTENDS Integers, FiniteSets, SequencesExt

CONSTANTS
  BrowserDoc,     \* [id, kind, method, statement, rows]
  BrowserRules,   \* by text: [type, category], an empty type sets none
  AccountTypes,   \* types of the configured accounts that match the capture's
  RefundDays,     \* REFUND_MATCH_WINDOW_DAYS
  MaxConfigured   \* bound: changes of the configured accounts

ASSUME BrowserReviewAssumption ==
  /\ \A c, d \in BrowserDoc : c.id = d.id => c = d
  /\ RefundDays \in Nat /\ MaxConfigured \in Nat

VARIABLES
  portalDoc,      \* the capture
  approvedFor,    \* the capture its approval names
  accountTypes,   \* the types of the configured accounts that match, one after the other
  configured,
  portalRun       \* the last run

portalVars == <<portalDoc, approvedFor, accountTypes, configured, portalRun>>

DocId == {c.id : c \in BrowserDoc}
NoApproval == "none"
NoPortalRun == [status |-> "none", rows |-> <<>>, refunds |-> <<>>, envelopes |-> FALSE]

PortalInit ==
  /\ portalDoc \in BrowserDoc /\ approvedFor = NoApproval
  /\ accountTypes \in AccountTypes /\ configured = 0
  /\ portalRun = NoPortalRun

-----------------------------------------------------------------------------
Visible == portalDoc.method = "VISIBLE_ROWS"

\* An approval is refused unless it is of visible rows and names this capture.
ApprovalFits == approvedFor = NoApproval \/ (Visible /\ approvedFor = portalDoc.id)

\* Exactly one configured account has to match.
ResolvedAccount == Len(accountTypes) = 1
AccountType == IF ResolvedAccount THEN accountTypes[1] ELSE "checking"

UnnamedCredit(r) == r.type = "" /\ r.direction = "CREDIT"
RowReasons(r) ==
  r.doubts
    \cup (IF UnnamedCredit(r) THEN {"UNCLASSIFIED_CREDIT"} ELSE {})
    \cup (IF Visible /\ approvedFor = NoApproval THEN {"VISIBLE_ROWS_REQUIRE_REVIEW"} ELSE {})
    \cup (IF ResolvedAccount THEN {} ELSE {"UNMAPPED_ACCOUNT"})

\* What was debited, or credited, in all.
Turnover(direction) ==
  FoldLeft(LAMBDA sum, r : sum + (IF r.direction = direction THEN r.amount ELSE 0), 0, portalDoc.rows)

\* A statement names its convention, or else the account's type does.
Liability ==
  IF portalDoc.statement.convention = "" THEN AccountType \in {"credit", "mortgage"}
  ELSE portalDoc.statement.convention = "LIABILITY"
BalanceTied ==
  LET spent == Turnover("DEBIT") - Turnover("CREDIT")
  IN portalDoc.statement.closing = portalDoc.statement.opening + (IF Liability THEN spent ELSE -spent)
Authoritative ==
  /\ portalDoc.kind = "STATEMENT_ROWS" /\ portalDoc.method = "OFFICIAL_EXPORT"
  /\ portalDoc.statement.reference /\ BalanceTied

-----------------------------------------------------------------------------
(* Rules and topic of a row; a credit nobody named becomes a refund.       *)

TypeRuled(r) ==
  UnnamedCredit(r) /\ r.text \in DOMAIN BrowserRules /\ BrowserRules[r.text].type # ""
FinalType(r) ==
  IF TypeRuled(r) THEN BrowserRules[r.text].type
  ELSE IF r.direction = "CREDIT" /\ r.type \in {"", "PURCHASE"} THEN "REFUND"
  ELSE IF r.direction = "DEBIT" /\ r.type \in {"", "REFUND"} THEN "PURCHASE"
  ELSE r.type
RuledCategory(r) == IF r.text \in DOMAIN BrowserRules THEN BrowserRules[r.text].category ELSE ""

\* The default topic does not count as classified.
Classified(r) == TypeRuled(r) /\ RuledCategory(r) # ""
Unexplained(r) == UnnamedCredit(r) /\ ~Classified(r) /\ FinalType(r) = "REFUND"

\* Purchases of the capture that a credit may give back.
RefundCandidates(n) ==
  LET rows == portalDoc.rows
      credit == rows[n]
  IN {m \in DOMAIN rows :
        /\ rows[m].direction = "DEBIT" /\ FinalType(rows[m]) = "PURCHASE"
        /\ rows[m].text = credit.text /\ rows[m].amount = credit.amount
        /\ credit.day - rows[m].day \in 0 .. RefundDays}

\* In the order of the rows: the one purchase left that a credit can be of.
Refunds ==
  LET Step(found, n) ==
        LET left == RefundCandidates(n) \ {found[k] : k \in DOMAIN found}
        IN IF Unexplained(portalDoc.rows[n]) /\ Cardinality(left) = 1
           THEN [k \in DOMAIN found \cup {n} |-> IF k = n THEN CHOOSE m \in left : TRUE ELSE found[k]]
           ELSE found
  IN FoldLeft(Step, <<>>, [n \in DOMAIN portalDoc.rows |-> n])

\* A resolved credit is judged by the reasons that remain; a row without a category, or
\* with that of a question, is always reviewed.
ReviewedRow(n) ==
  LET r == portalDoc.rows[n]
      given == n \in DOMAIN Refunds
      explained == Classified(r) \/ given
      reasons == RowReasons(r) \ (IF explained THEN {"UNCLASSIFIED_CREDIT"} ELSE {})
      category == IF RuledCategory(r) = "" /\ given
                  THEN RuledCategory(portalDoc.rows[Refunds[n]]) ELSE RuledCategory(r)
      untied == portalDoc.kind = "STATEMENT_ROWS" /\ ~Authoritative /\ ~explained
  IN [reasons |-> reasons, category |-> category, type |-> FinalType(r),
      review |-> reasons # {} \/ untied \/ category \in {"", "Needs Review"}]

-----------------------------------------------------------------------------
\* Snapshots and documents end early; without a blocker there are envelopes, reviewed or not.
PortalRun ==
  LET early == [ACCOUNT_SNAPSHOT |-> "ACCOUNT_REVIEW_REQUIRED", STATEMENT_PDF |-> "ROUTE_TO_STATEMENT_PIPELINE"]
      rows == [n \in DOMAIN portalDoc.rows |-> ReviewedRow(n)]
      tied == portalDoc.kind = "STATEMENT_ROWS" => Authoritative
      reviewed == ~tied \/ \E n \in DOMAIN rows : rows[n].review
  IN IF portalDoc.kind \in DOMAIN early THEN [NoPortalRun EXCEPT !.status = early[portalDoc.kind]]
     ELSE [status |-> IF ~ResolvedAccount THEN "UNMAPPED_ACCOUNT"
                      ELSE IF reviewed THEN "REVIEW_REQUIRED" ELSE "READY_FOR_APPROVAL",
           rows |-> rows, refunds |-> Refunds, envelopes |-> ResolvedAccount /\ tied]

IngestBrowser ==
  /\ ApprovalFits
  /\ portalRun' = PortalRun
  /\ UNCHANGED <<portalDoc, approvedFor, accountTypes, configured>>

\* The owner writes an approval into the capture; it may name another one.
ApproveCapture(id) ==
  /\ approvedFor = NoApproval /\ approvedFor' = id
  /\ UNCHANGED <<portalDoc, accountTypes, configured, portalRun>>

ConfigureAccount(types) ==
  /\ configured < MaxConfigured /\ accountTypes # types
  /\ accountTypes' = types /\ configured' = configured + 1
  /\ UNCHANGED <<portalDoc, approvedFor, portalRun>>

PortalNext ==
  \/ IngestBrowser
  \/ \E id \in DocId : ApproveCapture(id)
  \/ \E types \in AccountTypes : ConfigureAccount(types)

PortalSpec == PortalInit /\ [][PortalNext]_portalVars

-----------------------------------------------------------------------------
PortalTypeOK ==
  /\ portalDoc \in BrowserDoc /\ approvedFor \in DocId \cup {NoApproval}
  /\ accountTypes \in AccountTypes /\ configured \in 0 .. MaxConfigured
  /\ DOMAIN portalRun.rows \subseteq DOMAIN portalDoc.rows

OpenCredits == {n \in DOMAIN portalDoc.rows : Unexplained(portalDoc.rows[n])}

\* A purchase gives back one credit, and every other purchase that credit could be of
\* gives back another; a credit with one possible purchase that no other credit could be of
\* is recognised wherever the two stand in the capture.  (With several of each the order of
\* the rows decides which credits are recognised.)  What is ready has no open question: its
\* rows are categorised and free of doubt, its credits are explained, visible rows are
\* approved by name, and a statement that is imported is an export that ties to its balances.
ReviewIsEarned ==
  LET given == portalRun.refunds
      rows == portalDoc.rows
  IN /\ \A n, m \in DOMAIN given : n # m => given[n] # given[m]
     /\ \A n \in DOMAIN given : RefundCandidates(n) \subseteq {given[m] : m \in DOMAIN given}
     /\ portalRun.rows # <<>> =>
          \A n \in OpenCredits :
            /\ Cardinality(RefundCandidates(n)) = 1
            /\ \A m \in OpenCredits \ {n} : RefundCandidates(m) \cap RefundCandidates(n) = {}
            => n \in DOMAIN given
     /\ portalRun.status = "READY_FOR_APPROVAL" =>
          /\ portalRun.envelopes
          /\ Visible => approvedFor = portalDoc.id
          /\ \A n \in DOMAIN rows :
               /\ rows[n].doubts = {} /\ portalRun.rows[n].category \notin {"", "Needs Review"}
               /\ UnnamedCredit(rows[n]) => n \in DOMAIN given \/ Classified(rows[n])
     /\ portalRun.envelopes /\ portalDoc.kind = "STATEMENT_ROWS" =>
          LET spent == Turnover("DEBIT") - Turnover("CREDIT")
          IN /\ portalDoc.method = "OFFICIAL_EXPORT"
             /\ portalDoc.statement.closing - portalDoc.statement.opening \in {spent, -spent}

\* An approval answers its own question and no other: until accounts change, a later run
\* keeps every decision and every other reason, and nothing else becomes importable.
ApprovalIsNarrow ==
  portalRun.rows # <<>> /\ portalRun' # portalRun /\ configured = 0 =>
    LET again == portalRun'
        Others(r) == r.reasons \ {"VISIBLE_ROWS_REQUIRE_REVIEW"}
    IN /\ again.refunds = portalRun.refunds /\ again.envelopes = portalRun.envelopes
       /\ \A n \in DOMAIN portalRun.rows :
            /\ again.rows[n].type = portalRun.rows[n].type
            /\ again.rows[n].category = portalRun.rows[n].category
            /\ Others(again.rows[n]) = Others(portalRun.rows[n])
==============================================================================
