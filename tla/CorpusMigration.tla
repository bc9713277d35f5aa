---------------------------- MODULE CorpusMigration ----------------------------
(***************************************************************************)
(* The notes and topics of rows that are in Actual already (finance_       *)
(* tracker/corpus_migration.py, actual_notes.py): the corpus of manifests  *)
(* is classified again, a dry-run plan compares the result with a          *)
(* snapshot, and a cleanup plan rewrites notes in their canonical form,    *)
(* which the ledger tool applies (integrations/actual/actualctl.mjs).      *)
(* Between a plan and its use the owner edits rows.                        *)
(*                                                                         *)
(* A note is what a parser tells apart: tags, details (documents, reviews  *)
(* and memos), loose text, fields of other kinds, and whether it is laid   *)
(* out as the formatter would.  An account's name, a date and the position *)
(* of a row never change here.                                             *)
(***************************************************************************)
EXTENDS Integers, FiniteSets

CONSTANTS
  Corpora,       \* sets of [id, card, amount, category, says, topic, note]: manifests
  BookedRows,    \* sets of [key, id, amount, category, note, structural]: ledgers
  TechnicalTag,  \* tags the contract forbids
  ForeignDoc,    \* documents outside the evidence folder
  OwnerCategory, OwnerNote,
  MaxOwnerEdits  \* bound: edits of the owner

\* What parse_actual_notes returns; a row and a manifest.
IsNote(n) ==
  /\ n = [tags |-> n.tags, details |-> n.details, loose |-> n.loose, fields |-> n.fields, tidy |-> n.tidy]
  /\ n.tidy \in BOOLEAN
IsBooked(row) ==
  /\ row = [key |-> row.key, id |-> row.id, amount |-> row.amount, category |-> row.category,
            note |-> row.note, structural |-> row.structural]
  /\ row.amount \in Int /\ row.structural \in BOOLEAN /\ IsNote(row.note)
IsManifest(r) ==
  /\ r = [id |-> r.id, card |-> r.card, amount |-> r.amount, category |-> r.category, says |-> r.says,
          topic |-> r.topic, note |-> r.note]
  /\ r.card \in BOOLEAN /\ r.amount \in Int /\ IsNote(r.note)

\* A row of Actual has a key of its own.
ASSUME CorpusAssumption ==
  /\ \A manifests \in Corpora : \A r \in manifests : IsManifest(r)
  /\ \A rows \in BookedRows :
       /\ \A row \in rows : IsBooked(row)
       /\ \A row, other \in rows : row.key = other.key => row = other
  /\ \A n \in OwnerNote : IsNote(n)
  /\ MaxOwnerEdits \in Nat

SemanticTag == {"refund", "reversal", "reward", "amazon-credit", "transfer", "card-payment", "review"}
IncomeCategory == {"Salary", "Other Income"}
NoPlan == [none |-> TRUE]

VARIABLES corpus, booked, corpusPlan, cleanupPlan, ownerEdits
corpusVars == <<corpus, booked, corpusPlan, cleanupPlan, ownerEdits>>

CorpusInit ==
  /\ corpus \in Corpora /\ booked \in BookedRows
  /\ corpusPlan = NoPlan /\ cleanupPlan = {} /\ ownerEdits = 0

-----------------------------------------------------------------------------
(* Notes.                                                                  *)

\* canonicalize_actual_notes: loose text becomes a memo, fields are dropped.
Canonical(note) ==
  [tags |-> note.tags \ TechnicalTag,
   details |-> note.details \cup {<<"Memo", text>> : text \in note.loose},
   loose |-> {}, fields |-> {}, tidy |-> TRUE]

\* format_actual_notes refuses a document that is not below the evidence folder.
CanBeWritten(note) == note.details \cap ForeignDoc = {}

WithTags(note, tags) ==
  [Canonical(note) EXCEPT !.tags = (@ \ SemanticTag) \cup tags]

-----------------------------------------------------------------------------
(* classify_actual_record and the regeneration of the manifests.           *)

Decision(topic, category, tags) == [topic |-> topic, category |-> category, tags |-> tags]

\* The credit side; a text that mentions an Amazon credit is no reward by itself.
Credited(r) ==
  CASE "reversal" \in r.says -> Decision("REVERSAL", "Refunds & Reimbursements", {"refund", "reversal"})
    [] "reversal" \notin r.says
         /\ (r.topic \in {"REWARD", "AMAZON_CREDIT"} \/ "reward" \in r.says) ->
         Decision("REWARD_CREDIT", "Cashback & Rewards",
                  IF "amazon credit" \in r.says \/ r.topic = "AMAZON_CREDIT"
                  THEN {"amazon-credit", "reward"} ELSE {"reward"})
    [] OTHER ->
         IF r.category \in IncomeCategory \/ "salary" \in r.says
         THEN Decision("INCOME", IF r.category = "" THEN "Other Income" ELSE r.category, {})
         ELSE IF r.card \/ r.category \notin {"", "Needs Review"}
         THEN Decision("REFUND", "Refunds & Reimbursements", {"refund"})
         ELSE Decision("UNRESOLVED_CREDIT", "Needs Review", {"review"})

Debited(r) ==
  Decision(IF r.topic = "INTEREST" \/ "interest" \in r.says THEN "INTEREST"
           ELSE IF r.topic = "FEE" \/ "fee" \in r.says THEN "FEE" ELSE "PURCHASE",
           r.category, {})

Classify(r) ==
  IF r.topic \in {"PAYMENT", "TRANSFER"} \/ r.category = "Card Payments" \/ "transfer" \in r.says
  THEN Decision("TRANSFER", "Card Payments", {"card-payment", "transfer"})
  ELSE IF r.amount > 0 THEN Credited(r) ELSE Debited(r)

Regenerated(r) ==
  [r EXCEPT !.category = IF Classify(r).category = "" THEN @ ELSE Classify(r).category,
            !.note = WithTags(@, Classify(r).tags)]

\* One identity twice, or a note that cannot be written, stops the regeneration.  (Two
\* equal rows of one identity stop it as well; the corpus is a set and has none.)
Regenerates ==
  /\ \A r, s \in corpus : r.id = s.id => r = s
  /\ \A r \in corpus : r.id # "" /\ CanBeWritten(r.note)

-----------------------------------------------------------------------------
(* build_guarded_migration_plan and its preflight.                         *)

SourceOf(row) == CHOOSE r \in corpus : r.id = row.id
InCorpus(rows) == {row \in rows : \E r \in corpus : r.id = row.id}
SameAmount(row) == row.amount = SourceOf(row).amount
ManualCategory(row) == row.category \notin {SourceOf(row).category, Regenerated(SourceOf(row)).category}

Guard(row) == [amount |-> row.amount, category |-> row.category, note |-> row.note]

Change(row) ==
  LET source == SourceOf(row)
  IN [id |-> row.id, guard |-> Guard(row),
      category |-> IF ManualCategory(row) THEN row.category ELSE Regenerated(source).category,
      note |-> WithTags(row.note, Classify(source).tags)]

\* The rows that can be changed, those that would be, and why the others are not.
Changeable(rows) == {row \in InCorpus(rows) : ~row.structural /\ SameAmount(row)}
Changes(rows) ==
  {Change(row) : row \in {other \in Changeable(rows) :
     other.note # Change(other).note \/ other.category # Change(other).category}}
Conflicts(rows) ==
  {<<row.id, "STRUCTURAL_ACTUAL_STATE">> : row \in {o \in InCorpus(rows) : o.structural}}
    \cup {<<row.id, "AMOUNT_OR_SIGN_DRIFT">> :
            row \in {o \in InCorpus(rows) : ~o.structural /\ ~SameAmount(o)}}
    \cup {<<row.id, "MANUAL_CATEGORY_PRESERVED">> : row \in {o \in Changeable(rows) : ManualCategory(o)}}

Unique(rows) == \A a, b \in rows : a.id = b.id => a = b

PlanMigration ==
  /\ Regenerates /\ Unique(InCorpus(booked))
  /\ \A row \in Changeable(booked) : CanBeWritten(row.note)
  /\ corpusPlan' = [changes |-> Changes(booked), conflicts |-> Conflicts(booked)]
  /\ UNCHANGED <<corpus, booked, cleanupPlan, ownerEdits>>

\* validate_guarded_migration_plan over the rows of a later snapshot.
Preflight(rows) ==
  /\ Unique({row \in rows : row.id # ""})
  /\ \A c \in corpusPlan.changes : \E row \in rows : row.id = c.id /\ Guard(row) = c.guard

-----------------------------------------------------------------------------
(* build_actual_note_cleanup_plan and its application.                     *)

Untidy(rows) == {row \in rows : Canonical(row.note) # row.note}
Cleanable(rows) == {row \in Untidy(rows) : row.id # "" /\ ~row.structural}

PlanCleanup ==
  /\ \A row \in booked : CanBeWritten(row.note)
  /\ Unique(Cleanable(booked))
  /\ cleanupPlan' =
       {[id |-> row.id, amount |-> row.amount, from |-> row.note, to |-> Canonical(row.note)] :
          row \in Cleanable(booked)}
  /\ UNCHANGED <<corpus, booked, corpusPlan, ownerEdits>>

Aimed(c) == {row \in booked : row.id = c.id}
\* A row is done, or as the plan found it; anything else stops the run before it writes.
Due(c) == {row \in Aimed(c) : row.note # c.to}
MayClean ==
  /\ cleanupPlan # {}
  /\ \A c \in cleanupPlan :
       /\ Cardinality(Aimed(c)) = 1
       /\ \A row \in Aimed(c) :
            row.amount = c.amount /\ ~row.structural /\ row.note \in {c.from, c.to}

\* enrichTransactions writes row by row: a run that is cut off leaves some unwritten.
ApplyCleanup ==
  /\ MayClean
  /\ \E written \in SUBSET UNION {Due(c) : c \in cleanupPlan} :
       booked' = {IF row \in written
                  THEN [row EXCEPT !.note = (CHOOSE c \in cleanupPlan : c.id = row.id).to] ELSE row :
                  row \in booked}
  /\ UNCHANGED <<corpus, corpusPlan, cleanupPlan, ownerEdits>>

-----------------------------------------------------------------------------
(* What the owner does in Actual.                                          *)

Replace(row, by) ==
  /\ ownerEdits < MaxOwnerEdits
  /\ booked' = (booked \ {row}) \cup by
  /\ ownerEdits' = ownerEdits + 1
  /\ UNCHANGED <<corpus, corpusPlan, cleanupPlan>>

Recategorize(row) == \E c \in OwnerCategory \ {row.category} : Replace(row, {[row EXCEPT !.category = c]})
Annotate(row) == \E n \in OwnerNote \ {row.note} : Replace(row, {[row EXCEPT !.note = n]})
Restructure(row) == ~row.structural /\ Replace(row, {[row EXCEPT !.structural = TRUE]})
RemoveRow(row) == Replace(row, {})

CorpusNext ==
  \/ PlanMigration
  \/ PlanCleanup
  \/ ApplyCleanup
  \/ \E row \in booked : Recategorize(row) \/ Annotate(row) \/ Restructure(row) \/ RemoveRow(row)

CorpusSpec == CorpusInit /\ [][CorpusNext]_corpusVars

-----------------------------------------------------------------------------
CorpusTypeOK ==
  /\ corpus \in Corpora /\ ownerEdits \in 0 .. MaxOwnerEdits
  /\ \A row \in booked : IsBooked(row)

\* What the owner wrote is still there: every detail and every tag that is not the
\* classifier's, and loose text as a memo.  Fields of other kinds are dropped.
KeepsWhatWasWritten(from, to) ==
  /\ from.details \subseteq to.details
  /\ \A text \in from.loose : <<"Memo", text>> \in to.details
  /\ from.tags \ (TechnicalTag \cup SemanticTag) \subseteq to.tags

Applied(rows) ==
  {IF \E c \in corpusPlan.changes : c.id = row.id
   THEN LET c == CHOOSE d \in corpusPlan.changes : d.id = row.id
        IN [row EXCEPT !.note = c.note, !.category = c.category]
   ELSE row : row \in rows}

\* A corpus that was regenerated is regenerated to itself.  The changes of a plan keep what
\* the owner wrote and never replace a category the owner chose.  A plan that still passes
\* its preflight is the plan that would be made now, unless a row has since been linked or
\* split, which the guard does not look at; and once applied it leaves nothing to plan.
PlansKeepTheOwnersWork ==
  /\ Regenerates => \A r \in corpus : Regenerated(Regenerated(r)) = Regenerated(r)
  /\ corpusPlan # NoPlan =>
       /\ \A c \in corpusPlan.changes :
            /\ KeepsWhatWasWritten(c.guard.note, c.note)
            /\ c.category # c.guard.category => \E r \in corpus : r.id = c.id /\ c.guard.category = r.category
       /\ Preflight(booked) =>
            /\ {c \in corpusPlan.changes : ~\E row \in booked : row.id = c.id /\ row.structural}
                 \subseteq Changes(booked)
            /\ \A c \in Changes(Applied(booked)) : \A d \in corpusPlan.changes : c.id # d.id

WithoutNote(row) == <<row.key, row.id, row.amount, row.category, row.structural>>

\* A cleanup that is applied touches notes only, of the rows it was planned for, and as
\* they are now: nothing the owner wrote after the plan is lost.
CleanupOnlyTidies ==
  ownerEdits' = ownerEdits =>
    /\ {WithoutNote(row) : row \in booked'} = {WithoutNote(row) : row \in booked}
    /\ \A row \in booked, new \in booked' :
         row.key = new.key /\ row # new =>
           ~row.structural /\ new.note = Canonical(row.note) /\ KeepsWhatWasWritten(row.note, new.note)
==============================================================================
