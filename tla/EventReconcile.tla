--------------------------- MODULE EventReconcile ---------------------------
(***************************************************************************)
(* Statement reconciliation of one card: which stored cashback event each  *)
(* line of a statement stands for (finance_tracker/cashback_events.py).    *)
(* Notifications arrive at any time, before or after the statement that    *)
(* lists them, users correct events, statements come in any order.  Every  *)
(* write is one SQLite transaction begun with BEGIN IMMEDIATE, one step.   *)
(*                                                                         *)
(* Instants count half days: day d begins at 2 * d.  An amount stands for  *)
(* amount and currency, a merchant for its key (upper case, runs of other  *)
(* characters than A-Z and 0-9 collapsed), which may be empty.             *)
(***************************************************************************)
EXTENDS Naturals, FiniteSets, SequencesExt

CONSTANTS
  Notification,   \* events of the live scan: [id, at, amount, merchant, type]
  Statement,      \* [ref, first, last, lines], lines a sequence of
                  \* [id, at, made, amount, merchant, type]
  Alias,          \* <<a, b>>: the merchant key a is contained in the key b
  NoMerchant,          \* the empty merchant key
  OldRun,         \* statements a release without content digests may have reconciled
  NoReference,
  MaxRecCorrections

ASSUME StatementAssumption ==
  /\ OldRun \subseteq Statement /\ MaxRecCorrections \in Nat
  /\ \A n \in Notification : n.at \in Nat
  /\ \A s \in Statement :
       /\ s.ref # NoReference /\ s.first \in Nat /\ s.last \in Nat
       /\ s.lines \in Seq(ToSet(s.lines))
       /\ \A i \in DOMAIN s.lines :
            /\ s.lines[i].at \in Nat /\ s.lines[i].made \in Nat
            \* _statement_period_is_valid: every line posts inside the period
            /\ s.lines[i].at \div 2 \in s.first..s.last
            /\ \A j \in DOMAIN s.lines : s.lines[i].id = s.lines[j].id => i = j

VARIABLES
  rows,              \* cashback_events: rows[id], for the stored ids
  reconciliations,   \* reconciliation_runs: the statement each reference was used for
  recCorrections

recVars == <<rows, reconciliations, recCorrections>>

Reference == {s.ref : s \in Statement}
IdOf(s, k) == <<s.ref, s.lines[k].id>>
IdsOf(s) == {IdOf(s, k) : k \in DOMAIN s.lines}
StatementId == UNION {IdsOf(s) : s \in Statement}
RowId == {<<NoReference, n.id>> : n \in Notification} \cup StatementId

\* A statement as its content digest sees it: the order of its lines is left out.
Content(s) == [ref |-> s.ref, first |-> s.first, last |-> s.last, lines |-> ToSet(s.lines)]

RecTypeOK ==
  /\ DOMAIN rows \subseteq RowId
  /\ \A i \in DOMAIN rows :
       /\ rows[i].source \in {"email", "statement"}
       /\ rows[i].status \in {"ACTIVE", "IGNORED"}
       /\ rows[i].reconciled \in {"UNMATCHED", "VARIANCE", "RECONCILED"}
       /\ rows[i].ref \in Reference \cup {NoReference}
       \* the unique index on identity_key
       /\ \A j \in DOMAIN rows : rows[i].identity = rows[j].identity => i = j
  /\ DOMAIN reconciliations \subseteq Reference
  /\ \A r \in DOMAIN reconciliations : reconciliations[r].statement \in Statement
  /\ recCorrections \in 0..MaxRecCorrections

-----------------------------------------------------------------------------
(* Identities and matching.                                                *)

\* The economic identity; salt tells collision identities apart.
Identity(e) == [at |-> e.at, amount |-> e.amount, type |-> e.type,
                merchant |-> e.merchant, salt |-> <<>>]
Salted(e, id) == [Identity(e) EXCEPT !.salt = id]

Reopened(e, id) == [Identity(e) EXCEPT !.salt = Append(id, "legacy")]

Owners(table, key) == {i \in DOMAIN table : table[i].identity = key}

Event(e, source) ==
  [at |-> e.at, amount |-> e.amount, merchant |-> e.merchant, type |-> e.type,
   source |-> source, status |-> "ACTIVE", identity |-> Identity(e),
   reconciled |-> IF source = "statement" THEN "RECONCILED" ELSE "UNMATCHED",
   ref |-> NoReference]

IsCredit(type) == type \in {"REFUND", "REVERSAL"}

MerchantsMatch(a, b) ==
  NoMerchant \notin {a, b} /\ (a = b \/ <<a, b>> \in Alias \/ <<b, a>> \in Alias)

DayGap(a, b) == LET x == a \div 2  y == b \div 2 IN IF x > y THEN x - y ELSE y - x

\* A variant that forgets the direction of a candidate.
RankedEitherWay(line, table, remaining) ==
  {i \in remaining :
     /\ table[i].amount = line.amount
     /\ DayGap(table[i].at, line.at) <= 3
     /\ MerchantsMatch(table[i].merchant, line.merchant)}

\* Whatever their score, several candidates are ambiguous, so only the set matters.
Ranked(line, table, remaining) ==
  {i \in remaining :
     /\ table[i].amount = line.amount
     /\ IsCredit(table[i].type) = IsCredit(line.type)
     /\ DayGap(table[i].at, line.at) <= 3
     /\ MerchantsMatch(table[i].merchant, line.merchant)}

\* The first day of the search reaches back to purchases posted in this period.
MatchStart(s) == CHOOSE d \in {s.first} \cup {s.lines[i].made : i \in DOMAIN s.lines} :
                   \A e \in {s.first} \cup {s.lines[i].made : i \in DOMAIN s.lines} : d <= e

StatementCandidates(s) ==
  {i \in DOMAIN rows :
     /\ rows[i].source # "statement"
     /\ \/ rows[i].status = "ACTIVE"
        \/ rows[i].status = "IGNORED" /\ rows[i].reconciled = "VARIANCE"
     /\ rows[i].reconciled # "RECONCILED"
     /\ 2 * MatchStart(s) <= rows[i].at /\ rows[i].at < 2 * (s.last + 1)}

\* What becomes of a row: it takes over the date and identity of a line, is what a line
\* stands for, or is a variance.
Dated(row, line) == [row EXCEPT !.at = line.at, !.identity = Identity(line)]
Settled(row, ref) == [row EXCEPT !.status = "ACTIVE", !.reconciled = "RECONCILED", !.ref = ref]
Variance(row, ref) == [row EXCEPT !.status = "IGNORED", !.reconciled = "VARIANCE", !.ref = ref]
FromLine(line, ref, identity) ==
  [Event(line, "statement") EXCEPT !.ref = ref, !.identity = identity]

Put(table, i, row) == [j \in DOMAIN table \cup {i} |-> IF j = i THEN row ELSE table[j]]
Claim(table, i, ref) == Put(table, i, Settled(table[i], ref))

Only(set) == CHOOSE i \in set : TRUE

\* How far a statement has come: the table, and the candidates no line has taken.
Matched(table, remaining) == [table |-> table, remaining |-> remaining, ok |-> TRUE]

\* A unique candidate takes over the line's date and identity.  The unique index
\* refuses an identity another row holds, and with it the whole statement.
TakeCandidate(acc, s, line, i) ==
  IF Owners(acc.table, Identity(line)) \subseteq {i}
  THEN Matched(Put(acc.table, i, Settled(Dated(acc.table[i], line), s.ref)), acc.remaining \ {i})
  ELSE [acc EXCEPT !.ok = FALSE]

\* A variant that gives every inserted line its plain identity.
InsertUnsalted(acc, s, line, id) ==
  Matched(Put(acc.table, id, FromLine(line, s.ref, Identity(line))), acc.remaining)

InsertLine(acc, s, line, id) ==
  LET identity == IF Owners(acc.table, Identity(line)) = {} THEN Identity(line)
                                                            ELSE Salted(line, id)
  IN Matched(Put(acc.table, id, FromLine(line, s.ref, identity)), acc.remaining)

MatchLine(acc, s, line) ==
  LET ranked == Ranked(line, acc.table, acc.remaining)
      id == <<s.ref, line.id>>
      twin == Owners(acc.table, Identity(line)) \cap acc.remaining
  IN CASE ~acc.ok -> acc
       [] acc.ok /\ Cardinality(ranked) = 1 ->
            TakeCandidate(acc, s, line, Only(ranked))
       [] acc.ok /\ Cardinality(ranked) # 1 /\ id \in DOMAIN acc.table ->
            Matched(Claim(acc.table, id, s.ref), acc.remaining)
       [] acc.ok /\ ranked = {} /\ id \notin DOMAIN acc.table /\ twin # {} ->
            Matched(Claim(acc.table, Only(twin), s.ref), acc.remaining \ twin)
       [] OTHER -> InsertLine(acc, s, line, id)

\* The lines in statement order, each choosing among what earlier lines left.
Matching(s) ==
  LET after[k \in 0..Len(s.lines)] ==
        IF k = 0 THEN Matched(rows, StatementCandidates(s))
                 ELSE MatchLine(after[k - 1], s, s.lines[k])
  IN after[Len(s.lines)]

\* A variant that calls every candidate that is left a variance.
UnlistedAnyDay(s, m) == m.remaining

\* What no line took is a variance if it is dated inside the period.
Unlisted(s, m) ==
  {i \in m.remaining : s.first <= m.table[i].at \div 2 /\ m.table[i].at \div 2 <= s.last}

Reconciled(s, m) ==
  [i \in DOMAIN m.table |->
     IF i \in Unlisted(s, m) THEN Variance(m.table[i], s.ref) ELSE m.table[i]]

-----------------------------------------------------------------------------
Run(s, bound, m) == [statement |-> s, bound |-> bound, unlisted |-> Cardinality(Unlisted(s, m))]

IsNew(s) == s.ref \notin DOMAIN reconciliations

\* A store in which an older release has reconciled one statement and nothing else: of
\* lines that are equal the first has the plain identity.
OldRow(s, k) ==
  LET line == s.lines[k] IN
  FromLine(line, s.ref,
    IF \E j \in 1..(k - 1) : Identity(s.lines[j]) = Identity(line)
    THEN Salted(line, IdOf(s, k)) ELSE Identity(line))

\* The store is new, or such a release has left its row of reconciliation_runs without digests.
RecInit ==
  /\ recCorrections = 0
  /\ \/ rows = <<>> /\ reconciliations = <<>>
     \/ \E s \in OldRun :
          /\ rows = [i \in IdsOf(s) |-> OldRow(s, CHOOSE k \in DOMAIN s.lines : i = IdOf(s, k))]
          /\ reconciliations =
               [r \in {s.ref} |-> [statement |-> s, bound |-> FALSE, unlisted |-> 0]]

\* CashbackEventStore.upsert of one event: a known id or an identity another
\* event holds changes nothing.
IngestNotification(n) ==
  LET id == <<NoReference, n.id>> IN
  /\ id \notin DOMAIN rows
  /\ Owners(rows, Identity(n)) = {}
  /\ rows' = Put(rows, id, Event(n, "email"))
  /\ UNCHANGED <<reconciliations, recCorrections>>

\* A reference that is new.  A failed statement leaves the store as it was.
ReconcileNew(s) ==
  /\ IsNew(s)
  /\ LET m == Matching(s) IN
       /\ m.ok
       /\ rows' = Reconciled(s, m)
       /\ reconciliations' = Put(reconciliations, s.ref, Run(s, TRUE, m))
  /\ UNCHANGED recCorrections

\* A run without digests is bound to the first statement whose lines are the
\* persisted statement rows of the reference (the caller proves it knows the run).
Persisted(ref) == {i \in DOMAIN rows : rows[i].source = "statement" /\ rows[i].ref = ref}

RecoverDigests(s) ==
  /\ ~IsNew(s) /\ ~reconciliations[s.ref].bound
  /\ LET old == reconciliations[s.ref].statement IN old.first = s.first /\ old.last = s.last
  /\ Persisted(s.ref) = IdsOf(s)
  /\ \A k \in DOMAIN s.lines :
       LET row == rows[IdOf(s, k)] IN
       row = FromLine(s.lines[k], s.ref, row.identity)
  /\ reconciliations' = Put(reconciliations, s.ref,
       [statement |-> s, bound |-> TRUE, unlisted |-> reconciliations[s.ref].unlisted])
  /\ UNCHANGED <<rows, recCorrections>>

\* correct_event: the facts of an event a statement refers to are locked, its
\* status is not.
CorrectFacts(i, amount, merchant) ==
  LET row == [rows[i] EXCEPT !.amount = amount, !.merchant = merchant] IN
  /\ recCorrections < MaxRecCorrections
  /\ rows[i].ref = NoReference /\ rows[i].reconciled # "RECONCILED"
  /\ row # rows[i]
  /\ Owners(rows, Identity(row)) \subseteq {i}
  /\ rows' = [rows EXCEPT ![i] = [row EXCEPT !.identity = Identity(row)]]
  /\ recCorrections' = recCorrections + 1
  /\ UNCHANGED reconciliations

CorrectStatus(i, status) ==
  /\ recCorrections < MaxRecCorrections
  /\ status # rows[i].status
  /\ rows' = [rows EXCEPT ![i].status = status]
  /\ recCorrections' = recCorrections + 1
  /\ UNCHANGED reconciliations

\* _migrate_event_columns, whenever a server opens the store: one row of an identity
\* gets it and the others salted ones.  Which one (the order of creation) is left open.
Reopen ==
  LET shared == {i \in DOMAIN rows :
                   \E j \in DOMAIN rows \ {i} : Identity(rows[i]) = Identity(rows[j])}
  IN
  \E firsts \in SUBSET shared :
       /\ \A i \in shared : Cardinality({j \in firsts : Identity(rows[j]) = Identity(rows[i])}) = 1
       /\ rows' = [i \in DOMAIN rows |->
                     [rows[i] EXCEPT !.identity = IF i \in shared \ firsts THEN Reopened(rows[i], i)
                                                  ELSE Identity(rows[i])]]
  /\ UNCHANGED <<reconciliations, recCorrections>>

RecNext ==
  \/ \E n \in Notification : IngestNotification(n)
  \/ \E s \in Statement : ReconcileNew(s) \/ RecoverDigests(s)
  \/ \E i \in DOMAIN rows :
       \/ \E n \in Notification : CorrectFacts(i, n.amount, n.merchant)
       \/ \E status \in {"ACTIVE", "IGNORED"} : CorrectStatus(i, status)
  \/ Reopen

RecSpec == RecInit /\ [][RecNext]_recVars

-----------------------------------------------------------------------------
Counted(e) == <<e.at, e.amount, IsCredit(e.type)>>

Listed(ref) == {i \in DOMAIN rows : rows[i].ref = ref /\ rows[i].reconciled = "RECONCILED"}

\* Each statement has as many rows of one date, amount and direction as lines.
ListedOnce ==
  \A r \in DOMAIN reconciliations :
    LET s == reconciliations[r].statement IN
    \A c \in {Counted(rows[i]) : i \in Listed(r)}
               \cup {Counted(s.lines[k]) : k \in DOMAIN s.lines} :
      Cardinality({i \in Listed(r) : Counted(rows[i]) = c})
        = Cardinality({k \in DOMAIN s.lines : Counted(s.lines[k]) = c})

HasTwins(s) == \E j, k \in DOMAIN s.lines : j # k /\ Identity(s.lines[j]) = Identity(s.lines[k])

\* A statement without candidates changes no identity.
OnlyTwinsFail ==
  \A s \in Statement :
    /\ IsNew(s) /\ StatementCandidates(s) # {} /\ ~HasTwins(s)
    /\ \A k \in DOMAIN s.lines : Owners(rows, Identity(s.lines[k])) \subseteq StatementCandidates(s)
    => Matching(s).ok

(* What a statement lists is what its reconciled rows add up to, whichever *)
(* notification an earlier line took from a later one, whatever other      *)
(* statements of the card were reconciled since, whatever was corrected    *)
(* and however often the store was opened again.  And only lines of equal  *)
(* identity, or a row the statement may not touch that holds the identity  *)
(* of a line, make the unique index refuse a statement.                    *)
StatementIsCounted == ListedOnce /\ OnlyTwinsFail

(* A reconciliation leaves nothing active in the period but reconciled     *)
(* rows, and changes no row an earlier statement has reconciled, none dated *)
(* outside the days it searches, and one dated outside the period only by  *)
(* reconciling it.                                                         *)
ReconcileSettles ==
  [][\A s \in Statement :
       IsNew(s) /\ s.ref \in DOMAIN reconciliations' /\ reconciliations'[s.ref].statement = s =>
         /\ \A i \in DOMAIN rows' :
              /\ rows'[i].at \div 2 \in s.first..s.last
              /\ rows'[i].status = "ACTIVE"
              => rows'[i].reconciled = "RECONCILED"
         /\ \A i \in DOMAIN rows :
              \/ rows[i].reconciled = "RECONCILED"
              \/ rows[i].at \div 2 \notin MatchStart(s)..s.last
              \/ rows[i].at \div 2 \notin s.first..s.last /\ rows'[i].reconciled # "RECONCILED"
              => rows'[i] = rows[i]]_recVars
=============================================================================
