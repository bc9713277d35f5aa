----------------------------- MODULE BrowserCapture -----------------------------
(***************************************************************************)
(* The same purchase reaches the Actual ledger of an account from two      *)
(* sides: captures of a bank portal (finance_tracker/browser_ingestion.py) *)
(* and statements.  A row is known by its imported_id: of a capture, the   *)
(* portal's reference or else what the row says and how often the capture  *)
(* says it; of a statement, the statement's own.  What the import of       *)
(* integrations/actual/actualctl.mjs recognises between the two sides is   *)
(* a statement record that is alone with its date, amount and payee, and   *)
(* that exactly one row of a capture says too.                             *)
(*                                                                         *)
(* A purchase is [n, made, posted, ref, text]: text stands for payee,      *)
(* amount and direction.  A capture is [lines, refs]: whether the portal   *)
(* exported references.  Only captures that got envelopes are imported.    *)
(***************************************************************************)
EXTENDS Naturals, Sequences, FiniteSets

CONSTANTS
  Shopping,      \* purchases of one account
  Capture,       \* captures of the portal
  Billing,       \* statements: sequences of purchases
  MaxImports     \* bound: imports

ASSUME BrowserAssumption ==
  /\ \A p, q \in Shopping : p.n = q.n => p = q
  /\ \A p \in Shopping : p.made \in Nat /\ p.posted \in Nat /\ p.made <= p.posted
  /\ \A c \in Capture : c.lines \in Seq(Shopping) /\ c.refs \in BOOLEAN
  \* a portal lists a purchase once: without references nothing else tells two lines apart
  /\ \A c \in Capture : \A i, j \in DOMAIN c.lines :
       ~c.refs /\ c.lines[i] = c.lines[j] => i = j
  /\ Billing \subseteq Seq(Shopping)
  /\ MaxImports \in Nat

VARIABLES
  booked,        \* the rows of the account in Actual
  imports        \* the captures and statements imported, oldest first

captureVars == <<booked, imports>>

LinesOf(source) == IF source.kind = "capture" THEN source.of.lines ELSE source.of

-----------------------------------------------------------------------------
SameRow(p, q) == p.made = q.made /\ p.text = q.text

\* What a capture says of a line, and the how-manieth line of it says that.
Occurrence(c, i) == Cardinality({j \in 1 .. i : SameRow(c.lines[j], c.lines[i])})

TransactionId(c, i) ==
  LET p == c.lines[i] IN
  IF c.refs THEN <<"browser", p.ref>> ELSE <<"browser", p.made, p.text, Occurrence(c, i)>>

\* A capture dates a row by the purchase, a statement by its posting.
CaptureRecords(c) ==
  {[id |-> TransactionId(c, i), date |-> c.lines[i].made, of |-> c.lines[i]] : i \in DOMAIN c.lines}
StatementRecords(s) ==
  {[id |-> <<"statement", s[i].n>>, date |-> s[i].posted, of |-> s[i]] : i \in DOMAIN s}

EconomicKey(r) == <<r.date, r.of.text>>
FromBrowser(r) == r.id[1] = "browser"
BookedIds == {r.id : r \in booked}

\* A variant of Suppressed: a record need not be alone.
SuppressedRepeated(records, r) ==
  /\ ~FromBrowser(r) /\ r.id \notin BookedIds
  /\ Cardinality({b \in booked : FromBrowser(b) /\ EconomicKey(b) = EconomicKey(r)}) = 1

Suppressed(records, r) ==
  /\ ~FromBrowser(r) /\ r.id \notin BookedIds
  /\ Cardinality({q \in records : EconomicKey(q) = EconomicKey(r)}) = 1
  /\ Cardinality({b \in booked : FromBrowser(b) /\ EconomicKey(b) = EconomicKey(r)}) = 1

\* An import with two records of one imported_id throws.  Actual adds what it has no
\* imported_id of.
ImportRecords(records, lines) ==
  /\ Cardinality({r.id : r \in records}) = Len(lines)
  /\ booked' = booked \cup {r \in records : r.id \notin BookedIds /\ ~Suppressed(records, r)}

ImportCapture(c) ==
  /\ Len(imports) < MaxImports
  /\ ImportRecords(CaptureRecords(c), c.lines)
  /\ imports' = Append(imports, [kind |-> "capture", of |-> c])

ImportStatement(s) ==
  /\ Len(imports) < MaxImports
  /\ ImportRecords(StatementRecords(s), s)
  /\ imports' = Append(imports, [kind |-> "statement", of |-> s])

CaptureInit == booked = {} /\ imports = <<>>

CaptureNext ==
  \/ \E c \in Capture : ImportCapture(c)
  \/ \E s \in Billing : ImportStatement(s)

CaptureSpec == CaptureInit /\ [][CaptureNext]_captureVars

CaptureTypeOK ==
  /\ \A r \in booked : r.of \in Shopping /\ r.date \in Nat
  /\ Len(imports) <= MaxImports

-----------------------------------------------------------------------------
LinesIn(source) == {LinesOf(source)[i] : i \in DOMAIN LinesOf(source)}
Twins(p) == {q \in Shopping : SameRow(p, q)}
Captures == {imports[i] : i \in {j \in DOMAIN imports : imports[j].kind = "capture"}}
BookedAs(p) == {r \in booked : SameRow(r.of, p)}

\* Two kinds of purchase keep what the ledger counts from what was bought, and the
\* property says nothing of them: those below with a shared reference or posted on the day of
\* another.

\* A reference the portal gives to two purchases: the second capture's row is taken
\* for the first's.
SharedReference(p) ==
  \E t \in Twins(p), q \in Shopping : q.n # t.n /\ q.ref = t.ref

\* A statement dates a purchase by its posting, and another purchase of that text was
\* made on that day: a captured row of either is taken for the other.
PostedOnAnothersDay(p) ==
  \E t \in Twins(p), q \in Shopping :
    /\ q.text = t.text /\ q.made # t.made
    /\ {q.made, q.posted} \cap {t.made, t.posted} # {}

\* A purchase that one portal export gave with references and another without.
MixedExports(p) ==
  \E a, b \in Captures :
    a.of.refs # b.of.refs /\ LinesIn(a) \cap Twins(p) # {} /\ LinesIn(b) \cap Twins(p) # {}

\* A capture that lists the purchase, imported after a statement had booked it.
CapturedLate(p) ==
  \E i, j \in DOMAIN imports :
    /\ i < j /\ imports[i].kind = "statement" /\ imports[j].kind = "capture"
    /\ p \in LinesIn(imports[i]) \cap LinesIn(imports[j])

\* Purchases are neither lost nor booked twice: the ledger has at least as many rows of
\* a purchase and its twins as any one capture or statement lists; the captures alone
\* never book more of them than they listed; and a purchase that has no twin and is
\* posted on its day is booked once though a capture and then a statement list it, or
\* each of them does so again and again.
CapturesCountOnce ==
  \A p \in Shopping : ~SharedReference(p) /\ ~PostedOnAnothersDay(p) =>
    /\ \A i \in DOMAIN imports :
         Cardinality(LinesIn(imports[i]) \cap Twins(p)) <= Cardinality(BookedAs(p))
    /\ MixedExports(p) \/
         Cardinality({r \in BookedAs(p) : FromBrowser(r)})
           <= Cardinality((UNION {LinesIn(s) : s \in Captures}) \cap Twins(p))
    /\ Twins(p) = {p} /\ p.made = p.posted /\ ~MixedExports(p) /\ ~CapturedLate(p) =>
         Cardinality(BookedAs(p)) <= 1
=============================================================================
