------------------------ MODULE EventReconcileProofs ------------------------
(***************************************************************************)
(* Proofs about EventReconcile, for any notifications, statements and      *)
(* aliases, and any number of corrections.                                 *)
(***************************************************************************)
EXTENDS EventReconcile, SequenceTheorems, WellFoundedInduction, FiniteSetTheorems, TLAPS

\* What rows are made of.
StatementLine == UNION {ToSet(s.lines) : s \in Statement}
Source == Notification \cup StatementLine
Legacy(i) == Append(i, "legacy")
Salts == {<<>>} \cup RowId \cup {Legacy(i) : i \in RowId}
Key == [at : Nat, amount : {e.amount : e \in Source}, type : {e.type : e \in Source},
        merchant : {e.merchant : e \in Source}, salt : Salts]
Row == [at : Nat, amount : {e.amount : e \in Source}, merchant : {e.merchant : e \in Source},
        type : {e.type : e \in Source}, source : {"email", "statement"},
        status : {"ACTIVE", "IGNORED"}, identity : Key,
        reconciled : {"UNMATCHED", "VARIANCE", "RECONCILED"}, ref : Reference \cup {NoReference}]
Table == UNION {[ids -> Row] : ids \in SUBSET RowId}

\* A plain identity is that of the row's own facts until a statement has settled it; a salted
\* one is salted with the row's own id.
IdentityInv(i, row) ==
  /\ row.identity.salt \in {<<>>, i, Legacy(i)}
  /\ row.reconciled # "RECONCILED" /\ row.identity.salt = <<>> => row.identity = Identity(row)

TableInv(table) ==
  /\ table \in Table /\ IsFiniteSet(DOMAIN table)
  /\ \A i \in DOMAIN table :
       /\ IdentityInv(i, table[i])
       /\ table[i].source = "statement" => table[i].reconciled = "RECONCILED"
  /\ \A i, j \in DOMAIN table : table[i].identity = table[j].identity => i = j

\* The first n lines and a set of rows say the same, one by one.
Pairing(f, lines, n, table, set) ==
  /\ f \in [1..n -> set]
  /\ \A i \in set : \E k \in 1..n : f[k] = i
  /\ \A k, l \in 1..n : f[k] = f[l] => k = l
  /\ \A k \in 1..n : Counted(table[f[k]]) = Counted(lines[k])
Paired(lines, n, table, set) == \E f : Pairing(f, lines, n, table, set)

\* Runs: rows refer to references that were used, and each statement is paired with the rows
\* it has settled; those of an old release are all rows of a statement.
RunOf(r) ==
  LET run == reconciliations[r] IN
  /\ run.statement \in Statement /\ run.statement.ref = r
  /\ Paired(run.statement.lines, Len(run.statement.lines), rows, Listed(r))
  /\ ~run.bound => \A i \in Listed(r) : rows[i].source = "statement"
RunInv ==
  /\ DOMAIN reconciliations \subseteq Reference
  /\ \A r \in DOMAIN reconciliations : RunOf(r)
  /\ \A i \in DOMAIN rows : {i[1], rows[i].ref} \subseteq DOMAIN reconciliations \cup {NoReference}

RecInv == TableInv(rows) /\ RunInv /\ recCorrections \in 0..MaxRecCorrections

-----------------------------------------------------------------------------
(* Ids, lines and rows.                                                     *)

LEMMA Ids ==
  /\ \A i \in RowId : i = <<i[1], i[2]>>
  /\ \A s \in Statement : \A k \in DOMAIN s.lines : IdOf(s, k) \in RowId /\ IdOf(s, k)[1] = s.ref
  /\ \A n \in Notification : <<NoReference, n.id>> \in RowId
BY DEF RowId, StatementId, IdsOf, IdOf

LEMMA LegacyIds ==
  ASSUME NEW i \in RowId
  PROVE  i # <<>> /\ Legacy(i) # <<>>
         /\ \A j \in RowId : Legacy(i) # j /\ (Legacy(i) = Legacy(j) => i = j)
<1>1. \A j \in RowId : /\ Len(Legacy(j)) = 3 /\ Legacy(j)[1] = j[1] /\ Legacy(j)[2] = j[2]
                       /\ Len(j) = 2
  <2>1. ASSUME NEW a, NEW b
        PROVE /\ Len(Append(<<a, b>>, "legacy")) = 3 /\ Append(<<a, b>>, "legacy")[1] = a
              /\ Append(<<a, b>>, "legacy")[2] = b /\ Len(<<a, b>>) = 2
    <3>1. <<a, b>> \in Seq({a, b, "legacy"}) /\ Len(<<a, b>>) = 2 OBVIOUS
    <3> QED BY <3>1, AppendProperties
  <2>2. ASSUME NEW j \in RowId
        PROVE  /\ Len(Legacy(j)) = 3 /\ Legacy(j)[1] = j[1] /\ Legacy(j)[2] = j[2]
               /\ Len(j) = 2
    <3>1. j = <<j[1], j[2]>> BY Ids
    <3> DEFINE a == j[1]
               b == j[2]
    <3>2. j = <<a, b>> BY <3>1
    <3> HIDE DEF a, b
    <3>3. Legacy(j) = Append(<<a, b>>, "legacy") BY <3>2 DEF Legacy
    <3>4. Len(j) = 2 /\ j[1] = a /\ j[2] = b BY <3>2
    <3> QED BY <2>1, <3>3, <3>4
  <2> QED BY <2>2
<1>2. Len(<<>>) = 0 OBVIOUS
<1>3. \A j \in RowId : Legacy(i) # j /\ (Legacy(i) = Legacy(j) => i = j) BY <1>1, Ids
<1> QED BY <1>1, <1>2, <1>3

\* The lines of a statement.
LEMMA Lines ==
  ASSUME NEW s \in Statement
  PROVE  /\ Len(s.lines) \in Nat /\ DOMAIN s.lines = 1..Len(s.lines)
         /\ s.ref \in Reference /\ s.ref # NoReference /\ s.first \in Nat /\ s.last \in Nat
         /\ \A k \in 1..Len(s.lines) :
              /\ s.lines[k] \in StatementLine
              /\ s.lines[k].at \in Nat /\ s.lines[k].at \div 2 \in s.first..s.last
              /\ s.lines[k].made \in Nat
              /\ \A j \in 1..Len(s.lines) : IdOf(s, j) = IdOf(s, k) => j = k
<1>1. s.lines \in Seq(ToSet(s.lines)) BY StatementAssumption
<1>2. Len(s.lines) \in Nat /\ DOMAIN s.lines = 1..Len(s.lines) BY <1>1, LenProperties
<1>3. \A k \in 1..Len(s.lines) : s.lines[k] \in StatementLine
  BY <1>2 DEF StatementLine, ToSet
<1>4. \A j, k \in DOMAIN s.lines : IdOf(s, j) = IdOf(s, k) => j = k
  BY StatementAssumption DEF IdOf
<1> QED BY <1>2, <1>3, <1>4, StatementAssumption DEF Reference

\* Identities.
LEMMA Keys ==
  ASSUME NEW e, e.at \in Nat, e.amount \in {x.amount : x \in Source},
         e.type \in {x.type : x \in Source}, e.merchant \in {x.merchant : x \in Source}
  PROVE  /\ Identity(e) \in Key /\ Identity(e).salt = <<>>
         /\ Identity(e).at = e.at /\ Identity(e).amount = e.amount
         /\ Identity(e).type = e.type /\ Identity(e).merchant = e.merchant
         /\ \A i \in RowId : /\ Salted(e, i) \in Key /\ Salted(e, i).salt = i
                             /\ Reopened(e, i) \in Key /\ Reopened(e, i).salt = Legacy(i)
<1>1. Identity(e) \in Key BY DEF Identity, Key, Salts
<1>2. ASSUME NEW i \in RowId
      PROVE  /\ Salted(e, i) \in Key /\ Salted(e, i).salt = i
             /\ Reopened(e, i) \in Key /\ Reopened(e, i).salt = Legacy(i)
  <2>1. i \in Salts /\ Legacy(i) \in Salts BY DEF Salts
  <2> QED BY <2>1 DEF Salted, Reopened, Identity, Key, Legacy
<1> QED BY <1>1, <1>2 DEF Identity

\* The facts of a source.
LEMMA SourceFacts ==
  ASSUME NEW e \in Source
  PROVE  /\ e.at \in Nat /\ e.amount \in {x.amount : x \in Source}
         /\ e.type \in {x.type : x \in Source} /\ e.merchant \in {x.merchant : x \in Source}
<1>1. e.at \in Nat
  <2>1. CASE e \in Notification BY <2>1, StatementAssumption
  <2>2. CASE e \in StatementLine
    <3>1. PICK s \in Statement : e \in ToSet(s.lines) BY <2>2 DEF StatementLine
    <3>2. PICK k \in DOMAIN s.lines : e = s.lines[k] BY <3>1 DEF ToSet
    <3> QED BY <3>2, StatementAssumption
  <2> QED BY <2>1, <2>2 DEF Source
<1> QED BY <1>1

\* A new event, and the row of a line.
LEMMA NewEvent ==
  ASSUME NEW e \in Source
  PROVE  /\ Event(e, "email") \in Row /\ Event(e, "email").reconciled = "UNMATCHED"
         /\ Event(e, "email").identity = Identity(e) /\ Event(e, "email").source = "email"
         /\ Event(e, "email").ref = NoReference
         /\ Identity(Event(e, "email")) = Identity(e)
         /\ Event(e, "statement") \in Row
<1>1. /\ e.at \in Nat /\ e.amount \in {x.amount : x \in Source}
      /\ e.type \in {x.type : x \in Source} /\ e.merchant \in {x.merchant : x \in Source}
  BY SourceFacts
<1>2. Identity(e) \in Key BY <1>1, Keys
<1>3. Event(e, "email") \in Row /\ Event(e, "statement") \in Row
  BY <1>1, <1>2 DEF Event, Row
<1> HIDE DEF Row
<1> QED BY <1>3 DEF Event, Identity

LEMMA NewRows ==
  ASSUME NEW e \in Source, NEW ref \in Reference, NEW key \in Key
  PROVE  /\ FromLine(e, ref, key) \in Row /\ FromLine(e, ref, key).reconciled = "RECONCILED"
         /\ FromLine(e, ref, key).ref = ref /\ FromLine(e, ref, key).identity = key
         /\ FromLine(e, ref, key).source = "statement"
         /\ Counted(FromLine(e, ref, key)) = Counted(e)
         /\ FromLine(e, ref, key).at = e.at
<1>1. Event(e, "statement") \in Row BY NewEvent
<1>2. FromLine(e, ref, key) \in Row BY <1>1 DEF FromLine, Row
<1> HIDE DEF Row
<1> QED BY <1>2 DEF Event, FromLine, Counted

\* What a reconciliation does to a row.
LEMMA RowSteps ==
  ASSUME NEW row \in Row, NEW e \in Source, NEW ref \in Reference
  PROVE  /\ Dated(row, e) \in Row /\ Dated(row, e).at = e.at
         /\ Dated(row, e).identity = Identity(e)
         /\ Dated(row, e).amount = row.amount /\ Dated(row, e).type = row.type
         /\ Dated(row, e).source = row.source
         /\ Settled(row, ref) \in Row /\ Settled(row, ref).reconciled = "RECONCILED"
         /\ Settled(row, ref).ref = ref /\ Settled(row, ref).identity = row.identity
         /\ Settled(row, ref).at = row.at /\ Settled(row, ref).source = row.source
         /\ Settled(row, ref).amount = row.amount /\ Settled(row, ref).type = row.type
<1>1. Identity(e) \in Key /\ e.at \in Nat BY SourceFacts, Keys
<1>2. /\ Dated(row, e) \in Row /\ Dated(row, e).at = e.at
      /\ Dated(row, e).identity = Identity(e)
      /\ Dated(row, e).amount = row.amount /\ Dated(row, e).type = row.type
      /\ Dated(row, e).source = row.source
  BY <1>1 DEF Dated, Row
<1>3. /\ Settled(row, ref) \in Row /\ Settled(row, ref).reconciled = "RECONCILED"
      /\ Settled(row, ref).ref = ref /\ Settled(row, ref).identity = row.identity
      /\ Settled(row, ref).at = row.at /\ Settled(row, ref).source = row.source
      /\ Settled(row, ref).amount = row.amount /\ Settled(row, ref).type = row.type
  BY DEF Settled, Row
<1> QED BY <1>2, <1>3

LEMMA VarianceRow ==
  ASSUME NEW row \in Row, NEW ref \in Reference
  PROVE  /\ Variance(row, ref) \in Row /\ Variance(row, ref).reconciled = "VARIANCE"
         /\ Variance(row, ref).status = "IGNORED"
         /\ Variance(row, ref).ref = ref /\ Variance(row, ref).identity = row.identity
         /\ Variance(row, ref).source = row.source
         /\ Identity(Variance(row, ref)) = Identity(row)
BY DEF Variance, Row, Identity

-----------------------------------------------------------------------------
(* Tables.                                                                  *)

LEMMA Tables ==
  ASSUME NEW table
  PROVE  table \in Table <=> /\ table = [i \in DOMAIN table |-> table[i]]
                            /\ DOMAIN table \subseteq RowId
                            /\ \A i \in DOMAIN table : table[i] \in Row
BY DEF Table

\* A table with a row put or replaced.
LEMMA NewTable ==
  ASSUME NEW table \in Table, NEW i \in RowId, NEW row \in Row
  PROVE  /\ Put(table, i, row) \in Table /\ DOMAIN Put(table, i, row) = DOMAIN table \cup {i}
         /\ Put(table, i, row)[i] = row
         /\ \A j \in DOMAIN table \ {i} : Put(table, i, row)[j] = table[j]
<1>1. /\ table = [j \in DOMAIN table |-> table[j]] /\ DOMAIN table \subseteq RowId
      /\ \A j \in DOMAIN table : table[j] \in Row
  BY Tables
<1>2. Put(table, i, row) \in [DOMAIN table \cup {i} -> Row] BY <1>1 DEF Put
<1>3. DOMAIN table \cup {i} \in SUBSET RowId BY <1>1
<1>4. Put(table, i, row) \in Table BY <1>2, <1>3 DEF Table
<1> QED BY <1>4 DEF Put

\* The rows a statement chooses among are stored, not settled and of its days.
LEMMA CandidateFacts ==
  ASSUME NEW s
  PROVE  /\ StatementCandidates(s) \subseteq DOMAIN rows
         /\ \A i \in StatementCandidates(s) :
              rows[i].reconciled # "RECONCILED" /\ rows[i].source # "statement"
BY DEF StatementCandidates

-----------------------------------------------------------------------------
(* One line after the other.                                                *)

Progress == [table : Table, remaining : SUBSET RowId, ok : BOOLEAN]

\* What the lines so far have taken: rows they put and candidates that are gone.
Taken(s, acc) ==
  (DOMAIN acc.table \ DOMAIN rows) \cup (StatementCandidates(s) \ acc.remaining)

TakenRow(s, n, row) ==
  /\ row.reconciled = "RECONCILED" /\ row.ref = s.ref
  /\ row.identity.salt = <<>> => \E j \in 1..n : row.identity = Identity(s.lines[j])

MatchedInv(s, n, acc) ==
  /\ TableInv(acc.table)
  /\ acc.remaining \subseteq StatementCandidates(s)
  /\ DOMAIN rows \subseteq DOMAIN acc.table
  /\ \A i \in DOMAIN acc.table \ DOMAIN rows : \E j \in 1..n : i = IdOf(s, j)
  /\ \A i \in DOMAIN rows \ Taken(s, acc) : acc.table[i] = rows[i]
  /\ \A i \in Taken(s, acc) : TakenRow(s, n, acc.table[i])
  /\ Paired(s.lines, n, acc.table, Taken(s, acc))

\* The n-th line takes the row i.
Takes(s, n, acc, next, i) ==
  /\ next \in Progress /\ next.ok
  /\ i \in acc.remaining \/ (i = IdOf(s, n) /\ i \notin DOMAIN acc.table)
  /\ DOMAIN next.table = DOMAIN acc.table \cup {i}
  /\ \A j \in DOMAIN acc.table \ {i} : next.table[j] = acc.table[j]
  /\ next.remaining = acc.remaining \ {i}
  /\ IdentityInv(i, next.table[i])
  /\ next.table[i].reconciled = "RECONCILED" /\ next.table[i].ref = s.ref
  /\ next.table[i].identity.salt = <<>> => next.table[i].identity = Identity(s.lines[n])
  /\ Counted(next.table[i]) = Counted(s.lines[n])
  /\ Owners(acc.table, next.table[i].identity) \subseteq {i}

\* One more row for one more line.
LEMMA PairOneMore ==
  ASSUME NEW lines, NEW n \in Nat \ {0}, NEW table, NEW next, NEW set, NEW i, i \notin set,
         Paired(lines, n - 1, table, set), \A j \in set : next[j] = table[j],
         Counted(next[i]) = Counted(lines[n])
  PROVE  Paired(lines, n, next, set \cup {i})
<1>1. PICK f : Pairing(f, lines, n - 1, table, set) BY DEF Paired
<1> DEFINE g == [k \in 1..n |-> IF k = n THEN i ELSE f[k]]
<1>2. /\ f \in [1..(n - 1) -> set] /\ \A j \in set : \E k \in 1..(n - 1) : f[k] = j
      /\ \A k, l \in 1..(n - 1) : f[k] = f[l] => k = l
      /\ \A k \in 1..(n - 1) : Counted(table[f[k]]) = Counted(lines[k])
  BY <1>1 DEF Pairing
<1>3. \A k \in 1..n : k = n \/ k \in 1..(n - 1) OBVIOUS
<1>4. 1..(n - 1) \subseteq 1..n /\ n \in 1..n /\ n \notin 1..(n - 1) OBVIOUS
<1>5. g[n] = i /\ \A k \in 1..(n - 1) : g[k] = f[k] BY <1>4
<1>6. g \in [1..n -> set \cup {i}] BY <1>2, <1>3
<1> HIDE DEF g
<1>7. \A j \in set \cup {i} : \E k \in 1..n : g[k] = j BY <1>2, <1>4, <1>5
<1>8. \A k, l \in 1..n : g[k] = g[l] => k = l BY <1>2, <1>3, <1>5
<1>9. ASSUME NEW k \in 1..n PROVE Counted(next[g[k]]) = Counted(lines[k])
  <2>1. CASE k = n BY <2>1, <1>5
  <2>2. CASE k \in 1..(n - 1)
    <3>1. f[k] \in set /\ g[k] = f[k] BY <1>2, <1>5, <2>2
    <3>2. next[f[k]] = table[f[k]] BY <3>1
    <3> QED BY <1>2, <2>2, <3>1, <3>2
  <2> QED BY <1>3, <2>1, <2>2
<1> QED BY <1>6, <1>7, <1>8, <1>9 DEF Paired, Pairing

LEMMA TakingKeeps ==
  ASSUME RecInv, NEW s \in Statement, NEW n \in 1..Len(s.lines), NEW acc, NEW next, NEW i,
         acc \in Progress, MatchedInv(s, n - 1, acc), Takes(s, n, acc, next, i)
  PROVE  MatchedInv(s, n, next)
<1>1. n \in Nat \ {0} /\ n - 1 \in Nat /\ \A j \in 1..(n - 1) : j \in 1..n BY Lines
<1>2. TableInv(acc.table) BY DEF MatchedInv
<1>3. StatementCandidates(s) \subseteq DOMAIN rows BY CandidateFacts
<1>4. i \notin Taken(s, acc) /\ Taken(s, next) = Taken(s, acc) \cup {i}
  BY <1>3 DEF Taken, Takes, MatchedInv
<1>5. \A j \in DOMAIN next.table : j = i \/ j \in DOMAIN acc.table \ {i} BY DEF Takes
<1>6. Taken(s, acc) \subseteq DOMAIN acc.table \ {i}
  BY <1>3, <1>4 DEF Taken, MatchedInv
<1>7. TableInv(next.table)
  <2>1. next.table \in Table /\ IsFiniteSet(DOMAIN next.table)
    <3>1. IsFiniteSet(DOMAIN acc.table) BY <1>2 DEF TableInv
    <3>2. IsFiniteSet(DOMAIN acc.table \cup {i}) BY <3>1, FS_AddElement
    <3> QED BY <3>2 DEF Takes, Progress
  <2>2. ASSUME NEW j \in DOMAIN next.table
        PROVE  /\ IdentityInv(j, next.table[j])
               /\ next.table[j].source = "statement" => next.table[j].reconciled = "RECONCILED"
    BY <1>2, <1>5 DEF TableInv, Takes
  <2>3. ASSUME NEW j \in DOMAIN next.table, NEW k \in DOMAIN next.table,
               next.table[j].identity = next.table[k].identity
        PROVE  j = k
    <3>1. ASSUME NEW l \in DOMAIN acc.table \ {i} PROVE next.table[l].identity # next.table[i].identity
      <4>1. next.table[l] = acc.table[l] BY DEF Takes
      <4>2. l \notin Owners(acc.table, next.table[i].identity) BY DEF Takes
      <4> QED BY <4>1, <4>2 DEF Owners
    <3>2. ASSUME j # i, k # i PROVE j = k
      <4>1. next.table[j] = acc.table[j] /\ next.table[k] = acc.table[k]
            /\ j \in DOMAIN acc.table /\ k \in DOMAIN acc.table
        BY <1>5, <3>2 DEF Takes
      <4> QED BY <1>2, <2>3, <4>1 DEF TableInv
    <3> QED BY <1>5, <2>3, <3>1, <3>2
  <2> QED BY <2>1, <2>2, <2>3 DEF TableInv
<1>8. next.remaining \subseteq StatementCandidates(s) /\ DOMAIN rows \subseteq DOMAIN next.table
  BY DEF MatchedInv, Takes
<1>9. \A j \in DOMAIN next.table \ DOMAIN rows : \E k \in 1..n : j = IdOf(s, k)
  <2> SUFFICES ASSUME NEW j \in DOMAIN next.table \ DOMAIN rows
               PROVE  \E k \in 1..n : j = IdOf(s, k)
    OBVIOUS
  <2>1. CASE j \in DOMAIN acc.table BY <1>1, <2>1 DEF MatchedInv
  <2>2. CASE j \notin DOMAIN acc.table
    <3>1. j = i /\ j \notin acc.remaining BY <1>3, <1>5, <2>2 DEF MatchedInv
    <3> QED BY <1>1, <3>1 DEF Takes
  <2> QED BY <2>1, <2>2
<1>10. \A j \in DOMAIN rows \ Taken(s, next) : next.table[j] = rows[j]
  <2> SUFFICES ASSUME NEW j \in DOMAIN rows \ Taken(s, next) PROVE next.table[j] = rows[j]
    OBVIOUS
  <2>1. j # i /\ j \in DOMAIN rows \ Taken(s, acc) BY <1>4
  <2>2. j \in DOMAIN acc.table \ {i} BY <2>1 DEF MatchedInv
  <2> QED BY <2>1, <2>2 DEF MatchedInv, Takes
<1>11. \A j \in Taken(s, next) : TakenRow(s, n, next.table[j])
  <2> SUFFICES ASSUME NEW j \in Taken(s, next) PROVE TakenRow(s, n, next.table[j])
    OBVIOUS
  <2>1. CASE j = i BY <1>1, <2>1 DEF Takes, TakenRow
  <2>2. CASE j # i
    <3>1. j \in Taken(s, acc) /\ next.table[j] = acc.table[j] BY <1>4, <1>6, <2>2 DEF Takes
    <3>2. TakenRow(s, n - 1, acc.table[j]) BY <3>1 DEF MatchedInv
    <3> QED BY <1>1, <3>1, <3>2 DEF TakenRow
  <2> QED BY <2>1, <2>2
<1>12. Paired(s.lines, n, next.table, Taken(s, next))
  <2>1. \A j \in Taken(s, acc) : next.table[j] = acc.table[j] BY <1>6 DEF Takes
  <2>2. Paired(s.lines, n - 1, acc.table, Taken(s, acc)) BY DEF MatchedInv
  <2>3. Counted(next.table[i]) = Counted(s.lines[n]) BY DEF Takes
  <2>4. i \notin Taken(s, acc) /\ n \in Nat \ {0} BY <1>1, <1>4
  <2>5. Paired(s.lines, n, next.table, Taken(s, acc) \cup {i})
    BY <2>1, <2>2, <2>3, <2>4, PairOneMore
  <2> QED BY <1>4, <2>5
<1> QED BY <1>7, <1>8, <1>9, <1>10, <1>11, <1>12 DEF MatchedInv

\* No row has the id of a line that was not reached yet.
LEMMA FreshId ==
  ASSUME RecInv, NEW s \in Statement, IsNew(s), NEW n \in 1..Len(s.lines), NEW acc,
         MatchedInv(s, n - 1, acc)
  PROVE  IdOf(s, n) \in RowId /\ IdOf(s, n) \notin DOMAIN acc.table
<1>1. IdOf(s, n) \in RowId /\ IdOf(s, n)[1] = s.ref BY Lines, Ids
<1>2. IdOf(s, n) \notin DOMAIN rows
  <2>1. s.ref \notin DOMAIN reconciliations \cup {NoReference} BY Lines DEF IsNew
  <2> QED BY <1>1, <2>1 DEF RecInv, RunInv
<1>3. ASSUME NEW j \in 1..(n - 1), IdOf(s, n) = IdOf(s, j) PROVE FALSE
  <2>1. n \in 1..Len(s.lines) /\ j \in 1..Len(s.lines) /\ j # n BY Lines
  <2> QED BY <1>3, <2>1, Lines
<1> QED BY <1>1, <1>2, <1>3 DEF MatchedInv

\* A candidate that is left is as it was stored.
LEMMA Remaining ==
  ASSUME RecInv, NEW s \in Statement, NEW n, NEW acc, acc \in Progress, MatchedInv(s, n, acc),
         NEW i \in acc.remaining
  PROVE  /\ i \in RowId /\ i \in DOMAIN acc.table /\ acc.table[i] = rows[i] /\ rows[i] \in Row
         /\ rows[i].reconciled # "RECONCILED" /\ rows[i].source # "statement"
         /\ IdentityInv(i, rows[i])
<1>1. i \in StatementCandidates(s) BY DEF MatchedInv
<1>2. i \in DOMAIN rows /\ rows[i].reconciled # "RECONCILED" /\ rows[i].source # "statement"
  BY <1>1, CandidateFacts
<1>3. i \notin Taken(s, acc) BY <1>2 DEF Taken
<1>4. acc.table[i] = rows[i] /\ i \in DOMAIN acc.table BY <1>2, <1>3 DEF MatchedInv
<1>5. rows \in Table /\ IdentityInv(i, rows[i]) BY <1>2 DEF RecInv, TableInv
<1>6. i \in RowId /\ rows[i] \in Row BY <1>2, <1>5, Tables
<1> QED BY <1>2, <1>4, <1>5, <1>6

\* The progress after a row was put or replaced.
LEMMA NextProgress ==
  ASSUME NEW table \in Table, NEW remaining, remaining \subseteq RowId
  PROVE  /\ Matched(table, remaining) \in Progress /\ Matched(table, remaining).ok
         /\ Matched(table, remaining).table = table
         /\ Matched(table, remaining).remaining = remaining
BY DEF Progress, Matched

\* A unique candidate.
LEMMA CandidateTaken ==
  ASSUME RecInv, NEW s \in Statement, NEW n \in 1..Len(s.lines), NEW acc,
         acc \in Progress, acc.ok, MatchedInv(s, n - 1, acc),
         NEW i \in Ranked(s.lines[n], acc.table, acc.remaining),
         Owners(acc.table, Identity(s.lines[n])) \subseteq {i}
  PROVE  Takes(s, n, acc, TakeCandidate(acc, s, s.lines[n], i), i)
<1> DEFINE line == s.lines[n]
           row == Settled(Dated(acc.table[i], line), s.ref)
           table == Put(acc.table, i, row)
           left == acc.remaining \ {i}
           next == Matched(table, left)
<1>1. line \in Source /\ s.ref \in Reference BY Lines DEF Source
<1>2. i \in acc.remaining BY DEF Ranked
<1>3. i \in RowId /\ i \in DOMAIN acc.table /\ acc.table[i] \in Row BY <1>2, Remaining
<1>4. /\ row \in Row /\ row.identity = Identity(line) /\ row.at = line.at
      /\ row.amount = acc.table[i].amount /\ row.type = acc.table[i].type
      /\ row.reconciled = "RECONCILED" /\ row.ref = s.ref
  BY <1>1, <1>3, RowSteps
<1>5. Counted(row) = Counted(line) BY <1>4 DEF Counted, Ranked
<1>6. Identity(line).salt = <<>> BY <1>1, SourceFacts, Keys
<1>7. acc.table \in Table /\ acc.remaining \subseteq RowId BY DEF Progress
<1>8. TakeCandidate(acc, s, line, i) = next BY DEF TakeCandidate
<1> HIDE DEF row
<1>9. /\ table \in Table /\ DOMAIN table = DOMAIN acc.table /\ table[i] = row
      /\ \A j \in DOMAIN acc.table \ {i} : table[j] = acc.table[j]
  <2>1. acc.table \in Table /\ i \in RowId /\ row \in Row BY <1>3, <1>4, <1>7
  <2>2. DOMAIN table = DOMAIN acc.table BY <1>3 DEF Put
  <2> QED BY <2>1, <2>2, NewTable
<1> HIDE DEF table
<1>10. left \subseteq RowId BY <1>7
<1> HIDE DEF left
<1>11. next \in Progress /\ next.ok /\ next.table = table /\ next.remaining = left
  BY <1>7, <1>9, <1>10, NextProgress
<1> HIDE DEF next
<1>12. IdentityInv(i, row) BY <1>4, <1>6 DEF IdentityInv
<1>13. Takes(s, n, acc, next, i)
  BY <1>2, <1>3, <1>4, <1>5, <1>9, <1>11, <1>12 DEF Takes, left
<1> QED BY <1>8, <1>13

\* A candidate that no score found but that has the identity of the line.
LEMMA TwinTaken ==
  ASSUME RecInv, NEW s \in Statement, NEW n \in 1..Len(s.lines), NEW acc,
         acc \in Progress, acc.ok, MatchedInv(s, n - 1, acc),
         NEW i \in Owners(acc.table, Identity(s.lines[n])) \cap acc.remaining
  PROVE  Takes(s, n, acc, Matched(Claim(acc.table, i, s.ref), acc.remaining \ {i}), i)
<1> DEFINE line == s.lines[n]
           row == Settled(acc.table[i], s.ref)
           table == Put(acc.table, i, row)
           left == acc.remaining \ {i}
           next == Matched(table, left)
<1>1. line \in Source /\ s.ref \in Reference BY Lines DEF Source
<1>2. /\ i \in RowId /\ i \in DOMAIN acc.table /\ acc.table[i] \in Row
      /\ acc.table[i].reconciled # "RECONCILED" /\ IdentityInv(i, acc.table[i])
  BY Remaining
<1>3. acc.table[i].identity = Identity(line) BY DEF Owners
<1>4. Identity(line).salt = <<>> BY <1>1, SourceFacts, Keys
<1>5. Identity(line) = Identity(acc.table[i]) BY <1>2, <1>3, <1>4 DEF IdentityInv
<1>6. /\ acc.table[i].at = line.at /\ acc.table[i].amount = line.amount
      /\ acc.table[i].type = line.type
  BY <1>5 DEF Identity
<1>7. /\ row \in Row /\ row.identity = Identity(line) /\ row.at = line.at
      /\ row.amount = line.amount /\ row.type = line.type
      /\ row.reconciled = "RECONCILED" /\ row.ref = s.ref
  BY <1>1, <1>2, <1>3, <1>6, RowSteps
<1>8. acc.table \in Table /\ acc.remaining \subseteq RowId BY DEF Progress
<1>9. Claim(acc.table, i, s.ref) = table BY DEF Claim
<1> HIDE DEF row
<1>10. /\ table \in Table /\ DOMAIN table = DOMAIN acc.table /\ table[i] = row
       /\ \A j \in DOMAIN acc.table \ {i} : table[j] = acc.table[j]
  <2>1. acc.table \in Table /\ i \in RowId /\ row \in Row BY <1>2, <1>7, <1>8
  <2>2. DOMAIN table = DOMAIN acc.table BY <1>2 DEF Put
  <2> QED BY <2>1, <2>2, NewTable
<1> HIDE DEF table
<1>11. next = Matched(Claim(acc.table, i, s.ref), acc.remaining \ {i}) BY <1>9 DEF table
<1>l. left \subseteq RowId BY <1>8
<1> HIDE DEF left
<1>12. next \in Progress /\ next.ok /\ next.table = table /\ next.remaining = left
  BY <1>8, <1>10, <1>l, NextProgress
<1> HIDE DEF next
<1>13. IdentityInv(i, row) /\ Counted(row) = Counted(line)
  BY <1>4, <1>7 DEF IdentityInv, Counted
<1>14. Owners(acc.table, Identity(line)) \subseteq {i}
  <2>1. TableInv(acc.table) BY DEF MatchedInv
  <2>2. \A j \in DOMAIN acc.table : acc.table[j].identity = acc.table[i].identity => j = i
    BY <1>2, <2>1 DEF TableInv
  <2> QED BY <1>3, <2>2 DEF Owners
<1>15. i \in acc.remaining OBVIOUS
<1>16. Takes(s, n, acc, next, i)
  BY <1>2, <1>4, <1>7, <1>10, <1>12, <1>13, <1>14, <1>15 DEF Takes, left
<1> QED BY <1>11, <1>16

\* A line that stands for no notification becomes a row of its own.
LEMMA LineInserted ==
  ASSUME RecInv, NEW s \in Statement, IsNew(s), NEW n \in 1..Len(s.lines), NEW acc,
         acc \in Progress, acc.ok, MatchedInv(s, n - 1, acc)
  PROVE  Takes(s, n, acc, InsertLine(acc, s, s.lines[n], IdOf(s, n)), IdOf(s, n))
<1> DEFINE line == s.lines[n]
           id == IdOf(s, n)
           key == IF Owners(acc.table, Identity(line)) = {} THEN Identity(line)
                                                            ELSE Salted(line, id)
           row == FromLine(line, s.ref, key)
           table == Put(acc.table, id, row)
           next == Matched(table, acc.remaining)
<1>1. line \in Source /\ s.ref \in Reference BY Lines DEF Source
<1>2. id \in RowId /\ id \notin DOMAIN acc.table BY FreshId
<1>3. /\ Identity(line) \in Key /\ Identity(line).salt = <<>>
      /\ Salted(line, id) \in Key /\ Salted(line, id).salt = id
  BY <1>1, <1>2, SourceFacts, Keys
<1>4. key \in Key /\ key.salt \in {<<>>, id} /\ (key.salt = <<>> => key = Identity(line))
  BY <1>2, <1>3, LegacyIds
<1>5. Owners(acc.table, key) \subseteq {id}
  <2>1. CASE Owners(acc.table, Identity(line)) = {} BY <2>1
  <2>2. CASE Owners(acc.table, Identity(line)) # {}
    <3> SUFFICES ASSUME NEW j \in Owners(acc.table, Salted(line, id)) PROVE FALSE
      BY <2>2
    <3>1. j \in DOMAIN acc.table /\ acc.table[j].identity.salt = id BY <1>3 DEF Owners
    <3>2. TableInv(acc.table) BY DEF MatchedInv
    <3>3. j \in RowId /\ IdentityInv(j, acc.table[j]) BY <3>1, <3>2, Tables DEF TableInv
    <3>4. id \in {<<>>, j, Legacy(j)} BY <3>1, <3>3 DEF IdentityInv
    <3> QED BY <1>2, <3>1, <3>3, <3>4, LegacyIds
  <2> QED BY <2>1, <2>2
<1> HIDE DEF key
<1>i. id = IdOf(s, n) OBVIOUS
<1>6. /\ row \in Row /\ row.identity = key /\ row.reconciled = "RECONCILED" /\ row.ref = s.ref
      /\ Counted(row) = Counted(line)
  BY <1>1, <1>4, NewRows
<1>7. acc.table \in Table /\ acc.remaining \subseteq RowId BY DEF Progress
<1>8. InsertLine(acc, s, line, id) = next BY DEF InsertLine, key
<1>12. id \notin acc.remaining BY <1>2, Remaining
<1> HIDE DEF row, id
<1>9. /\ table \in Table /\ DOMAIN table = DOMAIN acc.table \cup {id} /\ table[id] = row
      /\ \A j \in DOMAIN acc.table \ {id} : table[j] = acc.table[j]
  <2>1. acc.table \in Table /\ id \in RowId /\ row \in Row BY <1>2, <1>6, <1>7
  <2>2. DOMAIN table = DOMAIN acc.table \cup {id} BY DEF Put
  <2> QED BY <2>1, <2>2, NewTable
<1> HIDE DEF table
<1>10. /\ next \in Progress /\ next.ok /\ next.table = table
       /\ next.remaining = acc.remaining
  BY <1>7, <1>9, NextProgress
<1> HIDE DEF next
<1>11. IdentityInv(id, row) BY <1>4, <1>6 DEF IdentityInv
<1>13. next.remaining = acc.remaining \ {id} BY <1>10, <1>12
<1>14. Takes(s, n, acc, next, id)
  BY <1>2, <1>4, <1>5, <1>6, <1>9, <1>10, <1>11, <1>13, <1>i DEF Takes
<1> QED BY <1>8, <1>14, <1>i

\* The next line is refused, or takes a row.
LEMMA LineMatched ==
  ASSUME RecInv, NEW s \in Statement, IsNew(s), NEW n \in 1..Len(s.lines), NEW acc,
         acc \in Progress, acc.ok, MatchedInv(s, n - 1, acc)
  PROVE  LET next == MatchLine(acc, s, s.lines[n]) IN
         next \in Progress /\ (next.ok => \E i : Takes(s, n, acc, next, i))
<1> DEFINE line == s.lines[n]
           next == MatchLine(acc, s, line)
           id == IdOf(s, n)
           ranked == Ranked(line, acc.table, acc.remaining)
           twin == Owners(acc.table, Identity(line)) \cap acc.remaining
<1>1. id = <<s.ref, line.id>> /\ id \notin DOMAIN acc.table BY FreshId DEF IdOf
<1>2. CASE Cardinality(ranked) = 1
  <2> DEFINE i == Only(ranked)
  <2>1. ranked # {}
    <3>1. ranked = {} => Cardinality(ranked) = 0
      <4> HIDE DEF ranked
      <4> QED BY FS_EmptySet, Zenon
    <3> QED BY <1>2, <3>1
  <2>2. i \in ranked BY <2>1 DEF Only
  <2>3. next = TakeCandidate(acc, s, line, i) BY <1>2, <2>1 DEF MatchLine
  <2> HIDE DEF i
  <2>4. CASE Owners(acc.table, Identity(line)) \subseteq {i}
    <3>1. Takes(s, n, acc, next, i) BY <2>2, <2>3, <2>4, CandidateTaken
    <3>2. next \in Progress BY <3>1 DEF Takes
    <3> QED BY <3>1, <3>2
  <2>5. CASE ~(Owners(acc.table, Identity(line)) \subseteq {i})
    <3>1. next = [acc EXCEPT !.ok = FALSE] BY <2>3, <2>5 DEF TakeCandidate
    <3>2. next \in Progress /\ ~next.ok BY <3>1 DEF Progress
    <3> QED BY <3>2
  <2> QED BY <2>4, <2>5
<1>3. CASE Cardinality(ranked) # 1 /\ ranked = {} /\ twin # {}
  <2> DEFINE i == Only(twin)
  <2>1. i \in twin BY <1>3 DEF Only
  <2>2. twin = {i}
    <3>1. TableInv(acc.table) BY DEF MatchedInv
    <3>2. \A j \in twin : /\ j \in DOMAIN acc.table
                         /\ acc.table[j].identity = Identity(line)
      BY DEF Owners
    <3>3. \A j \in twin : j = i BY <2>1, <3>1, <3>2 DEF TableInv
    <3> QED BY <2>1, <3>3
  <2>3. next = Matched(Claim(acc.table, i, s.ref), acc.remaining \ twin)
    BY <1>1, <1>3 DEF MatchLine
  <2> HIDE DEF i
  <2>4. Takes(s, n, acc, next, i) BY <2>1, <2>2, <2>3, TwinTaken
  <2>5. next \in Progress BY <2>4 DEF Takes
  <2> QED BY <2>4, <2>5
<1>4. CASE Cardinality(ranked) # 1 /\ ~(ranked = {} /\ twin # {})
  <2>1. next = InsertLine(acc, s, line, id) BY <1>1, <1>4 DEF MatchLine
  <2>2. Takes(s, n, acc, next, id) BY <2>1, LineInserted
  <2>3. next \in Progress BY <2>2 DEF Takes
  <2> QED BY <2>2, <2>3
<1> QED BY <1>2, <1>3, <1>4

\* A line is refused only if another line or a row beyond its reach has its identity.
LEMMA LineAccepted ==
  ASSUME RecInv, NEW s \in Statement, IsNew(s), NEW n \in 1..Len(s.lines), NEW acc,
         acc \in Progress, acc.ok, MatchedInv(s, n - 1, acc), ~HasTwins(s),
         Owners(rows, Identity(s.lines[n])) \subseteq StatementCandidates(s)
  PROVE  MatchLine(acc, s, s.lines[n]).ok
<1> DEFINE line == s.lines[n]
           next == MatchLine(acc, s, line)
           id == IdOf(s, n)
           ranked == Ranked(line, acc.table, acc.remaining)
           twin == Owners(acc.table, Identity(line)) \cap acc.remaining
<1>1. id = <<s.ref, line.id>> /\ id \notin DOMAIN acc.table BY FreshId DEF IdOf
<1>2. CASE Cardinality(ranked) = 1
  <2> DEFINE i == Only(ranked)
  <2>1. ranked # {}
    <3>1. ranked = {} => Cardinality(ranked) = 0
      <4> HIDE DEF ranked
      <4> QED BY FS_EmptySet, Zenon
    <3> QED BY <1>2, <3>1
  <2>2. i \in ranked BY <2>1 DEF Only
  <2>3. next = TakeCandidate(acc, s, line, i) BY <1>2, <2>1 DEF MatchLine
  <2>4. ranked = {i}
    <3>1. ranked \subseteq DOMAIN rows BY CandidateFacts DEF MatchedInv, Ranked
    <3>2. IsFiniteSet(DOMAIN rows) BY DEF RecInv, TableInv
    <3>3. IsFiniteSet(ranked) BY <3>1, <3>2, FS_Subset
    <3>4. \E x : ranked = {x} BY <1>2, <3>3, FS_Singleton
    <3> QED BY <2>2, <3>4
  <2> HIDE DEF i
  <2>5. ASSUME NEW j \in Owners(acc.table, Identity(line)) PROVE j = i
    <3>1. line \in Source /\ Identity(line).salt = <<>>
      <4>1. line \in Source BY Lines DEF Source
      <4> QED BY <4>1, SourceFacts, Keys
    <3>2. j \in DOMAIN acc.table /\ acc.table[j].identity = Identity(line) BY DEF Owners
    <3>3. CASE j \in Taken(s, acc)
      <4>1. TakenRow(s, n - 1, acc.table[j]) BY <3>3 DEF MatchedInv
      <4>2. PICK k \in 1..(n - 1) : Identity(s.lines[k]) = Identity(line)
        BY <3>1, <3>2, <4>1 DEF TakenRow
      <4>3. k \in DOMAIN s.lines /\ n \in DOMAIN s.lines /\ k # n BY Lines
      <4> QED BY <4>2, <4>3 DEF HasTwins
    <3>4. CASE j \notin Taken(s, acc)
      <4>1. j \in DOMAIN rows /\ acc.table[j] = rows[j] BY <3>2, <3>4 DEF MatchedInv, Taken
      <4>2. j \in StatementCandidates(s) BY <3>2, <4>1 DEF Owners
      <4>3. j \in acc.remaining BY <3>4, <4>2 DEF Taken
      <4>4. Identity(acc.table[j]) = Identity(line)
        BY <3>1, <3>2, <4>3, Remaining DEF IdentityInv
      <4>5. /\ acc.table[j].at = line.at /\ acc.table[j].amount = line.amount
            /\ acc.table[j].type = line.type /\ acc.table[j].merchant = line.merchant
        BY <4>4 DEF Identity
      <4>6. NoMerchant # line.merchant BY <2>2 DEF Ranked, MerchantsMatch
      <4>7. DayGap(line.at, line.at) <= 3
        <5>1. line.at \in Nat BY Lines
        <5> QED BY <5>1 DEF DayGap
      <4>8. MerchantsMatch(line.merchant, line.merchant) BY <4>6 DEF MerchantsMatch
      <4>9. j \in ranked BY <4>3, <4>5, <4>7, <4>8 DEF Ranked
      <4> QED BY <2>4, <4>9
    <3> QED BY <3>3, <3>4
  <2>6. next = Matched(Put(acc.table, i, Settled(Dated(acc.table[i], line), s.ref)),
                       acc.remaining \ {i})
    BY <2>3, <2>5 DEF TakeCandidate
  <2> QED BY <2>6 DEF Matched
<1>3. CASE Cardinality(ranked) # 1 /\ ranked = {} /\ twin # {}
  <2>1. next = Matched(Claim(acc.table, Only(twin), s.ref), acc.remaining \ twin)
    BY <1>1, <1>3 DEF MatchLine
  <2> QED BY <2>1 DEF Matched
<1>4. CASE Cardinality(ranked) # 1 /\ ~(ranked = {} /\ twin # {})
  <2>1. next = InsertLine(acc, s, line, id) BY <1>1, <1>4 DEF MatchLine
  <2> QED BY <2>1 DEF InsertLine, Matched
<1> QED BY <1>2, <1>3, <1>4

-----------------------------------------------------------------------------
(* All lines.                                                               *)

\* A set of numbers has a least one.
LEMMA LeastNumber ==
  ASSUME NEW S, S \subseteq Nat, S # {}
  PROVE  \E n \in S : \A m \in S : n <= m
<1> DEFINE R == OpToRel(<, Nat)
<1>1. IsWellFoundedOn(R, Nat) BY NatLessThanWellFounded
<1>2. \A x, y \in Nat : y < x => <<y, x>> \in R BY DEF OpToRel
<1> HIDE DEF R
<1>3. PICK n \in S : \A y \in S : ~(<<y, n>> \in R) BY <1>1, WFMin
<1>4. \A y \in S : ~(y < n) BY <1>2, <1>3
<1>5. \A y \in S : n <= y BY <1>4
<1> QED BY <1>5

\* What the matching is when the first k lines have been looked at.
Stages(s, g) ==
  /\ g[0] = Matched(rows, StatementCandidates(s))
  /\ \A k \in 1..Len(s.lines) : g[k] = MatchLine(g[k - 1], s, s.lines[k])
  /\ g[Len(s.lines)] = Matching(s)

LEMMA MatchingHasStages ==
  ASSUME NEW s \in Statement
  PROVE  \E g : Stages(s, g)
<1> DEFINE N == Len(s.lines)
           base == Matched(rows, StatementCandidates(s))
           Next(before, k) == MatchLine(before, s, s.lines[k])
           Body(f, n) == [k \in 0..n |-> IF k = 0 THEN base ELSE Next(f[k - 1], k)]
           after == CHOOSE f : f = Body(f, N)
<1>1. N \in Nat BY Lines
<1>2. Matching(s) = after[N] BY DEF Matching
<1> HIDE DEF N, base, Next
<1>3. \A n \in Nat : \E f : f = Body(f, n)
  <2> DEFINE D == {n \in Nat : ~\E f : f = Body(f, n)}
  <2> SUFFICES ASSUME D # {} PROVE FALSE OBVIOUS
  <2>1. PICK n \in D : \A m \in D : n <= m
    <3>1. D \subseteq Nat OBVIOUS
    <3> HIDE DEF D
    <3> QED BY <3>1, LeastNumber
  <2>2. n \in Nat /\ ~\E f : f = Body(f, n) OBVIOUS
  <2>3. CASE n = 0
    <3> DEFINE g == [k \in 0..0 |-> base]
    <3>1. g = Body(g, 0) OBVIOUS
    <3> QED BY <2>2, <2>3, <3>1
  <2>4. CASE n # 0
    <3>1. n - 1 \in Nat /\ ~(n <= n - 1) BY <2>2, <2>4
    <3>2. n - 1 \notin D
      <4> HIDE DEF D
      <4> QED BY <2>1, <3>1
    <3>3. PICK f : f = Body(f, n - 1) BY <3>1, <3>2
    <3> DEFINE g == [k \in 0..n |-> IF k < n THEN f[k] ELSE Next(f[n - 1], n)]
    <3>4. \A k \in 0..(n - 1) : f[k] = IF k = 0 THEN base ELSE Next(f[k - 1], k) BY <3>3
    <3>5. \A k \in 0..n : g[k] = IF k = 0 THEN base ELSE Next(g[k - 1], k)
      <4> SUFFICES ASSUME NEW k \in 0..n
                   PROVE  g[k] = IF k = 0 THEN base ELSE Next(g[k - 1], k)
        OBVIOUS
      <4>1. CASE k = 0 BY <2>2, <2>4, <3>4, <4>1
      <4>2. CASE k # 0 /\ k < n
        <5>1. k \in 0..(n - 1) /\ k - 1 \in 0..n /\ k - 1 < n BY <2>2, <4>2
        <5>2. g[k] = f[k] /\ g[k - 1] = f[k - 1] BY <4>2, <5>1
        <5> HIDE DEF g
        <5> QED BY <3>4, <4>2, <5>1, <5>2
      <4>3. CASE k = n
        <5>1. n - 1 \in 0..n /\ n - 1 < n /\ n \in 0..n /\ ~(n < n) BY <2>2, <2>4
        <5>2. g[n] = Next(f[n - 1], n) /\ g[n - 1] = f[n - 1] BY <5>1
        <5> HIDE DEF g
        <5> QED BY <2>4, <4>3, <5>2
      <4> QED BY <2>2, <4>1, <4>2, <4>3
    <3>6. g = [k \in 0..n |-> g[k]] OBVIOUS
    <3> HIDE DEF g
    <3>7. g = Body(g, n) BY <3>5, <3>6
    <3> QED BY <2>2, <3>7
  <2> QED BY <2>3, <2>4
<1>4. after = Body(after, N) BY <1>1, <1>3
<1> HIDE DEF after
<1>5. \A k \in 0..N : after[k] = IF k = 0 THEN base ELSE Next(after[k - 1], k) BY <1>4
<1>6. after[0] = base /\ \A k \in 1..N : after[k] = Next(after[k - 1], k) BY <1>1, <1>5
<1> QED BY <1>2, <1>6 DEF Stages, N, base, Next

\* Nothing can make the index refuse such a statement.
Easy(s) ==
  ~HasTwins(s) /\ \A k \in 1..Len(s.lines) :
                    Owners(rows, Identity(s.lines[k])) \subseteq StatementCandidates(s)

LEMMA FirstStage ==
  ASSUME RecInv, NEW s \in Statement
  PROVE  LET acc == Matched(rows, StatementCandidates(s)) IN
         acc \in Progress /\ acc.ok /\ MatchedInv(s, 0, acc)
<1> DEFINE acc == Matched(rows, StatementCandidates(s))
<1>1. rows \in Table /\ TableInv(rows) BY DEF RecInv, TableInv
<1>2. StatementCandidates(s) \subseteq RowId BY <1>1, CandidateFacts, Tables
<1>3. acc \in Progress /\ acc.ok /\ acc.table = rows /\ acc.remaining = StatementCandidates(s)
  BY <1>1, <1>2, NextProgress
<1> HIDE DEF acc
<1>4. Taken(s, acc) = {} BY <1>3 DEF Taken
<1>5. Paired(s.lines, 0, acc.table, {})
  <2> DEFINE f == [k \in 1..0 |-> 0]
  <2>1. f \in [1..0 -> {}] /\ ~\E k \in 1..0 : TRUE OBVIOUS
  <2>2. Pairing(f, s.lines, 0, acc.table, {}) BY <2>1 DEF Pairing
  <2> QED BY <2>2 DEF Paired
<1>6. MatchedInv(s, 0, acc) BY <1>1, <1>3, <1>4, <1>5 DEF MatchedInv
<1> QED BY <1>3, <1>6 DEF acc

LEMMA MatchingDone ==
  ASSUME RecInv, NEW s \in Statement, IsNew(s)
  PROVE  /\ Matching(s) \in Progress
         /\ Matching(s).ok => MatchedInv(s, Len(s.lines), Matching(s))
         /\ Easy(s) => Matching(s).ok
<1> DEFINE N == Len(s.lines)
<1>1. PICK g : Stages(s, g) BY MatchingHasStages
<1> DEFINE Good(k) == /\ g[k] \in Progress /\ (g[k].ok => MatchedInv(s, k, g[k]))
                      /\ Easy(s) => g[k].ok
           D == {k \in 0..N : ~Good(k)}
<1>2. N \in Nat BY Lines
<1>3. Good(0)
  <2>1. g[0] = Matched(rows, StatementCandidates(s)) BY <1>1 DEF Stages
  <2> QED BY <2>1, FirstStage
<1>4. ASSUME NEW k \in 1..N, Good(k - 1) PROVE Good(k)
  <2>1. g[k] = MatchLine(g[k - 1], s, s.lines[k]) BY <1>1 DEF Stages
  <2>2. CASE g[k - 1].ok
    <3>1. g[k - 1] \in Progress /\ MatchedInv(s, k - 1, g[k - 1]) BY <1>4, <2>2
    <3>2. g[k] \in Progress /\ (g[k].ok => \E i : Takes(s, k, g[k - 1], g[k], i))
      BY <2>1, <2>2, <3>1, LineMatched
    <3>3. g[k].ok => MatchedInv(s, k, g[k]) BY <3>1, <3>2, TakingKeeps
    <3>4. Easy(s) => g[k].ok BY <2>1, <2>2, <3>1, LineAccepted DEF Easy
    <3> QED BY <3>2, <3>3, <3>4
  <2>3. CASE ~g[k - 1].ok
    <3>1. g[k] = g[k - 1] BY <2>1, <2>3 DEF MatchLine
    <3> QED BY <1>4, <2>3, <3>1
  <2> QED BY <2>2, <2>3
<1>5. Good(N)
  <2> SUFFICES ASSUME D # {} PROVE FALSE
    <3>1. N \in 0..N BY <1>2
    <3> QED BY <3>1
  <2>1. D \subseteq Nat /\ D \subseteq 0..N BY <1>2
  <2>2. \A k \in 0..N : k \in D \/ Good(k) OBVIOUS
  <2>3. \A k \in D : ~Good(k) OBVIOUS
  <2> HIDE DEF D
  <2>4. PICK n \in D : \A m \in D : n <= m BY <2>1, LeastNumber
  <2> HIDE DEF Good
  <2>5. n \in 1..N /\ n - 1 \in 0..N /\ ~(n <= n - 1)
    <3>1. n # 0 BY <1>3, <2>3
    <3> QED BY <1>2, <2>1, <3>1
  <2>6. Good(n - 1) BY <2>2, <2>4, <2>5
  <2> QED BY <1>4, <2>3, <2>5, <2>6
<1>6. g[N] = Matching(s) BY <1>1 DEF Stages
<1> QED BY <1>5, <1>6

-----------------------------------------------------------------------------
(* Pairs.                                                                   *)

\* Rows that keep date, amount and direction keep their line.
LEMMA PairedSame ==
  ASSUME NEW lines, NEW n, NEW table, NEW next, NEW set, Paired(lines, n, table, set),
         \A i \in set : Counted(next[i]) = Counted(table[i])
  PROVE  Paired(lines, n, next, set)
<1>1. PICK f : Pairing(f, lines, n, table, set) BY DEF Paired
<1>2. \A k \in 1..n : f[k] \in set BY <1>1 DEF Pairing
<1>3. Pairing(f, lines, n, next, set) BY <1>1, <1>2 DEF Pairing
<1> QED BY <1>3 DEF Paired

\* A statement whose rows all have the ids of its lines.
LEMMA PairedWithIds ==
  ASSUME NEW s \in Statement, NEW table,
         \A k \in 1..Len(s.lines) : Counted(table[IdOf(s, k)]) = Counted(s.lines[k])
  PROVE  Paired(s.lines, Len(s.lines), table, IdsOf(s))
<1> DEFINE N == Len(s.lines)
           f == [k \in 1..N |-> IdOf(s, k)]
<1>1. DOMAIN s.lines = 1..N /\ \A j, k \in 1..N : IdOf(s, j) = IdOf(s, k) => j = k BY Lines
<1>2. IdsOf(s) = {IdOf(s, k) : k \in 1..N} BY <1>1 DEF IdsOf
<1>3. \A k \in 1..N : f[k] = IdOf(s, k) OBVIOUS
<1>4. f \in [1..N -> IdsOf(s)] BY <1>2
<1> HIDE DEF f, N
<1>5. \A i \in IdsOf(s) : \E k \in 1..N : f[k] = i BY <1>2, <1>3
<1>6. \A j, k \in 1..N : f[j] = f[k] => j = k BY <1>1, <1>3
<1>7. \A k \in 1..N : Counted(table[f[k]]) = Counted(s.lines[k]) BY <1>3 DEF N
<1>8. Pairing(f, s.lines, N, table, IdsOf(s)) BY <1>4, <1>5, <1>6, <1>7 DEF Pairing
<1> QED BY <1>8 DEF Paired, N

\* Pairs have equal sums: as many rows as lines of each date, amount and direction.
SameCount(lines, n, table, set, c) ==
  Cardinality({i \in set : Counted(table[i]) = c})
    = Cardinality({k \in 1..n : Counted(lines[k]) = c})

LEMMA PairedCounts ==
  ASSUME NEW lines, NEW n \in Nat, NEW table, NEW set, Paired(lines, n, table, set), NEW c
  PROVE  SameCount(lines, n, table, set, c)
<1> DEFINE S == {k \in 1..n : Counted(lines[k]) = c}
           T == {i \in set : Counted(table[i]) = c}
<1>1. PICK f : Pairing(f, lines, n, table, set) BY DEF Paired
<1> DEFINE g == [k \in S |-> f[k]]
<1>2. /\ f \in [1..n -> set] /\ \A i \in set : \E k \in 1..n : f[k] = i
      /\ \A k, l \in 1..n : f[k] = f[l] => k = l
      /\ \A k \in 1..n : Counted(table[f[k]]) = Counted(lines[k])
  BY <1>1 DEF Pairing
<1>3. g \in [S -> T] BY <1>2
<1>4. \A k, l \in S : g[k] = g[l] => k = l BY <1>2
<1>5. \A i \in T : \E k \in S : g[k] = i
  <2> SUFFICES ASSUME NEW i \in T PROVE \E k \in S : g[k] = i OBVIOUS
  <2>1. PICK k \in 1..n : f[k] = i BY <1>2
  <2>2. k \in S BY <1>2, <2>1
  <2> QED BY <2>1, <2>2
<1>6. IsFiniteSet(S)
  <2>1. IsFiniteSet(1..n) BY FS_Interval
  <2> QED BY <2>1, FS_Subset
<1> HIDE DEF S, T, g
<1>7. g \in Bijection(S, T) BY <1>3, <1>4, <1>5 DEF Bijection, Injection, Surjection, IsInjective
<1>8. ExistsBijection(S, T) BY <1>7 DEF ExistsBijection
<1>9. Cardinality(T) = Cardinality(S) BY <1>6, <1>8, FS_Bijection
<1> QED BY <1>9 DEF S, T, SameCount

-----------------------------------------------------------------------------
(* The steps.                                                               *)

\* What a reconciliation leaves: the rows its lines have taken, variances, and all others as
\* they were, those of earlier statements among them.
LEMMA ReconcileDoes ==
  ASSUME RecInv, NEW s \in Statement, ReconcileNew(s), NEW m, m = Matching(s)
  PROVE  /\ m \in Progress /\ MatchedInv(s, Len(s.lines), m)
         /\ DOMAIN rows' = DOMAIN m.table
         /\ Unlisted(s, m) \subseteq StatementCandidates(s) \ Taken(s, m)
         /\ \A i \in Unlisted(s, m) :
              m.table[i] = rows[i] /\ rows'[i] = Variance(rows[i], s.ref)
         /\ Taken(s, m) \subseteq DOMAIN rows'
         /\ \A i \in Taken(s, m) : rows'[i] = m.table[i]
         /\ \A i \in DOMAIN rows' \ (Taken(s, m) \cup Unlisted(s, m)) :
              i \in DOMAIN rows /\ rows'[i] = rows[i] /\ m.table[i] = rows[i]
         /\ \A i \in DOMAIN rows : rows[i].reconciled = "RECONCILED" =>
              i \notin Taken(s, m) \cup Unlisted(s, m)
<1> DEFINE T == Taken(s, m)
           U == Unlisted(s, m)
<1>1. IsNew(s) /\ m.ok /\ rows' = Reconciled(s, m) BY DEF ReconcileNew
<1>2. m \in Progress /\ MatchedInv(s, Len(s.lines), m) BY <1>1, MatchingDone
<1>3. StatementCandidates(s) \subseteq DOMAIN rows BY CandidateFacts
<1>4. DOMAIN rows \subseteq DOMAIN m.table /\ m.remaining \subseteq StatementCandidates(s)
  BY <1>2 DEF MatchedInv
<1>5. U \subseteq m.remaining BY DEF Unlisted
<1>6. /\ U \subseteq StatementCandidates(s) \ T
      /\ T \subseteq DOMAIN m.table
      /\ \A i \in DOMAIN m.table \ T : i \in DOMAIN rows
      /\ \A i \in DOMAIN rows : rows[i].reconciled = "RECONCILED" => i \notin T \cup U
  BY <1>3, <1>4, <1>5, CandidateFacts DEF Taken
<1>7. \A i \in DOMAIN m.table \ T : m.table[i] = rows[i] BY <1>2, <1>6 DEF MatchedInv
<1>8. /\ DOMAIN rows' = DOMAIN m.table
      /\ \A i \in DOMAIN m.table : rows'[i] = IF i \in U THEN Variance(m.table[i], s.ref)
                                                         ELSE m.table[i]
  BY <1>1 DEF Reconciled
<1> HIDE DEF T, U
<1>9. \A i \in U : i \in DOMAIN m.table \ T BY <1>3, <1>4, <1>6
<1>10. \A i \in T : i \notin U BY <1>6
<1> QED BY <1>2, <1>6, <1>7, <1>8, <1>9, <1>10 DEF T, U

\* A run is kept with its rows.
LEMMA RunKept ==
  ASSUME NEW r, RunOf(r), reconciliations'[r] = reconciliations[r], Listed(r)' = Listed(r),
         \A i \in Listed(r) : /\ Counted(rows'[i]) = Counted(rows[i])
                              /\ rows'[i].source = rows[i].source
  PROVE  RunOf(r)'
<1> DEFINE s == reconciliations[r].statement
<1>1. Paired(s.lines, Len(s.lines), rows, Listed(r)) BY DEF RunOf
<1>2. Paired(s.lines, Len(s.lines), rows', Listed(r)) BY <1>1, PairedSame
<1>3. Paired(s.lines, Len(s.lines), rows', Listed(r)') BY <1>2
<1> QED BY <1>3 DEF RunOf

\* A notification that is stored has an identity of its own.
LEMMA Ingested ==
  ASSUME RecInv, NEW n \in Notification, IngestNotification(n)
  PROVE  RecInv'
<1> DEFINE id == <<NoReference, n.id>>
           row == Event(n, "email")
<1>1. n \in Source /\ id \in RowId /\ id[1] = NoReference BY Ids DEF Source
<1>2. Identity(n) \in Key /\ Identity(n).salt = <<>> BY <1>1, SourceFacts, Keys
<1>3. /\ row \in Row /\ row.reconciled = "UNMATCHED" /\ row.identity = Identity(n)
      /\ row.source = "email" /\ row.ref = NoReference /\ Identity(row) = Identity(n)
  BY <1>1, NewEvent
<1>4. rows \in Table /\ IsFiniteSet(DOMAIN rows) /\ TableInv(rows) BY DEF RecInv, TableInv
<1>5. /\ id \notin DOMAIN rows /\ Owners(rows, row.identity) = {}
      /\ rows' = Put(rows, id, row)
      /\ reconciliations' = reconciliations /\ recCorrections' = recCorrections
  BY <1>3 DEF IngestNotification
<1> HIDE DEF id, row
<1>6. /\ rows' \in Table /\ DOMAIN rows' = DOMAIN rows \cup {id} /\ rows'[id] = row
      /\ \A j \in DOMAIN rows : rows'[j] = rows[j]
  <2>1. rows' \in Table BY <1>1, <1>3, <1>4, <1>5, NewTable
  <2> QED BY <1>5, <2>1 DEF Put
<1>7. IsFiniteSet(DOMAIN rows') BY <1>4, <1>6, FS_AddElement
<1>8. IdentityInv(id, row) BY <1>2, <1>3 DEF IdentityInv
<1>9. TableInv(rows')
  <2>1. \A j \in DOMAIN rows : rows[j].identity # row.identity BY <1>5 DEF Owners
  <2> QED BY <1>3, <1>4, <1>6, <1>7, <1>8, <2>1 DEF TableInv
<1>10. ASSUME NEW r \in DOMAIN reconciliations PROVE RunOf(r)'
  <2>1. Listed(r)' = Listed(r) BY <1>3, <1>6 DEF Listed
  <2>2. \A i \in Listed(r) : rows'[i] = rows[i] BY <1>6 DEF Listed
  <2> QED BY <1>5, <2>1, <2>2, RunKept DEF RecInv, RunInv
<1>11. RunInv' BY <1>1, <1>3, <1>5, <1>6, <1>10 DEF RecInv, RunInv
<1> QED BY <1>5, <1>9, <1>11 DEF RecInv

\* A reconciliation pairs its lines with the rows they take, and keeps every earlier pair.
LEMMA ReconciledNew ==
  ASSUME RecInv, NEW s \in Statement, ReconcileNew(s)
  PROVE  RecInv'
<1> PICK m : m = Matching(s) OBVIOUS
<1> DEFINE T == Taken(s, m)
           U == Unlisted(s, m)
<1>1. /\ m \in Progress /\ MatchedInv(s, Len(s.lines), m) /\ DOMAIN rows' = DOMAIN m.table
      /\ U \subseteq StatementCandidates(s) \ T
      /\ \A i \in U : m.table[i] = rows[i] /\ rows'[i] = Variance(rows[i], s.ref)
      /\ T \subseteq DOMAIN rows' /\ \A i \in T : rows'[i] = m.table[i]
      /\ \A i \in DOMAIN rows' \ (T \cup U) :
           i \in DOMAIN rows /\ rows'[i] = rows[i] /\ m.table[i] = rows[i]
      /\ \A i \in DOMAIN rows : rows[i].reconciled = "RECONCILED" => i \notin T \cup U
  BY ReconcileDoes
<1>2. IsNew(s) /\ recCorrections' = recCorrections /\ rows' = Reconciled(s, m)
      /\ reconciliations' = Put(reconciliations, s.ref, Run(s, TRUE, m))
  BY DEF ReconcileNew
<1> HIDE DEF T, U
<1>3. TableInv(m.table) /\ (\A i \in T : TakenRow(s, Len(s.lines), m.table[i]))
      /\ Paired(s.lines, Len(s.lines), m.table, T)
  BY <1>1 DEF MatchedInv, T
<1>4. DOMAIN m.table \subseteq RowId /\ (\A i \in DOMAIN m.table : m.table[i] \in Row)
  BY <1>3, Tables DEF TableInv
<1>5. StatementCandidates(s) \subseteq DOMAIN rows /\ s.ref \in Reference /\ s.ref # NoReference
  BY CandidateFacts, Lines
<1>6. DOMAIN rows \subseteq DOMAIN m.table BY <1>1 DEF MatchedInv
<1>7. ASSUME NEW i \in U
      PROVE  /\ rows'[i] \in Row /\ rows'[i].reconciled = "VARIANCE" /\ rows'[i].ref = s.ref
             /\ rows'[i].identity = m.table[i].identity /\ Identity(rows'[i]) = Identity(rows[i])
             /\ rows'[i].source # "statement" /\ rows[i].reconciled # "RECONCILED"
             /\ i \in DOMAIN rows
  <2>1. /\ i \in DOMAIN rows /\ i \in StatementCandidates(s)
        /\ m.table[i] = rows[i] /\ rows'[i] = Variance(rows[i], s.ref)
    BY <1>1, <1>5
  <2>2. rows[i] \in Row BY <1>4, <1>6, <2>1
  <2>3. rows[i].reconciled # "RECONCILED" /\ rows[i].source # "statement"
    BY <2>1, CandidateFacts
  <2> QED BY <1>5, <2>1, <2>2, <2>3, VarianceRow
<1>8. \A i \in DOMAIN rows' \ U : rows'[i] = m.table[i] BY <1>1
<1>9. TableInv(rows')
  <2>1. rows' \in Table
    <3>1. rows' = [i \in DOMAIN rows' |-> rows'[i]] BY <1>2 DEF Reconciled
    <3>2. \A i \in DOMAIN rows' : rows'[i] \in Row BY <1>1, <1>4, <1>7, <1>8
    <3> QED BY <1>1, <1>4, <3>1, <3>2, Tables
  <2>2. IsFiniteSet(DOMAIN rows') BY <1>1, <1>3 DEF TableInv
  <2>3. \A i \in DOMAIN rows' : rows'[i].identity = m.table[i].identity BY <1>7, <1>8
  <2>4. ASSUME NEW i \in DOMAIN rows'
        PROVE  /\ IdentityInv(i, rows'[i])
               /\ rows'[i].source = "statement" => rows'[i].reconciled = "RECONCILED"
    <3>1. CASE i \in U
      <4>1. IdentityInv(i, m.table[i]) BY <1>1, <1>3 DEF TableInv
      <4>2. m.table[i] = rows[i] BY <1>1, <3>1
      <4> QED BY <1>7, <3>1, <4>1, <4>2 DEF IdentityInv
    <3>2. CASE i \notin U BY <1>1, <1>3, <1>8, <3>2 DEF TableInv
    <3> QED BY <3>1, <3>2
  <2>5. \A i, j \in DOMAIN rows' : rows'[i].identity = rows'[j].identity => i = j
    BY <1>1, <1>3, <2>3 DEF TableInv
  <2> QED BY <2>1, <2>2, <2>4, <2>5 DEF TableInv
<1>10. \A i \in T : rows'[i].reconciled = "RECONCILED" /\ rows'[i].ref = s.ref
  BY <1>1, <1>3 DEF TakenRow
<1>11. DOMAIN reconciliations' = DOMAIN reconciliations \cup {s.ref} BY <1>2 DEF Put
<1>12. RunOf(s.ref)'
  <2>1. reconciliations'[s.ref] = Run(s, TRUE, m) BY <1>2 DEF Put
  <2>2. reconciliations'[s.ref].statement = s /\ reconciliations'[s.ref].bound
    BY <2>1 DEF Run
  <2>3. \A i \in DOMAIN rows : rows[i].ref # s.ref
    BY <1>2, <1>5 DEF IsNew, RecInv, RunInv
  <2>4. Listed(s.ref)' = T
    <3>1. \A i \in DOMAIN rows' : i \in T <=> rows'[i].ref = s.ref /\ rows'[i].reconciled = "RECONCILED"
      BY <1>1, <1>7, <1>10, <2>3
    <3> QED BY <1>1, <3>1 DEF Listed
  <2>5. Paired(s.lines, Len(s.lines), rows', T)
    <3>1. \A i \in T : Counted(rows'[i]) = Counted(m.table[i]) BY <1>1
    <3> QED BY <1>3, <3>1, PairedSame
  <2> QED BY <2>2, <2>4, <2>5 DEF RunOf
<1>13. ASSUME NEW r \in DOMAIN reconciliations PROVE RunOf(r)'
  <2>1. r # s.ref /\ RunOf(r) BY <1>2 DEF IsNew, RecInv, RunInv
  <2>2. reconciliations'[r] = reconciliations[r] BY <1>2, <2>1 DEF Put
  <2>3. \A i \in Listed(r) : i \in DOMAIN rows' /\ rows'[i] = rows[i]
    BY <1>1, <1>6 DEF Listed
  <2>4. \A i \in Listed(r)' : i \in DOMAIN rows /\ rows'[i] = rows[i]
    <3>1. ASSUME NEW i \in Listed(r)' PROVE i \in DOMAIN rows /\ rows'[i] = rows[i]
      <4>1. i \in DOMAIN rows' /\ rows'[i].ref = r /\ rows'[i].reconciled = "RECONCILED"
        BY DEF Listed
      <4>2. i \notin T /\ i \notin U BY <1>7, <1>10, <2>1, <4>1
      <4> QED BY <1>1, <4>1, <4>2
    <3> QED BY <3>1
  <2>5. Listed(r)' = Listed(r) BY <2>3, <2>4 DEF Listed
  <2> QED BY <2>1, <2>2, <2>3, <2>5, RunKept
<1>14. ASSUME NEW i \in DOMAIN rows'
       PROVE  {i[1], rows'[i].ref} \subseteq DOMAIN reconciliations' \cup {NoReference}
  <2>1. i \in DOMAIN rows => {i[1], rows[i].ref} \subseteq DOMAIN reconciliations \cup {NoReference}
    BY DEF RecInv, RunInv
  <2>2. CASE i \in DOMAIN rows BY <1>1, <1>7, <1>10, <1>11, <2>1, <2>2
  <2>3. CASE i \notin DOMAIN rows
    <3>1. i \in T BY <1>1, <1>7, <2>3
    <3>2. PICK j \in 1..Len(s.lines) : i = IdOf(s, j) BY <1>1, <2>3 DEF MatchedInv
    <3>3. i[1] = s.ref BY <3>2, Ids, Lines
    <3> QED BY <1>10, <1>11, <3>1, <3>3
  <2> QED BY <2>2, <2>3
<1>15. RunInv'
  <2>1. DOMAIN reconciliations' \subseteq Reference BY <1>5, <1>11 DEF RecInv, RunInv
  <2>2. \A r \in DOMAIN reconciliations' : RunOf(r)' BY <1>11, <1>12, <1>13
  <2> QED BY <1>14, <2>1, <2>2 DEF RunInv
<1> QED BY <1>2, <1>9, <1>15 DEF RecInv

\* A digest is recovered only for the statement whose lines the stored rows are.
LEMMA DigestsRecovered ==
  ASSUME RecInv, NEW s \in Statement, RecoverDigests(s)
  PROVE  RecInv'
<1>1. /\ s.ref \in DOMAIN reconciliations /\ ~reconciliations[s.ref].bound
      /\ Persisted(s.ref) = IdsOf(s)
      /\ \A k \in DOMAIN s.lines :
           rows[IdOf(s, k)] = FromLine(s.lines[k], s.ref, rows[IdOf(s, k)].identity)
      /\ reconciliations' = Put(reconciliations, s.ref,
            [statement |-> s, bound |-> TRUE, unlisted |-> reconciliations[s.ref].unlisted])
      /\ rows' = rows /\ recCorrections' = recCorrections
  BY DEF RecoverDigests, IsNew
<1>2. TableInv(rows) /\ RunOf(s.ref) BY <1>1 DEF RecInv, RunInv
<1>3. DOMAIN reconciliations' = DOMAIN reconciliations BY <1>1 DEF Put
<1>4. RunOf(s.ref)'
  <2>1. Listed(s.ref) = IdsOf(s)
    <3>1. \A i \in DOMAIN rows : rows[i].source = "statement" => rows[i].reconciled = "RECONCILED"
      BY <1>2 DEF TableInv
    <3>2. \A i \in Listed(s.ref) : rows[i].source = "statement" BY <1>1, <1>2 DEF RunOf
    <3>3. Listed(s.ref) = Persisted(s.ref) BY <3>1, <3>2 DEF Listed, Persisted
    <3> QED BY <1>1, <3>3
  <2>2. ASSUME NEW k \in 1..Len(s.lines)
        PROVE  Counted(rows[IdOf(s, k)]) = Counted(s.lines[k])
    <3>1. k \in DOMAIN s.lines /\ s.lines[k] \in Source /\ s.ref \in Reference
      BY Lines DEF Source
    <3>2. IdOf(s, k) \in DOMAIN rows BY <1>1, <3>1 DEF Persisted, IdsOf
    <3>3. rows[IdOf(s, k)] \in Row BY <1>2, <3>2, Tables DEF TableInv
    <3>4. rows[IdOf(s, k)].identity \in Key BY <3>3 DEF Row
    <3>5. rows[IdOf(s, k)] = FromLine(s.lines[k], s.ref, rows[IdOf(s, k)].identity)
      BY <1>1, <3>1
    <3>6. Counted(FromLine(s.lines[k], s.ref, rows[IdOf(s, k)].identity)) = Counted(s.lines[k])
      BY <3>1, <3>4, NewRows
    <3> QED BY <3>5, <3>6
  <2>3. Paired(s.lines, Len(s.lines), rows, Listed(s.ref)) BY <2>1, <2>2, PairedWithIds
  <2>4. reconciliations'[s.ref].statement = s /\ reconciliations'[s.ref].bound
    BY <1>1 DEF Put
  <2>5. Paired(s.lines, Len(s.lines), rows', Listed(s.ref)') BY <1>1, <2>3 DEF Listed
  <2> QED BY <2>4, <2>5 DEF RunOf
<1>5. ASSUME NEW r \in DOMAIN reconciliations, r # s.ref PROVE RunOf(r)'
  <2>1. RunOf(r) BY DEF RecInv, RunInv
  <2>2. reconciliations'[r] = reconciliations[r] BY <1>1, <1>5 DEF Put
  <2>3. Listed(r)' = Listed(r) BY <1>1 DEF Listed
  <2> QED BY <1>1, <2>1, <2>2, <2>3, RunKept
<1>6. RunInv' BY <1>1, <1>3, <1>4, <1>5 DEF RecInv, RunInv
<1> QED BY <1>1, <1>6 DEF RecInv

\* A row is replaced that no statement lists, or by one with the same facts and reference.
LEMMA RowReplaced ==
  ASSUME RecInv, NEW i \in DOMAIN rows, NEW row \in Row, IdentityInv(i, row),
         Owners(rows, row.identity) \subseteq {i},
         rows' = Put(rows, i, row), reconciliations' = reconciliations,
         row.source = rows[i].source, row.ref = rows[i].ref,
         row.reconciled = rows[i].reconciled,
         row.reconciled = "RECONCILED" => Counted(row) = Counted(rows[i])
  PROVE  TableInv(rows') /\ RunInv'
<1>1. rows \in Table /\ IsFiniteSet(DOMAIN rows) /\ TableInv(rows) BY DEF RecInv, TableInv
<1>2. i \in RowId BY <1>1, Tables
<1>3. rows' \in Table BY <1>1, <1>2, NewTable
<1>4. /\ DOMAIN rows' = DOMAIN rows /\ rows'[i] = row
      /\ \A j \in DOMAIN rows : j # i => rows'[j] = rows[j]
  BY DEF Put
<1>5. TableInv(rows')
  <2>1. \A j \in DOMAIN rows : j # i => rows[j].identity # row.identity BY DEF Owners
  <2>2. \A j, k \in DOMAIN rows' : rows'[j].identity = rows'[k].identity => j = k
    BY <1>1, <1>4, <2>1 DEF TableInv
  <2>3. \A j \in DOMAIN rows' :
          /\ IdentityInv(j, rows'[j])
          /\ rows'[j].source = "statement" => rows'[j].reconciled = "RECONCILED"
    BY <1>1, <1>4 DEF TableInv
  <2> QED BY <1>1, <1>3, <1>4, <2>2, <2>3 DEF TableInv
<1>6. ASSUME NEW r \in DOMAIN reconciliations PROVE RunOf(r)'
  <2>1. RunOf(r) BY DEF RecInv, RunInv
  <2>2. Listed(r)' = Listed(r) BY <1>4 DEF Listed
  <2>3. ASSUME NEW j \in Listed(r)
        PROVE  Counted(rows'[j]) = Counted(rows[j]) /\ rows'[j].source = rows[j].source
    <3>1. j \in DOMAIN rows /\ rows[j].reconciled = "RECONCILED" BY DEF Listed
    <3> QED BY <1>4, <3>1
  <2> QED BY <2>1, <2>2, <2>3, RunKept
<1>7. RunInv' BY <1>4, <1>6 DEF RecInv, RunInv
<1> QED BY <1>5, <1>7

LEMMA FactsCorrected ==
  ASSUME RecInv, NEW i \in DOMAIN rows, NEW n \in Notification,
         CorrectFacts(i, n.amount, n.merchant)
  PROVE  RecInv'
<1> DEFINE old == rows[i]
           row == [old EXCEPT !.amount = n.amount, !.merchant = n.merchant]
           new == [row EXCEPT !.identity = Identity(row)]
<1>1. TableInv(rows) /\ rows \in Table BY DEF RecInv, TableInv
<1>2. old \in Row BY <1>1, Tables
<1>3. n \in Source BY DEF Source
<1>4. row \in Row BY <1>2, <1>3 DEF Row
<1>5. /\ row.source = old.source /\ row.ref = old.ref /\ row.reconciled = old.reconciled
  BY <1>2 DEF Row
<1>6. /\ old.reconciled # "RECONCILED" /\ Owners(rows, Identity(row)) \subseteq {i}
      /\ rows' = [rows EXCEPT ![i] = new] /\ recCorrections < MaxRecCorrections
      /\ recCorrections' = recCorrections + 1 /\ reconciliations' = reconciliations
  BY DEF CorrectFacts
<1> HIDE DEF row, old
<1>7. Identity(row) \in Key /\ Identity(row).salt = <<>>
  <2>1. /\ row.at \in Nat /\ row.amount \in {x.amount : x \in Source}
        /\ row.type \in {x.type : x \in Source} /\ row.merchant \in {x.merchant : x \in Source}
    BY <1>4 DEF Row
  <2> QED BY <2>1, Keys
<1>8. /\ new \in Row /\ new.identity = Identity(row) /\ new.source = row.source
      /\ new.ref = row.ref /\ new.reconciled = row.reconciled
      /\ new.at = row.at /\ new.amount = row.amount /\ new.type = row.type
      /\ new.merchant = row.merchant
  BY <1>4, <1>7 DEF Row
<1> HIDE DEF new
<1>9. Identity(new) = Identity(row) BY <1>8 DEF Identity
<1>10. IdentityInv(i, new) BY <1>7, <1>8, <1>9 DEF IdentityInv
<1>11. rows' = Put(rows, i, new) BY <1>6 DEF Put
<1>12. TableInv(rows') /\ RunInv'
  BY <1>5, <1>6, <1>8, <1>10, <1>11, RowReplaced DEF old
<1>13. recCorrections' \in 0..MaxRecCorrections BY <1>6, StatementAssumption DEF RecInv
<1> QED BY <1>12, <1>13 DEF RecInv

LEMMA StatusCorrected ==
  ASSUME RecInv, NEW i \in DOMAIN rows, NEW status \in {"ACTIVE", "IGNORED"},
         CorrectStatus(i, status)
  PROVE  RecInv'
<1> DEFINE old == rows[i]
           new == [old EXCEPT !.status = status]
<1>1. TableInv(rows) /\ rows \in Table BY DEF RecInv, TableInv
<1>2. old \in Row /\ IdentityInv(i, old) BY <1>1, Tables DEF TableInv
<1>3. /\ rows' = [rows EXCEPT ![i] = new] /\ recCorrections < MaxRecCorrections
      /\ recCorrections' = recCorrections + 1 /\ reconciliations' = reconciliations
  BY DEF CorrectStatus
<1>4. Owners(rows, old.identity) \subseteq {i} BY <1>1 DEF TableInv, Owners
<1> HIDE DEF old
<1>5. /\ new \in Row /\ new.identity = old.identity /\ new.source = old.source
      /\ new.ref = old.ref /\ new.reconciled = old.reconciled
      /\ new.at = old.at /\ new.amount = old.amount /\ new.type = old.type
      /\ new.merchant = old.merchant
  BY <1>2 DEF Row
<1> HIDE DEF new
<1>6. Identity(new) = Identity(old) /\ Counted(new) = Counted(old)
  BY <1>5 DEF Identity, Counted
<1>7. IdentityInv(i, new) BY <1>2, <1>5, <1>6 DEF IdentityInv
<1>8. rows' = Put(rows, i, new) BY <1>3 DEF Put
<1>9. TableInv(rows') /\ RunInv'
  BY <1>3, <1>4, <1>5, <1>6, <1>7, <1>8, RowReplaced DEF old
<1>10. recCorrections' \in 0..MaxRecCorrections BY <1>3, StatementAssumption DEF RecInv
<1> QED BY <1>9, <1>10 DEF RecInv

\* Opened again, a row has the identity of its facts, or one salted with its own id.
LEMMA StoreReopened ==
  ASSUME RecInv, Reopen
  PROVE  RecInv'
<1> DEFINE shared == {i \in DOMAIN rows :
                        \E j \in DOMAIN rows \ {i} : Identity(rows[i]) = Identity(rows[j])}
<1>1. PICK firsts \in SUBSET shared :
        /\ \A i \in shared :
             Cardinality({j \in firsts : Identity(rows[j]) = Identity(rows[i])}) = 1
        /\ rows' = [i \in DOMAIN rows |->
                      [rows[i] EXCEPT !.identity = IF i \in shared \ firsts
                                                   THEN Reopened(rows[i], i)
                                                   ELSE Identity(rows[i])]]
  BY DEF Reopen
<1>2. reconciliations' = reconciliations /\ recCorrections' = recCorrections BY DEF Reopen
<1>3. TableInv(rows) /\ rows \in Table /\ IsFiniteSet(DOMAIN rows) BY DEF RecInv, TableInv
<1> DEFINE key(i) == IF i \in shared \ firsts THEN Reopened(rows[i], i) ELSE Identity(rows[i])
<1>4. \A i \in DOMAIN rows : rows[i] \in Row /\ i \in RowId BY <1>3, Tables
<1>5. ASSUME NEW i \in DOMAIN rows
      PROVE  /\ Identity(rows[i]) \in Key /\ Identity(rows[i]).salt = <<>>
             /\ Reopened(rows[i], i) \in Key /\ Reopened(rows[i], i).salt = Legacy(i)
  <2>1. /\ rows[i].at \in Nat /\ rows[i].amount \in {x.amount : x \in Source}
        /\ rows[i].type \in {x.type : x \in Source}
        /\ rows[i].merchant \in {x.merchant : x \in Source}
    BY <1>4 DEF Row
  <2> QED BY <1>4, <2>1, Keys
<1>6. \A i \in DOMAIN rows : key(i) \in Key BY <1>5
<1>7. DOMAIN rows' = DOMAIN rows
      /\ \A i \in DOMAIN rows : rows'[i] = [rows[i] EXCEPT !.identity = key(i)]
  BY <1>1
<1>8. ASSUME NEW i \in shared, NEW j \in shared, i \in firsts, j \in firsts,
             Identity(rows[i]) = Identity(rows[j])
      PROVE  i = j
  <2> DEFINE S == {k \in firsts : Identity(rows[k]) = Identity(rows[i])}
  <2>1. Cardinality(S) = 1 BY <1>1
  <2>2. S \subseteq DOMAIN rows OBVIOUS
  <2>3. i \in S /\ j \in S BY <1>8
  <2> HIDE DEF S
  <2>4. IsFiniteSet(S) BY <1>3, <2>2, FS_Subset
  <2>5. \E x : S = {x} BY <2>1, <2>4, FS_Singleton
  <2> QED BY <2>3, <2>5
<1>9. \A i \in DOMAIN rows, j \in DOMAIN rows :
        i # j /\ Identity(rows[i]) = Identity(rows[j]) => i \in shared /\ j \in shared
  OBVIOUS
<1> HIDE DEF shared
<1>10. ASSUME NEW i \in DOMAIN rows, NEW j \in DOMAIN rows, key(i) = key(j) PROVE i = j
  <2>1. CASE i \in shared \ firsts /\ j \in shared \ firsts
    <3>1. Legacy(i) = Legacy(j) BY <1>5, <1>10, <2>1
    <3> QED BY <1>4, <3>1, LegacyIds
  <2>2. CASE i \in shared \ firsts /\ j \notin shared \ firsts
    <3>1. Legacy(i) = <<>> BY <1>5, <1>10, <2>2
    <3> QED BY <1>4, <3>1, LegacyIds
  <2>3. CASE i \notin shared \ firsts /\ j \in shared \ firsts
    <3>1. Legacy(j) = <<>> BY <1>5, <1>10, <2>3
    <3> QED BY <1>4, <3>1, LegacyIds
  <2>4. CASE i \notin shared \ firsts /\ j \notin shared \ firsts
    <3>1. Identity(rows[i]) = Identity(rows[j]) BY <1>10, <2>4
    <3> QED BY <1>8, <1>9, <2>4, <3>1
  <2> QED BY <2>1, <2>2, <2>3, <2>4
<1>11. \A i \in DOMAIN rows :
         key(i).salt = Legacy(i) \/ (key(i).salt = <<>> /\ key(i) = Identity(rows[i]))
  BY <1>5
<1>12. rows' = [i \in DOMAIN rows' |-> rows'[i]] BY <1>1
<1> HIDE DEF key
<1>13. ASSUME NEW i \in DOMAIN rows
       PROVE  /\ rows'[i] \in Row /\ rows'[i].identity = key(i)
              /\ rows'[i].source = rows[i].source /\ rows'[i].reconciled = rows[i].reconciled
              /\ rows'[i].ref = rows[i].ref
              /\ Counted(rows'[i]) = Counted(rows[i])
              /\ Identity(rows'[i]) = Identity(rows[i])
  <2> DEFINE old == rows[i]
             new == rows'[i]
  <2>1. old \in Row /\ new = [old EXCEPT !.identity = key(i)] /\ key(i) \in Key
    BY <1>4, <1>6, <1>7
  <2> HIDE DEF old, new
  <2>2. /\ new \in Row /\ new.identity = key(i) /\ new.source = old.source
        /\ new.reconciled = old.reconciled /\ new.ref = old.ref
        /\ new.at = old.at /\ new.amount = old.amount /\ new.type = old.type
        /\ new.merchant = old.merchant
    BY <2>1 DEF Row
  <2>3. Counted(new) = Counted(old) /\ Identity(new) = Identity(old)
    BY <2>2 DEF Counted, Identity
  <2> QED BY <2>2, <2>3 DEF old, new
<1>14. TableInv(rows')
  <2>1. rows' \in Table BY <1>4, <1>7, <1>12, <1>13, Tables
  <2>2. IsFiniteSet(DOMAIN rows') BY <1>3, <1>7
  <2>3. ASSUME NEW i \in DOMAIN rows'
        PROVE  /\ IdentityInv(i, rows'[i])
               /\ rows'[i].source = "statement" => rows'[i].reconciled = "RECONCILED"
    <3>1. i \in DOMAIN rows /\ i \in RowId BY <1>4, <1>7
    <3>2. rows[i].source = "statement" => rows[i].reconciled = "RECONCILED"
      BY <1>3, <3>1 DEF TableInv
    <3>3. Legacy(i) # <<>> BY <3>1, LegacyIds
    <3>4. IdentityInv(i, rows'[i]) BY <1>11, <1>13, <3>1, <3>3 DEF IdentityInv
    <3> QED BY <1>13, <3>1, <3>2, <3>4
  <2>4. \A i, j \in DOMAIN rows' : rows'[i].identity = rows'[j].identity => i = j
    BY <1>7, <1>10, <1>13
  <2> QED BY <2>1, <2>2, <2>3, <2>4 DEF TableInv
<1>15. ASSUME NEW r \in DOMAIN reconciliations PROVE RunOf(r)'
  <2>1. RunOf(r) BY DEF RecInv, RunInv
  <2>2. Listed(r)' = Listed(r) BY <1>7, <1>13 DEF Listed
  <2>3. \A i \in Listed(r) : /\ Counted(rows'[i]) = Counted(rows[i])
                             /\ rows'[i].source = rows[i].source
    BY <1>13 DEF Listed
  <2> QED BY <1>2, <2>1, <2>2, <2>3, RunKept
<1>16. RunInv' BY <1>2, <1>7, <1>13, <1>15 DEF RecInv, RunInv
<1> QED BY <1>2, <1>14, <1>16 DEF RecInv

LEMMA RecStepInv == RecInv /\ [RecNext]_recVars => RecInv'
<1> SUFFICES ASSUME RecInv, [RecNext]_recVars PROVE RecInv' OBVIOUS
<1>1. ASSUME NEW n \in Notification, IngestNotification(n) PROVE RecInv' BY <1>1, Ingested
<1>2. ASSUME NEW s \in Statement, ReconcileNew(s) PROVE RecInv' BY <1>2, ReconciledNew
<1>3. ASSUME NEW s \in Statement, RecoverDigests(s) PROVE RecInv' BY <1>3, DigestsRecovered
<1>4. ASSUME NEW i \in DOMAIN rows, NEW n \in Notification,
             CorrectFacts(i, n.amount, n.merchant)
      PROVE  RecInv'
  BY <1>4, FactsCorrected
<1>5. ASSUME NEW i \in DOMAIN rows, NEW status \in {"ACTIVE", "IGNORED"},
             CorrectStatus(i, status)
      PROVE  RecInv'
  BY <1>5, StatusCorrected
<1>6. CASE Reopen BY <1>6, StoreReopened
<1>7. CASE UNCHANGED recVars
  <2>1. rows' = rows /\ reconciliations' = reconciliations /\ recCorrections' = recCorrections
    BY <1>7 DEF recVars
  <2>2. ASSUME NEW r \in DOMAIN reconciliations PROVE RunOf(r)'
    <3>1. RunOf(r) BY DEF RecInv, RunInv
    <3>2. Listed(r)' = Listed(r) BY <2>1 DEF Listed
    <3> QED BY <2>1, <3>1, <3>2, RunKept
  <2> QED BY <2>1, <2>2 DEF RecInv, RunInv
<1> QED BY <1>1, <1>2, <1>3, <1>4, <1>5, <1>6, <1>7 DEF RecNext

\* The rows of a statement an old release has reconciled.
LEMMA OldRows ==
  ASSUME NEW s \in Statement,
         rows = [i \in IdsOf(s) |-> OldRow(s, CHOOSE k \in DOMAIN s.lines : i = IdOf(s, k))]
  PROVE  /\ rows = [i \in DOMAIN rows |-> rows[i]] /\ DOMAIN rows = IdsOf(s)
         /\ \A k \in 1..Len(s.lines) : rows[IdOf(s, k)] = OldRow(s, k)
<1>1. ASSUME NEW k \in 1..Len(s.lines) PROVE rows[IdOf(s, k)] = OldRow(s, k)
  <2>1. IdOf(s, k) \in IdsOf(s) BY Lines DEF IdsOf
  <2> DEFINE l == CHOOSE l \in DOMAIN s.lines : IdOf(s, k) = IdOf(s, l)
  <2>2. l \in 1..Len(s.lines) /\ IdOf(s, k) = IdOf(s, l) BY Lines
  <2>3. l = k BY <2>2, Lines
  <2>4. rows[IdOf(s, k)] = OldRow(s, l) BY <2>1
  <2> HIDE DEF l
  <2> QED BY <2>3, <2>4
<1> QED BY <1>1

LEMMA OldStore ==
  ASSUME NEW s \in Statement,
         rows = [i \in DOMAIN rows |-> rows[i]], DOMAIN rows = IdsOf(s),
         \A k \in 1..Len(s.lines) : rows[IdOf(s, k)] = OldRow(s, k)
  PROVE  /\ TableInv(rows)
         /\ \A i \in DOMAIN rows : rows[i].reconciled = "RECONCILED" /\ rows[i].ref = s.ref
                                   /\ rows[i].source = "statement"
         /\ \A k \in 1..Len(s.lines) : Counted(rows[IdOf(s, k)]) = Counted(s.lines[k])
<1> DEFINE N == Len(s.lines)
           first(k) == ~\E j \in 1..(k - 1) : Identity(s.lines[j]) = Identity(s.lines[k])
           key(k) == IF first(k) THEN Identity(s.lines[k]) ELSE Salted(s.lines[k], IdOf(s, k))
<1>1. /\ N \in Nat /\ DOMAIN s.lines = 1..N /\ s.ref \in Reference
      /\ \A k \in 1..N : s.lines[k] \in Source
      /\ \A j, k \in 1..N : IdOf(s, j) = IdOf(s, k) => j = k
  BY Lines DEF Source
<1>2. ASSUME NEW k \in 1..N
      PROVE  /\ IdOf(s, k) \in RowId /\ IdOf(s, k) # <<>>
             /\ Identity(s.lines[k]) \in Key /\ Identity(s.lines[k]).salt = <<>>
             /\ Salted(s.lines[k], IdOf(s, k)) \in Key
             /\ Salted(s.lines[k], IdOf(s, k)).salt = IdOf(s, k)
  <2>1. IdOf(s, k) \in RowId BY <1>1, Ids
  <2>2. s.lines[k] \in Source BY <1>1
  <2> QED BY <2>1, <2>2, SourceFacts, Keys, LegacyIds
<1>3. ASSUME NEW k \in 1..N PROVE rows[IdOf(s, k)] = FromLine(s.lines[k], s.ref, key(k))
  BY DEF OldRow
<1>4. DOMAIN rows = IdsOf(s) /\ \A i \in IdsOf(s) : \E k \in 1..N : i = IdOf(s, k)
  BY <1>1 DEF IdsOf
<1>5. \A k \in 1..N : key(k) \in Key /\ key(k).salt \in {<<>>, IdOf(s, k)} BY <1>2
<1>6. ASSUME NEW j \in 1..N, NEW k \in 1..N, key(j) = key(k) PROVE j = k
  <2>1. CASE first(j) /\ first(k)
    <3>1. Identity(s.lines[j]) = Identity(s.lines[k]) BY <1>6, <2>1
    <3>2. ~(j < k) /\ ~(k < j)
      <4>1. ASSUME j < k PROVE FALSE
        <5>1. j \in 1..(k - 1) BY <1>1, <4>1
        <5> QED BY <2>1, <3>1, <5>1
      <4>2. ASSUME k < j PROVE FALSE
        <5>1. k \in 1..(j - 1) BY <1>1, <4>2
        <5> QED BY <2>1, <3>1, <5>1
      <4> QED BY <4>1, <4>2
    <3> QED BY <1>1, <3>2
  <2>2. CASE ~first(j) /\ ~first(k)
    <3>1. IdOf(s, j) = IdOf(s, k) BY <1>2, <1>6, <2>2
    <3> QED BY <1>1, <3>1
  <2>3. CASE first(j) /\ ~first(k) BY <1>2, <1>6, <2>3
  <2>4. CASE ~first(j) /\ first(k) BY <1>2, <1>6, <2>4
  <2> QED BY <2>1, <2>2, <2>3, <2>4
<1> HIDE DEF key, N
<1>7. ASSUME NEW k \in 1..N
      PROVE  /\ rows[IdOf(s, k)] \in Row /\ rows[IdOf(s, k)].reconciled = "RECONCILED"
             /\ rows[IdOf(s, k)].ref = s.ref /\ rows[IdOf(s, k)].source = "statement"
             /\ rows[IdOf(s, k)].identity = key(k)
             /\ Counted(rows[IdOf(s, k)]) = Counted(s.lines[k])
  <2>1. s.lines[k] \in Source /\ s.ref \in Reference /\ key(k) \in Key BY <1>1, <1>5
  <2>2. rows[IdOf(s, k)] = FromLine(s.lines[k], s.ref, key(k)) BY <1>3
  <2> QED BY <2>1, <2>2, NewRows
<1>8. IsFiniteSet(DOMAIN rows)
  <2> DEFINE f == [k \in 1..N |-> IdOf(s, k)]
  <2>1. f \in [1..N -> DOMAIN rows] /\ \A i \in DOMAIN rows : \E k \in 1..N : f[k] = i
    BY <1>1, <1>4 DEF IdsOf
  <2> HIDE DEF f
  <2>2. f \in Surjection(1..N, DOMAIN rows) BY <2>1 DEF Surjection
  <2>3. IsFiniteSet(1..N) BY FS_Interval, <1>1
  <2>4. ExistsSurjection(1..N, DOMAIN rows) BY <2>2 DEF ExistsSurjection
  <2> QED BY <2>2, <2>3, <2>4, FS_Surjection
<1>9. TableInv(rows)
  <2>1. rows \in Table
    <3>1. rows = [i \in DOMAIN rows |-> rows[i]] OBVIOUS
    <3>2. DOMAIN rows \subseteq RowId BY <1>2, <1>4
    <3>3. \A i \in DOMAIN rows : rows[i] \in Row BY <1>4, <1>7
    <3> QED BY <3>1, <3>2, <3>3, Tables
  <2>2. ASSUME NEW i \in DOMAIN rows
        PROVE  /\ IdentityInv(i, rows[i])
               /\ rows[i].source = "statement" => rows[i].reconciled = "RECONCILED"
    <3>1. PICK k \in 1..N : i = IdOf(s, k) BY <1>4
    <3> QED BY <1>5, <1>7, <3>1 DEF IdentityInv
  <2>3. ASSUME NEW i \in DOMAIN rows, NEW j \in DOMAIN rows, rows[i].identity = rows[j].identity
        PROVE  i = j
    <3>1. PICK k \in 1..N : i = IdOf(s, k) BY <1>4
    <3>2. PICK l \in 1..N : j = IdOf(s, l) BY <1>4
    <3>3. key(k) = key(l) BY <1>7, <2>3, <3>1, <3>2
    <3> QED BY <1>6, <3>1, <3>2, <3>3
  <2> QED BY <1>8, <2>1, <2>2, <2>3 DEF TableInv
<1> QED BY <1>4, <1>7, <1>9 DEF N

LEMMA RecInitInv == RecInit => RecInv
<1> SUFFICES ASSUME RecInit PROVE RecInv OBVIOUS
<1>1. recCorrections \in 0..MaxRecCorrections BY StatementAssumption DEF RecInit
<1>2. CASE rows = <<>> /\ reconciliations = <<>>
  <2>1. DOMAIN rows = {} /\ DOMAIN reconciliations = {}
        /\ rows = [i \in DOMAIN rows |-> rows[i]]
    BY <1>2
  <2>2. rows \in Table BY <2>1, Tables
  <2>3. TableInv(rows) BY <2>1, <2>2, FS_EmptySet DEF TableInv
  <2> QED BY <1>1, <2>1, <2>3 DEF RecInv, RunInv
<1>3. CASE ~(rows = <<>> /\ reconciliations = <<>>)
  <2>1. PICK s \in OldRun :
          /\ rows = [i \in IdsOf(s) |-> OldRow(s, CHOOSE k \in DOMAIN s.lines : i = IdOf(s, k))]
          /\ reconciliations =
               [r \in {s.ref} |-> [statement |-> s, bound |-> FALSE, unlisted |-> 0]]
    BY <1>3 DEF RecInit
  <2>2. s \in Statement /\ s.ref \in Reference BY StatementAssumption, Lines
  <2>3. /\ TableInv(rows) /\ DOMAIN rows = IdsOf(s)
        /\ \A i \in DOMAIN rows : rows[i].reconciled = "RECONCILED" /\ rows[i].ref = s.ref
                                  /\ rows[i].source = "statement"
        /\ \A k \in 1..Len(s.lines) : Counted(rows[IdOf(s, k)]) = Counted(s.lines[k])
    BY <2>1, <2>2, OldRows, OldStore
  <2>4. Listed(s.ref) = IdsOf(s) BY <2>3 DEF Listed
  <2>5. Paired(s.lines, Len(s.lines), rows, Listed(s.ref)) BY <2>2, <2>3, <2>4, PairedWithIds
  <2>6. /\ DOMAIN reconciliations = {s.ref} /\ reconciliations[s.ref].statement = s
        /\ ~reconciliations[s.ref].bound
    BY <2>1
  <2>7. RunOf(s.ref) BY <2>2, <2>3, <2>4, <2>5, <2>6 DEF RunOf
  <2>8. \A i \in DOMAIN rows : i[1] = s.ref
    BY <2>2, <2>3, Ids DEF IdsOf
  <2> QED BY <1>1, <2>2, <2>3, <2>6, <2>7, <2>8 DEF RecInv, RunInv
<1> QED BY <1>2, <1>3

-----------------------------------------------------------------------------
(* What a reconciliation settles.                                           *)

\* The search begins with a day, and none later than the period.
LEMMA MatchStartFacts ==
  ASSUME NEW s \in Statement
  PROVE  MatchStart(s) \in Nat /\ MatchStart(s) <= s.first
<1> DEFINE S == {s.first} \cup {s.lines[i].made : i \in DOMAIN s.lines}
<1>1. S \subseteq Nat /\ s.first \in S BY Lines
<1>2. MatchStart(s) = CHOOSE d \in S : \A e \in S : d <= e BY DEF MatchStart
<1> HIDE DEF S
<1>3. \E d \in S : \A e \in S : d <= e BY <1>1, LeastNumber
<1> QED BY <1>1, <1>2, <1>3

LEMMA Days ==
  ASSUME NEW at \in Nat, NEW from \in Nat, NEW to \in Nat
  PROVE  2 * from <= at /\ at < 2 * (to + 1) <=> at \div 2 \in from..to
OBVIOUS

LEMMA SettledInPeriod ==
  ASSUME RecInv, NEW s \in Statement, ReconcileNew(s)
  PROVE  /\ \A i \in DOMAIN rows' :
              rows'[i].at \div 2 \in s.first..s.last /\ rows'[i].status = "ACTIVE"
              => rows'[i].reconciled = "RECONCILED"
         /\ \A i \in DOMAIN rows :
              \/ rows[i].reconciled = "RECONCILED"
              \/ rows[i].at \div 2 \notin MatchStart(s)..s.last
              \/ rows[i].at \div 2 \notin s.first..s.last /\ rows'[i].reconciled # "RECONCILED"
              => rows'[i] = rows[i]
<1> PICK m : m = Matching(s) OBVIOUS
<1> DEFINE T == Taken(s, m)
           U == Unlisted(s, m)
<1>1. /\ MatchedInv(s, Len(s.lines), m) /\ DOMAIN rows' = DOMAIN m.table
      /\ U \subseteq StatementCandidates(s) \ T
      /\ \A i \in U : m.table[i] = rows[i] /\ rows'[i] = Variance(rows[i], s.ref)
      /\ T \subseteq DOMAIN rows' /\ \A i \in T : rows'[i] = m.table[i]
      /\ \A i \in DOMAIN rows' \ (T \cup U) :
           i \in DOMAIN rows /\ rows'[i] = rows[i] /\ m.table[i] = rows[i]
      /\ \A i \in DOMAIN rows : rows[i].reconciled = "RECONCILED" => i \notin T \cup U
  BY ReconcileDoes
<1>2. /\ DOMAIN rows \subseteq DOMAIN rows' /\ m.remaining \subseteq StatementCandidates(s)
      /\ \A i \in T : rows'[i].reconciled = "RECONCILED"
  BY <1>1 DEF MatchedInv, TakenRow
<1>3. TableInv(rows) /\ rows \in Table /\ StatementCandidates(s) \subseteq DOMAIN rows
  BY CandidateFacts DEF RecInv, TableInv
<1>4. \A i \in DOMAIN rows : rows[i] \in Row /\ rows[i].at \in Nat /\ rows[i].status \in {"ACTIVE", "IGNORED"}
  <2>1. \A i \in DOMAIN rows : rows[i] \in Row BY <1>3, Tables
  <2> QED BY <2>1 DEF Row
<1>5. s.first \in Nat /\ s.last \in Nat /\ MatchStart(s) \in Nat /\ MatchStart(s) <= s.first
  BY Lines, MatchStartFacts
<1>6. \A i \in DOMAIN rows \cap T : i \in StatementCandidates(s) BY DEF Taken
<1>7. \A i \in StatementCandidates(s) \ T : i \in m.remaining BY DEF Taken
<1>8. \A i \in m.remaining : i \in U <=> m.table[i].at \div 2 \in s.first..s.last
  <2>1. \A i \in m.remaining \ T : m.table[i] = rows[i] /\ rows[i].at \in Nat
    BY <1>1, <1>2, <1>3, <1>4 DEF MatchedInv
  <2>2. \A i \in m.remaining : i \notin T
    <3>1. \A i \in m.remaining : i \in DOMAIN rows BY <1>2, <1>3
    <3> QED BY <3>1 DEF Taken
  <2> QED BY <1>5, <2>1, <2>2 DEF Unlisted
<1>9. \A i \in StatementCandidates(s) : rows[i].at \div 2 \in MatchStart(s)..s.last
  <2>1. ASSUME NEW i \in StatementCandidates(s)
        PROVE  rows[i].at \div 2 \in MatchStart(s)..s.last
    <3>1. 2 * MatchStart(s) <= rows[i].at /\ rows[i].at < 2 * (s.last + 1)
      BY DEF StatementCandidates
    <3>2. rows[i].at \in Nat BY <1>3, <1>4
    <3> QED BY <1>5, <3>1, <3>2, Days
  <2> QED BY <2>1
<1>10. ASSUME NEW i \in DOMAIN rows, rows[i].at \div 2 \in s.first..s.last,
              rows[i].status = "ACTIVE", rows[i].reconciled # "RECONCILED"
       PROVE  i \in StatementCandidates(s)
  <2>1. rows[i].at \in Nat BY <1>4
  <2>2. rows[i].at \div 2 \in MatchStart(s)..s.last BY <1>5, <1>10, <2>1
  <2>3. 2 * MatchStart(s) <= rows[i].at /\ rows[i].at < 2 * (s.last + 1)
    BY <1>5, <2>1, <2>2, Days
  <2>4. rows[i].source # "statement" BY <1>3, <1>10 DEF TableInv
  <2> QED BY <1>10, <2>3, <2>4 DEF StatementCandidates
<1>11. \A i \in U : rows'[i].status = "IGNORED" /\ i \in m.remaining
  <2>1. ASSUME NEW i \in U PROVE rows'[i].status = "IGNORED" /\ i \in m.remaining
    <3>1. i \in DOMAIN rows /\ i \in StatementCandidates(s) \ T BY <1>1, <1>3
    <3>2. rows[i] \in Row /\ s.ref \in Reference BY <1>4, <3>1, Lines
    <3>3. rows'[i] = Variance(rows[i], s.ref) BY <1>1
    <3>4. Variance(rows[i], s.ref).status = "IGNORED" BY <3>2, VarianceRow
    <3> QED BY <1>7, <3>1, <3>3, <3>4
  <2> QED BY <2>1
<1> HIDE DEF T, U
<1>12. ASSUME NEW i \in DOMAIN rows', rows'[i].at \div 2 \in s.first..s.last,
              rows'[i].status = "ACTIVE", rows'[i].reconciled # "RECONCILED"
       PROVE  FALSE
  <2>1. i \notin T /\ i \notin U BY <1>2, <1>11, <1>12
  <2>2. i \in DOMAIN rows /\ rows'[i] = rows[i] /\ m.table[i] = rows[i] BY <1>1, <2>1
  <2>3. i \in StatementCandidates(s) BY <1>10, <1>12, <2>2
  <2> QED BY <1>7, <1>8, <1>12, <2>1, <2>2, <2>3
<1>13. ASSUME NEW i \in DOMAIN rows,
              \/ rows[i].reconciled = "RECONCILED"
              \/ rows[i].at \div 2 \notin MatchStart(s)..s.last
              \/ rows[i].at \div 2 \notin s.first..s.last /\ rows'[i].reconciled # "RECONCILED"
       PROVE  rows'[i] = rows[i]
  <2>1. i \notin T BY <1>1, <1>2, <1>6, <1>9, <1>13
  <2>2. i \notin U
    <3>1. ASSUME i \in U PROVE FALSE
      <4>1. /\ i \in StatementCandidates(s) /\ m.table[i] = rows[i]
            /\ rows[i].at \div 2 \in s.first..s.last
        BY <1>1, <1>8, <1>11, <3>1
      <4>2. rows[i].reconciled # "RECONCILED" BY <1>1, <3>1
      <4>3. rows[i].at \div 2 \in MatchStart(s)..s.last BY <1>9, <4>1
      <4> QED BY <1>13, <4>1, <4>2, <4>3
    <3> QED BY <3>1
  <2> QED BY <1>1, <1>2, <2>1, <2>2
<1> QED BY <1>12, <1>13

-----------------------------------------------------------------------------
\* Every row of the store is one of the ids, sources and states the tables know, and no two
\* rows have one identity key: the unique index is respected by every write, the renewal of
\* identities when the store is opened included.
THEOREM EventTypes == RecSpec => []RecTypeOK
<1>1. RecInv => RecTypeOK
  <2> SUFFICES ASSUME RecInv PROVE RecTypeOK OBVIOUS
  <2>1. TableInv(rows) /\ rows \in Table BY DEF RecInv, TableInv
  <2>2. DOMAIN rows \subseteq RowId /\ \A i \in DOMAIN rows : rows[i] \in Row BY <2>1, Tables
  <2>3. \A i \in DOMAIN rows :
          /\ rows[i].source \in {"email", "statement"}
          /\ rows[i].status \in {"ACTIVE", "IGNORED"}
          /\ rows[i].reconciled \in {"UNMATCHED", "VARIANCE", "RECONCILED"}
          /\ rows[i].ref \in Reference \cup {NoReference}
    BY <2>2 DEF Row
  <2>4. \A i, j \in DOMAIN rows : rows[i].identity = rows[j].identity => i = j
    BY <2>1 DEF TableInv
  <2>5. \A r \in DOMAIN reconciliations : reconciliations[r].statement \in Statement
    BY DEF RecInv, RunInv, RunOf
  <2> QED BY <2>2, <2>3, <2>4, <2>5 DEF RecInv, RunInv, RecTypeOK
<1> QED BY <1>1, RecInitInv, RecStepInv, PTL DEF RecSpec

\* A statement has as many reconciled rows of each date, amount and direction as it has lines,
\* and none but lines of one identity, or a row out of its reach that holds the identity of a
\* line, make the unique index refuse it.
THEOREM StatementsCounted == RecSpec => []StatementIsCounted
<1>1. RecInv => ListedOnce
  <2> SUFFICES ASSUME RecInv, NEW r \in DOMAIN reconciliations, NEW c
               PROVE  LET s == reconciliations[r].statement IN
                      Cardinality({i \in Listed(r) : Counted(rows[i]) = c})
                        = Cardinality({k \in DOMAIN s.lines : Counted(s.lines[k]) = c})
    BY DEF ListedOnce
  <2> DEFINE s == reconciliations[r].statement
  <2>1. s \in Statement /\ Paired(s.lines, Len(s.lines), rows, Listed(r))
    BY DEF RecInv, RunInv, RunOf
  <2> HIDE DEF s
  <2>2. Len(s.lines) \in Nat /\ DOMAIN s.lines = 1..Len(s.lines) BY <2>1, Lines
  <2>3. SameCount(s.lines, Len(s.lines), rows, Listed(r), c) BY <2>1, <2>2, PairedCounts
  <2> QED BY <2>2, <2>3 DEF s, SameCount
<1>2. RecInv => OnlyTwinsFail
  <2> SUFFICES ASSUME RecInv, NEW s \in Statement, IsNew(s), ~HasTwins(s),
                      \A k \in DOMAIN s.lines :
                        Owners(rows, Identity(s.lines[k])) \subseteq StatementCandidates(s)
               PROVE  Matching(s).ok
    BY DEF OnlyTwinsFail
  <2>1. Easy(s) BY Lines DEF Easy
  <2> QED BY <2>1, MatchingDone
<1>3. RecInv => StatementIsCounted BY <1>1, <1>2 DEF StatementIsCounted
<1> QED BY <1>3, RecInitInv, RecStepInv, PTL DEF RecSpec

\* A reconciliation leaves nothing active in its period but reconciled rows, and touches no
\* row an earlier statement has reconciled, none outside the days it searches, and none
\* outside the period but to reconcile it.
THEOREM ReconciliationSettles == RecSpec => ReconcileSettles
<1> DEFINE Settles(s) ==
             IsNew(s) /\ s.ref \in DOMAIN reconciliations' /\ reconciliations'[s.ref].statement = s =>
               /\ \A i \in DOMAIN rows' :
                    /\ rows'[i].at \div 2 \in s.first..s.last
                    /\ rows'[i].status = "ACTIVE"
                    => rows'[i].reconciled = "RECONCILED"
               /\ \A i \in DOMAIN rows :
                    \/ rows[i].reconciled = "RECONCILED"
                    \/ rows[i].at \div 2 \notin MatchStart(s)..s.last
                    \/ rows[i].at \div 2 \notin s.first..s.last /\ rows'[i].reconciled # "RECONCILED"
                    => rows'[i] = rows[i]
<1>1. ASSUME RecInv, RecNext, NEW s \in Statement PROVE Settles(s)
  <2> SUFFICES ASSUME IsNew(s), s.ref \in DOMAIN reconciliations',
                      reconciliations'[s.ref].statement = s
               PROVE  Settles(s)
    OBVIOUS
  <2> HIDE DEF Settles
  <2>1. PICK t \in Statement : ReconcileNew(t)
    <3>1. DOMAIN reconciliations' # DOMAIN reconciliations BY DEF IsNew
    <3>2. ~\E n \in Notification : IngestNotification(n) BY <3>1 DEF IngestNotification
    <3>3. ~\E t \in Statement : RecoverDigests(t) BY <3>1 DEF RecoverDigests, IsNew, Put
    <3>4. ~Reopen BY <3>1 DEF Reopen
    <3>5. ~\E i \in DOMAIN rows :
             \/ \E n \in Notification : CorrectFacts(i, n.amount, n.merchant)
             \/ \E status \in {"ACTIVE", "IGNORED"} : CorrectStatus(i, status)
      BY <3>1 DEF CorrectFacts, CorrectStatus
    <3> QED BY <1>1, <3>2, <3>3, <3>4, <3>5 DEF RecNext
  <2>2. reconciliations' = Put(reconciliations, t.ref, Run(t, TRUE, Matching(t)))
    BY <2>1 DEF ReconcileNew
  <2>3. t.ref = s.ref BY <2>2 DEF IsNew, Put
  <2>4. reconciliations'[s.ref].statement = t BY <2>2, <2>3 DEF Put, Run
  <2>5. t = s BY <2>4
  <2> QED BY <1>1, <2>1, <2>5, SettledInPeriod DEF Settles
<1>2. RecInv /\ [RecNext]_recVars => [\A s \in Statement : Settles(s)]_recVars
  BY <1>1
<1> QED BY <1>2, RecInitInv, RecStepInv, PTL DEF RecSpec, ReconcileSettles

=============================================================================
