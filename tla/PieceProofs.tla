----------------------------- MODULE PieceProofs -----------------------------
(***************************************************************************)
(* The pieces that MCWriterLease runs beside the lease, together, for any  *)
(* value of their constants: what each of them keeps, their composition    *)
(* keeps.  The rates come first; the proofs of the other pieces are in     *)
(* PlanProofs and CalendarProofs.                                          *)
(***************************************************************************)
EXTENDS MCWriterLease, PlanProofs

(* Rates.                                                                   *)

LEMMA Division ==
  ASSUME NEW a \in Nat, NEW b \in Nat, b > 0
  PROVE  a \div b \in Nat /\ b * (a \div b) <= a /\ a < b * ((a \div b) + 1)
<1>1. a \div b \in Int /\ a \div b >= 0 OBVIOUS
<1>2. b * (a \div b) <= a OBVIOUS
<1>3. a < b * (a \div b) + b OBVIOUS
<1>4. \A q \in Int : b * (q + 1) = b * q + b OBVIOUS
<1> QED BY <1>1, <1>2, <1>3, <1>4

\* A day is the instants from its first one up to the first of the next.
LEMMA DayOf ==
  ASSUME NEW t \in Nat
  PROVE  Day(t) \in Nat /\ DayLength * Day(t) <= t /\ t < DayLength * (Day(t) + 1)
<1>1. DayLength \in Nat /\ DayLength > 0 BY FxAssumption
<1> QED BY <1>1, Division DEF Day

LEMMA Scaled ==
  ASSUME NEW L \in Nat, NEW a \in Int, NEW b \in Int, a <= b
  PROVE  L * a <= L * b
OBVIOUS

\* A quote of today or of yesterday, by the instants of the two days.
LEMMA ValidDays ==
  ASSUME NEW t \in Nat, NEW d \in Nat, d <= Day(t), Day(t) - d <= 1
  PROVE  DayLength * d <= t /\ t < DayLength * (d + 2)
<1>1. Day(t) \in Nat /\ DayLength * Day(t) <= t /\ t < DayLength * (Day(t) + 1) BY DayOf
<1>2. DayLength \in Nat BY FxAssumption
<1> DEFINE x == Day(t)
<1> HIDE DEF x
<1>3. x \in Nat /\ d <= x /\ x + 1 <= d + 2 BY <1>1 DEF x
<1>4. DayLength * d <= DayLength * x /\ DayLength * (x + 1) <= DayLength * (d + 2)
  BY <1>2, <1>3, Scaled
<1>5. DayLength * x <= t /\ t < DayLength * (x + 1) BY <1>1 DEF x
<1>6. DayLength * d \in Int /\ DayLength * x \in Int /\ DayLength * (x + 1) \in Int /\ DayLength * (d + 2) \in Int
  BY <1>2, <1>3
<1> QED BY <1>4, <1>5, <1>6

-----------------------------------------------------------------------------
LEMMA FirstOfRows ==
  ASSUME NEW rows, NEW wanted, NEW found \in FirstRow(rows, wanted)
  PROVE  found \in wanted /\ \E i \in DOMAIN rows : rows[i] = found
BY DEF FirstRow

LEMMA FirstRowExists ==
  ASSUME NEW T, NEW rows \in Seq(T), NEW wanted, \E i \in DOMAIN rows : rows[i] \in wanted
  PROVE  FirstRow(rows, wanted) # {}
<1> DEFINE S == {i \in DOMAIN rows : rows[i] \in wanted}
<1>1. S \subseteq Nat /\ S # {} /\ DOMAIN rows = 1 .. Len(rows) /\ Len(rows) \in Nat OBVIOUS
<1>2. PICK i \in S : \A j \in S : i <= j BY <1>1, LeastNumber
<1>3. \A k \in 1 .. i - 1 : k \in DOMAIN rows /\ ~(i <= k) BY <1>1, <1>2
<1>4. \A k \in 1 .. i - 1 : rows[k] \notin wanted BY <1>2, <1>3
<1> QED BY <1>2, <1>4 DEF FirstRow

\* A rate that ADCB has in a table of the standard segment.
Standard(rate) ==
  \E page \in Page["ADCB"] : \E t \in DOMAIN page.tables :
    /\ page.tables[t].segment = "standard"
    /\ \E i \in DOMAIN page.tables[t].rows : page.tables[t].rows[i].rate = rate

GoodQuote(q) ==
  /\ q.day \in Nat /\ q.at \in Nat \cup {None}
  /\ q.by = "ADCB" => Standard(q.rate)

PagesTyped == pages = [p \in Provider |-> pages[p]] /\ \A p \in Provider : pages[p] \in Page[p]

LEMMA QuoteFields ==
  ASSUME NEW provider, NEW found, NEW page
  PROVE  /\ Quote(provider, found, page).day = page.day /\ Quote(provider, found, page).at = page.at
         /\ Quote(provider, found, page).rate = found.rate /\ Quote(provider, found, page).by = provider
BY DEF Quote

LEMMA PageTyped ==
  ASSUME PagesTyped, NEW p \in Provider, pages[p].answer = "page"
  PROVE  /\ pages[p].day \in Nat \cup {None} /\ pages[p].at \in Nat \cup {None}
         /\ pages[p].tables \in Seq(Range(pages[p].tables))
BY FxAssumption DEF PagesTyped, Provider

LEMMA StandardRate ==
  ASSUME NEW page \in Page["ADCB"], page.tables \in Seq(Range(page.tables)),
         NEW i \in DOMAIN StandardRows(page)
  PROVE  Standard(StandardRows(page)[i].rate)
<1> DEFINE standard == {t \in Range(page.tables) : t.segment = "standard" /\ t.rows # <<>>}
           table == CHOOSE t \in FirstRow(page.tables, standard) : TRUE
<1>1. StandardRows(page) = IF standard = {} THEN <<>> ELSE table.rows BY DEF StandardRows
<1>2. CASE standard = {} BY <1>1, <1>2
<1>3. CASE standard # {}
  <2>1. \E t \in DOMAIN page.tables : page.tables[t] \in standard BY <1>3 DEF Range
  <2>2. FirstRow(page.tables, standard) # {}
    <3> HIDE DEF standard
    <3> QED BY <2>1, FirstRowExists
  <2>3. table \in FirstRow(page.tables, standard) BY <2>2
  <2>4. table \in standard /\ \E t \in DOMAIN page.tables : page.tables[t] = table
    <3> HIDE DEF table, standard
    <3> QED BY <2>3, FirstOfRows
  <2>5. table.segment = "standard" BY <2>4
  <2>6. StandardRows(page) = table.rows BY <1>1, <1>3
  <2> HIDE DEF table, standard
  <2> QED BY <2>4, <2>5, <2>6 DEF Standard
<1> QED BY <1>2, <1>3

LEMMA AdcbGood ==
  ASSUME PagesTyped, "ADCB" \in Provider, pages["ADCB"].answer = "page", NEW currency,
         NEW q \in AdcbQuotes(pages["ADCB"], currency)
  PROVE  GoodQuote(q)
<1> DEFINE page == pages["ADCB"]
           rows == StandardRows(page)
           last == {x \in Range(rows) : x.rate = None \/ x.currency = currency}
<1>1. PICK found \in FirstRow(rows, last) : q = Quote("ADCB", found, page) /\ page.day # None
  BY DEF AdcbQuotes
<1>2. \E i \in DOMAIN rows : rows[i] = found
  <2> HIDE DEF rows, last
  <2> QED BY <1>1, FirstOfRows
<1>3. page \in Page["ADCB"] BY DEF PagesTyped
<1>4. /\ page.day \in Nat \cup {None} /\ page.at \in Nat \cup {None}
      /\ page.tables \in Seq(Range(page.tables))
  BY PageTyped
<1> HIDE DEF page
<1>5. Standard(found.rate) BY <1>2, <1>3, <1>4, StandardRate
<1> HIDE DEF rows, last
<1> QED BY <1>1, <1>4, <1>5, QuoteFields DEF GoodQuote

LEMMA QuotesGood ==
  ASSUME PagesTyped, NEW p \in Provider, NEW currency, NEW q \in Quotes(p, currency)
  PROVE  GoodQuote(q)
<1>1. pages[p].answer = "page" BY DEF Quotes
<1>2. pages[p].day \in Nat \cup {None} /\ pages[p].at \in Nat \cup {None} BY <1>1, PageTyped
<1>3. CASE p = "RAKBANK"
  <2>1. q \in RakbankQuotes(pages[p], currency) BY <1>1, <1>3 DEF Quotes
  <2>2. \E found : q = Quote("RAKBANK", found, pages[p]) /\ pages[p].day # None BY <2>1 DEF RakbankQuotes
  <2> QED BY <1>2, <2>2, QuoteFields DEF GoodQuote
<1>4. CASE p = "ADCB"
  <2>1. q \in AdcbQuotes(pages[p], currency) BY <1>1, <1>4 DEF Quotes
  <2> QED BY <1>1, <1>4, <2>1, AdcbGood
<1>5. CASE p \notin {"RAKBANK", "ADCB"}
  <2>1. q \in FabQuotes(pages[p], currency) BY <1>1, <1>5 DEF Quotes
  <2>2. \E found : q = Quote("FAB", found, pages[p]) /\ pages[p].day # None BY <2>1 DEF FabQuotes
  <2> QED BY <1>2, <2>2, QuoteFields DEF GoodQuote
<1> QED BY <1>3, <1>4, <1>5

LEMMA ResolvedGood ==
  ASSUME PagesTyped, NEW currency, NEW asOf, NEW q \in ResolvedRate(currency, asOf)
  PROVE  GoodQuote(q)
<1> DEFINE answering ==
        {p \in Range(Chain) : Challenged(p) \/ \E x \in Quotes(p, currency) : ValidQuote(x, asOf)}
<1>1. PICK p \in FirstRow(Chain, answering) : q \in Quotes(p, currency) BY DEF ResolvedRate
<1>2. p \in Provider
  <2> HIDE DEF answering
  <2> QED BY <1>1, FirstOfRows DEF Provider
<1> QED BY <1>1, <1>2, QuotesGood

-----------------------------------------------------------------------------
\* What the trace of a message holds.
GoodTrace(m, c) ==
  /\ c = [aed |-> Aed(m.amount, c.quote), quote |-> c.quote]
  /\ ValidQuote(c.quote, m.at) /\ c.quote.from = m.currency /\ Aed(m.amount, c.quote) > 0
  /\ GoodQuote(c.quote)

LEMMA ConvertedGood ==
  ASSUME PagesTyped, NEW m, NEW replay, NEW c \in Converted(m, replay),
         m \in DOMAIN replay => GoodQuote(replay[m].quote)
  PROVE  GoodTrace(m, c)
<1>1. \E quotes : c \in Conversion(m, quotes) /\ \A q \in quotes : GoodQuote(q)
  BY ResolvedGood DEF Converted
<1>2. PICK quotes : c \in Conversion(m, quotes) /\ \A q \in quotes : GoodQuote(q) BY <1>1
<1>3. PICK q \in quotes : /\ c = [aed |-> Aed(m.amount, q), quote |-> q]
                          /\ ValidQuote(q, m.at) /\ q.from = m.currency /\ Aed(m.amount, q) > 0
  BY <1>2 DEF Conversion
<1>4. c.quote = q BY <1>3
<1> QED BY <1>2, <1>3, <1>4 DEF GoodTrace

FxInv ==
  /\ FxTypeOK /\ PagesTyped
  /\ \A m \in DOMAIN traces : GoodTrace(m, traces[m])
  /\ CardAmountsAreOfTheirDay

LEMMA TraceIsOfItsTime ==
  ASSUME FxInv, NEW m \in DOMAIN traces
  PROVE  LET q == traces[m].quote
         IN /\ q.by = "ADCB" => Standard(q.rate)
            /\ q.at # None => q.at <= m.at /\ m.at - q.at <= DayLength
            /\ q.at = None => DayLength * q.day <= m.at /\ m.at < DayLength * (q.day + 2)
            /\ Converted(m, Replay({m})) = {traces[m]}
<1> DEFINE c == traces[m]
           q == c.quote
<1>1. GoodTrace(m, c) BY DEF FxInv
<1>2. m.at \in Nat BY FxAssumption DEF FxInv, FxTypeOK
<1>3. q.day \in Nat /\ (q.by = "ADCB" => Standard(q.rate)) BY <1>1 DEF GoodTrace, GoodQuote
<1>4. ValidQuote(q, m.at) BY <1>1 DEF GoodTrace
<1>5. Converted(m, Replay({m})) = {c}
  <2>1. m \in DOMAIN Replay({m}) /\ Replay({m})[m] = c BY DEF Replay
  <2>2. Converted(m, Replay({m})) = {x \in Conversion(m, {q}) : x.aed = c.aed} BY <2>1 DEF Converted
  <2> HIDE DEF q
  <2>3. c = [aed |-> Aed(m.amount, q), quote |-> q] /\ ValidQuote(q, m.at) /\ q.from = m.currency
        /\ Aed(m.amount, q) > 0
    BY <1>1 DEF GoodTrace, q
  <2> HIDE DEF c
  <2>4. Conversion(m, {q}) = {c} BY <2>3 DEF Conversion
  <2> QED BY <2>2, <2>4
<1>6. q.at # None => q.at <= m.at /\ m.at - q.at <= DayLength BY <1>4 DEF ValidQuote
<1>7. q.at = None => DayLength * q.day <= m.at /\ m.at < DayLength * (q.day + 2)
  <2> HIDE DEF q
  <2>1. q.day <= Day(m.at) /\ (q.at = None => Day(m.at) - q.day <= 1) BY <1>4 DEF ValidQuote
  <2> QED BY <1>2, <1>3, <2>1, ValidDays
<1> QED BY <1>3, <1>5, <1>6, <1>7

LEMMA FxRight ==
  ASSUME FxInv
  PROVE  FxTypeOK /\ RatesAreOfTheirTime /\ CardAmountsAreOfTheirDay
<1>1. RatesAreOfTheirTime BY TraceIsOfItsTime DEF RatesAreOfTheirTime, Standard
<1> QED BY <1>1 DEF FxInv

LEMMA CardOfItsDay ==
  ASSUME NEW r \in CardRequest, NEW answer \in CardAnswer, NEW c \in CardConversion(r, answer)
  PROVE  /\ r.posted # None => c.status = "POSTED" /\ c.aed = r.posted
         /\ c.status = "ESTIMATED" =>
              /\ c.quote.day \in {r.day, r.day - 1}
              /\ r.quote # None => c.quote = r.quote
<1>1. CASE r.posted # None
  <2>1. c = [aed |-> r.posted, status |-> "POSTED", quote |-> r.quote] BY <1>1 DEF CardConversion
  <2> QED BY <2>1
<1>2. CASE r.posted = None /\ r.currency = "AED"
  <2>1. c = [aed |-> r.amount, status |-> "POSTED", quote |-> None] BY <1>2 DEF CardConversion
  <2> QED BY <1>2, <2>1
<1>3. CASE r.posted = None /\ r.currency # "AED"
  <2> DEFINE quote == IF r.quote # None THEN r.quote ELSE answer
  <2>1. /\ quote # None /\ CardValid(quote, r)
        /\ c = [aed |-> HalfUp(r.amount * quote.rate, Scale), status |-> "ESTIMATED", quote |-> quote]
    BY <1>3 DEF CardConversion
  <2>2. r.quote # None => quote = r.quote OBVIOUS
  <2>3. quote.day \in Nat /\ r.day \in Nat BY <2>1, FxAssumption
  <2> HIDE DEF quote
  <2>4. c.quote = quote BY <2>1
  <2>5. quote.day <= r.day /\ r.day - quote.day <= 1 BY <2>1 DEF CardValid
  <2>6. quote.day = r.day \/ quote.day = r.day - 1 BY <2>3, <2>5
  <2> QED BY <1>3, <2>2, <2>4, <2>6
<1> QED BY <1>1, <1>2, <1>3

LEMMA FxInitInv == FxInit => FxInv
<1> SUFFICES ASSUME FxInit PROVE FxInv OBVIOUS
<1>1. PagesTyped BY DEF FxInit, PagesTyped
<1>2. traces = <<>> /\ cardResults = <<>> /\ fxNow = 0 /\ published = 0 BY DEF FxInit
<1>3. DOMAIN traces = {} /\ DOMAIN cardResults = {} BY <1>2
<1>4. FxTypeOK BY <1>1, <1>2, <1>3, FxAssumption DEF FxTypeOK, PagesTyped
<1>5. CardAmountsAreOfTheirDay BY <1>3 DEF CardAmountsAreOfTheirDay
<1> QED BY <1>1, <1>3, <1>4, <1>5 DEF FxInv

LEMMA BatchStep ==
  ASSUME FxInv, NEW batch \in SUBSET Message, NEW asks, ParseBatch(batch, Replay(batch), asks)
  PROVE  FxInv'
<1> DEFINE replay == Replay(batch)
           converting == {m \in batch : asks \/ m \in DOMAIN replay}
<1>1. /\ \A m \in converting : Converted(m, replay) # {}
      /\ traces' = [m \in DOMAIN traces \cup converting |->
                      IF m \in converting THEN CHOOSE c \in Converted(m, replay) : TRUE ELSE traces[m]]
      /\ UNCHANGED <<fxNow, pages, published, cardResults>>
  BY DEF ParseBatch
<1>2. /\ FxTypeOK /\ PagesTyped /\ CardAmountsAreOfTheirDay
      /\ \A m \in DOMAIN traces : GoodTrace(m, traces[m])
  BY DEF FxInv
<1>3. \A m \in DOMAIN replay : GoodQuote(replay[m].quote)
  BY <1>2 DEF Replay, GoodTrace
<1>4. converting \subseteq Message OBVIOUS
<1> HIDE DEF replay, converting
<1>5. DOMAIN traces' = DOMAIN traces \cup converting BY <1>1
<1>6. \A m \in DOMAIN traces' : GoodTrace(m, traces'[m])
  <2> TAKE m \in DOMAIN traces'
  <2>1. CASE m \in converting
    <3>1. traces'[m] \in Converted(m, replay) BY <1>1, <1>5, <2>1
    <3> QED BY <1>2, <1>3, <3>1, ConvertedGood
  <2>2. CASE m \notin converting BY <1>1, <1>2, <1>5, <2>2
  <2> QED BY <2>1, <2>2
<1>7. FxTypeOK' BY <1>1, <1>2, <1>4, <1>5 DEF FxTypeOK
<1>8. PagesTyped' BY <1>1, <1>2 DEF PagesTyped
<1>9. CardAmountsAreOfTheirDay' BY <1>1, <1>2 DEF CardAmountsAreOfTheirDay
<1>10. (\A m \in DOMAIN traces : GoodTrace(m, traces[m]))'
  BY <1>6 DEF GoodTrace, ValidQuote, GoodQuote, Standard, Aed, HalfUp, Day
<1> QED BY <1>7, <1>8, <1>9, <1>10 DEF FxInv

LEMMA FxStep ==
  ASSUME FxInv, [FxNext]_fxVars
  PROVE  FxInv'
<1>1. /\ fxNow \in 0 .. MaxNow /\ published \in 0 .. MaxPages
      /\ \A p \in Provider : pages[p] \in Page[p]
      /\ DOMAIN traces \subseteq Message /\ DOMAIN cardResults \subseteq CardRequest
      /\ pages = [p \in Provider |-> pages[p]]
      /\ \A m \in DOMAIN traces : GoodTrace(m, traces[m])
      /\ CardAmountsAreOfTheirDay
  BY DEF FxInv, FxTypeOK, PagesTyped
<1> DEFINE Traces == /\ DOMAIN traces \subseteq Message
                     /\ \A m \in DOMAIN traces : GoodTrace(m, traces[m])
<1>2. UNCHANGED traces => Traces'
  BY <1>1 DEF GoodTrace, ValidQuote, GoodQuote, Standard, Aed, HalfUp, Day
<1>3. UNCHANGED cardResults => CardAmountsAreOfTheirDay' BY <1>1 DEF CardAmountsAreOfTheirDay
<1>4. MaxNow \in Nat /\ MaxPages \in Nat BY FxAssumption
<1>5. ASSUME PassTime PROVE FxInv'
  BY <1>1, <1>2, <1>3, <1>4, <1>5 DEF PassTime, FxInv, FxTypeOK, PagesTyped
<1>6. ASSUME NEW p \in Provider, NEW page \in Page[p], PublishPage(p, page) PROVE FxInv'
  <2>1. /\ published < MaxPages /\ published' = published + 1 /\ pages' = [pages EXCEPT ![p] = page]
        /\ UNCHANGED <<fxNow, traces, cardResults>>
    BY <1>6 DEF PublishPage
  <2>2. published' \in 0 .. MaxPages BY <1>1, <1>4, <2>1
  <2>3. DOMAIN pages = Provider BY <1>1
  <2>4. PagesTyped' BY <1>1, <2>1, <2>3 DEF PagesTyped
  <2> QED BY <1>1, <1>2, <1>3, <2>1, <2>2, <2>4 DEF FxInv, FxTypeOK, PagesTyped
<1>7. ASSUME NEW batch \in SUBSET Message, ParseOutlookBatch(batch) \/ ParseWithProviders(batch)
      PROVE  FxInv'
  BY <1>7, BatchStep DEF ParseOutlookBatch, ParseWithProviders
<1>8. ASSUME NEW r \in CardRequest, NEW answer \in CardAnswer, ConvertCard(r, answer) PROVE FxInv'
  <2>1. PICK c \in CardConversion(r, answer) :
          cardResults' = [x \in DOMAIN cardResults \cup {r} |-> IF x = r THEN c ELSE cardResults[x]]
    BY <1>8 DEF ConvertCard
  <2>2. UNCHANGED <<fxNow, pages, published, traces>> BY <1>8 DEF ConvertCard
  <2>3. /\ r.posted # None => c.status = "POSTED" /\ c.aed = r.posted
        /\ c.status = "ESTIMATED" =>
             /\ c.quote.day \in {r.day, r.day - 1}
             /\ r.quote # None => c.quote = r.quote
    BY CardOfItsDay
  <2>4. CardAmountsAreOfTheirDay' BY <1>1, <2>1, <2>3 DEF CardAmountsAreOfTheirDay
  <2> QED BY <1>1, <1>2, <2>1, <2>2, <2>4 DEF FxInv, FxTypeOK, PagesTyped
<1>9. ASSUME UNCHANGED fxVars PROVE FxInv'
  BY <1>1, <1>2, <1>3, <1>9 DEF fxVars, FxInv, FxTypeOK, PagesTyped
<1> QED BY <1>5, <1>6, <1>7, <1>8, <1>9 DEF FxNext

LEMMA FxAlways == FxSpec => []FxInv
BY FxInitInv, FxStep, PTL DEF FxSpec

(* The pages, the traces and the card results of FxRates keep their types.   *)
THEOREM FxTyped == FxSpec => []FxTypeOK
<1>1. FxInv => FxTypeOK BY DEF FxInv
<1> QED BY <1>1, FxAlways, PTL

(* No purchase gets the rate of another segment, or one that was published   *)
(* after it or more than a day before it, and it converts to the same amount *)
(* again, whatever the pages of the providers say by then.                   *)
THEOREM RatesAlwaysOfTheirTime == FxSpec => []RatesAreOfTheirTime
<1>1. FxInv => RatesAreOfTheirTime BY FxRight
<1> QED BY <1>1, FxAlways, PTL

(* What the bank posted is what counts, and the estimate of an amount is     *)
(* never of a later day than the purchase.                                   *)
THEOREM CardAmountsAlwaysOfTheirDay == FxSpec => []CardAmountsAreOfTheirDay
<1>1. FxInv => CardAmountsAreOfTheirDay BY DEF FxInv
<1> QED BY <1>1, FxAlways, PTL

-----------------------------------------------------------------------------
(* The pieces together: a step of one leaves the others as they are.         *)

FiguresInv == (piece = "rates" => FxInv) /\ (piece = "cycles" => CyclesInv)

LEMMA FiguresInit == PiecesInit => FiguresInv
BY FxInitInv, CyclesInitInv DEF PiecesInit, FiguresInv

LEMMA FiguresStep == FiguresInv /\ [PiecesNext]_pieceVars => FiguresInv'
<1> SUFFICES ASSUME FiguresInv, [PiecesNext]_pieceVars PROVE FiguresInv'
  OBVIOUS
<1>1. piece' = piece BY DEF PiecesNext, Rest, pieceVars
<1>2. piece = "rates" => [FxNext]_fxVars BY DEF PiecesNext, Rest, pieceVars
<1>3. piece = "cycles" => [CyclesNext]_cyclesVars BY DEF PiecesNext, Rest, pieceVars
<1>4. piece = "rates" => FxInv' BY <1>2, FxStep DEF FiguresInv
<1>5. piece = "cycles" => CyclesInv' BY <1>3, CyclesStep DEF FiguresInv
<1> QED BY <1>1, <1>4, <1>5 DEF FiguresInv

LEMMA FiguresHold == FiguresInv => FiguresAreRight
<1>1. FxInv => FxTypeOK /\ RatesAreOfTheirTime /\ CardAmountsAreOfTheirDay
  BY FxRight
<1>2. CyclesInv => CyclesTypeOK /\ ViewsAreExact
  BY CyclesViews DEF CyclesInv
<1> QED BY <1>1, <1>2 DEF FiguresInv, FiguresAreRight

(* Whichever piece runs: every rate that was used is of its time, every card *)
(* amount of its day, and every view of a cycle exact.                       *)
THEOREM FiguresAlwaysRight == PiecesSpec => []FiguresAreRight
<1> QED BY FiguresInit, FiguresStep, FiguresHold, PTL DEF PiecesSpec

(* Plans: the invariant of the piece that runs.                             *)

PlansInv ==
  /\ piece = "tools" => ToolsInv
  /\ piece = "bootstrap" => BootInv
  /\ piece \in {"migration", "inventory"} => MigrationInv
  /\ piece = "programmes" => ProfileTypeOK
  /\ piece = "corpus" => CorpusInv

LEMMA PlansInit == PiecesInit => PlansInv
BY ToolsInitInv, BootInitInv, MigrationInitInv, ProfileInitType, CorpusInitInv DEF PiecesInit, PlansInv

LEMMA PlansStep == PlansInv /\ [PiecesNext]_pieceVars => PlansInv'
<1> SUFFICES ASSUME PlansInv, [PiecesNext]_pieceVars PROVE PlansInv'
  OBVIOUS
<1>1. piece' = piece BY DEF PiecesNext, Rest, pieceVars
<1>2. piece = "tools" => [ToolsNext]_toolVars BY DEF PiecesNext, Rest, pieceVars
<1>3. piece = "bootstrap" => [BootNext]_bootVars BY DEF PiecesNext, Rest, pieceVars
<1>4. piece = "migration" => [MigrationNext \/ InventoryNext]_<<migrationVars, inventoryVars>>
  BY DEF PiecesNext, Rest, pieceVars
<1>5. piece = "inventory" => [MigrationNext \/ InventoryNext]_<<migrationVars, inventoryVars>>
  BY DEF PiecesNext, Rest, pieceVars
<1>6. piece = "programmes" => [ProfileNext]_profileVars BY DEF PiecesNext, Rest, pieceVars
<1>7. piece = "corpus" => [CorpusNext]_corpusVars BY DEF PiecesNext, Rest, pieceVars
<1>8. piece = "tools" => ToolsInv' BY <1>2, ToolsStep DEF PlansInv
<1>9. piece = "bootstrap" => BootInv' BY <1>3, BootStep DEF PlansInv
<1>10. piece \in {"migration", "inventory"} => MigrationInv' BY <1>4, <1>5, MigrationStep DEF PlansInv
<1>11. piece = "programmes" => ProfileTypeOK' BY <1>6, ProfileStepType DEF PlansInv
<1>12. piece = "corpus" => CorpusInv' BY <1>7, CorpusStep DEF PlansInv
<1> QED BY <1>1, <1>8, <1>9, <1>10, <1>11, <1>12 DEF PlansInv

LEMMA PlansHold == PlansInv => PlansAreSound
<1>1. ToolsInv => ToolsTypeOK BY DEF ToolsInv
<1>2. BootInv => BootTypeOK /\ BootstrapSettles BY BootSettled
<1>3. MigrationInv => MigrationTypeOK /\ MigrationIsFaithful BY MigrationFaithful DEF MigrationInv
<1>4. ProfileTypeOK => ProfilesAreSound BY ProfilesSound
<1>5. CorpusInv => CorpusTypeOK /\ PlansKeepTheOwnersWork BY PlansKeep DEF CorpusInv
<1> QED BY <1>1, <1>2, <1>3, <1>4, <1>5 DEF PlansInv, PlansAreSound

(* Whichever piece runs: resources settle after one bootstrap, tables are    *)
(* migrated without loss or refused, programmes are backed by evidence, and  *)
(* a plan over notes keeps what the owner wrote.                             *)
THEOREM PlansAlwaysSound == PiecesSpec => []PlansAreSound
<1> QED BY PlansInit, PlansStep, PlansHold, PTL DEF PiecesSpec
==============================================================================
