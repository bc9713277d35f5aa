-------------------------------- MODULE FxRates --------------------------------
(***************************************************************************)
(* Foreign currency purchases (finance_tracker/fx_rates.py, fx.py and      *)
(* their use in notifications.py).  Banks publish and withdraw rate pages  *)
(* while time passes; a batch of notifications is parsed with the pages of *)
(* that moment, again and again, and the conversions it returns are kept   *)
(* as traces.  Providers are for callers that name them; the server parses *)
(* without.  The card network's rates are asked for by day.                *)
(*                                                                         *)
(* Instants are small numbers, DayLength of them a day of UTC; rates have  *)
(* a scale, amounts are in the smallest unit.  A page has tables, those of *)
(* ADCB with a segment, of rows [currency, rate]; a row whose rate is None *)
(* has none.                                                               *)
(***************************************************************************)
EXTENDS Naturals, Sequences, Functions

CONSTANTS
  Chain,         \* the providers in their order
  Page,          \* for each provider, the pages it can serve
  Message,       \* notifications: [id, at, amount, currency]
  CardRequest,   \* [amount, currency, day, posted, quote]
  CardAnswer,    \* what the card network can answer: quotes or None
  None,
  DayLength, Scale,
  MaxNow, MaxPages \* bounds: instants, publications

ASSUME FxAssumption ==
  /\ MaxNow \in Nat /\ MaxPages \in Nat /\ DayLength \in Nat \ {0} /\ None \notin Nat
  /\ \A i \in DOMAIN Chain : \A page \in Page[Chain[i]] :
       page.answer = "page" =>
         /\ page.day \in Nat \cup {None} /\ page.at \in Nat \cup {None}
         /\ page.tables \in Seq(Range(page.tables))
  /\ \A m \in Message : m.at \in Nat
  /\ \A r \in CardRequest : r.day \in Nat /\ (r.quote # None => r.quote.day \in Nat)
  /\ \A answer \in CardAnswer : answer # None => answer.day \in Nat

Day(t) == t \div DayLength
HalfUp(n, d) == (2 * n + d) \div (2 * d)

VARIABLES fxNow, pages, published, traces, cardResults
fxVars == <<fxNow, pages, published, traces, cardResults>>

Provider == {Chain[i] : i \in DOMAIN Chain}

FxTypeOK ==
  /\ fxNow \in 0 .. MaxNow /\ published \in 0 .. MaxPages
  /\ \A p \in Provider : pages[p] \in Page[p]
  /\ DOMAIN traces \subseteq Message
  /\ DOMAIN cardResults \subseteq CardRequest

FxInit ==
  /\ fxNow = 0 /\ published = 0
  /\ pages \in {f \in [Provider -> UNION {Page[p] : p \in Provider}] : \A p \in Provider : f[p] \in Page[p]}
  /\ traces = <<>> /\ cardResults = <<>>

-----------------------------------------------------------------------------
(* What a page says of a currency: a set of at most one quote; empty when  *)
(* the provider is down, malformed or has no such currency.                *)

Quote(provider, row, page) ==
  [from |-> row.currency, rate |-> row.rate, day |-> page.day, at |-> page.at,
   inverse |-> FALSE, by |-> provider]

FirstRow(rows, wanted) ==
  {rows[i] : i \in {j \in DOMAIN rows : rows[j] \in wanted /\ \A k \in 1 .. j - 1 : rows[k] \notin wanted}}

\* One malformed row makes the whole page malformed.
RakbankQuotes(page, currency) ==
  LET rows == page.tables[1].rows
      own == {row \in Range(rows) : row.currency = currency}
  IN {Quote("RAKBANK", row, page) :
        row \in IF page.day # None /\ \A i \in DOMAIN rows : rows[i].rate # None
                THEN FirstRow(rows, own) ELSE {}}

\* The first table of the standard segment that has rows.
StandardRows(page) ==
  LET standard == {t \in Range(page.tables) : t.segment = "standard" /\ t.rows # <<>>}
  IN IF standard = {} THEN <<>>
     ELSE (CHOOSE t \in FirstRow(page.tables, standard) : TRUE).rows

\* Rows are tried until one is of that currency; a malformed one before it ends that.
AdcbQuotes(page, currency) ==
  LET rows == StandardRows(page)
      last == {row \in Range(rows) : row.rate = None \/ row.currency = currency}
  IN {Quote("ADCB", row, page) :
        row \in {r \in FirstRow(rows, last) : r.rate # None /\ page.day # None}}

\* The first row of that currency in any table.
FabQuotes(page, currency) ==
  LET Own(t) == {row \in Range(t.rows) : row.currency = currency}
      tables == {t \in Range(page.tables) : Own(t) # {}}
  IN {Quote("FAB", row, page) :
        row \in UNION {{r \in FirstRow(t.rows, Own(t)) : r.rate # None /\ page.day # None} :
                         t \in FirstRow(page.tables, tables)}}

Quotes(provider, currency) ==
  LET page == pages[provider]
  IN IF page.answer # "page" THEN {}
     ELSE CASE provider = "RAKBANK" -> RakbankQuotes(page, currency)
            [] provider = "ADCB" -> AdcbQuotes(page, currency)
            [] OTHER -> FabQuotes(page, currency)

\* A variant of ValidQuote: by the day only.
ValidByDay(quote, asOf) == quote.day <= Day(asOf) /\ Day(asOf) - quote.day <= 1

\* A publication time, where there is one, decides; a page with only a date is good for
\* that day and the next.
ValidQuote(quote, asOf) ==
  /\ quote.day <= Day(asOf)
  /\ IF quote.at = None THEN Day(asOf) - quote.day <= 1
     ELSE /\ quote.at <= asOf /\ asOf - quote.at <= DayLength
          /\ quote.day >= Day(quote.at)

\* A challenge stops the chain, any other failure moves on to the next provider.
Challenged(provider) == pages[provider].answer = "challenge"
ResolvedRate(currency, asOf) ==
  LET answering ==
        {p \in Range(Chain) : Challenged(p) \/ \E q \in Quotes(p, currency) : ValidQuote(q, asOf)}
  IN UNION {IF Challenged(p) THEN {} ELSE Quotes(p, currency) : p \in FirstRow(Chain, answering)}

Aed(amount, quote) ==
  IF quote.inverse THEN HalfUp(amount * Scale, quote.rate) ELSE HalfUp(amount * quote.rate, Scale)

Conversion(m, quotes) ==
  {[aed |-> Aed(m.amount, q), quote |-> q] :
     q \in {p \in quotes : ValidQuote(p, m.at) /\ p.from = m.currency /\ Aed(m.amount, p) > 0}}

-----------------------------------------------------------------------------
\* The traces stored with the events of these notifications.
Replay(batch) == [m \in batch \cap DOMAIN traces |-> traces[m]]

\* With a trace no provider is asked, and the amount has to be the same again.
Converted(m, replay) ==
  IF m \in DOMAIN replay
  THEN {c \in Conversion(m, {replay[m].quote}) : c.aed = replay[m].aed}
  ELSE Conversion(m, ResolvedRate(m.currency, m.at))

\* Without providers a notification that has no trace is skipped; any other one that cannot
\* be converted fails the batch.
ParseBatch(batch, replay, asks) ==
  LET converting == {m \in batch : asks \/ m \in DOMAIN replay}
  IN /\ \A m \in batch : m.at <= fxNow
     /\ \A m \in converting : Converted(m, replay) # {}
     /\ traces' = [m \in DOMAIN traces \cup converting |->
                     IF m \in converting THEN CHOOSE c \in Converted(m, replay) : TRUE ELSE traces[m]]
     /\ UNCHANGED <<fxNow, pages, published, cardResults>>

\* The server, which gives no providers, and a caller that gives them.
ParseOutlookBatch(batch) == ParseBatch(batch, Replay(batch), FALSE)
ParseWithProviders(batch) == ParseBatch(batch, Replay(batch), TRUE)

PublishPage(p, page) ==
  /\ published < MaxPages /\ pages[p] # page
  /\ pages' = [pages EXCEPT ![p] = page] /\ published' = published + 1
  /\ UNCHANGED <<fxNow, traces, cardResults>>

PassTime ==
  /\ fxNow < MaxNow /\ fxNow' = fxNow + 1
  /\ UNCHANGED <<pages, published, traces, cardResults>>

-----------------------------------------------------------------------------
(* fx.py: the amount the bank posted, else the quote that was recorded,    *)
(* else the card network's.  A recorded quote that is not valid is an      *)
(* error, it is not replaced.                                              *)

CardValid(quote, request) ==
  /\ quote.from = request.currency
  /\ quote.day <= Day(fxNow) /\ quote.day <= request.day /\ request.day - quote.day <= 1

CardConversion(request, answer) ==
  IF request.posted # None
  THEN {[aed |-> request.posted, status |-> "POSTED", quote |-> request.quote]}
  ELSE IF request.currency = "AED"
  THEN {[aed |-> request.amount, status |-> "POSTED", quote |-> None]}
  ELSE LET quote == IF request.quote # None THEN request.quote ELSE answer
       IN IF quote = None \/ (quote # None /\ ~CardValid(quote, request)) THEN {}
          ELSE {c \in {[aed |-> HalfUp(request.amount * quote.rate, Scale), status |-> "ESTIMATED",
                        quote |-> quote]} : c.aed > 0}

ConvertCard(request, answer) ==
  /\ request.day <= Day(fxNow)
  /\ \E c \in CardConversion(request, answer) :
       cardResults' = [r \in DOMAIN cardResults \cup {request} |->
                         IF r = request THEN c ELSE cardResults[r]]
  /\ UNCHANGED <<fxNow, pages, published, traces>>

FxNext ==
  \/ PassTime
  \/ \E p \in Provider : \E page \in Page[p] : PublishPage(p, page)
  \/ \E batch \in SUBSET Message : batch # {} /\ (ParseOutlookBatch(batch) \/ ParseWithProviders(batch))
  \/ \E r \in CardRequest, a \in CardAnswer : ConvertCard(r, a)

FxSpec == FxInit /\ [][FxNext]_fxVars

-----------------------------------------------------------------------------
\* No rate of another segment than a customer gets, no rate that was published after the
\* purchase or more than a day before it, and what was converted once converts again to
\* the same amount whatever the pages say by then.  Of a page that says only its date the
\* day is all that is known: it may be of later that day, or of early the day before.
RatesAreOfTheirTime ==
  \A m \in DOMAIN traces :
    LET q == traces[m].quote
    IN /\ q.by = "ADCB" => \E page \in Page["ADCB"] : \E t \in DOMAIN page.tables :
            /\ page.tables[t].segment = "standard"
            /\ \E i \in DOMAIN page.tables[t].rows : page.tables[t].rows[i].rate = q.rate
       /\ q.at # None => q.at <= m.at /\ m.at - q.at <= DayLength
       /\ q.at = None => DayLength * q.day <= m.at /\ m.at < DayLength * (q.day + 2)
       /\ Converted(m, Replay({m})) = {traces[m]}

\* What the bank posted is what counts, and an estimate is never of a later day than the
\* purchase.
CardAmountsAreOfTheirDay ==
  \A r \in DOMAIN cardResults :
    LET c == cardResults[r]
    IN /\ r.posted # None => c.status = "POSTED" /\ c.aed = r.posted
       /\ c.status = "ESTIMATED" =>
            /\ c.quote.day \in {r.day, r.day - 1}
            /\ r.quote # None => c.quote = r.quote
==============================================================================
