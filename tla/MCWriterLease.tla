--------------------------- MODULE MCWriterLease ---------------------------
(***************************************************************************)
(* Model-checking instance of WriterLease: three executions, a handful of  *)
(* tokens, executions interchangeable.  Around it, the pieces that share   *)
(* no state with it or with each other: the initial state chooses one,     *)
(* that piece runs by itself and the others stay as they are.              *)
(***************************************************************************)
EXTENDS WriterLease, LedgerTools, Bootstrap, TableMigration, FxRates, Enrichment,
        TransferMatcher, StatementCycles, CardRouting, ProgramVersions, CorpusMigration,
        BrowserReview, TLC

CONSTANTS r1, r2, r3

MCRunner == {r1, r2, r3}
RunnerSymmetry == Permutations(MCRunner)

\* Ledger tools: a row of each kind that a tool may meet.
PiecesLedgers ==
  {[x |-> a, y |-> "drift", z |-> "managed"] : a \in {"managed", "drift", "split one"}}
    \cup {[x |-> "managed", y |-> "split one", z |-> "drift"]}

\* Bootstrap: a budget that has drifted; a configuration that closes an account and retires
\* a schedule it also defines.
BookRule(text, stage) == [text |-> text, stage |-> stage]
Planned(owner, name, terms, enabled) ==
  [owner |-> owner, name |-> name, terms |-> terms, enabled |-> enabled]
PiecesBootConfig ==
  {[accounts |-> {[name |-> "A", aliases |-> {"B"}, closed |-> FALSE, allowed |-> TRUE]},
    retiredAccounts |-> {"C"}, names |-> {"t"},
    rules |-> {BookRule("x", "pre")}, retiredRules |-> {BookRule("y", "pre")},
    migrations |-> {<<"post", "pre">>},
    schedules |-> {Planned("s", "S", 2, TRUE), Planned("u", "U", 1, FALSE)}, retiredSchedules |-> {"v"}],
   [accounts |-> {[name |-> "A", aliases |-> {}, closed |-> TRUE, allowed |-> TRUE],
                  [name |-> "B", aliases |-> {}, closed |-> FALSE, allowed |-> FALSE]},
    retiredAccounts |-> {}, names |-> {},
    rules |-> {BookRule("x", "pre")}, retiredRules |-> {}, migrations |-> {<<"pre", "post">>},
    schedules |-> {Planned("s", "S", 2, TRUE)}, retiredSchedules |-> {"s"}],
   [accounts |-> {}, retiredAccounts |-> {"B", "C"}, names |-> {"t"}, rules |-> {}, retiredRules |-> {},
    migrations |-> {}, schedules |-> {Planned("s", "S", 2, TRUE)}, retiredSchedules |-> {"old"}]}
PiecesBudgets ==
  {[accounts |-> {}, names |-> {}, rules |-> {}, schedules |-> {}],
   [accounts |-> {[id |-> 1, name |-> "B", closed |-> FALSE, empty |-> TRUE],
                  [id |-> 2, name |-> "C", closed |-> FALSE, empty |-> TRUE]},
    names |-> {},
    rules |-> {[id |-> 1, rule |-> BookRule("x", "post")], [id |-> 2, rule |-> BookRule("y", "pre")]},
    schedules |-> {[id |-> 1, owner |-> "s", name |-> "old", terms |-> 2],
                   [id |-> 2, owner |-> "v", name |-> "V", terms |-> 1],
                   [id |-> 3, owner |-> "none", name |-> "M", terms |-> 1]}]}

\* Table migration: rows that race for one identity, in three groups of tables.
Out(imported, id, state, at, period) ==
  [imported |-> imported, id |-> id, state |-> state, at |-> at, file |-> "F", period |-> period]
Seen(outbox, version, sha, file, readable) ==
  [outbox |-> outbox, version |-> version, sha |-> sha, file |-> file, readable |-> readable]
Told(period, version, sha) == [period |-> period, version |-> version, sha |-> sha]
Got(code, run, counts, at, confirmed) ==
  [source |-> code, run |-> run, counts |-> counts, at |-> at, verified |-> confirmed]
Filed(sha, mail, code, at) == [sha |-> sha, mail |-> mail, code |-> code, at |-> at]
Work(sha, mail, profile, at, legacy) ==
  [sha |-> sha, mail |-> mail, profile |-> profile, code |-> "S", at |-> at, legacy |-> legacy]
OldRows ==
  [outbox |-> {Out("i", "a", "PREPARED", 3, "p"), Out("i", "a", "COMMITTED", 4, "p"),
               Out("i", "b", "VERIFIED", 5, "p"), Out("j", "c", "COMMITTED", 4, "p"), Out("j", "b", "FAILED", 4, "q")},
   verification |-> {Seen("a", 1, "s1", "F", TRUE), Seen("a", 2, "s2", "F", TRUE), Seen("a", 2, "s3", "F", FALSE),
                     Seen("c", 1, "s4", "F", TRUE), Seen("b", 1, "s5", "G", TRUE)},
   reconciliation |-> {Told("p", 1, "s1"), Told("p", 2, "s4"), Told("p", 2, "s2"), Told("q", 1, "s5")},
   cursor |-> {[source |-> "S", run |-> 1, counts |-> 1], [source |-> "S", run |-> 2, counts |-> 2]},
   receipt |-> {Got("S", 1, 1, 1, TRUE), Got("S", 1, 2, 3, TRUE), Got("S", 1, 1, 2, FALSE),
                Got("S", 2, 2, 2, TRUE), Got("T", 1, 1, 1, TRUE)},
   archive |-> {Filed("x", "m", "S", 1), Filed("x", "m", "T", 1), Filed("y", "n", "S", 2)},
   operation |-> {Work("x", "m", "u", 1, Null), Work("x", "m", "w", 1, Null),
                  Work("y", Null, "u", 3, "old"), Work("x", Null, "u", 3, "old")}]
PiecesSourceRows ==
  {[table \in DOMAIN OldRows |-> IF table \in some THEN OldRows[table] ELSE {}] :
     some \in {{"outbox", "verification", "reconciliation"}, {"cursor", "receipt"}, {"archive", "operation"}}}
PiecesLegacyIdentity == [l \in {"old"} |-> <<"PROCESSING_ONLY", "y", "u">>]
PiecesInventory == {[run |-> 1, bytes |-> "b"], [run |-> 1, bytes |-> "c"], [run |-> 2, bytes |-> "b"]}

\* Rates: three providers; pages that are late, challenged, down, of another segment.
Quoted(currency, rate) == [currency |-> currency, rate |-> rate]
Table(segment, quotes) == [segment |-> segment, rows |-> quotes]
Shown(on, at, found) == [answer |-> "page", day |-> on, at |-> at, tables |-> found]
NotShown(answer) == [answer |-> answer, day |-> None, at |-> None, tables |-> <<>>]
PiecesChain == <<"RAKBANK", "ADCB", "FAB">>
PiecesPage ==
  [RAKBANK |-> {Shown(0, 1, <<Table("x", <<Quoted("USD", 37), Quoted("EUR", 43)>>)>>),
                Shown(1, 3, <<Table("x", <<Quoted("EUR", 44), Quoted("USD", None)>>)>>),
                Shown(1, 3, <<Table("x", <<Quoted("USD", 38)>>)>>)},
   ADCB |-> {Shown(0, None, <<Table("premium", <<Quoted("USD", 35)>>),
                              Table("standard", <<Quoted("EUR", 45), Quoted("USD", 39)>>)>>),
             Shown(1, None, <<Table("standard", <<Quoted("USD", 36), Quoted("GBP", None), Quoted("EUR", 46)>>)>>),
             NotShown("challenge"), NotShown("down")},
   FAB |-> {NotShown("down"), Shown(1, None, <<Table("x", <<Quoted("GBP", None), Quoted("EUR", 47)>>)>>)}]
PiecesMessage ==
  {[id |-> 1, at |-> 2, amount |-> 5, currency |-> "USD"], [id |-> 2, at |-> 3, amount |-> 5, currency |-> "EUR"]}
CardQuote(rate, on) ==
  [from |-> "USD", rate |-> rate, day |-> on, at |-> None, inverse |-> FALSE, by |-> "card"]
Spending(on, posted, quote) ==
  [amount |-> 5, currency |-> "USD", day |-> on, posted |-> posted, quote |-> quote]
PiecesCardRequest ==
  {Spending(1, None, None), Spending(1, 18, CardQuote(37, 0)), Spending(1, None, CardQuote(37, 2)),
   Spending(2, None, CardQuote(36, 1))}
PiecesCardAnswer == {None, CardQuote(37, 0), CardQuote(40, 2)}

\* Enrichment: rows of each kind, rules of each stage, four policies.
Staged(type, direction, text, review) ==
  [type |-> type, direction |-> direction, text |-> text, review |-> review, vendor |-> "", category |-> "",
   channel |-> "UNKNOWN", property |-> "", unit |-> "", evidence |-> "", tags |-> {}, locked |-> {}]
PiecesSourceRow ==
  {Staged("PURCHASE", "DEBIT", "shop", FALSE), Staged("PURCHASE", "DEBIT", "shop", TRUE),
   Staged("PURCHASE", "CREDIT", "shop", FALSE), Staged("PAYMENT", "", "card payment", FALSE),
   Staged("PURCHASE", "DEBIT", "fee", FALSE), Staged("REWARD_CREDIT", "CREDIT", "shop", FALSE),
   Staged("CREDIT", "CREDIT", "reversal", FALSE), Staged("CREDIT", "DEBIT", "shop", FALSE),
   Staged("PURCHASE", "DEBIT", "investment", FALSE), Staged("PURCHASE", "", "investment", FALSE)}
When(field, values) == {{[field |-> field, in |-> values]}}
Set(field, value) == [do |-> "set", field |-> field, value |-> value]
StagedRule(id, stage, priority, when, actions, stop) ==
  [id |-> id, stage |-> stage, priority |-> priority, when |-> when, actions |-> actions, stop |-> stop]
Normalizing == StagedRule(1, 1, 10, When("text", {"shop"}), <<Set("vendor", "v")>>, TRUE)
Classifying ==
  StagedRule(2, 3, 20, When("vendor", {"v"}), <<Set("category", "power"), Set("type", "INCOME")>>, TRUE)
Feeding ==
  StagedRule(3, 3, 20, When("type", {"PURCHASE", "REFUND"}),
             <<Set("category", "food"), [do |-> "set_if_empty", field |-> "channel", value |-> "pos"]>>, FALSE)
Tagging ==
  StagedRule(4, 4, 5, When("category", {"food", "power"}),
             <<[do |-> "add_tag", value |-> "home"], Set("review", FALSE),
               [do |-> "remove_tag", value |-> "refund"]>>, TRUE)
Reviewing ==
  StagedRule(5, 6, 5, When("tags", {"home"}), <<Set("channel", "pos"), [do |-> "require_review"]>>, TRUE)
Retyping == StagedRule(6, 1, 5, When("text", {"fee"}), <<Set("type", "INCOME")>>, TRUE)
PiecesRuleBook ==
  {{Normalizing}, {Normalizing, Classifying, Tagging}, {Normalizing, Feeding, Tagging, Classifying},
   {Reviewing, Tagging, Classifying, Retyping}}
PiecesHistory == {<<>>, [values |-> [channel |-> "online", category |-> "power"], tags |-> {"home"}]}
Asking(id, priority, when, targets, triggers, values, tags) ==
  [id |-> id, priority |-> priority, when |-> when, targets |-> targets, triggers |-> triggers,
   values |-> values, tags |-> tags]
PiecesPolicy ==
  {Asking("classify", 10, When("type", {"PURCHASE"}), {"vendor", "category", "tags"}, {"category"},
          [category |-> {"food", "power"}], {"home", "rental:u1", "rental:u2"}),
   Asking("recommend", 15, When("category", {""}), {"recommendation"}, {"recommendation"}, <<>>, {}),
   Asking("property", 30, When("category", {"power"}), {"property", "unit", "tags"}, {"property", "unit"},
          [unit |-> {"u1", "u2"}, property |-> {"p1", "p2", "p3"}], {"review"}),
   Asking("channel", 50, {}, {"channel", "evidence"}, {"channel", "evidence"}, <<>>, {})}
Says(field, value, sure) == [field |-> field, value |-> value, sure |-> sure]
PiecesResponse ==
  [classify |-> {<<Says("category", "power", TRUE), Says("category", "food", TRUE)>>,
                 <<Says("tags", "rental:u1", TRUE), Says("tags", "home", TRUE), Says("category", "power", FALSE)>>,
                 <<Says("category", "odd", TRUE)>>},
   recommend |-> {<<>>, <<Says("recommendation", "x", TRUE)>>},
   property |-> {<<Says("property", "p1", TRUE)>>, <<Says("property", "p1", TRUE), Says("unit", "u2", TRUE)>>,
                 <<Says("property", "p3", TRUE)>>, <<Says("tags", "review", TRUE), Says("unit", "u2", TRUE)>>},
   channel |-> {<<Says("channel", "online", TRUE), Says("evidence", "search", TRUE)>>, <<Says("amount", "1", TRUE)>>}]
PiecesProperty ==
  {[code |-> "p1", unit |-> "u1", kind |-> "RENTAL", tags |-> {"rental", "rental:u1"}],
   [code |-> "p2", unit |-> "u2", kind |-> "RENTAL", tags |-> {"rental", "rental:u2"}],
   [code |-> "p3", unit |-> "", kind |-> "OWNER_OCCUPIED", tags |-> {"home"}]}

\* Transfers: one debit, a credit that fits it, and the same credit seen twice, once linked.
Observed(id, by, account, actual, made, direction, type, tags, on) ==
  [id |-> id, source |-> by, account |-> account, actual |-> actual, imported |-> "absent",
   transaction |-> made, direction |-> direction, signed |-> 0, type |-> type, tags |-> tags, refund |-> FALSE,
   amount |-> 5, original |-> "absent", currency |-> "AED", day |-> on, reference |-> "absent",
   counterparty |-> "absent", link |-> "absent", locked |-> {}]
OutOfAccount == Observed("o1", "actual", "A", "t1", "x1", "DEBIT", "TRANSFER", {}, 1)
IntoCard == Observed("o2", "actual", "B", "t2", "x2", "CREDIT", "PAYMENT", {"card-payment"}, 2)
SeenAgain == [IntoCard EXCEPT !.id = "o4", !.source = "statement"]
PiecesObservation == {OutOfAccount, IntoCard, SeenAgain, [SeenAgain EXCEPT !.link = "t1"]}

\* Statement cycles: a close day that changes, a mail with its days and without, one that
\* comes late, two stored periods that overlap.
PiecesMonthStart == <<0, 4, 7, 11, 14, 17>>
PiecesVersion == {[from |-> 4, close |-> 2], [from |-> 9, close |-> 3]}
PiecesNoDay == 0 - 1
PiecesMail ==
  {[id |-> "m1", received |-> 6, first |-> 2, last |-> 5],
   [id |-> "m1", received |-> 6, first |-> PiecesNoDay, last |-> PiecesNoDay],
   [id |-> "m2", received |-> 9, first |-> 6, last |-> 8]}
PiecesCardPeriod == {[start |-> 12, end |-> 18], [start |-> 11, end |-> 17]}

\* Routing: a card with a target and a filler bucket, and one without a target that names its
\* tier, takes a fee abroad and rounds down; profiles whose routes repeat a way to pay.
PiecesUnlimited == 0 - 1
PayBucket(code, categories, channels, currency, cap) ==
  [code |-> code, categories |-> categories, channels |-> channels, currency |-> currency,
   without |-> {}, cap |-> cap, spendCap |-> PiecesUnlimited, fallback |-> FALSE,
   assign |-> [categories |-> categories, channels |-> channels, currency |-> currency]]
PayTier(minimum, rates, caps) == [minimum |-> minimum, rates |-> rates, caps |-> caps]
PiecesCardProgram ==
  {[card |-> 1, target |-> 3, aim |-> PiecesUnlimited, fx |-> 0, floor |-> FALSE, priority |-> 20,
    verified |-> TRUE, live |-> TRUE, weekly |-> TRUE,
    tiers |-> {PayTier(0, [c \in {"s"} |-> 1], [c \in {"s"} |-> 1]),
               PayTier(2, [c \in {"g", "s"} |-> IF c = "g" THEN 10 ELSE 1], [c \in {"g"} |-> 20])},
    buckets |-> <<PayBucket("g", {"GROCERY"}, {}, "any", PiecesUnlimited),
                  [PayBucket("s", {}, {}, "any", 3) EXCEPT !.fallback = TRUE]>>],
   [card |-> 2, target |-> PiecesUnlimited, aim |-> 2, fx |-> 3, floor |-> TRUE, priority |-> 10,
    verified |-> TRUE, live |-> TRUE, weekly |-> TRUE,
    tiers |-> {PayTier(0, [c \in {"o"} |-> 5], [c \in {"o"} |-> 10]),
               PayTier(2, [c \in {"o"} |-> 10], [c \in {"o"} |-> 40])},
    buckets |-> <<[PayBucket("o", {}, {"ONLINE"}, "any", PiecesUnlimited) EXCEPT !.without = {"FUEL"}],
                  [PayBucket("f", {}, {"POS"}, "base", PiecesUnlimited) EXCEPT !.spendCap = 3]>>]}
Way(card, bucket, channel, policy, priority) ==
  [card |-> card, bucket |-> bucket, channel |-> channel, policy |-> policy, priority |-> priority]
PiecesRouteProfile ==
  {[category |-> "GROCERY", foreign |-> FALSE,
    routes |-> <<Way(1, "g", "POS", "bucket", 10), Way(2, "o", "ONLINE", "reward", 30), Way(1, "s", "POS", "filler", 40),
                 Way(1, "g", "POS", "filler", 20), Way(2, "f", "POS", "fallback", 50)>>],
   [category |-> "GENERAL", foreign |-> TRUE,
    routes |-> <<Way(2, "o", "ONLINE", "reward", 10), Way(1, "s", "POS", "filler", 20), Way(1, "s", "POS", "fallback", 30)>>]}
Needs(checks, groups) == [needs |-> checks, paceIn |-> {}, paceNot |-> {}, groups |-> groups]
PiecesRoutePolicy ==
  [bucket |-> Needs({"bucket_open", "target_rate_positive"}, [x \in {"*"} |-> 0]),
   reward |-> Needs({"bucket_open", "net_value_positive"},
                    [x \in {"UNDER", "OVER", "*"} |-> CASE x = "UNDER" -> 1 [] x = "OVER" -> 3 [] OTHER -> 2]),
   filler |-> Needs({"bucket_open", "target_unmet"}, [x \in {"UNDER", "*"} |-> IF x = "UNDER" THEN 2 ELSE 5]),
   fallback |-> [Needs({"bucket_open", "target_met"}, [x \in {"*"} |-> 6]) EXCEPT !.paceNot = {"UNDER"}]]
Paying(category, channel, foreign, amount) ==
  [category |-> category, channel |-> channel, foreign |-> foreign, amount |-> amount]
PiecesPayIntent ==
  {Paying("GROCERY", "POS", FALSE, 2), Paying("GROCERY", "ONLINE", FALSE, 1),
   Paying("GENERAL", "POS", TRUE, 1), Paying("FUEL", "UNKNOWN", FALSE, 1)}

\* Programmes: versions that are announced, that overlap, that leave out a claim; authority
\* whose evidence ends, and whose claim ends.
OneTier == {[code |-> 1, rates |-> {"g"}, caps |-> {}]}
PlainBucket(code) == [code |-> code, capped |-> FALSE, excluded |-> {}]
Believed(card, from, to, buckets, claims, references) ==
  [card |-> card, from |-> from, to |-> to, authoritative |-> FALSE, claims |-> claims, references |-> references,
   tiers |-> OneTier, buckets |-> {PlainBucket(code) : code \in buckets}, targetTier |-> 1]
Attested(from, to, claims, references) ==
  [Believed(1, from, to, {"g"}, claims, references) EXCEPT !.authoritative = TRUE]
AllPaths == {<<"PROGRAMME">>, <<"TIER", 1>>, <<"RATE", 1, "g">>}
Claimed(paths, from, to, ids) == {[path |-> p, from |-> from, to |-> to, ids |-> ids] : p \in paths}
Source(id, from, to, fixture) ==
  [id |-> id, authoritative |-> TRUE, from |-> from, to |-> to, fixture |-> fixture]
Hearsay(from) == {[Source(1, from, NoDate, "a") EXCEPT !.authoritative = FALSE]}
BeforeDayThree == Believed(1, 1, 2, {"g", "h"}, {}, Hearsay(NoDate))
Deployment(versions) ==
  [versions |-> versions, policies |-> {"filler"}, routes |-> {[card |-> 1, bucket |-> "g", policy |-> "filler"]}]
PiecesProfile ==
  {Deployment(v) : v \in
     {{BeforeDayThree, Believed(1, 3, NoDate, {"g"}, Claimed({<<"PROGRAMME">>}, 3, NoDate, {1}), Hearsay(3))},
      {Attested(1, 2, Claimed(AllPaths, 1, 2, {1}), {Source(1, 1, 2, "a")}),
       Attested(3, NoDate, Claimed(AllPaths, 3, NoDate, {1, 2}), {Source(1, 3, 4, "a"), Source(2, 2, NoDate, "b")})},
      {Attested(1, NoDate, Claimed(AllPaths, 1, NoDate, {1}), {Source(1, 1, 3, "a")})},
      {Attested(1, NoDate, Claimed(AllPaths, 1, 2, {1}), {Source(1, 1, NoDate, "a")})},
      {Believed(1, 1, NoDate, {"g"}, Claimed({<<"PROGRAMME">>}, 3, NoDate, {1}), Hearsay(1))},
      {Believed(1, 1, 3, {"g"}, {}, {}), Attested(4, 5, Claimed(AllPaths, 4, 5, {1}), {Source(1, 4, 4, "a")})},
      {BeforeDayThree, Believed(1, 2, 4, {"g"}, {}, {}), Believed(2, 1, NoDate, {"g"}, {}, {})},
      {Attested(1, NoDate, Claimed(AllPaths \ {<<"TIER", 1>>}, 1, NoDate, {1}), {Source(1, 1, NoDate, "a")})}}}

\* Notes: manifests of each topic, one with a repeated identity; rows with old notes, a
\* repeated identity and another sign; owners who write loose text and foreign documents.
Note(tags, details, loose, fields, tidy) ==
  [tags |-> tags, details |-> details, loose |-> loose, fields |-> fields, tidy |-> tidy]
NoNote == Note({}, {}, {}, {}, TRUE)
OldNote == Note({"primary", "trip", "refund"}, {<<"Doc", "bill">>}, {"lunch"}, {"source"}, FALSE)
Manifest(id, card, amount, category, says, topic) ==
  [id |-> id, card |-> card, amount |-> amount, category |-> category, says |-> says, topic |-> topic, note |-> OldNote]
Booked(key, id, amount, category, note) ==
  [key |-> key, id |-> id, amount |-> amount, category |-> category, note |-> note, structural |-> FALSE]
PiecesCorpora ==
  {{Manifest("a", FALSE, 5, "Shopping", {}, ""), Manifest("b", FALSE, 2, "", {"amazon credit"}, ""),
    Manifest("c", TRUE, -3, "Dining", {"fee"}, "")},
   {Manifest("a", TRUE, 5, "Needs Review", {"reward", "amazon credit"}, ""), Manifest("b", FALSE, 2, "Salary", {"salary"}, ""),
    Manifest("c", TRUE, -3, "Transfers", {"transfer"}, "")},
   {Manifest("a", FALSE, 5, "Dining", {"reversal"}, "REWARD"), Manifest("b", FALSE, 2, "", {"salary"}, "INCOME"),
    Manifest("c", FALSE, -3, "", {}, "PAYMENT")},
   {Manifest("a", FALSE, 5, "Dining", {}, ""), Manifest("a", FALSE, 5, "", {}, "")}}
PiecesBookedRows ==
  {{Booked(1, "a", 5, "Shopping", OldNote), Booked(2, "b", 2, "", NoNote),
    Booked(3, "c", -3, "Dining", Note({}, {}, {"x"}, {}, FALSE)), Booked(4, "", 7, "Gifts", OldNote)},
   {Booked(1, "a", 5, "Cashback & Rewards", Note({"refund"}, {}, {}, {}, TRUE)), Booked(2, "a", 5, "Dining", NoNote),
    Booked(3, "c", 3, "Dining", NoNote)}}
PiecesForeignDoc == {<<"Doc", "elsewhere">>}
PiecesOwnerNote == {Note({"trip"}, {}, {"call"}, {}, FALSE), Note({}, {<<"Doc", "elsewhere">>}, {}, {}, FALSE)}

-----------------------------------------------------------------------------
\* Captures: visible rows in both orders, a statement that ties as a card's, one that names
\* the wrong convention, a snapshot and a document.
Row(on, text, amount, direction, type, doubts) ==
  [day |-> on, text |-> text, amount |-> amount, direction |-> direction, type |-> type, doubts |-> doubts]
Scrolled ==
  <<Row(1, "shop", 5, "DEBIT", "", {}), Row(3, "shop", 5, "DEBIT", "", {}),
    Row(4, "shop", 5, "CREDIT", "", {}), Row(5, "shop", 5, "CREDIT", "", {})>>
NoBalances == [opening |-> 0, closing |-> 0, convention |-> "", reference |-> FALSE]
Doc(id, kind, method, statement, rows) ==
  [id |-> id, kind |-> kind, method |-> method, statement |-> statement, rows |-> rows]
Listed == <<Row(1, "shop", 5, "DEBIT", "", {}), Row(2, "shop", 2, "CREDIT", "REFUND", {})>>
PiecesBrowserDoc ==
  {Doc("scroll", "TRANSACTION_ROWS", "VISIBLE_ROWS", NoBalances, Scrolled),
   Doc("newest", "TRANSACTION_ROWS", "OFFICIAL_EXPORT", NoBalances, Reverse(Scrolled)),
   Doc("pair", "TRANSACTION_ROWS", "VISIBLE_ROWS", NoBalances,
       <<Row(3, "shop", 5, "CREDIT", "", {}), Row(2, "shop", 5, "DEBIT", "", {}),
         Row(3, "salary", 9, "CREDIT", "", {}), Row(3, "gift", 1, "CREDIT", "PURCHASE", {})>>),
   Doc("twice", "TRANSACTION_ROWS", "STATEMENT_DOWNLOAD", NoBalances,
       <<Row(1, "gift", 5, "DEBIT", "", {}), Row(2, "gift", 5, "CREDIT", "", {}),
         Row(3, "gift", 5, "CREDIT", "", {}), Row(3, "inward", 5, "CREDIT", "", {})>>),
   Doc("card", "STATEMENT_ROWS", "OFFICIAL_EXPORT",
       [opening |-> 10, closing |-> 13, convention |-> "", reference |-> TRUE], Listed),
   Doc("asset", "STATEMENT_ROWS", "OFFICIAL_EXPORT",
       [opening |-> 10, closing |-> 7, convention |-> "ASSET", reference |-> TRUE],
       Append(Tail(Listed), Row(1, "shop", 5, "DEBIT", "", {"SOURCE_REVIEW_REQUIRED"}))),
   Doc("screen", "STATEMENT_ROWS", "VISIBLE_ROWS",
       [opening |-> 10, closing |-> 13, convention |-> "LIABILITY", reference |-> TRUE], Listed),
   Doc("snapshot", "ACCOUNT_SNAPSHOT", "ACCOUNT_OVERVIEW", NoBalances, <<>>),
   Doc("document", "STATEMENT_PDF", "STATEMENT_DOWNLOAD", NoBalances, <<>>)}
PiecesBrowserRules ==
  [shop |-> [type |-> "", category |-> "food"], salary |-> [type |-> "INCOME", category |-> "wages"],
   inward |-> [type |-> "TRANSFER", category |-> "Needs Review"], gift |-> [type |-> "", category |-> "gifts"]]
PiecesAccountTypes == {<<>>, <<"credit">>, <<"checking">>, <<"credit", "checking">>}

VARIABLE piece

pieceVars == <<piece, leaseVars, toolVars, bootVars, migrationVars, inventoryVars, fxVars, enrichVars,
               matchVars, cyclesVars, routingVars, profileVars, corpusVars, portalVars>>

Piece == {"lease", "tools", "bootstrap", "migration", "inventory", "rates", "enrichment",
          "transfers", "cycles", "routing", "programmes", "corpus", "browser"}

\* A piece that does not run has one initial state.
OnlyFirst(set, value) == value = CHOOSE x \in set : TRUE
ToolsOff == OnlyFirst(LedgerStart, ledger)
BootOff == OnlyFirst(BootConfig, config) /\ accountRows = {} /\ bookRules = {}
MigrationOff == OnlyFirst(SourceRows, writable)
FxOff == \A p \in Provider : OnlyFirst(Page[p], pages[p])
EnrichOff == OnlyFirst(SourceRow, row) /\ past = <<>> /\ OnlyFirst(RuleBook, rules)
RoutingOff == heldCards = {}
ProfileOff == OnlyFirst(Profile, deployed)
PortalOff == OnlyFirst(BrowserDoc, portalDoc) /\ OnlyFirst(AccountTypes, accountTypes)
CorpusOff == OnlyFirst(Corpora, corpus) /\ OnlyFirst(BookedRows, booked)

PiecesInit ==
  /\ piece \in Piece
  /\ LeaseInit /\ MatchInit /\ CyclesInit
  /\ ToolsInit /\ (piece = "tools" \/ ToolsOff)
  /\ BootInit /\ (piece = "bootstrap" \/ BootOff)
  /\ MigrationInit /\ (piece = "migration" \/ MigrationOff)
  /\ FxInit /\ (piece = "rates" \/ FxOff)
  /\ EnrichInit /\ (piece = "enrichment" \/ EnrichOff)
  /\ RoutingInit /\ (piece = "routing" \/ RoutingOff)
  /\ ProfileInit /\ (piece = "programmes" \/ ProfileOff)
  /\ CorpusInit /\ (piece = "corpus" \/ CorpusOff)
  /\ PortalInit /\ (piece = "browser" \/ PortalOff)

\* All but one piece stay as they are.
Rest(p) ==
  /\ UNCHANGED piece
  /\ p # "lease" => UNCHANGED leaseVars
  /\ p # "tools" => UNCHANGED toolVars
  /\ p # "bootstrap" => UNCHANGED bootVars
  /\ p # "migration" => UNCHANGED migrationVars
  /\ p # "inventory" => UNCHANGED inventoryVars
  /\ p # "rates" => UNCHANGED fxVars
  /\ p # "enrichment" => UNCHANGED enrichVars
  /\ p # "transfers" => UNCHANGED matchVars
  /\ p # "cycles" => UNCHANGED cyclesVars
  /\ p # "routing" => UNCHANGED routingVars
  /\ p # "programmes" => UNCHANGED profileVars
  /\ p # "corpus" => UNCHANGED corpusVars
  /\ p # "browser" => UNCHANGED portalVars

PiecesNext ==
  \/ piece = "lease" /\ LeaseNext /\ Rest("lease")
  \/ piece = "tools" /\ ToolsNext /\ Rest("tools")
  \/ piece = "bootstrap" /\ BootNext /\ Rest("bootstrap")
  \/ piece = "migration" /\ MigrationNext /\ Rest("migration")
  \/ piece = "inventory" /\ InventoryNext /\ Rest("inventory")
  \/ piece = "rates" /\ FxNext /\ Rest("rates")
  \/ piece = "enrichment" /\ EnrichNext /\ Rest("enrichment")
  \/ piece = "transfers" /\ MatchNext /\ Rest("transfers")
  \/ piece = "cycles" /\ CyclesNext /\ Rest("cycles")
  \/ piece = "routing" /\ RoutingNext /\ Rest("routing")
  \/ piece = "programmes" /\ ProfileNext /\ Rest("programmes")
  \/ piece = "corpus" /\ CorpusNext /\ Rest("corpus")
  \/ piece = "browser" /\ PortalNext /\ Rest("browser")

PiecesSpec == PiecesInit /\ [][PiecesNext]_pieceVars

-----------------------------------------------------------------------------
\* Decisions do not depend on who comes first: one execution at most is remembered for a
\* token of the lease, the fields of a row are decided in the order of their authority and
\* only where they may be, a pair of transfer rows is the same from both of its sides, and a
\* credit of a capture has one purchase whatever else the capture lists.
DecisionsAgree ==
  CASE piece = "lease" -> LeaseInv
    [] piece = "enrichment" -> EnrichTypeOK /\ DecisionsAreOrdered
    [] piece = "transfers" -> MatchTypeOK /\ PairsAreMutual
    [] piece = "browser" -> PortalTypeOK /\ ReviewIsEarned
    [] OTHER -> TRUE

\* The routing graph, the assignment of purchases and the recommendation are three computations
\* that never meet in the code (_build_routing_graphs, configured_reward_bucket, recommend): a way to
\* pay that is shown leads to the bucket that books the purchase and earns what it promised.
RoutesAreHonest == piece = "routing" => RoutingTypeOK /\ RoutingIsHonest

\* Figures belong to the day and the period they are shown for: a rate is of its time, and a
\* view of a cycle holds exactly the purchases of that cycle.
FiguresAreRight ==
  CASE piece = "rates" -> FxTypeOK /\ RatesAreOfTheirTime /\ CardAmountsAreOfTheirDay
    [] piece = "cycles" -> CyclesTypeOK /\ ViewsAreExact
    [] OTHER -> TRUE

\* What an operator plans and runs once keeps what is there: resources settle after one
\* bootstrap, tables are migrated without loss or refused, programmes are backed by
\* evidence, and a plan over notes keeps what the owner wrote.
PlansAreSound ==
  CASE piece = "tools" -> ToolsTypeOK
    [] piece = "bootstrap" -> BootTypeOK /\ BootstrapSettles
    [] piece \in {"migration", "inventory"} -> MigrationTypeOK /\ MigrationIsFaithful
    [] piece = "programmes" -> ProfileTypeOK /\ ProfilesAreSound
    [] piece = "corpus" -> CorpusTypeOK /\ PlansKeepTheOwnersWork
    [] OTHER -> TRUE

\* What a step of a piece may never do: a tool may not overwrite what it did not expect, a
\* store may not take a second inventory for a run, a later run of enrichment, a growing
\* ledger, a mail, a purchase, a day, a cleanup or an approval may not take back what held
\* before.
PieceSteps ==
  [][CASE piece = "tools" -> ToolsAreAccountable
       [] piece = "inventory" -> InventoryIsKept
       [] piece = "enrichment" -> RunsExtendEachOther
       [] piece = "transfers" -> GrowthKeepsPairs
       [] piece = "cycles" -> CyclesOnlyAdvance
       [] piece = "routing" -> RoutingStep
       [] piece = "programmes" -> DaysKeepProfiles
       [] piece = "corpus" -> CleanupOnlyTidies
       [] piece = "browser" -> ApprovalIsNarrow
       [] OTHER -> TRUE]_pieceVars
=============================================================================
