# Finance statement tracker: specifications, model checking and proofs

The repository collects bank notifications and statements by mail, extracts and
reconciles them, keeps cashback events in SQLite, and writes statement rows to an
Actual Budget ledger.  The moving parts are n8n workflows
(`integrations/n8n/workflows`), a Python package (`finance_tracker`), an HTTP
server for cashback (`apps/cashback-control`), an n8n node package that drives the
Actual client (`packages/n8n-nodes-finance`), command line tools for the ledger
(`integrations/actual`), and a few Postgres functions.  This directory holds TLA+
models of the parts whose behaviour is hard to test, the TLC instances that check
them, and TLAPS proofs.

Paths below are relative to the repository root unless they end in `.tla` or `.cfg`.
`PROJECT.json` maps every definition to the lines it models; definitions whose
comment says "a variant of" are plausible bugs, used to confirm that a property
notices them.

## 1. The system

| Part | State | Operations | Hard behaviour |
|---|---|---|---|
| Writer lease (`integrations/n8n/postgres/001-finance-writer-lease.sql`, workflow 18) | one row per budget file: token, deadline, released | acquire, assert, release | holders that outlive their lease; late or repeated releases |
| Actual outbox (workflows 03, 17, 20) | one row per statement batch: PREPARED, ACTUAL_OBSERVED, VERIFIED, COMMITTED, with the columns of a verification receipt | prepare, import, observe, verify, commit, recover | executions overlap, fail and are killed between any two nodes; data-table upserts have no guard |
| Actual sessions (`packages/n8n-nodes-finance/src/lib/actual-session.ts`) | a local budget copy per n8n process, the ledger on the Actual server | download and sync, preflight, import, verify | check and write are separate calls; unsynced rows survive or are lost with the process |
| Live cashback scan (workflow 02, with 12 for the sweep) | what an execution holds in memory | read cursor, freeze window, enumerate, post each message, seal, commit, read back | overlapping scans, requests served after their client is gone, mail listed late |
| Cashback event store (`finance_tracker/cashback_events.py`) | events, receipts, cursor, corrections, statements, periods in SQLite | upsert, ingest, seal, commit, correct, reconcile, finalize | threads of the HTTP server; only some handlers hold `WRITE_LOCK`; some checks lie outside the write transaction |
| Statement reconciliation (same file) | events, reconciliation runs | reconcile, correct, open the store again | lines of equal identity, aliases, late notifications, replays |
| Statement periods (same file) | card periods and statement receipts | ensure period, record receipt, finalize | receipts in any order relative to periods; two finalizations |
| Statement cycles and dashboard views (`apps/cashback-control/server.py`, `statement_cycles.py`) | bank statement receipts; the views are derived | receive, update, previous cycle, past days, history | mails late or without days; the programme of another day; overlapping periods |
| Web push (`finance_tracker/web_push.py`) and the dashboard file | subscriptions, deliveries, last routing map | rebuild, evaluate, send, record | state swapped before the send; duplicates after a crash |
| Cashback calculation and routing (`cashback.py`, `actual_snapshot.py`) | none | reward, advice, recommendation, routing graph | tiers, caps, refunds, last days, three ways to judge a route |
| Programme configuration (`cashback.py`) | the deployed file and its evidence | load, judge on a day, select versions | versions and claims that begin and end while callers name no day |
| Currency conversion (`fx_rates.py`, `fx.py`, `notifications.py`) | traces stored with events | quote, convert, replay | publication times, two time zones, a chain of providers |
| Statement acquisition (workflows 01, 12, 22) | `finance_ingestion_state`: one row per source with receipt and cursor | enumerate, archive, commit, verify | concurrent runs share one row; compare-and-set in two calls |
| Rules, history and AI (`rules.py`, `ai_rules.py`, `actual_pipeline.py`, ...) | responses on disk | stage, ask, answer, stage again | answers that are older than the rules |
| Rule analysis (`rule_analysis*.py`) | immutable lifecycle values | propose, approve, lock, match transfers | callers that hold older values; a ledger that grows |
| Browser ingestion (`browser_ingestion.py`, `platforms.py`) | the import next to statements | capture, resolve, review, approve, import | two sides of one purchase have different identities |
| Ledger tools (`integrations/actual/*.mjs`) | the local copy, backups, approvals | replace, repair, enrich, delete, tidy notes, bootstrap | tools that stop halfway; users who go on editing |
| Note and corpus migration (`corpus_migration.py`, `actual_notes.py`) | plans | regenerate, plan, apply | edits between plan and use |
| Data-table migration (`integrations/n8n/generate_data_table_migration.py`) | old and new tables, an artifact store with a fence | map, merge, commit an inventory | racing rows; two owners |
| Restore drill (`deploy/actual/restore-actual-disposable.py`) | objects of the container runtime, a receipt | restore, probe, clean up | signals at any time |
| Document extraction, MCP facade, planning, wealth, reporting, generators, releases | files | I/O and rendering | outside the reach of these models |

How they interact: workflow 03 writes a batch row and calls 20; 17 calls 20 every
ten minutes with the nonterminal rows; 20 calls 18, which calls the Postgres
functions, and the Actual nodes, which share one local copy per process.  Workflow
02 calls 12 to list the mailbox and posts to the cashback server, which calls the
event store; the user interface posts corrections, and statement workflows post
reconciliations and finalizations to the same server.  A write that can change the routing map
or the alerts makes the server rebuild its dashboard, which evaluates the push messages; a
receipt of a statement mail or of a scan is only committed, and shown by the next rebuild.  Workflow 22 calls 12 for
statements and the shared pipeline of 03, which enriches rows by rules and AI.  The
ledger tools work on the same Actual budget as the workflows, but are run by an
operator when those are off.

What makes each part correct:

* lease: at most one execution passes the assertion; a lost token stays lost; a lease
  that passes ends by its holder or its deadline only;
* outbox and sessions: a statement row reaches the ledger at most once; the batch
  row never claims more than the ledger holds; every receipt handed out is true;
  whatever was prepared is eventually committed;
* cashback scan and store: the cursor never passes a message nobody accounted for
  and never goes back; it moves only when the stored events are what the receipt
  says; replays change nothing; every listed transaction is eventually stored;
* reconciliation: what a statement lists is what its reconciled rows add up to,
  whatever came first, and only twins make a statement fail;
* statement acquisition: a cursor moves only over archived and processed messages of the
  delivery window (from the start of the month to the run);
* periods and views: one closing receipt, a finalized period rests on a
  reconciliation and is replaced by racing requests only; a view of a cycle holds exactly its purchases;
* push: the file shows the routing map and the alerts of the store, no device is told twice, an alert gets through;
* cashback figures: refunds never take more than was earned, advice keeps its
  word, a route shown as open earns what it promises, a programme in force is backed
  by evidence, a rate is of its time;
* enrichment and analysis: fields are decided in the order of authority; a chain of
  feedback is what its authors saw; a transfer pair is the same from both sides;
* captures: purchases are neither lost nor booked twice, and what is imported has no
  open question;
* ledger tools, bootstrap and migrations: what a person made is not overwritten
  unless a backup has it and somebody approved; a run that stopped can be repeated; a
  migration loses nothing or is refused;
* restore drill: a receipt of a verified clean-up is true.

## 2. Modules

| Module | What it is |
|---|---|
| `WriterLease` | the lease row and the tokens executions remember |
| `OutboxContract` | abstract: batches are intended, applied together and once, and receipts follow |
| `OutboxApply` | extends `WriterLease`: workflows 17 and 20, the outbox part of 03, the Actual sessions, the ledger |
| `CashbackSweep` | workflow 02, the ingest requests and the store operations that touch events and the cursor |
| `StatementPeriods` | periods, statement mails, reconciliation references and finalization of one card |
| `EventReconcile` | statement reconciliation of one card |
| `StatementSweep` | workflow 12 for statements and the commit of its cursor by workflow 22 |
| `DashboardPush` | the dashboard file, its rebuilds and the push messages |
| `CardCalendar` | programme versions of a card and the cycles their close day gives |
| `PeriodHistory`, `StatementCycles` | extend it: the history of past periods; receipts, current and past views |
| `CashbackReward`, `CardRouting`, `ProgramVersions`, `FxRates` | reward and advice; which card to pay with; what configuration loads; exchange rates |
| `Enrichment`, `RuleReview`, `TransferMatcher` | staging by rules and AI; lifecycle of a rule analysis; pairs of transfers |
| `BrowserReview`, `BrowserCapture` | from a capture to its envelopes; captures and statements in one ledger |
| `LedgerTools`, `Bootstrap`, `CorpusMigration`, `TableMigration` | replacement and plans; resources from a file; notes; data tables |
| `RestoreDrill` | the disposable restore |
| `MCOutboxApply`, `MCCashbackSweep`, `MCStatementPeriods` | instances for TLC |
| `MCWriterLease`, `MCParts` | instances that compose modules which share no state (section 3) |
| `OutboxApplyProofs` (with the lease), `CashbackSweepProofs`, `EventReconcileProofs` | theorems and proofs of one module each |
| `IngestionProofs` | those of statement mail, statement periods and captures |
| `CalendarProofs` | the calendar, and the statement cycles over it |
| `OperatorProofs` | dashboard and push, history of periods, review of rules, restore drill |
| `PlanProofs` | ledger tools, programmes, notes and corpus, table migration, bootstrap |
| `PieceProofs` | rates, and the composition `MCWriterLease` |

### WriterLease

`lease` is the Postgres row, `held[r]` the token execution `r` was granted and
carries in its envelope.  Acquire and assert are one SQL statement each, so one
step each.  `lease_id` is a fresh uuid stored with the token, so the token stands
for the pair.  `expires_at` is kept as the flag the guards compare:
passed or not (`Expire` sets it, an acquire clears it).

### OutboxApply

Each n8n node that reads or writes shared state is an action; nodes that only
compute are part of the action before or after them.  `run[r]` is what execution
`r` holds: its position, its batch, the row state it was handed (`snap`), the ids
it saw before writing, and whether the released lease row was read back.  `outbox`
is the data-table row of a batch with the state, whether the receipt columns are
filled, and `lease_fence`.  Upserts match on the batch alone, as in the workflows:
neither the state they overwrite nor the fence is a condition.

A session starts with download and sync, which pushes whatever the local copy had
not pushed (`Sync`).  Sessions of one process are serialized by `inProcessTail`;
the import session spans three actions (`BeginImport`, `WriteRows`,
`ReadBackImport`) because lease time may pass and a crash may happen between its
calls; `session` keeps other sessions out meanwhile.  A crash
(`Kill`) ends all executions of the process and either keeps or loses the local copy.

Workflow 17 passes all nonterminal rows to one execution of workflow 20, whose
code nodes read the first item, so one scan works on the first nonterminal row
in insertion order (`FirstNonterminal`).  In the VERIFIED branch the read-back node
always outputs an item, so an empty result stops nothing; the model goes straight
to the receipt.

Left out: user deletions in Actual, edits other than of amount or date (they do not
reach a guard), several n8n processes, artifact hashing (a mismatch is a failure).

### CashbackSweep

Each SQLite transaction of the service is one step.  `events[m]` is the row of
message `m`: its economic facts (`EVENT_CANONICAL_FIELDS`, which also make up the
identity), one flag for all other columns, and whether a statement reconciled it.
A receipt binds the frozen bound, the disposition of each message in the window and a
digest of each event; digests are modelled by the rows themselves.  `covered` holds the
messages of committed receipts.  Sealed receipts that were not committed live only
with the execution or the late request that presents them.

`POST /api/ingest/transaction` is two transactions under `WRITE_LOCK` (`IngestEvent`,
`Acknowledge`); `POST /api/ingest/receipt` is one under the same lock (`Seal`);
corrections, reconciliations and the cursor commit do not take the lock.  A failed
execution may leave the request that was under way to be served later
(`ServeLateEvent`, `ServeLateCommit`).  Microsoft Graph is external: a message gets
its receipt time when it is sent and becomes visible within `MailDelay`.  The
theorems assume `MailDelay <= Overlap`; the code relies on the same with its two hours.

Left out: the wider first window of a source with no cursor (the model starts
after the first committed scan), the 500-message limit, statement-only rows, the older
batch endpoint `/api/outlook/messages`, and the candidate ranking of a statement (a
match is any change the store would accept).

### StatementPeriods

`periods[p]` is the row of `card_periods` with the bounds `p` (half-open instants at
midnight; the `period_id` the store derives from them says the same), `receipts[q]` the row of
mail `q` in `statement_receipts`, `runs[t]` the card period and the count of unmatched
notifications of statement `t` in `reconciliation_runs`.  `ensure_period`,
`record_statement_receipt` and `reconcile_statement` begin with `BEGIN IMMEDIATE`, so each is
one step; a request that is refused or replays what is stored changes nothing and is left out.
`finalize_period` reads run and period first (its transaction begins at the first write, and
the handler takes no lock), so it is `FinalizeCheck` and `FinalizeWrite`, with
`work[f]` what request `f` has read.  The write upserts the period whatever it is by then,
opens the next period of the programme's cycle (`Following`, from the constant `Cycle`), and is
rolled back when the cycle does not continue.

Left out: other cards (rows never meet), custom period ids, the arrivals of
`bank_statement_receipts` (they are in `StatementCycles`), and recovery of digests of old databases.

### EventReconcile

`rows` is `cashback_events` of one card, keyed by source and id, `reconciliations` the
content each reference was used for.  `ReconcileNew` is the whole write transaction of
`reconcile_statement`: ranking the candidates of each line in statement order (`Ranked`,
`TakeCandidate`), inserting what has none under its plain or salted identity
(`InsertLine`), listing what the statement lacks, and the run.  `Matching` is a recursive
function over the lines, so that a line can take what a later one needs, and its result says
whether the unique index refuses it.  `Reopen` is the migration every start performs, which computes
identities again; `RecoverDigests` binds what a release without content digests left
(`OldRow`: of equal lines the first has the plain identity);
`CorrectFacts` and `CorrectStatus` the user.  Instants are half days, merchants are keys with one
alias, and the score of a match is whether the keys are equal, contained or different.
Left out: parsing of statements, currencies, cards (rows never meet), text of variances.

### StatementSweep

`row` is the one row of `finance_ingestion_state` for the source: the cursor with its
version, the receipt of the last enumeration, and the `readback_verified` column both
use.  A window runs from the start of the delivery month (`DeliveryStart`, as
`Open Configured Cycle Window` of workflow 04 computes it) to the run.  Each data-table node is
an action; `stage[r]` is the node run `r` comes to next, `expected[r]` the version its COMMIT
request carries.  A COMMIT reads the receipt (`Resume`) and then the cursor
(`Determine`), and another run may write in between: what the receipt said is in the stage
(`Proof`).  A write and the read back that checks it are one step where the read back of a row
changed in between would only fail.  `End` stops an execution
anywhere and `Again` starts it over from the enumeration or, once the pipeline has
succeeded, from the commit.  The version is read from `finance_source_cursors`, which
nothing writes any more, or from the row itself once that node is cut over: both are
alternatives of `Request`.  Mail of an earlier month that no run of that month has seen is in no
window: so the code wants it (`docs/monthly-statement-delivery-window.md`), and no property is
about such mail.  Left out: paging, the 500-message limit, the inserts of an initialization,
quarantine.

### DashboardPush

`thread[t]` is where a handler, the refresher or `main` is in `rebuild_dashboard`: it
reads the store in two steps, replaces the file under `WRITE_LOCK`, takes `PUSH_LOCK`,
swaps the routing map and collects what nobody was sent, and sends and records pair by
pair.  Any of it may fail, a device may go (410) or unsubscribe, the process may die.
`sent`, `unrecorded`, `audience` and `dropped` are history.  The store is reduced to the routing
map and the alerts.  Handlers that change neither and do not rebuild (`_post_statement_receipt`,
`_post_statement_receipt_state`, `_post_ingest_receipt`) are outside of it: the receipts in
`data_status` may be a minute old.  Left out: encryption, VAPID keys, the test message.

### CardCalendar, PeriodHistory, StatementCycles

A card has versions with a close day; `CycleOf` is the cycle of a day under a close day,
with months that are too short for it.  `PeriodHistory` translates `historical_periods`:
stored periods, then cycles derived for purchases that lie in none, cut by stored ones.
`StatementCycles` keeps `bank_statement_receipts` (one row per statement id, a second mail
may bring the days), stored periods and purchases, and derives the previous cycle
(`PreviousSummary`), the live dashboard, the dashboard of a past day and the days that are
offered.  The views are operators of the state, as in the code, which stores none.  Left out:
processing and reconciliation states of a receipt, custom period ids.

### CashbackReward, CardRouting

`CashbackReward` computes the reward of a cycle from a set of facts, by folding over them
in time order as the code does: usage, the tier it reaches, rates and caps per bucket, and
what each refund takes back at its own moment (`Replay`).  `CardRouting` has a cycle of
all cards: spending, days, a week that is counted separately.  `BucketFor` books a purchase,
`Recommended` values a purchase of a known amount on every card, `RouteGraph` ranks the
routes of a profile by policy checks and pace, and keeps the first route of each way to
pay.  A programme may aim at a tier (`target_tier_code`, field `aim`), whose rates and caps then
price the room of its buckets.  `heldCards` are the cards shown as eligible: held by a
membership, or named by a finalized period of the day.  Amounts are small whole units and rates percents, so that nothing is rounded but
where the code rounds.  Left out: milestones, account balances, explanations.

### ProgramVersions

What `load_program_configuration` accepts on a day (`Loads`), from the claims, references
and evidence files of each version, the buckets, tiers and routes; and `GivesFor`, what
`programs_from_config` returns for a date.  Days pass and evidence files change or vanish
around a deployed configuration.  Left out: the JSON schema, ranges of settings.

### FxRates

`pages[p]` is what a provider's page says at the moment: down, a challenge, or tables with
rows that may be malformed; each provider reads its page by its own rules (`RakbankQuotes`,
`AdcbQuotes`, `FabQuotes`).  `ResolvedRate` walks the chain.  `traces` is what was stored
with an event; a batch of notifications is converted from traces first.  The server, the
command line and the workflows pass no providers (`ParseOutlookBatch`), so a foreign
notification without a trace is skipped; a caller that passes them fails as a whole if one cannot
be converted (`ParseWithProviders`).  `ConvertCard` is `convert_to_aed` of `fx.py`: posted
amount, recorded quote, then the network.  Left out: HTTP, HTML, signatures.

### Enrichment

One row goes through `stage_statement` as often as responses come: rules in stages
(`ApplyStages`, a fold), history, the policies in order with those whose questions are open,
proposals and their refusal, properties, the topic, the invariants of
`classification_audit.py`.  Only the text a rule looks at and the fields that are derived
exist.  Rules may be edited between two runs while responses stay.  Left out: prompts,
evidence files, confidence numbers other than enough or not.

### RuleReview, TransferMatcher

`lifecycle` is the immutable value of the workbench and `kept` an older one somebody
still holds: every operation takes one of them and makes the next, so lost updates and
stale drafts are ordinary steps.  `TransferMatcher` keeps the observed rows; `Trace` is
the answer of the matcher for one of them: hard checks (`CoreChecks`), possible
counterparts, the connected component of rows, and an existing link.  Candidates are
verified against what was observed then.  Left out: reason codes of single checks,
document schemas.

### BrowserReview, BrowserCapture

`BrowserReview` is one capture from the portal to its envelopes: account resolution, the
reasons to look at a row, rules, refunds explained by one purchase (`Refunds`, a fold in the
order of the rows), the balance tie, and the gates before an envelope.  It runs again when
the owner approves it or accounts are configured.  `BrowserCapture` starts from envelopes:
identities of captured rows with and without portal references, statement records, and
`importEnvelopes` of `actualctl.mjs` with its suppression of a statement record that is
alone and that exactly one captured row says too.  Left out: validation of single fields, the recipes
that drive a browser.

### LedgerTools, Bootstrap, CorpusMigration, TableMigration

`LedgerTools` has the ledger on the server, the local copy and what of it was written and
not pushed, per tool: a tool opens (which syncs), checks, writes row by row, syncs, reads
back; it throws anywhere, and the next one pushes what was left.  A row is as the manifests
have it, as a plan expects it, changed otherwise, or split.  `Bootstrap` looks entries up
among what a phase read at its start and writes one by one (an account that is to be opened or
closed by two calls, `OpenOrCloseAccount` and `ApplyAccount`); a run stops anywhere.
`CorpusMigration` regenerates the manifests, makes the dry-run plan with its guards, and plans
and applies the note cleanup, while the owner edits.  `TableMigration` is the mapping of the
old tables as one step, with the conflicts under which it throws as its guard, while
workflows race into the old tables; and the inventory store with its fence.  Left out: budget months,
the reports and audits, AI reviews and failures (copied row by row), the backup digest.

### RestoreDrill

`world` is what exists under each name and whose it is, `known` what the `current_*`
variables name, `at` and `region` where `main` is and which handlers a `SystemExit`
still meets, `cleaning` the innermost clean-up.  A signal runs a clean-up of its own inside
whatever was running and never resumes it.  Commands fail, report nothing or are
interrupted; other users take names and remove objects.

## 3. Runs

| Run | Instance | What it shows |
|---|---|---|
| `lease` | 3 executions, 5 tokens; and twelve pieces, below | `OneValidHolder`, `LostStaysLost`, `OnlyHolderEndsLease`; `DecisionsAgree`, `RoutesAreHonest`, `FiguresAreRight`, `PlansAreSound`, `PieceSteps` |
| `outbox` | 2 executions, 2 statements that share a row, 3 tokens, 1 fault | no double import, row never ahead of the ledger, receipts sound, writes fenced, `OutboxContract` implemented, `IInv` |
| `outbox_live` | 2 executions, 1 statement, 2 faults | every prepared batch is committed |
| `committed_is_final` | as `outbox` with 1 statement, no fault | violated: finding 1 |
| `commit_fence_advances` | the same | violated: finding 2 |
| `cashback` | 2 executions, 1 transaction, 2 corrections, 1 statement, 1 fault, times 1 to 3 | nothing skipped, cursor forward, stale rows block it, replays change nothing |
| `cashback_live` | 1 execution at a time, a transaction and another message, a statement, 1 fault | every listed transaction is stored, when nobody corrects facts |
| `cashback_stuck` | 2 transactions, 1 correction, no fault | violated: finding 3 |
| `periods` | 3 months and a period over two of them, 2 mails of one day, 2 statements, 2 sets of evidence, 2 finalizations at a time | one mail closes one period, periods only go forward, what was finalized rests on a run, is followed by the next period, and is replaced only by finalizations that raced with it |
| `finalized_is_final` | the same | violated: finding 4 |
| `no_overlap` | as `periods` | violated: finding 5 |
| `parts` | eight parts, below | one or two properties each |

Bounds of the older runs.  Two executions are enough for every race of an execution with another one
that overtakes it; three tokens let a lease be taken over twice, so that a third holder
meets the leftovers of two.  Two batches with a shared row exercise the case that rows
of one batch are already in the ledger or in the local copy because of the other.  One fault
(a node that throws, a kill, or an expiry under a holder) can hit at any of the nodes.  In
`outbox_live` the token bound of 14 is never reached: two faults and two executions
acquire fewer times.  In `cashback` three times with an overlap and a delay of one give
two committed scans after the first, a message listed in the window after the one it was
received in, and a late commit in between; the second correction may revert the first.  In `periods` two
mails of one day compete for the period that ends then, the two-month period overlaps two
others and ends on a boundary of the cycle, the last month has no successor (the finalization is
rolled back), and two statements can be about one period or about overlapping ones; two
finalizations, of one period or of two, stand between check and write together.  The
theorems have none of these bounds.

### The run `parts`

The modules it composes share no state: nothing one of them does can be seen by another, so their
interleavings add nothing.  The initial state picks a part; the others stand still at one initial
state.  Each part may stop when its bounds are used up, so deadlock is not checked.

| Part | Bounds (`MCParts.tla`, `MCParts.cfg`) | Properties |
|---|---|---|
| reconciliation | 3 notifications (an alias, one without merchant), 4 statements (one reordered, one overlapping in time, one with a refund), 1 from an old release, 1 correction | `StatementIsCounted`, `ReconcileSettles` |
| push | 1 handler, the refresher, 1 device, 2 routing maps, 1 alert, 2 writes, 1 fault | `PushIsHonest`, `AlertsGetThrough` |
| review | 2 readings of one observation, 2 feedback ids, chains of 2, 1 lock change | `ChainsAreWhatWasSeen`, `AcceptanceIsConfirmed` |
| sweep | 2 runs, 3 ticks in 2 delivery months, 1 retry each, old version 0 | `CursorIsEarned` |
| reward | 2 programmes, 2 buckets, amounts 1 and 3, 2 instants, 2 refund ids, 4 facts | `RefundsFitEarnings`, `AdviceIsKept` |
| drill | 2 repeats, 2 signals, 2 faults | `DrillIsHonest` |
| history | a 5-month calendar of short months, 3 versions, 5 purchases, 2 overlapping stored periods | `HistoryCounts` |
| capture | 8 purchases (twins, a shared reference, one posted on another's day), 5 captures, 3 statements, 4 imports | `CapturesCountOnce` |

A second correction, sweep run or handler is what each hazard needs; two signals are
one inside the clean-up of the other; four facts reach the highest tier, a refund and its
repetition; four imports are a capture and a statement, each repeated.  `PartsTypeOK` is the
type invariant of the part that runs.

### The pieces of the run `lease`

`MCWriterLease` composes the other modules in the same way, next to the three executions that
contend for the lease.  Three invariants and one action property name for each piece what it must
keep (they are `CASE`s over the piece), together with its type invariant; the routing graph has
an invariant of its own:

| Piece | Bounds (`MCWriterLease.tla`, `.cfg`) | Properties |
|---|---|---|
| lease | 3 executions, 5 tokens | `LeaseInv` in `DecisionsAgree` |
| tools | 3 rows of all kinds, 4 ledgers, 3 runs of tools, 1 edit | `ToolsAreAccountable` in `PieceSteps` |
| bootstrap | 3 configurations (one that contradicts itself, one that retires an old name), 2 budgets, 3 runs, 1 touch | `BootstrapSettles` in `PlansAreSound` |
| migration | 3 groups of tables with racing rows, 5 writes | `MigrationIsFaithful` in `PlansAreSound` |
| inventory | 2 owners, 3 inventories of 2 runs, 3 tokens | `InventoryIsKept` in `PieceSteps` |
| rates | 3 providers, 9 pages, 2 publications, 6 instants of half a day, 2 notifications, 4 card purchases | `RatesAreOfTheirTime`, `CardAmountsAreOfTheirDay` in `FiguresAreRight` |
| enrichment | 10 source rows, 4 rule books, 4 policies, 2 histories, 1 rule edit | `DecisionsAreOrdered` in `DecisionsAgree`, `RunsExtendEachOther` in `PieceSteps` |
| transfers | 4 observations (one seen twice, one linked), 1 edit, 1 candidate | `PairsAreMutual` in `DecisionsAgree`, `GrowthKeepsPairs` in `PieceSteps` |
| cycles | a 5-month calendar, a close day that changes, 3 mails of 2 statements, 2 overlapping periods, 3 purchases | `ViewsAreExact` in `FiguresAreRight`, `CyclesOnlyAdvance` in `PieceSteps` |
| routing | 2 cards (one that aims at a tier), 2 profiles, 4 policies, 4 purchases, a cycle of 4 days in 2 weeks, spending up to 3 | `RoutingIsHonest` in `RoutesAreHonest`, `RoutingStep` in `PieceSteps` |
| programmes | 8 configurations, 2 evidence files, 5 days | `ProfilesAreSound` in `PlansAreSound`, `DaysKeepProfiles` in `PieceSteps` |
| corpus | 4 corpora on 2 ledgers, 1 edit of the owner | `PlansKeepTheOwnersWork` in `PlansAreSound`, `CleanupOnlyTidies` in `PieceSteps` |
| browser | 9 captures (rows in both orders, statements of both conventions, a snapshot, a document), 4 configurations of accounts, 2 changes, 1 approval | `ReviewIsEarned` in `DecisionsAgree`, `ApprovalIsNarrow` in `PieceSteps` |

Three runs of tools are one that fails, one that pushes what it left, and one on top; three
bootstraps one that stops, one that ends, and one that must find nothing to do.  The values of the
data (rules, pages, programmes, corpora) are chosen so that each branch of the code they meet is
taken; they are samples, and the properties are claims about these samples under every order
of the operations.

### Fairness

`OutboxApply!LiveSpec`: nodes of a started execution return (strong, because a
session may be taken by another execution in between, and sessions queue in FIFO
order); a lease nobody works under runs out; the schedule of workflow 17 fires.  No
fairness on failures, kills, users or new batches.  `CashbackSweep!LiveSpec`: the daily
schedule fires, nodes return, time passes, mail gets listed.  Nothing is assumed about
requests whose client is gone.  `DashboardPush!PushFairness`: the refresher
thread fires (it loops forever, and is `main` at a start) and a rebuild that runs goes on;
both weak, because `PUSH_LOCK` is released when an evaluation ends.  None on writes,
failures, the end of the process or subscriptions.

## 4. Findings

1. `CommittedIsFinal`.  `docs/journeys/J40-recover-interrupted-outbox/journey.md:52`:
   "Retry or draft identifiers do not create another item or mutate a committed result."
   Workflow 03 looks up the batch and, finding none, upserts PREPARED on the
   idempotency key alone; when another execution committed it in between, the row goes
   back.  The ledger stays right (`AtMostOneEffect` holds) and recovery commits it again.
2. `CommitFenceAdvances`.  `docs/journeys/J39-commit-fenced-actual-outbox-plus-readback/journey.md:30`:
   "Stale writers cannot mutate state."  Workflow 20 releases the fence before it
   upserts COMMITTED, so an execution that stalls there overwrites a commit made under
   a newer fence.
3. `EventuallyStored`.  `docs/cashback-transaction-ingestion.md:38`: "If any request fails,
   leave the cursor unchanged and replay the frozen scan. Already accepted transactions
   remain visible and replay idempotently."  After a correction of an economic fact the replay
   of that notification is refused (`cashback_events.py:1411`), the scan ends there, the
   cursor stays, and the next scan meets the same message.  Other transactions may
   never be stored until somebody reverts the correction or a statement reconciles the event.

4. `FinalizedIsFinal`.  `docs/journeys/J25-finalize-cashback-statement-period/journey.md:30`:
   "Repeat finalization is idempotent or rejected", and `cashback_events.py:3889` refuses
   other evidence.  The check runs before the write transaction begins: two concurrent
   finalizations with different evidence both pass it, and the second replaces what the first
   stored.  The damage is limited to the race: only requests that were past the check when the
   period was finalized can replace what it rests on, each once, and no later one joins them
   (`OnlyRacersReplace`: run `periods`, and `ReplacedByRacersOnly` for every size).
5. `NoOverlap`.  The same journey, lines 33-34: "Incomplete or overlapping period finalization"
   fails closed, and `ensure_period` and `record_statement_receipt` refuse bounds that
   overlap.  `finalize_period` upserts the bounds of the run and the next period without
   looking at other periods of the card.

Also noted: `integrations/n8n/postgres/README.md:10` places the release "after
COMMITTED readback"; workflow 20 releases first.

### Behaviour the properties except

Each of these is an exception named in the property of its module, so the run shows that
nothing else of the kind happens.

* `EventReconcile` (`OnlyTwinsFail`).  A statement with lines SHOP, DUBAI (which the alias
  joins with SHOP) and SHOP of one date and amount, after notifications SHOP and "SHOP
  DUBAI", makes line 3439 of `cashback_events.py` violate the unique index on
  `identity_key`, on every retry as well.  `tests/test_cashback_events.py:1049` and
  `docs/statement-adapter-and-runtime-acquisition-checklist-2026-08-19.md:36` promise
  otherwise.  A notification that arrives after its statement was reconciled is a second
  active event until somebody corrects it (`cashback_events.py:1380`).
* `PeriodHistory` (`Superseded`, `CloseDayChanged`).  With the shipped configuration, whose
  versions change on 2026-09-05 while the cycle of the RAKBANK card closes on day 5, one
  purchase on 2026-09-05 hides the purchases of the same cycle from 08-06 to 09-04
  (`server.py:712-733`).  When a close day changes a purchase can be in two derived periods.
  The name of the test at `tests/test_cashback_dashboard.py:323` and
  `docs/cashback-program-verification-2026-09-05.md:12-14` say otherwise.
* `RestoreDrill` (`late`).  What a command in flight at a signal creates after the handler
  has looked, or `mkdtemp` before its result is assigned, is left behind though the
  receipt says `cleanup_verified`.
* `BrowserCapture`.  Shared references, a purchase posted on the day of another like it,
  exports with and without references, and a capture imported after the statement lead to
  rows that are booked twice or suppressed.  The test at `actualctl.test.mjs:461`
  ("cross-source suppression remains conservative for repeated or committed rows") declares
  that ambiguous records are to be kept.
* `StatementCycles`.  A mail that now knows its days after one that did not is an update;
  with other bounds it is refused.  A card with stored periods shows nothing on a day none of them
  covers.  Of overlapping periods the live dashboard prefers the open one and a past day
  the earliest.  The days that are offered use the close day of today's programme.
* `CardRouting` (`Misrouted`, `TwoCaps`).  The shipped configuration routes ONLINE and
  APPLE_PAY purchases to `SC_FILLER` that the assignment books in `SC_ONLINE` and
  `SC_WALLET`, and in its first version groceries, dining and travel to `RAK_STANDARD`.
  With a cap on the spend and one on the cashback, a route looks at the former only.
* `ProgramVersions` (`Announced`, `ClaimedLater`, `Expires`).  A version that is published
  before it starts fails every caller that names no day until it starts, if it has no end
  (`cashback.py:1055-1061`) or is not backed yet: a caller that names a day skips versions
  that have not started, the others judge all of them.  A claim that starts or ends later
  fails callers that name an earlier day; evidence that expires stops a configuration from
  loading without any change of it.
* `FxRates`.  The UAE date of a page and UTC make a quote "of the future" for hours; a quote
  with a date only may be nearly two days old or of later that day.  With
  providers one notification that cannot be converted fails the whole parse
  (`notifications.py:353`).
* `Enrichment`.  A rule may take a row out of the review that the statement put it in; a
  stale answer is refused and puts the row into review; `project_property_tags` ignores locks.
* `TransferMatcher`.  Two different observations of one identity fail the query for every
  row; a second observation of a linked transfer shares its link.
* `LedgerTools` (`Unbound`).  An approval binds neither how a row is split nor rows that no
  manifest has.  A deletion plan that stopped halfway is refused when it is run again
  (`actualctl.mjs:937`), because its targets are gone.
* `Bootstrap` (`Coherent`, `OpenedOnly`, `RenamedAway`).  A configuration that retires what it
  defines is not refused and never settles; an account to be closed is first made open.  When a
  schedule keeps its owner and its old name is retired, the phase of the retired schedules deletes
  the row, and the next phase updates the deleted row it still finds among what was read
  (`bootstrap-resources.mjs:487-551`); the schedule is missing until another run makes it.
  A budget with two schedules of one owner keeps both, and every run is refused.
* `TableMigration` (`PeriodShared`).  Two committed batches of one period keep one
  reconciliation.  An archive row and an operation row of one mail with different
  `updated_at` conflict, so such documents block the migration; so does an archive or operation
  row without one of its key columns (`generate_data_table_migration.py:1051`, `1076`); a legacy
  outbox has no period, so any reconciliation row of one fails with a cardinality error.
* `CorpusMigration`.  The guard of a plan does not look at whether a row was linked or
  split since; one foreign document, forbidden tag or repeated identity stops the whole plan;
  free text that looks like a field ("Call: bank") is dropped.
* `BrowserReview`.  Which of several equal credits are explained depends on the order of the
  rows (`browser_ingestion.py:334-394`); envelopes are written for captures that still
  need review; a statement of an unmapped card account is judged as an asset.

### What some properties do not say

* `WritesAreFenced`: the last check of the lease and the start of the import are one step, so the
  property says nothing of the instants between them.
* `EventuallyCommitted` has one batch, so the recovery of a batch behind another one is not
  in it; `EventuallyStored` has no second notification with the facts of a stored one, which is
  refused as well (`cashback_events.py:1421-1431`) and stops a scan in the same way.
* `RefundsFitEarnings` is checked for programmes whose higher tiers earn more; `AdviceIsKept`
  is about `marginal_reward_aed` only.
* `CapturesCountOnce` gives a purchase one text on portal and statement (`EconomicKey`).
* `CursorIsEarned` is about mail in a delivery window (section 2).

### Hazards without a property

* W22 (`22-shared-monthly-statement-cycle.json:546`) reads `finance_source_cursors`, which
  nothing writes any more: without a row there the commit request throws after the statement was
  processed, and with a migrated row only one commit can ever pass.  `CursorIsEarned` shows that
  a stale version cannot damage the cursor, not that it advances.
* Two first runs of one source can both insert a cursor row; every later initialization
  then throws (workflow 12, line 3138).  A window with 500 or more messages throws
  (1493), and the next one is larger.
* A terminal resume of a sweep marks the row verified for the cursor and then looks for the
  opposite, so the first retry fails and the second succeeds; overlapping runs mark
  each other's receipts, which fails closed.
* Two rebuilds may take `PUSH_LOCK` in the opposite order of their snapshots, so that an
  older routing map is announced last (`server.py:264`) until the next rebuild.
* A batch that can never be verified holds up the recovery of all that were inserted after it.

## 5. Proofs

All theorems hold for every value of the constants that meets the named assumptions
(tokens and faults are bounded by arbitrary naturals, sets are arbitrary).

* The lease (`OutboxApplyProofs`, first part).  `LeaseInv` is inductive: no remembered token exceeds the row's, and
  no two executions remember one token, because an acquire hands out the successor of
  the row's.  Mutual exclusion and the two action properties follow from it:
  `OnlyHolderEndsLease` because a late release has an older token than the row, and an acquire
  finds no row that still passes.
* The outbox (`OutboxApplyProofs`).  The safety properties alone are not inductive: that rows are
  written once depends on what an execution saw when its session began and on what other
  executions left unsynced.  `IInv` adds `RunInv` (per node: the import session is
  exclusive and began with an empty local copy, `seen` is what the ledger holds, from
  `assertPost` on the batch is written, from `verified` on its receipt is stored) and
  `LocalInv` (what is not pushed is exactly what one prepared batch still lacks).  There is one lemma
  per group of actions.  `OutboxImplementsContract` uses `IInv` to map `Sync` to `Apply` of the
  pending batch, the two returns to `Deliver`, an insert to `Intend` and the rest to stutters.
  `CommittedIsFinal` is false, yet `RowFollowsLedger` and `ReceiptsAreSound` hold: a row that goes
  back is harmless because the ledger never does.
* `CashbackSweepProofs`.  `SweepInv` adds to `NothingSkipped` that mail is listed in time
  (`MailInv`), that every scan under way and every late commit request accounts for all messages from
  the cursor minus the overlap to its bound minus the overlap (`Complete`), and that
  digests of acknowledged transactions describe stored rows.  `Complete` survives commits of other
  scans because the cursor only moves forward.

* Periods (`IngestionProofs`, second part).  `PeriodInv` joins the three state properties with `WorkInv`: what a
  finalization has read is still reconciled when it writes, because a reference is bound once.
  `RowForward` lists how a step may change one period; `PeriodsMoveForward` follows from it.
  `OnlyRacersReplace` needs `NoNewRacer`, that the check refuses a finalized period, so a request is
  past the check of such a period only if it was before, and `ReplacedByRacer`, that the write takes
  the request out of the race.  `FinalizedIsFinal` and `NoOverlap` are false and not needed.

* Statement mail (`IngestionProofs`, first part).  `MailInv` adds to `CursorIsEarned` the clock (no window ends after
  it), the windows (from the archive step on, all messages of a run's window are archived), and
  the stages (a run comes to its commit only after its pipeline, and to the read-back only after
  a commit of its own window): whoever is past its request with a version that is still the
  row's has the later window, because `Resume` compares the cursor with the window and a
  commit in between raises the version.  `QuietActions` covers the actions that touch neither the
  cursor nor what it rests on.  The theorem needs `SweepRunAssumption` only, and holds whatever
  version a request names (`OldVersion` is any natural number).

* Captures (`IngestionProofs`, third part).  `CaptureInv` says that every row is a record of
  something imported and no two have one `imported_id` (`RowsInv`), that no listed purchase is
  lost (`ListedInv`), and that a purchase which is alone has no rows from both sides
  (`SidesInv`).  For `ListedInv` each line of an import is given a row that `StandsFor` it: the one
  with its `imported_id`, new or old, or the captured row the statement's record was
  suppressed for; no row stands for two lines (`LineStandsOnce`), because a suppressed record is alone
  with its date, amount and payee.  For `SidesInv` a captured row of the purchase makes
  `Suppressed` true of the statement's record (`StatementSuppressed`).  The bound on the captured rows
  (`CapturedOnce`) maps rows to references, or to occurrence numbers, which are at
  most the number of like purchases the captures list; this needs that a portal without references
  lists a purchase once (`BrowserAssumption`): a repeated line would be counted as a second
  purchase.

* `EventReconcileProofs`.  That counts agree is not inductive, so `RecInv` says more: for every
  run there is a one-to-one pairing of the lines of its statement with the rows it lists, and
  paired line and row have the same date, amount and direction (`Paired`).  `TableInv` adds what
  keeps rows apart: identities are unique, a plain identity is that of the row's own facts until a
  statement has settled the row, a salted one names the row, a statement row is always
  reconciled.  Inside a reconciliation `MatchedInv(s, n, acc)` says the same after `n` lines of the
  rows taken so far, and that all other rows are as they were; each of the three ways a line is
  accepted `Takes` one more row, so the pairing grows by one.  The library's induction rule is out
  of reach, so existence of the recursive function behind `Matching` and the
  invariant of its stages are both proved by contradiction from a least counterexample
  (`LeastNumber`).  A candidate is never reconciled, so a later statement keeps every earlier pairing; recovery of
  digests re-pairs an old run by the ids of its lines; corrections and `Reopen` keep the facts
  of reconciled rows.  A bijection of finite sets then gives the equal counts of `ListedOnce`.
* Push (`OperatorProofs`).  `PushInv`: a thread evaluates only under `PUSH_LOCK` and only it has
  something to send (`LockInv`); one thread reads at a time (`OneReader`); without a failed rebuild a file that is
  out of date has a thread about to replace it, which has not read yet or whose first read still
  holds (`FileInv`); what was sent is recorded, being recorded, or could not be (`SentInv`); every
  device the present map was meant for has it, lost it, or will have its turn (`AudienceInv`).
  None is inductive alone: that no device is sent a key twice rests on the lock, and that
  the file is right on the order of the two reads and the write.
* Review (`OperatorProofs`).  `ReviewInv` holds for the current and for any older value a caller still
  holds.  It says of each proposal that its chain is a chain of links, each event holding what
  its author saw (`Chain`), that the record is what the events add up to, and that each event
  was admissible where it stands (`RecordInv`).  Two chains whose last events have the same facts
  are equal (`SameChain`), and replaying a chain builds the record again (`ReplaysToItself`);
  both are by a least counterexample, the second with the sequence of intermediate records as
  witness.
* Restore drill (`OperatorProofs`).  `DrillInv` says where `main` is and which handlers a signal still meets
  (`FlowInv`), that what is claimed by nobody is absent, foreign or came back late (`ClaimInv`),
  what a clean-up has found so far (`CleanInv`), and what `passed`, the run counter and the receipt rest on
  (`RunInv`, `PassInv`, `ReceiptInv`).  The nested clean-up of a signal keeps them because a handler never
  returns to what it interrupted.

* The calendar (`CalendarProofs`, first part).  `MonthStart` is any rising sequence of first days
  and a close day any number from 1 to 31 that short months cut off (`CloseFor`).  The cycles of a close
  day are then the intervals `CycleTo(j, close)` from the day after one close to the next, and
  every day lies in one of them: what is derived from the calendar by a `CHOOSE` or a search
  (`CycleOf`) is this interval, and the cycle before it ends the day before.
* Statement cycles (`CalendarProofs`).  `CyclesInv` only adds finiteness and the shape of the rows
  to the types; the work is in `CyclesViews`.  The previous cycle is found from the receipt, a
  stored period or the programme of the day; in each case its bounds are those of the
  statement, so the summary holds the purchases of these days.  `PreviousAdvances` compares two days:
  with one close day the cycle of the later day is not before that of the earlier one.
* History (`OperatorProofs`).  The code cuts a derived cycle by the stored periods one after
  another, a fold over a set.  Its existence as a function on subsets and `Leaves` (the segments lie
  within the cycle, apart from each other and from what was cut, and hold every instant nothing
  cut away) are proved by a least counterexample on the cardinality.  A purchase that no
  stored period holds is therefore in a segment of its cycle; it is missing only if the cycle was
  derived by a later purchase of another version, and in two segments only if two close days
  gave two cycles.
* Rates (`PieceProofs`, first part).  `FxInv` says what each stored trace holds (`GoodTrace`): its
  quote was valid for the instant of the notification, and came from a standard table if it is
  ADCB's.  What a page yields is never needed beyond that, so pages change freely.  `Division` and
  `DayOf` give the bounds of half-known days.
* Programmes (`PlanProofs`).  The properties hold in every typed state: two versions of a
  card in force on one day are what `GivesFor` refuses (two versions but one card, by cardinality);
  an authoritative rate has a claim for its path, whose references cover the days judged, and
  the day is one of them.  `Loads` changes with the day
  only through `JudgedOn`.
* Ledger tools (`PlanProofs`).  `ToolsInv`: a row that nothing pending covers is the same in the
  local copy and on the server, unless a user edited it; what is pending may be overwritten
  (`OverwriteIsKnown`); and while a replacement rewrites its copy there is a backup from which every
  intermediate copy is computed (`Replacing`).  The action property needs the second, completeness
  of a replacement the third.
* Notes and corpus (`PlanProofs`).  Regenerating is idempotent because a row is classified by what
  a manifest says, and that is classified as before (`Reclassifies`).  `CorpusInv`: a change of the
  stored plan was made of a row that could be planned (`Planable`), and a cleanup has one
  change for a row.  Of a plan that passes its preflight this gives that it is the plan of now.
* Table migration (`PlanProofs`).  The mapping is one step, so the work is about its result: that
  merging by rank picks one row of finite tables (a least or greatest element exists), that a
  group without conflict has one value (`Merge`), and that what each batch, source and document
  gets is one row made of its group.  `MigrationInv` keeps the rows sound while workflows write them, and the fence not below any
  receipt; the inventory property follows from it.
* Bootstrap (`PlanProofs`).  `BootShape` holds for any configuration: tables are finite and keyed,
  `Fresh` ids are new.  For a configuration that is `Coherent`, `AccountsInv`, `RulesInv` and
  `SchedulesInv` say per phase what has been applied, what is still to be done (`boot.left`), and
  how the table relates to what was read: an entry that is left finds in what was read the rows
  the table has.  Rows are looked up in what was read, so that no second row is made
  rests on the names and owners of the entries being apart.
  At "done" the three together say that every phase of another run would find nothing to do.
* The composition (`PieceProofs`, second part).  A step of one piece leaves the others' variables
  alone, so `FiguresInv` and `PlansInv` (the invariant of the piece that runs) are inductive,
  and imply `FiguresAreRight` and `PlansAreSound`.  The pieces are thus proved together, for any
  constants, as the run checks them.

The type invariants are proved in the same way (`...Types`, `...Typed`); those of cycles and rates
(`CyclesTyped`, `FxTyped`) are not listed with the others in `PROJECT.json`.  The run `parts`
checks those of its parts together as `PartsTypeOK`, the run `lease` those of its pieces in the
three composed invariants.

The assumptions of the constants were completed for the proofs and are what the code reads from its
inputs: days, amounts and versions are numbers, tables are finite and have one row for an
id, a month begins after the one before.  TLC evaluates them on the runs `lease` and `parts`.  Some
properties were false for other constants than those of the runs and were corrected after TLC
had shown the case: `Announced` and `ClaimedLater` (a version not backed yet, a claim that starts
later), `RenamedAway` and the condition on budgets with two schedules of an owner, and the refusal of
rows without key columns in the table migration, which the model had left out.  Two programme
configurations and a bootstrap configuration were added to the run so that these cases are met.

Only TLC checks, on the instances of section 3:

* the three liveness properties (fairness and ENABLED are beyond the prover);
* `RefundsFitEarnings` and `AdviceIsKept`: the first depends on how the tiers of a programme
  follow one another (a higher tier that earns less would break it), and both rest on sums over
  sequences the library picks in an arbitrary or sorted order, with no induction to cite;
* `DecisionsAgree`: staging and browser review fold over rows in their order, transfers are
  paired over connected components; of its pieces only the lease is proved;
* `RoutesAreHonest`: it depends on the programmes of the run;
* `PieceSteps` as a whole: of its pieces the tools, the inventory, the cycles, the programmes
  and the corpus are proved (`ToolsAlwaysAccountable`, `InventoryAlwaysKept`,
  `PreviousCycleAdvances`, `ProfilesOutlastDays`, `CleanupsOnlyTidy`), enrichment, transfers,
  routing and browser are not;
* `PartsTypeOK`, as a statement about the composition; its parts but the reward are proved.

## 6. Done and left out

Done, in this order: the lease, the outbox and its contract; the live scan; periods; statement
reconciliation and acquisition; push; reward, history, rule review, restore drill and captures;
then ledger tools, bootstrap, migrations, rates, enrichment, transfers, views, routing,
programmes and browser review.

Not modelled:

* document extraction, statement adapters (`statements.py`), MCP facade, authentication,
  planning, wealth, reports, subscriptions, the automation audit: they read or render data and
  keep no state that concurrency or failure could damage in a way a model would show;
* generators and release tools (`refactor_workflow_ui.py`, `generate_platform_bootstrap.py`,
  `generate_data_table_migration_matrix.py`, the e2e harnesses): they write or drive the workflow
  files, which are what is modelled;
* custom period ids, alert acknowledgements, processing states of receipts, budget months,
  quarantine and the message limit of the sweep: small operations of modelled components, named at
  their modules;
* maintenance sessions of the n8n nodes: they run the plans of `LedgerTools` inside one
  exclusive session;
* a composition of `StatementSweep` with `OutboxApply`: the sweep sees of the outbox only that the
  pipeline of a run has succeeded (`processed`), so the composition would add no
  interleaving that either lacks.

## 7. Running

    tlc -workers 2 -config MCOutboxApply.cfg MCOutboxApply
    tlapm OutboxApplyProofs.tla

`PROJECT.json` lists the module and configuration of every run.
