# LedgerLM: TLA+ models, model checking and proofs

LedgerLM wraps an LLM provider's client (Anthropic, OpenAI) in the program that
uses it, records one ledger row per call in a local SQLite file, prices the row
from a table of rates, and evaluates spend alerts, an optimizer report and a
dashboard over the ledger. It promises its host two hard things at once: the
wrapped call must never notice it, and the ledger must be true. This directory
models the parts where those promises depend on the order of events: threads
and processes on one file, streams that end in five ways, webhooks that go out
before their row is stored, price changes that overtake each other, and charts
whose data arrives after the page has moved on.

`PROJECT.json` is the index: components, runs, the source lines of each
definition, hazards and theorems. Run a model with
`tlc -workers 2 -config MCRecorder.cfg MCRecorder.tla`, check the proofs with
`tlapm RecorderProofs.tla`, and likewise for `AlertProofs`, `WrappedCallProofs`,
`Aggregates`, `PricesProofs`, `SpendProofs`, `OptimizerProofs` and `ChartsProofs`.

## Inventory

| Part (src/src/ledgerlm) | State it keeps | Operations | Model |
| --- | --- | --- | --- |
| `recorder.py` | per recorder: `_auto_init_attempted`, `_dropped`, `_last_warned`; `llm_events` rows | `record`, `_try_auto_init`, `_note_dropped`, `_record` | `Recorder`, promise in `EventSink` |
| `db/migrate.py`, `db/migrations/` | per process `_migrate_lock`; schema and `alembic_version` in the file | `upgrade_to_head`, three revisions | `Recorder` |
| `wrapper.py`, `streaming.py` | per stream: collector, `_finished`, `_first_token_ms` | `_instrument`, pull, close, exit, `__del__`, helper manager | `WrappedCall` |
| `providers/` | per stream: usage halves, `completed` | `observe`, `usage`, `prepare_stream`, `stream_snapshot` | `WrappedCall` |
| `pricing.py` | per process `_warned`; `model_prices` | `get_rates`, `compute_cost`, `price_usage`, `_warn_once` | `Prices` |
| `cli.py`: init, prices set, prices backfill | `model_prices`, rows' cost and snapshot | the three commands | `Prices` |
| `alerts.py`: `check_alerts` | `alert_firings` | cooldown, webhook, retry (D25), dashboard loop of `dashboard/app.py` | `AlertChecks` |
| `alerts.py`: `evaluate_rules` | none (reads the ledger) | daily budget, spike over the median, `load_config` floor | `SpendRules` |
| `optimizer.py` | none (reads the ledger in several SELECTs) | repricing, token-heavy calls, cache candidates | `Optimizer` |
| `dashboard/static/app.js` | in the browser: the registry of live charts, the fetches under way | `initCharts`, `buildChart`, re-run after each content swap | `Charts` |
| `dashboard/queries.py` behind the charts, `api/spend-by-*` of `dashboard/app.py` | none | `spend_by_day`, `group_totals` | `Charts` |
| `tagging.py` | a contextvar per task | `tags(...)` scopes, `current_tags` | not modelled |
| other queries, `export.py`, `cli.py summary` | none | read-only aggregation | not modelled |
| `dashboard/app.py` pages, `cli.py seed-demo`, settings | none of their own | routing, templates, demo rows | content swaps only, in `Charts` |

**How they interact.** The wrapper calls the provider, and gives the finished
call to `Recorder.record` on the caller's thread. `record` reads the rates of the
call's model (`price_usage`) and inserts one row; on "no such table" it runs the
migrations and tries once more; on any other failure it counts a drop and, at
most once per interval, warns. All processes meet in one SQLite file: recorders
of any number of programs, the CLI commands, the dashboard and its alert loop.
They share no lock but SQLite's write lock with its busy timeout, and a SELECT
opens no transaction, so whatever a command has read may be stale when it
writes. Only the migration has a lock of its own, and only within a process.

**Which behaviours are hard**, and what is correct there:

- *Recorder and migration*: two threads or two processes initialize one empty
  ledger, one of them dies in the middle, a statement fails. Correct: each event
  is one row or one count, never both; no two threads of a process in alembic;
  a stamp never lies; `record` always comes back.
- *Streams*: exhaustion, failure, close, leaving the with-block, cancellation and
  garbage collection race each other and the provider. Correct: one event; the
  caller's stream is untouched; usage, first-token time and status say what
  happened.
- *Alert checks*: post first, store afterwards; several evaluators; a crash in
  between; a receiver that comes and goes. Correct: an evaluator's own firings
  are a cooldown apart; `delivered` is true and final; an undelivered firing gets
  through while it governs.
- *Alert rules*: half-open windows, empty days, an even number of days. Correct:
  the days partition the spend; a budget that is reached stays so until midnight,
  unless overlapping backfills lower a row; silence fires nothing but a budget of
  0 or less and a floor below 0, which the configuration may ask for.
- *Prices*: recording, `prices set`, `init` and two backfills overlap. Correct:
  each priced row is recomputable from its own snapshot, at rates its pair held
  together; unknown usage is never priced; gaps are reported once.
- *Optimizer*: its SELECTs are of different moments, and the first is cut at a
  number of groups. Correct: what the figures say of one another still holds.
- *Dashboard charts*: the answers of a page's fetches come in any order, after
  the ledger has changed and after the page's content has been replaced by
  another with canvases of the same ids. Correct: a canvas shows its own
  endpoint's data under its own page's filters; one live chart per id; a figure
  says what was spent and how many calls it leaves out; a blank canvas has a
  reason.

`PROJECT.json` lists each hazard with its line and the properties aimed at it.

## The modules

### EventSink, Recorder, RecorderProofs

`EventSink` is the recorder's promise with nothing of how it is kept: an event is
submitted, then stored as one row, counted as dropped by its recorder, or lost
with the process.

`Recorder` is `record` step by step, one action per statement or critical
section that another thread can see between: `Begin`; `Price` (SELECT of the
rates, only for calls with usage); `Insert`; `Check` and `Claim` (the unlocked
read and write of `_auto_init_attempted`); `Lock`, `ReadHeads`, `Migrate` and
`Release` (`upgrade_to_head`); `Note` (the locked half of `_note_dropped`) and
`Warn` (the logging after it). `Fault` is any other error a statement can
meet, `Crash` the death of a process, `Tick` the clock of the warning interval.

The ledger `db` is the set of upgrade statements in effect, 1 to 8 in alembic's
order: the version table, revision 0001's tables and stamp, 0002's column and
stamp, 0003's table and stamp. SQLite's DDL runs outside a transaction here, so
each statement is visible and durable by itself and the stamp comes last; a
second CREATE of an object fails. An INSERT succeeds when the table and the
column `first_token_ms` are there, and a missing column is not "no such table".

### WrappedCall, WrappedCallProofs

One call through a wrapped client. `Init` picks the kind: three APIs, plain or
streamed, `create` or the helper `stream`, the chat usage chunk asked for or
injected, and the style of consumption (sync; async, where a close can come while
a pull waits; threads, where it can also come inside `_handle` and `_finish`). The
provider's script (`Scripts`) is external.

`Pull`, `PullEvent`, `PullStops` and `PullRaises` are `__next__` and `__anext__`.
After `PullEvent` (the collector observes the event) come `Stamp` (the write of
`_first_token_ms`) and `HandOver` (the event reaches the caller, or is
swallowed), for another thread may end the stream between any two of them.
`Finish` is the check of `_finished`, and the rest of `_finish` is a step for each
shared field, in the code's order: `SetFinished`, `ReadLatency`, `ReadFirst`, and
`Finishing`, which reads the collector and makes the event. A thread inside it is
an element of `pend`, with what it has read. `Close` and `ExitRaising` go through
`_finish` first, and only then close the SDK's stream (`CloseSdk`); `CloseInner`
(async `close()` through `__getattr__`) and `Forget` (`__del__`) are the other ways
to end. `HelperTakes`/`HelperExit` are the helper's manager. `Mode` is the dispatch of `_instrument`. `Emit` is
`_record_safely` and the finisher around it: building the event (hashing the
prompt, normalizing the usage) may raise, which is swallowed and leaves nothing
but a log line; `unbuilt` counts such attempts. Wrappers share nothing between
calls, so one call per behaviour is the general case.

### AlertChecks, AlertProofs

`check_alerts` of each evaluator as a record: `Begin` (clock and verdicts read
once), then per rule `Govern` (look up the governing firing and decide),
`RetryPost`/`RetryCommit`, or `Post`/`Persist`. `Abort` is a crash or a failed
commit, `Flip` the receiver going up or down, `Tick` the clock. A POST may arrive
and still look failed (timeout), which `landed` versus `ok` tells apart. The
verdict is any set of rules; `SpendRules` has what makes one.

### SpendRules, SpendProofs

The verdicts of both rules as operators over a ledger that grows (`Record`), is
priced and ages (`Tick`). `BackfillLoad` takes the rows that are unpriced and
`BackfillCommit` writes them by primary key, whatever another backfill has written
meanwhile. Medians are doubled and the multiplier is a fraction, so that
everything is an integer. `config` is what `ledgerlm.toml` may say: any budget, 0
and less included, any floor, or none. `Floor` is `load_config`'s
`raw.get(...) or default`: an explicit 0 becomes the default, a negative floor
does not. Costs are not negative, as long as no rate is.

### Prices, PricesProofs

`model_prices`, the rows' costs and snapshots, the write lock and the
per-process set of warned pairs. Recording is `Lookup`, `WarnOnce` (the mark, under
the lock), `Warn` (the log line, after the lock is released, so that another
thread can find the mark and go on before it) and `Store`;
`prices set` is `SetLoad`, `SetCommit` (an INSERT, or an UPDATE of the columns
that differ from those loaded, as the ORM does); `prices backfill` is `FillLoad`,
`FillRow` per row in any order (the SELECT of a new pair's rates flushes the rows
priced so far, which takes the write lock), `FillCommit`, `FillFail`; `init` is
`InitCount`, `InitSeed`. `Quantize` rounds half to even; `Scale` is the size of a
quantum.

### Optimizer, OptimizerProofs

Extends `Prices` with one report: each SELECT of `build_report` is an action, in
the code's order, and the rest of `Prices` may happen between any two.
`SelectPriced` is the report's first SELECT, with its LIMIT: at most `GroupLimit` of
the groups by project, feature and model, and no dearer one left out
(`Dearest`; ties may go either way). `Candidates`, `Threshold`, `Heavy`, `Repeated`
and `RepeatTokens` are the analyses. `0.95` is the fraction `PctNum / PctDen` (`ceil(0.95 * n)` in floating
point is the exact ceiling for every n up to 200 000).

### Charts, ChartsProofs

A dashboard page in the browser. A page's content is swapped for another
(`Swap`: the filter form's answer arrives, htmx saves the old content and fires
`htmx:afterSwap`) or put back (`Back`: the saved HTML without its drawings, and
without that event). `InitCharts` starts a fetch for each canvas of a content
shown; the endpoint answers it from the ledger of that moment (`Serve`) or it
fails (`Refuse`); `Arrive` is the callback, with `BuildChart`, whenever it runs
and whether or not its canvas is still on the page. A canvas is its id and the
number of the content that brought it; `registry` is the map `charts` of
`app.js`, keyed by id alone. `Write` is anything that adds calls or prices to the
ledger. What an endpoint may answer is `Answers` (grouping, NULL sums, order,
the cap on groups); `Config`, `BaseOptions` and `Tooltip` are what a chart makes
of it, with the choice of the axis and the label that `FiguresHonest` is about.
Three facts are the libraries': a swap fires its event after the content is in
place, Back fires none, and Chart.js clears a canvas when its chart is destroyed.

### Aggregates

Models nothing: lemmas about sums over a finite set of rows (`SumFunctionOnSet`
of the community module `Functions`, by which every total of the models is
defined) and about values at a rank, used by the proofs of `Prices`,
`SpendRules`, `Optimizer` and `Charts`.

## The runs

| Run | Instance and bounds | What it shows |
| --- | --- | --- |
| `recorder` | 3 calls, 2 recorders, 2 processes; ledger absent or at 0001; `c3` may fail, `p2` may die; clock 0..1 | types, `Accounting`, `MigrationMutex`, `OneMigratorPerRevision`, `StampedSchema`, `MigratorRecorded`, `WarningsAccurate`, `WarnedEachWindow`, `Returns`, `ImplementsSink` |
| `recorder_race` | 2 recorders of one process, empty ledger, no fault | `NeverDropped` is violated |
| `wrapped_call` | every kind, every script; clock 0..2 | `OneEventPerCall`, `CallerStreamUntouched`, `UsageFaithful`, `FirstTokenFaithful`, `StatusFaithful`, `StreamsRecorded` |
| `stream_refused` | sync Anthropic stream | `FailuresRecorded` is violated |
| `alert_checks` | dashboard loop and cron job, 1 rule, cooldown 1, clock 0..1, 1 crash or failed commit | types, `OwnFiringsSpaced`, `DeliveredMeansLanded`, `FiringsOnlyGrow`, `GetsThrough` |
| `alert_lapsed` | 1 evaluator, 1 rule | `RetriedUntilLanded` is violated |
| `prices` | 4 events (one without usage) of 2 models in 2 processes, 1 `prices set`, 2 backfills, 1 `init` | types, `Recomputable`, `PricedAtRatesHeld`, `GapsReportedOnce`, `BackfillRepairs`, `SeedOnlyFills` |
| `price_shift` | 1 event, 2 `prices set`, 2 backfills | `HistoryFixed` is violated |
| `optimizer` | 3 events of one prompt in 2 projects, 2 models, 1 `prices set`, 1 backfill, 1 `init`, 1 report; 1 group shown, percentile 1/2, 2 repeats | `CountedOnce`, `CandidatesCheaper`, `FewHeavy`, `SavingsConservative` |
| `spend_rules` | 3 events over 9 ticks (4.5 days), 4 baseline days, 2 backfills; 3 configurations: a budget of 3 with a floor of 0, a budget of 0 with a floor of -1, no budget and no floor given | `DaysPartition`, `BudgetHolds`, `SilenceNeverFires`, `HalfTheDays`, `ResumedUsageFires` |
| `charts` | a line of days and a bar chart of groups, 2 filters, 3 calls (one unpriced at first), room for 2 groups, 3 contents | `OwnFreshData`, `OneLiveChart`, `BlankExplained`, `FiguresHonest` |
| `charts_overtaken` | the same | `ChartsReRender` is violated |

**Why the bounds are enough.** Two threads of one recorder and one of another
process meet every lock and every unlocked field of `recorder.py` from both
sides; a ledger at 0001 and an absent one are the cases "column missing" and
"table missing"; one warning interval separates due from not due. A wrapped call
is a bounded protocol by itself, and its scripts have each kind of event the
collectors tell apart. Two evaluators are the race `src/README.md` warns of, and a
clock that reaches the cooldown lets a rule fire again; that a check goes through
its rules one after the other is covered by the proofs, which are for any
sequence of them. Two backfills, one price
correction and one seed are one each of the writers of prices, and two of the
only command that holds the write lock. In `MCPrices` one row lacks usage, one
meets a bucket without a rate and rates are such that rounding matters
(`Scale = 4`). The percentile 1/2 flags calls among three, where 0.95 would need
twenty, and with room for one group of two, one is left out. In `spend_rules`, an
even number of baseline days has two middle ones, costs of 1 and 3 lie on either
side of the floor and of the budget, and two backfills are enough for one to
write over what the other has written. In
`charts`, three contents are two swaps, or a swap and a Back, so that an answer
can be late by one content and by two; the three calls are of two days and of
three groups, one more than there is room for; and no cost is a multiple of the
smallest figure displayed.

**Deadlock** is checked where the system is never stuck: `Recorder` and
`WrappedCall` stutter explicitly (`Quiet`, `Over`) only when every call has
returned. `CHECK_DEADLOCK FALSE` is used where commands run once and the
behaviour may end (`Prices`, `Optimizer`), where the clock and the ledger are
bounded (`SpendRules`), for `AlertChecks`, whose evaluators need not run, and
for `Charts`, where the reader may stop clicking.

**Fairness.** `Recorder`: weak fairness of each call's own steps, since the
operating system runs every thread of a live process; no fairness of calls,
faults, crashes or the clock. `WrappedCall`: a waiting pull comes back (the SDKs
have timeouts), a thread inside `_handle`, `_finish` or a close goes on, and a stream
that is dropped is collected. `AlertChecks`: a check that began goes on (its POST has a timeout), and
only the dashboard loop begins another by itself (`alerts_loop`); a cron job need
not. `Flip` is not fair: `GetsThrough` assumes a receiver that stays up, and a
firing that goes on governing. `Prices`, `Optimizer`, `SpendRules` and `Charts` state no
liveness (a fetch may never be answered).

## What is proved

`RecorderProofs` proves, for any finite set of calls and any recorders,
processes, placements and released start ledgers (the assumptions `CallsFinite`,
`Placement`, `StartReleased`, `Clock` and `NoneIsNone` of `Recorder`):

- `TypeCorrect`: `TypeOK`, inductive by itself.
- `NoTwoMigrators`: `MigrationMutex`. It is not inductive, because nothing in
  it says that the call inside alembic holds the lock; `LockHeld` does: a call
  between `Lock` and `Release` is the lock's holder.
- `StampsAreTrue`, `FirstCreateElects`: `StampedSchema` and
  `OneMigratorPerRevision`, from `UpgradeInv`. Its heart is that a call about to
  run statement k sees all before k in effect. Statements are never undone, so
  no step of another process can break this, and the first CREATE of a
  revision, which fails for everyone else, elects the one call in its body.
- `InitializerRecorded`: `MigratorRecorded`, from `Finishing`: a call whose
  upgrade ran to the end is on the way to its retry, and the retry finds the
  whole schema.
- `EventsAccounted`: `Accounting`, by counting calls that are past `Note`.
- `WarningsTrue`: `WarningsAccurate`, from `Reported`: the counts that have been
  logged and those that threads hold between the lock and the logger are all
  different and none is ahead of the counter, so the order of logging does not
  matter. `DropsReported`: the action property `WarnedEachWindow`.
- `RecorderIsSink`: `Safe => Sink!Safe`, the initial state maps to the sink's and
  each step to a step of the sink or a stutter.

`AlertProofs` proves, for any evaluators, rules, cooldown and bounds
(`AlertConstants` of `AlertChecks`), of the specification without fairness:

- `AlertTypes`: `TypeOK`, inductive by itself. Its conjunct that a retry has an
  existing firing of its rule rests on `FiringsKept`: a step only appends
  firings or marks them as landed or delivered.
- `FiringsAppendOnly`: the action property `FiringsOnlyGrow`, from the same lemma.
- `DeliveryIsTrue`: `DeliveredMeansLanded`, from `AnswersTrue`: an answer that is
  ok has landed, and when it answers a retry, landed for the retried firing.
- `CooldownKept`: `OwnFiringsSpaced`, from `ClearToFire`: a check about to fire is
  past the cooldown of all its own firings of the rule. The lookup of the
  governing firing establishes it (the latest firing exists, because times are
  bounded: the minimum of a set of naturals, from the well-founded library), and
  other evaluators cannot break it, for the firings they add are their own.

`WrappedCallProofs` proves, for any set of kinds of call and any clock
(`CallConstants` of `WrappedCall`):

- `CallTypes`: `TypeOK`, inductive by itself.
- `OneEvent`: `OneEventPerCall`, from `Single`: the flag `_finished`, how far the one
  thread in `_finish` has come, and the attempts at an event together say
  which of "none yet", "one under way" and "one made" the call is in. Without
  threads no second one can pass the check while one is under way.
- `StatusTrue`: `StatusFaithful`, from `Ended`: what a thread past the check is
  about to record agrees with how the stream has ended, and nothing can end it
  another way before the event is made.
- `UsageTrue`: `UsageFaithful`, from `Used`: the collector holds the usage of
  exactly the events taken, and an "ok" comes after the last one.
- `FirstTokenTrue`: `FirstTokenFaithful`, from `Timed`: the field is set once content
  has been handed over, and not before content has been taken; what is promised of
  an event (`Promised`) is kept at each step of the `_finish` that makes it, and
  becomes its own once the field has been read. That the time tells just what the
  caller got, and is no later than the latency, needs that no other thread is
  inside `_handle` meanwhile; with threads it is not claimed.
- `HostUntouched`: `CallerStreamUntouched`, from `Relayed`: what has been delivered
  is what has been taken, less the event `_handle` is at and the swallowed chunk,
  which no event follows.

`PricesProofs` proves, for any calls, pairs, buckets, rates and commands
(`PriceConstants` of `Prices`):

- `PriceTypes`: `TypeOK`, from `Shaped`: the records of the commands, and that a
  price, once there, stays there, so that the row a `prices set` updates exists.
- `SnapshotsHeld`: `PricedAtRatesHeld`, from `Traced`: what a recording or a
  backfill has read, is about to write or has written was in force for its pair
  as a whole, which a later `prices set` or `init` cannot undo.
- `SeedFills`: the action property `SeedOnlyFills`: although the count of `init` is
  older than its INSERTs, one that meets a price that is there by now fails.
- `RowsRecomputable`: `Recomputable`, from `Sounded`: the same of a cost that is
  about to be written or is in the batch of a backfill as of one in a row.
- `BackfillsRepair`: `BackfillRepairs`, from `Looked` (a row the backfill has been
  through is in its batch or could not be priced at the rates it read) and
  `Landed` (its commit wrote the whole batch, and a row never loses its price).
- `GapsReported`: `GapsReportedOnce`, from `Reported`: a pair is marked if and only if
  its warning has been logged or one call of the process, and no other, is about to
  log it; a call about to store without a price has its pair marked, by itself or by
  a thread that met the gap before it.

`SpendProofs` proves, for any length of day, baseline, costs, rules and ledger
(`RuleConstants` of `SpendRules`), from the inductive `Typed` (no event is later
than the clock):

- `DaysShareSpend`: `DaysPartition`. The windows are half-open, so a priced event
  since the oldest midnight is of exactly one day or of today; the table of events
  and days then adds up the same by rows as by columns.
- `BudgetStays`: the action property `BudgetHolds`: no step takes a counted event
  out of today, and only a backfill that lowers a row another has priced since it
  was loaded takes a cost back.
- `HalfOverHalfUnder`: `HalfTheDays`, from what the two middle ranks of the days'
  totals mean, for an even and for an odd number of days.
- `SilenceIsQuiet`, `FloorAlone`: `SilenceNeverFires` and `ResumedUsageFires`. The
  first rests on the floor being positive unless a negative one is configured,
  which is what `or default` makes of an explicit 0.

`OptimizerProofs` proves, for any calls, prices, features, percentile and
commands beside the report (`PriceConstants` and `ReportConstants`):

- `ReportOnlyReads`: `ReportSpec => Spec`, a refinement that carries every theorem
  of `PricesProofs` over to a ledger with a report running on it.
- `EachCountedOnce`: `CountedOnce`, from `Counting`, which relates two SELECTs to
  the ledger between them: a row that was not in the first count was priced then,
  and a priced row stays priced until the SELECT of the costs. So it is in a group
  of the report, unless its whole group is left out because `GroupLimit` others are
  shown.
- `CandidatesAreCheaper`: `CandidatesCheaper`, from `Bought`: the rows the report
  holds are sound (so their costs are rounded sums, even if their rates have been
  changed since), and a rounded sum and a sum of rounded terms differ by at most
  half a quantum for each term.
- `HeavyAreFew`: `FewHeavy`, from `Flagged`: the threshold is the value at the
  percentile's rank, so too few are above it.
- `SavingsAreConservative`: `SavingsConservative`, from `Saved`: the largest input is
  no less than any other, so leaving it out leaves no more than leaving out the
  call that in fact wrote the cache. It compares tokens: that the money saved is
  underestimated too needs a cache-read rate below the input rate.

`ChartsProofs` proves, for any canvases, filters, ledgers and number of contents
(`ChartConstants` of `Charts`):

- `ChartTypes`: `TypeOK`, inductive by itself.
- `ChartsShowOwnData`: `OwnFreshData`, from `Grown`: a ledger only grows, so it and
  every answer have all that was there when the content was shown, and the
  callback keeps its canvas and endpoint together.
- `OneChartPerId`, `BlanksExplained`: `OneLiveChart` and `BlankExplained`, from
  `Placed`: a chart is registered under its own id, and an id under which
  something was drawn is never empty again, so a canvas that was drawn and is
  blank has been displaced by another of its id.

- `ChartsAreHonest`: `FiguresHonest`, from `Grown` and what an answer is: an
  ordering of the rows of all labels of the ledger that was read, cut at `Cap` on
  the chart of the groups. It covers either order of tied groups, for the theorem
  is about every answer the endpoint may give.

The totals in these properties are sums over sets, which the community modules
define by a recursive function, and medians and percentiles are defined by ranks.
The library's induction theorems cannot be used on them, because they take an
operator as a parameter. `Aggregates` argues by the smallest counterexample
instead: the subsets of a finite set under strict inclusion are well-founded
(a fact of the library about a relation, not about an operator), so if a claim
fails of some subset it fails of a smallest one, from which one more element can
be taken. That gives the sum over a union, of a sum, of a multiple, its
monotonicity, the exchange of two sums, and that every rank from 1 to n has a
value.

Every safety invariant and action property of the passing runs is stated by a
theorem. Only model-checked is liveness, which TLAPS cannot treat: `Returns`,
`GetsThrough`, `StreamsRecorded` and the fairness half of `ImplementsSink` (its
safety half is `RecorderIsSink`).

## Where the code departs from what is said of it

Each of these is a `violation` run, quoted in `PROJECT.json` under `findings`.

- D20 says that losing the initialization race "degrades to a successful retry,
  never a dropped event". It does when the loser meets a missing *table*. When it
  meets the table of a revision half-way through (a missing column), or is the
  second thread of one recorder, its event is dropped (`recorder_race`).
- A streamed call the provider refuses leaves no event, while the plain one
  leaves an error (`stream_refused`).
- An undelivered firing is retried only while it governs its rule, not "until it
  lands" (`alert_lapsed`).
- Two backfills around a price change re-cost a row that was priced, against
  "history never silently shifts" (`price_shift`).
- "Filter changes re-render charts": not always. The registry of charts is keyed
  by canvas id, so when the answer of a canvas that a swap has removed comes after
  the answer of its successor, it destroys the chart on the screen and draws on
  the canvas that is gone (`charts_overtaken`).

## What is left out

- Two overlapping `prices set` of one pair can leave a mixture of their columns
  (the UPDATE writes those that differ from the ones loaded). `Prices` has the
  behaviour and no property forbids it; `PricedAtRatesHeld` still holds, because a
  row is priced from one reading.
- A stream whose terminal event has been delivered is recorded as
  `stream_abandoned` when the caller leaves its with-block before asking for the
  end. `StatusFaithful` allows it: the caller was not told of the end.
- An event that cannot be built is lost without being counted: `dropped_events`
  counts the recorder's own failures. `OneEventPerCall` and `StreamsRecorded` count
  it as the attempt it is.
- After Back, htmx shows saved canvases that nothing draws. `BlankExplained` names
  it as one of the reasons for a blank canvas.
- A webhook may go out twice for one firing, when the commit after it fails.
  That is what posting first means, and `OwnFiringsSpaced` is about rows.
- A stream shared by OS threads can leave two events, for two of them can both
  find `_finished` unset; and a close in one thread takes the latency before it
  reads the first-token time, which another thread may set in between, for an event
  it has not handed over yet. So `first_token_ms` can exceed `latency_ms`, or be of
  content the caller has not got. Nothing promises otherwise: `OneEventPerCall` and
  `StatusFaithful` leave that style out, `FirstTokenFaithful` claims of it only what
  holds, and `UsageFaithful` holds of it as of the others.
- Tag scopes (`tagging.py`): an immutable dictionary in a contextvar. Its one
  subtle point is that the recorder reads it when the event is written, so a
  stream opened in a scope and finished outside has the tags of the outside;
  "every call recorded inside the scope" is what the docstring says too.
- The token arithmetic of the normalizers, prompt hashes, attribute
  proxying, formatting, HTTP, templates, demo data, the read-only reports, and
  Postgres and alembic's downgrade and offline modes.
- Negative budgets and floors are modelled, negative rates are not: tokens, rates
  and costs are natural numbers.
- The report's filters, which are the same in each of its SELECTs, and the lengths of
  its lists of candidates, calls and prompts, which only shorten them. The limit on
  groups is modelled, because the report's count of unpriced calls is not cut by it.

## Plan

Done: `EventSink` and `Recorder`, `WrappedCall`, `AlertChecks`, `Prices`,
`SpendRules`, `Optimizer` and `Charts`, with proofs for all of them.

Next, in this order:

1. An abstract specification of the alert trail (a firing is raised, then
   delivered at most once per row) that `AlertChecks` implements, and of the
   price history that `Prices` does, with the refinements proved.
2. `WrappedCall` composed with `Recorder`: what the host sees when both an event
   and its ledger fail.
3. Usage normalization (`providers/`): buckets are disjoint and sum to what the
   provider billed.
