# Formal models of tossai

tossai is an analysis-only stock advisor for a Toss Securities account. It
screens a universe of symbols, asks Claude for a verdict on each candidate and
on each held position, and delivers the results as report files, console
tables, Slack messages and answers to Slack commands. It never places an order.
This directory holds TLA+ models of the parts of it in which order, failure and
concurrency matter, the TLC configurations that check them, and proofs checked
by TLAPS. `PROJECT.json` maps every definition to the lines it models.

## 1. Inventory

Paths are relative to `src/src/tossai/`.

| Part | State | Operations | Modelled in |
|---|---|---|---|
| Serve process: risk job (`scheduler/jobs.py`), deduper (`risk/state.py`) | `_seen`, `.risk_alerts.json`, the alerts found by a scan | `_risk_job`, `_scan_risk`, `_scan_position_stops`, `should_send`, `_load`, `_save` | `RiskAlerts` |
| Evaluators (`risk/evaluators.py`), VIX sources (`risk/sentiment.py`) | none | `evaluate_*`, `get_vix` | `RiskAlerts`, verdicts as inputs |
| Calendar (`market/calendar.py`) | none | trading day, local day, opening hours | days in `RiskAlerts`, hours in `Screening` |
| Slash commands (`slack/server.py`, `commands.py`, `signature.py`, `runner.py`) | `seen_triggers`, semaphore, tasks | the handler, `_run_deferred`, `run_and_respond` | `SlackServer` |
| Slack client (`slack/web_client.py`) | none | `post_message`, `respond` | outcomes in `RiskAlerts`, `SlackServer` |
| Advisor (`agent/advisor.py`) | `ConversationStore._store` | `answer`, `get`, `set` | `Conversation` |
| Advisor tools (`agent/tools.py`) | none; `performance` writes the ledger | eight tools | `ReportsDir` (performance), one round each in `Conversation` |
| Reports (`output/report.py`, `portfolio_report.py`) | files named by the second | `save_report` | `ReportsDir` |
| Ledgers (`performance/ledger.py`) | two append-only JSONL files | `append_report`, `append_records`, `load_ledger`, two backfills | `ReportsDir` |
| Command line (`cli.py`) | none | the order in which run-once, daily, portfolio, track use the files | `ReportsDir` jobs |
| Tracker (`performance/tracker.py`) | none; asked again every day | `evaluate` | `Tracker` |
| Pipeline (`pipeline/orchestrator.py`, `portfolio/analyzer.py`, `analysis/claude_engine.py`, `output/alerts.py`) | a report in the making, the token counters, the macro snapshot | `run_once`, `screen_only`, `run-loop`, `run`, `analyze_all`, `dispatch` | `Pipeline` |
| Briefings and other jobs (`scheduler/`) | none | morning, weekly, portfolio jobs | `Pipeline`, except the weekly digest |
| Toss client (`toss/auth.py`, `toss/client.py`) | token in memory and in a file shared by processes | `get_token`, `_get`, `get_candles`, `get_holdings` | `TossClient`; the paging of `get_candles` in `Candles` |
| Strategies (`screening/strategies/`) | none | `evaluate`, `evaluate_all` of thirteen strategies | `Strategies`, `Screening` |
| Ensemble, regime, sector cap, weights (`screening/`) | the VIX of a run | `screen_universe`, `diversify_by_sector`, `inverse_vol_weights` | `Screening` |
| Backtest (`backtest/engine.py`) | a paper portfolio | `walk_forward_backtest` | `Backtest` |
| Command line (`cli.py`) | none | which pass a command runs, the loop | `Pipeline`, `Commands` |
| Context, fundamentals | caches per run | best-effort fetches | outcomes in `Pipeline` |
| Prompts, blocks, tables, data classes, `backtest/metrics.py` | none | text and averages | not modelled |

How the parts interact:

* One **serve** process holds an asyncio loop with the Slack server and the
  APScheduler jobs. Blocking work goes to threads. systemd restarts the process
  after a failure (`deploy/tossai-serve.service`), and what is only in memory is
  gone then: `seen_triggers`, tasks, conversations, `_seen`.
* **Timers** start `run-once` every 30 minutes and `daily` every weekday as
  processes of their own; a user may start any command beside them.
* All of them share one **reports directory** without a lock: report files, two
  ledgers, the dedupe file. A report is written by one process and read by the
  backfills, the briefings and the advisor of others.
* Slack resends a command whose reply is late; it may refuse a message, or the
  network may fail while one is posted.

What is hard to test in it, and the property that looks at it, is the list
`hazards` of `PROJECT.json`.

## 2. Modules

`<Module>Proofs` holds the theorems about `<Module>` and the modules it composes,
`SeqFacts` the facts about naturals, sequences and sums that several of them cite
(section 4); `MC<Module>` gives the constants of a run their values.

### OncePerDay: what the deduper promises

Keys, days and nothing else: a key is claimed at most once a day, the claim
precedes the delivery, and claims may be forgotten. `DeliveredOnce` says that a
notification is not delivered twice under a claim that was not forgotten.

### RiskAlerts: the risk scan and its deduper

| Variable | Code |
|---|---|
| `now` | the clock; `UtcDay` is `AlertDeduper._today`, `LocalDay` is `now_in_market` |
| `proc` | the serve process, up or down |
| `job`, `queue` | where `_risk_job` is, and the alerts it has not yet offered to `should_send` |
| `seen`, `file` | `AlertDeduper._seen` and what `_load` would read back |
| `posting` | the message in `chat_postMessage` |
| `delivered`, `lost` | history: what Slack accepted, and today's marks a crash erased before the disk had them |
| `sighted` | history: how often this process saw a position below its stop today without its key being spent |

One scan is `ScanVix`, `ScanGaps` (or `SkipOffDay`, `UniverseUnreadable`),
`ScanStops`, and then for each alert `Suppress` or `Claim` and one of the ends
of a post. The blocking calls of the scan are separate steps because the
process may die, or the day change, between them. `should_send` has no await:
marking and saving are one step, but its file may come out new, old or
unreadable, since `_save` swallows an `OSError`, and `CrashInSave` dies inside
it. The prices are abstracted to the evaluators' verdicts. `_risk_job` is one
instance at a time (`max_instances=1`).

`UniverseUnreadable` is the call of `load_universe` outside the `try`: it ends
the scan, drops the VIX alert found before it, and keeps the stops from being
looked at for as long as the file stays broken. Nothing in the model assumes
that it does not. `StopGetsThrough` therefore speaks of what the scans did see:
a stop is passed over for another key only, and a key is spent once a day.

The command `risk` of the command line posts without the deduper; it is not
modelled.

### SlackServer: slash commands

The handler from the test of `seen_triggers` to its return is one step of the
event loop (it does not await). `tasks` is the list of the deferred tasks in
creation order; a task is new, queued on the semaphore, working in its thread,
responding, or over. `asyncio.Semaphore` is external and modelled by what it
does: `free` permits, the queue `waiters`, and a release that hands the permit
to the first of them (`HandOver`) or keeps it (`FreePermit`). `Reject` stands for every way the signature can fail,
before anything is remembered. Slack is the environment: how often it posts a
command, whether a post arrives, whether the reply was in time. A command
without a `response_url` or with an inline answer makes no task, but its
`trigger_id` is remembered all the same; one without a `trigger_id` is never a
duplicate. A crash empties all of the memory.

### Conversation: the advisor's memory

Workers take questions (`Ask` reads the history and drops an old one), go
through rounds of tool use, and `Store` what they have at the end. A message is
reduced to its kind and the question it belongs to. `Acceptable` is what the
Messages API takes, and is external: a user message first, every tool call
followed by its results, no message without content. `Fails` is a refused
request or one that still fails after its retries; `CutOff` is an answer ended by
`max_tokens` in a tool call, `EndsEmpty` one that ends without any content.
`ConversationStore.reset` is called by nobody and has no action.

### TossClient: calls and tokens

| Variable | Code |
|---|---|
| `client` | each `TossClient` with its `TossAuth`: where its call is, `_token`, `_expires_at`, the attempt of `_get` it is in and whether that attempt had its 401 |
| `file` | what `_load_cache` would read of `.token_cache.json` |
| `newest`, `late` | Toss: the last token issued, and logins it may answer after their client stopped waiting |
| `now` | the clock |

A call is `Call`, perhaps a login (`Grant` at Toss, `Receive` and `Save` at the
client), and then `Answer`, `Unauthorized`, `Refuse` or `TransportError`, which
waits and is tried again. Toss checks the token when the request arrives, which
is some time after the client looked at its clock. `_save_cache` empties the
file before it writes it, so a process that opens a client in between, or after
a death in between, finds nothing; so does one that finds two texts written
over each other. An answer to a login may leave out `expires_in`; the client then
supposes `DefaultLife`, the hour of `TokenResponse`. A client is used by one thread, so its lock is never waited
for. The fields `own` and `denied` are history. With `OneAtATime` Toss revokes a
token when it issues the next: whether it does is not known, and it is the
harder case.

### ReportsDir: reports and ledgers

Processes run jobs, each a list of operations: run-once saves a report and
appends its records, daily does the same first when it is given `--picks`, saves
a portfolio report if there is an account, and backfills and scores both
ledgers, portfolio saves, track and the advisor's performance tool
backfill and score. `OpenReport` truncates the file named by the current
second, `WriteReport` writes it, over what another process may have written
there meanwhile. A ledger is text: two halves of a JSON line and a newline, so
that a flush can end inside a line and another process, or a later run, can
continue it. `Lines` is what `load_ledger` can parse of it. A backfill reads
all reports in one step: reports do not change once written except for
overwriting within a second, so reading them one after another finds the same
ones or newer. `Key` has the symbol and the action in one `Item`.

### Strategies: what a strategy says of one symbol

Pure operators: for each strategy a `Gate` and a `Score` over a *reading*, the
values of its indicators on the last bar. Returns and ratios are percentages,
scores count the four decimals the code rounds to, and `RoundEven` is Python's
rounding of the exact value; the code sums binary fractions, which differ from
it in the last digit at most. The indicators (moving averages, RSI, ranges) are
inputs. Of `required_history` only the comparison with the length is left. `Indicators`
and `Accounts` say what a reading and the figures of a company are. Prices are
positive in them: the strategies divide by them, and nothing in the code
refuses a zero that Toss might send.

### Screening: from candles to ranked candidates

`EvaluateAll` is one strategy over every symbol, the two cross-sectional ones
(`RelativeStrength`, `MagicFormula`) included; `Verdicts` weighs them by the
regime, `Merge` joins those on one symbol, `Ranked` is the stable sort, `Cut`
the limit of candidates. `ScreenUniverse` is what `build_strategy` returns: the
ensemble, or a lone strategy, which ranks without the regime. `Diversify` and
`InverseVolWeights` come after, `IsMarketOpen` is the calendar.

A sort is `InOrder`: every element stands at the place that the number of those
before it gives. It is defined for any strict total order, which is what the
proof of `AgreementNeverHurts` reasons about; sums are folds of a function.

### Pipeline: a pass

| Variable | Code |
|---|---|
| `command`, `setting` | the command of the process, and `STRATEGY` |
| `moment` | the time of day in both markets; `Tick` moves it at any point |
| `at` | where the command is |
| `onPicks`, `openAtStart` | the kind of pass, `market_open` of `run_once` |
| `todo`, `fetched` | the loop of `_fetch_candles` |
| `cands`, `results`, `tries` | `analyze_all` or the loop over positions, the attempts of `_create` |
| `tokens` | `counted`: the counters of the engine; `billed`: what Claude charges |
| `macro` | `MarketContextProvider._macro` |
| `disk`, `inLedger` | the report of this pass, its records |
| `left`, `tried`, `pushed` | the notifiers of `dispatch`, and what they sent |

Every call is a step with its failures as alternatives: a universe that is
missing (empty) or cannot be parsed (raises), candles of a symbol, the VIX, the
fundamentals, the macro snapshot, the ways Claude can answer (`AskHiccup`,
`AskRefused`, `AskMalformed`, `AskAnswered`), the disk (`SaveFails`), each
channel (`Notify`). An exception that leaves the pass (`Raise`) ends the command,
or the iteration of the loop. The loop looks at the market before a pass
(`LoopFindsOpen`, `LoopFindsClosed`) and `run_once` looks again (`MarketOpen`): a
pass of the loop may find closed what the loop found open. A position is analysed by the same steps as a
candidate; `HoldingsFetched` is the account, empty after a failure.
`run_force` stands for `run-once --force` and `/recommend`. `Carried` is what a
channel sends of the results and `Actionable` what is pushed of a set of picks.
`PipelineAssumption` says what the configuration and the account may be:
strategies are any strings, channels the four the code has, holdings any
sequence of symbols and quantities.

### Candles: the paging of `get_candles`

One history at the server, one call: `FetchPage` is a round of the loop. Whether
a page repeats the bar of its cursor is not known of Toss and left open. A row
may be valid, invalid, without a timestamp, or no object; on a last row that is
no object, where a cursor is looked for, the call raises, the last page included.

### Tracker: scoring past recommendations

| Variable | Code |
|---|---|
| `prices`, `today`, `quote` | the closes as the days bring them, the day, and the live bar of today: 0 before the first trade |
| `scores`, `summary` | what the last snapshot said of each recommendation |
| `seen`, `stood` | history: the closes the last whole snapshot saw, and its scores |

`Track` is `evaluate` on the newest `Window` bars, which `track` and the advisor's
tool call at any hour: the last bar may be the live one, and `Trade` moves its
close until `NextDay` makes it final. `TrackDamaged` is a snapshot that lacks
bars: any of them may fail to validate and be skipped, so that older ones take
their place and horizons are counted over the gap, or the fetch may fail
altogether. The bars of a snapshot are the set of their days, the entry of a
recommendation the first of them on or after its date, a horizon the bar with
that many between.

### Backtest: the walk-forward loop

`Step` is one round. `history` is a world chosen among `Worlds`, so that a
decision can be compared with the decision in another world that agrees with it
up to the bar (`NoLookAhead`). The strategies, the ensemble and the sector cap
are those of `Screening`. A bar stands for a hundred bars of the code, so only the strategies whose
indicators such a bar shows can be named (`Readable`). `BacktestAssumption`
asks of a world one symbol at least and a bar of each: the engine drops a
symbol without candles, and without any history it returns a flat line before
the loop. Symbols are aligned by position from the end, as in the code; dates
are not modelled. They are asked in the order of the universe, which is the
order of the dict that breaks ties (`InMap`). `Invested` are the holdings that
are not in cash.
`weighting=inverse_vol` and `vol_target` are off, as in the defaults.

### Commands: the processes together

`Commands` composes the four: a process runs a pass, a fetch, a backtest or the
scoring, over one universe with one set of knobs.

## 3. Runs

| Run | Bounds | What it shows |
|---|---|---|
| `RiskAlerts` | one held symbol and the VIX alert; three clock steps over two UTC days and two local days, one of them off | the inductive invariant and its parts, the refinement of `OncePerDay`, `ScanEnds`, `StopGetsThrough`, with any number of crashes, restarts, failed saves and failed posts |
| `RiskAlerts_utcday` | as above, four clock steps | **violated**: an alert repeats within one trading day, because its key carries the UTC date |
| `RiskAlerts_hiccup` | one symbol of the universe | **violated**: a post that raises drops the alerts behind it |
| `SlackServer` | an advisor question, a briefing without trigger_id and a help request, each posted twice; two permits; one crash | permits, idempotency per process, a task behind every resend of a deferred command, and the end of every task |
| `Conversation` | two users, two workers, three questions, two rounds, a cap of five messages | no cross-talk, one thread per history, refusals only of damaged histories, every question ends |
| `TossClient` | two interchangeable clients, two attempts, two calls, four logins, one login answered late; a token lives four steps, or is supposed to live three, the skew is two, a request takes one at most | no request with a token that has run out, no login without need, a final 401 only by another login, every step of a call leads to its end |
| `ReportsDir` | the 30-minute unit beside a second process that runs run-once or daily, with and without `--picks` and an account; two reports, two seconds of two days, two items, one cut write, one crash | what is scored was recommended, nothing read is missed, damage is bounded, the ledgers catch up |
| `ReportsDir_alerts` | one process with the daily job | **violated**: after the first risk alert no backfill of the picks succeeds |
| `ReportsDir_batch` | `portfolio` twice, then `track --portfolio` | **violated**: one batch with a key twice |
| `Commands` | nine commands; two Korean stocks of one sector and an American one without a label; three values of `STRATEGY` (all thirteen strategies, three, an unknown one), VIX absent, low or high; at most two candidates, one per sector; two moments of the day; two verdicts; webhook and Slack. Pages of two rows, histories of five, at most four bars asked for. 128 price histories of seven bars, a rebalance every two, top two. Five days, one of which may be no trading day, two prices a live bar may show, windows of three, horizons one and two | reports add up, nothing is pushed that is not on disk, the channels are those the report accounts for, every pass ends and the loop goes on, agreement never hurts, no bar is missed, no look-ahead in prices, costs charged once, scores stand but for the live bar |
| `Commands_vix` | as above, with a VIX that turns at the last bar | **violated**: the strategies of a past bar run under the VIX of today |
| `Commands_entry` | as above | **violated**: the entry of an old recommendation is the first bar of the window |

Why these bounds are enough: every interaction in these components is pairwise.
Two processes race for a file, two workers for a history, one crash separates a
save from what it should have saved. One stop behind the VIX alert is enough to
be dropped by a post that raises in front of it, and `NoStopStarves` holds for
any number of them. A third party or a second crash repeats what the first did.
In `Commands` three symbols give a candidate that is
cut, one that the sector cap drops and one that stays; two results are enough
for one to fail and one not; five rows of two need three pages, the smallest
number with a full page between the first and the last; two rebalances with a
bar between them distinguish cost charged once from cost charged per bar. The
thirteen strategies make an ensemble in which some symbols are flagged by many
and others by few. The refinement and the invariants of `RiskAlerts` are
proved for every value of the constants besides.

`RiskAlerts` is checked for deadlock. The other modules are allowed to stop:
their environments are bounded (Slack posts each command `MaxSends` times, users
ask `MaxAsked` questions, clients make `MaxCalls` calls), and an idle server is a legitimate end. In `ReportsDir`
the daily timer never ends, but the jobs the code ends with an exception leave
the process idle, so nothing can deadlock there either.

### Fairness

* `RiskAlerts`: weak fairness of each stage of a scan that has begun, whichever
  way the stage ends. The blocking calls have timeouts and the loop is never
  held. Nothing is assumed of the universe file, of what Slack or the disk
  answer, of crashes, restarts or the clock, nor that a scan begins.
* `SlackServer`: weak fairness of the steps of each task and of the restart. HTTP
  and API calls have timeouts. A screening of Korean symbols may also sit in
  pykrx, which is given none (`fundamentals/pykrx_provider.py:49`): that it
  returns is assumed. Nothing is assumed of Slack.
* `Conversation`: weak fairness of each worker.
* `TossClient`: none. That a call ends is stated without fairness, as a measure
  that every step of it lowers (`StepsLeadToTheEnd`).
* `ReportsDir`: weak fairness of a process at work, and strong fairness of the
  daily job's start: the timer fires every weekday (`Persistent=true`), but a
  process at work on something else cannot take it at that moment.
* `Commands`: weak fairness of the steps of a pass. The HTTP clients and the
  SMTP client have timeouts, Claude has three attempts, and the loop sleeps a
  finite time. pykrx has no timeout (`fundamentals/pykrx_provider.py:49`): that
  it returns is assumed here too, and `EveryPassEnds` does not hold without it.
  Nothing is assumed of the clock: the market may stay closed for ever, or open
  and close at every step. `Screen` has a conjunct of its own,
  `ScreeningEnds`, which shows the same step by `at` alone.

## 4. What is proved

`OncePerDayProofs` proves `AbsSpec => []DeliveredOnce` from the stronger
statement that a pending claim of a past day is not yet delivered.

`RiskAlertsProofs` proves, for every universe, account, clock shift and calendar
(under `ClockAssumption`: the clock constants are naturals and a day has at
least one part):

* `TypeCorrect`: `Spec => []TypeOK`;
* `Invariant`: `Spec => []IInv`, by one lemma per action. `NoRepeatUnlessLost`
  is not inductive: it needs `Remembered` (what was delivered today is in
  `_seen`, in the file when the process is down, or known to be lost), which in
  turn needs `FileWithinSeen` and that the key of a message in flight is in `_seen`
  (`MarkedBeforePosted`, a part of `IInv` only) across a crash, and
  `NotAhead` across midnight, when the pruning must not meet marks of the
  future;
* `RepeatsOnlyIfLost`, `RestartSilencesNothing`: the invariants that follow;
* `NoStopStarves` (`StopGetsThrough`). Its `StopInv` counts inside a scan too: while
  the stop is queued it may have been seen once more than keys are spent, and
  while a post is under way the key of that post is one to spare. A post that
  raises empties the queue and thereby uses up both;
* `Refines`: `Spec => ImplementsOncePerDay`. Under the mapping in `RiskAlerts`
  what is claimed is today's part of `_seen`, or of the file while the process
  is down; a claim is `ClaimKey`, an accepted post `DeliverPending`, a failed
  one `DropPending`, a crash `Forget`, a change of the UTC day `NextDay`, and
  everything else stutters.

`SlackServerProofs`, for every set of commands and workers, every limit and any
number of posts and crashes (`ServerAssumption`: the limits are naturals, and
each trigger is of some command): `TypeCorrect`, `NoPermitLeaks`
(`PermitsConserved`), `OncePerProcess` (`OneStartPerProcess`) and `DeferredIsProcessed`
(`DeferredHasTask`), all from one `IInv`. That a process starts a command once needs three facts beside it: a task
of a trigger is remembered in `seen_triggers` (`Remembered`), so there is one task
of it (`OneTask`), and a start of this process shows in the state of that task
(`StartShows`), which forbids the second.

`ConversationProofs`, for every number of users, workers, questions, rounds and
messages kept: `TypeCorrect`, `StreamsApart` (`NoCrossTalk`), `ThreadInOrder`
(`OneThread`) and `RefusedOnlyWhenDamaged` (`RefusedOnlyIfDamaged`). The inductive
invariant says of the history a user has in the store, and of the messages
every worker holds, that they are a `Thread`: of that user only, questions in the
order they were asked, tool calls and their results side by side. The last is
true of every message but the first, which is what the trim may have left
without its partner; with it, a history that Claude refuses can only be one that
begins with results, or has in it an answer that was cut off or is empty.

`TossClientProofs`, for every set of clients, number of attempts and all
lifetimes under `TossClientAssumption` (twice the delay of a request is within
the skew, and within the life of a token) and `DefaultAssumption` (the life that
is supposed when an answer names none is no longer than the true one):

* `ProactiveRefresh` (`NeverRunsOut`) and `TypeCorrect`, from `IInv`.
  `NeverRunsOut` alone is not inductive. `Lifetimes` adds how far the expiry a
  client or the file believes in may be from the true one (`MaxDelay`, the time
  the answer of the login took), and that a request is sent at least `MaxDelay`
  before its token runs out;
* `LoginsAreNeeded` (`LogsInOnlyIfNeeded`) and `DenialsAreMutual`
  (`DeniedOnlyByAnother`), from `StandInv`: the token a client or the file has is
  the newest one or an older one, a request after a forced login carries the
  token of that login, and a denied call is over. The clock and Toss only move
  on, so that a token once outdone stays so;
* `CallsEnd` (`StepsLeadToTheEnd`): the measure is nine times the attempts left
  and the steps left in this one, and `Inside` shows that no phase of an attempt
  exceeds eight.

The code has 60 s of skew and a timeout of 10 s, which httpx applies to each
phase of a request; the assumption fails when two slow exchanges take more than
60 s between them.

`ReportsDirProofs`, for all processes and jobs, items, lengths of a day and bounds:

* `TypeCorrect`; `NothingIsInvented` (`NothingInvented`): what a process holds, and
  what stands in a file or a ledger, is of reports made (`Genuine`, `Known`);
* `NothingReadIsMissed` (`ScoresWhatItRead`): while no write was cut short,
  ledgers and buffers are whole lines (`Batch`), and what a backfill read is in
  the ledger or still in its buffer (`Counted`), whoever else appends meanwhile;
* `CutsAreContained` (`DamageIsBounded`). The number of lost records alone is not
  inductive, since the next writer may lose one more behind an open line. `Cost`
  adds a reserve: two for a text that ends between the second half of a line
  and its newline, one for a text that ends in any other open line, because of
  what the next write may still spoil. A cut adds two to the cost at most, a
  whole write nothing.

`CommandsProofs`, for every universe, account and configuration, all price
histories and all histories of bars:

* `SavedFirst` (`PushedIsOnDisk`) and `ReachesItsChannels`
  (`ChannelsMatchTheReport`), from `PassInv`: in a pass `tried` and `left`
  together are the channels of `ChannelsFor` at the hour the pass began, whoever
  of them failed, and what was pushed are verdicts of the report on disk;
* `NewestBars` (`FetchesTheNewest`). While it pages, `collected` are the valid
  bars at the cursor and after it, and a full page brings `PerCall` rows, or one
  less where it repeats its cursor. `PagesReach` is the arithmetic that makes the
  pages get_candles allows itself enough: always where no page repeats a bar,
  and up to `PerCall * PerCall` bars where each does;
* `AgreementHelps` (`AgreementNeverHurts`). The verdicts of the strategies form a
  poll (`Poll`: finitely many, each with the number of its strategy). A strategy
  more leaves the verdicts of the others as they were under other numbers
  (`OneMore`). A symbol it does not flag keeps its score and its count; one it
  flags has a count higher by one and no worse a score (`MoreHelps`). The ranking
  is a strict total order of numbers in which both count, so that the places of
  two symbols cannot be exchanged against the one that is flagged. It is proved
  of the operator for any rows, VIX and fundamentals, and then of every state;
* `OnlyThePast` (`NoLookAhead`): worlds that agree up to a bar give the strategies
  the same candles (`PastDecides`), and every entry of the books is what the
  history makes of it at its bar (`BacktestInv`);
* `ChargedOnce` (`CostsChargedOnce`). `BooksInv` says that between bars nothing is
  pending, that the weights are those of the last rebalance, and that the charges
  sum to the turnover of the rebalances so far. A bar without a rebalance trades
  nothing (`TurnoverIs`), one with it adds one term to both sums. That turnover is
  a number at all needs the strategies to score what a backtest reads
  (`ReadableScorable`), so that finitely many symbols are picked;
* `ReportsAddUp` (`ReportAddsUp`), from `ReportInv`: the results are those of the
  first candidates, in order; the answers counted and not in the results of this
  report are those of the picks of the same `daily`, no more than
  `MaxCandidates` of them. The weights are shares of a product: what each is
  rounded by is half a unit at most, and the exact shares sum to the whole
  (`RoundedShares`, `WeightsAddUp`);
* `ScoresAreFinal` (`ScoresStand`): of two snapshots that had every bar, with any
  trades, days and damaged snapshots between them, the later one repeats the
  score of the earlier where its window still holds the entry, unless the
  horizon fell on the live bar of the earlier one and that close has moved. The
  invariant says that the closes the earlier snapshot saw are still the first of
  the tape, but for its last one, and that its scores are those the closes give;
* `TypeCorrect`. `TypeOK` bounds the pages of a fetch and the attempts of an answer
  and names the channels, and so needs all invariants above and that a fetch
  that pages, and an attempt being made, is not the last.

`SeqFacts` has what these share. An induction theorem about predicates cannot be
used here, because a predicate is an operator; `SetInduction` and
`SubsetInduction` are about the set of those naturals, or subsets, that have the
property, and a set is an ordinary value. From them come that the recursive
functions behind flattening, sums and products exist (`FlattensExist`,
`FoldsExist`) and all that is said of them: a sum over a sequence with one element
more (`SumOfAppend`), over a set without one of its elements (`TotalSteps`), of
images (`TotalOfImage`); suffixes, orders of a finite set and its least and greatest
elements.

What the proofs found. `TypeOK` of `Commands` was false of a server whose
channels do not include Slack; `FetchesTheNewest` was false beyond 40,000
bars of a server that repeats the bar of its cursor; and a definition of `Candles`
chose among conditions that overlap, so that TLC took the first and the semantics
took either. No state of the runs shows any of it.

Only model-checked: the liveness properties (`ScanEnds`,
`AcceptedIsFinished`, `EveryQuestionEnds`, `CatchesUpBarAlerts`, `EveryPassEnds`),
because fairness rests on ENABLED, which this prover does not reason about.
Every invariant and action property of a passing run has its theorem; the
`violation` runs have nothing to prove.

## 5. What the code does that its documents do not say

Each has a run above and an entry in `findings`:

1. The day of the dedupe key is the UTC day (`risk/state.py:27`).
2. Only `SlackApiError` is swallowed by `post_message` (`slack/web_client.py:46`).
3. `.risk_alerts.json` is found by `glob("*.json")` and is not a report
   (`performance/ledger.py:85`, also `scheduler/briefings.py:157`).
4. A batch of records is not compared with itself (`performance/ledger.py:33`),
   and two processes may append the same key between each other's read and
   write.
5. The backtest sees today: its strategies get the VIX fetched once, today
   (`screening/regime.py:62`), at every bar of the past, and the fundamentals of
   today (`backtest/engine.py:122`). In prices it looks at nothing later than
   its bar (`NoLookAhead`).
6. The entry of a recommendation is "the first bar on or after its date" only
   while the candles fetched reach back to it: 108 bars with the defaults of
   `track` (`cli.py:250`). Then the entry is the first bar of the window
   (`performance/tracker.py:20`), and the score drifts day by day.

Met while modelling, without a run of their own:

* A horizon that falls on today's bar is scored while that bar is live
  (`performance/tracker.py:28`), and scored otherwise an hour later.
  `ScoresStand` excepts exactly this horizon.
* "(already processing)" is also the answer to the resend of a command that was
  answered inline, too late for Slack, or that has no `response_url`
  (`slack/server.py:57`): nothing is being processed, and the help or status
  asked for is never shown. Only of deferred commands with a `response_url` is
  the answer true (`DeferredHasTask`).
* The conversation cap counts messages (`agent/advisor.py:133`), where
  `docs/ADVISOR.md` speaks of the last 12 turns; a turn is two messages, and two
  more for each round of tool use. The same cut may leave a history that begins
  with the results of a tool call. Claude refuses that history, nothing is
  stored, and the user gets errors until the hour is over.
* An answer without content is stored as an empty message (`agent/advisor.py:78`),
  and one that was cut off inside a tool call without its results; both do the
  same to the history they are in. These are the ways to a refusal
  (`RefusedOnlyIfDamaged`).
* A broken universe file ends every scan before the stops are looked at
  (`scheduler/jobs.py:150`), and takes the VIX alert with it.
* Two questions of one user answered at once: the later `set` drops the turn of
  the earlier one. `OneThread` keeps the order and permits the loss.
* The scheduled job posts its advice with the Slack client of the server,
  whatever channels are configured (`scheduler/jobs.py:99`): the type of `tried`
  has to except it.
* `get_candles` allows itself `want // 200 + 2` pages (`toss/client.py:102`). If
  a page repeats the bar of its cursor, that suffices for 40,000 bars and not
  for more, which nobody asks for; `FetchesTheNewest` says so (`pagesLast`).
* `SlackNotifier` says that it pushes only actionable items
  (`output/alerts.py:87`); once one is actionable it sends the table of all.
  So does the mail (`Carried`).
* The scheduled advice on positions is posted and never saved, so it is in no
  ledger (`scheduler/jobs.py:99`); `PushedIsOnDisk` excepts it.
* An answer of Claude that does not validate is billed and not counted
  (`analysis/claude_engine.py:104`). `daily --picks` shares one engine, so the
  cost of the second report contains the first. `ReportAddsUp` states both.
* The sector cap is applied after the cut, so it leaves fewer candidates rather
  than others, and not at all in `screen-only` (`pipeline/orchestrator.py:66`).
* `relative_strength` and `magic_formula` ignore `SCREEN_MIN_SCORE`; a lone
  strategy is not weighted by the regime (`ensemble.py:151`).
* Inverse-volatility weights are rounded one by one and may not sum to one
  (`screening/allocation.py:14`), which `ReportAddsUp` bounds.
* `backtest --top 10` holds at most `CLAUDE_MAX_CANDIDATES` symbols; the history
  is cut to the shortest symbol and aligned by position, not by date; moving to
  cash by the trend filter costs nothing.
* A page of candles that fails loses the pages before it; so does a last row
  that is no object (`toss/client.py:118`).

Modelled but promised by nobody: two clients whose Toss knows one token at a time
can log each other out for good within one call, which then fails
(`DeniedOnlyByAnother` says that nothing else makes it fail so); the dedupe key has no severity, so the warning
of the trailing stop spends the key of the critical stop; a restart forgets
`seen_triggers`, so a resent command is started again (`OneStartPerProcess`
bounds the starts by the number of processes), and while it lives the set is
never emptied.

## 6. Plan

Done: `OncePerDay`, `RiskAlerts`, `TossClient`, their proofs, `SlackServer`,
`Conversation`, `ReportsDir`, `Strategies`, `Screening`, `Pipeline`, `Candles`,
`Tracker`, `Backtest`, `Commands`.

All safety invariants and action properties of the passing runs are proved.

Left for the proofs: what each strategy promises of its own score (the bounds of
`Score`, and that a better figure never scores worse) for every reading; an
abstract specification of the ledger (a set of records that only grows, each of
a report made) that `ReportsDir` implements while no write is cut short; and
shorter arguments where a lemma of `CommandsProofs` can be stated once for two
components.

## 7. Not modelled

* The redirection of stdout and of logging by `_quiet` (`context/sources.py:25`,
  `fundamentals/pykrx_provider.py:23`), which two threads may leave in the order
  they entered: what is lost is output, of which no property here speaks.
* Indicators, averages and metrics over floating-point series; what each news,
  macro and fundamentals source parses; prompts, Slack blocks and tables.
* The weekly briefing (a digest of report files) and the holdings summary of the
  morning briefing; `doctor`, `ask` as a command, `accounts`, `risk` as a command.
* The dates of candles in the backtest, and what a token file that two processes
  wrote over each other could parse to: it is no token here.
* `weighting=inverse_vol` and the volatility target of the backtest, both off by
  default.
