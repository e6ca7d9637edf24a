# Verification of the wildchance trading system

TLA+ models of this repository from the candle to the broker: the engines that read
a feed, the scans and watchers that turn a reading into a card or an alert, the
books of tracked positions, the live execution queue with its MT5 bridge, the
USD/JPY forward test, and the records made of closed trades. TLC checks small
instances; TLAPS proves the safety properties of the queue, the book, the deployments,
the desk, the watchers and the alerter, that the forward test implements its workbook,
and that replays, session reads and closed candles of a feed agree, for every value of
the constants.

All paths below are relative to `src/`.

## 1. The system

A FastAPI application (`main.py`, one event loop, one SQL database) serves
analysis endpoints, and a few of them change state. GitHub Actions
(`.github/workflows/scheduled-scans.yml`) post to them on a schedule; up to five
`mt5_bridge/connector.py` processes on Windows hosts poll for broker orders.

| Part | State it keeps | Operations that change it |
|---|---|---|
| Execution queue (`services/trade_executor.py`) | table `execution_orders`: status, ticket, leg group, `be_done` | `maybe_enqueue`, `enqueue`, `ack`, `breakeven_sweep` |
| Bridge (`mt5_bridge/connector.py`) | the batch it is working on; MetaTrader's orders and positions | poll, `place`, `modify`, `ack` |
| Tracked positions (`services/gold_positions.py`, rules in `gold/position.py`, `gold/exposure.py`) | table `gold_positions`: PENDING / OPEN / CLOSED / CANCELLED, stop, trail flag, deadline, result | `open_from_signal`, `open_limit`, `monitor` |
| USD/JPY forward test (`services/usdjpy_service.py`, rules in `usdjpy/engine.py`) | tables `usdjpy_closes`, `usdjpy_trades` | `ingest_close`, `fill_due_exits`, seed and backfill |
| USD/JPY scanner (`services/usdjpy_scheduler.py`) | `_last_run_date` | the daily loop |
| Wildchance feed (`services/wildchance_*.py`) | table `wildchance_feed`, last run of each tier | the three tiers of the scrape loop |
| STRATOPS (`services/stratops_service.py`, `gold/stratops.py`, `gold/trade_budget.py`) | none of its own; opens positions | `muster(deploy=True)` |
| Watchers (`confirm`, `retracement`, `recon`, `dxy_flip` services) | a marker file each; Telegram's chat | read, compare, send, mark, deploy |
| Setup alerter (`services/gold_alerter.py`) and the live reaction map (`gold/optimus.py`, `services/gold_levels.py`) | an in-process dedup table; the zones, sells, floors and target of the map | scan, send, mark; refresh, post |
| Scorecards (`usdjpy/scorecard.py`, `services/scorecard_service.py`) | none; read the closed trades | reports |
| EdgeFinder snapshots | table `edge_snapshots` | `snapshot` |
| SaaS (`saas/`, `services/saas_service.py`) | table `users` | `signup`, `rotate_key`, `set_tier` |
| Caches (`mirofish_service`, `free_macro_feeds`, `risk_feeds`), `polygon_stream` | in-process dictionaries, a running flag | refresh, start, stop |
| Engines (`gold/*`, `cbdr`, `mmm`, `candlerange`, `indicators`, `portfolio`, `propfirm`, ...) | none | pure functions of bars and cards |

**How they interact.** A scan runs engines over fetched bars and produces a card.
The card goes to `open_from_signal` or `open_limit` (a row in `gold_positions`)
and, if live execution is on, through `maybe_enqueue` to `execution_orders`. The
connectors pull pending orders, place them, and report back with `ack`, which may
run `breakeven_sweep`, which enqueues a `modify` order for the same connectors.
`monitor` is posted every hour and advances the tracked rows from the polled
price; it and the broker never talk to each other. Everything begins at `fetch_ohlc`:
the engines keep nothing, they are handed the newest candles (the last one still
forming) and plan again. The dollar's lock on gold longs is asked by the flip alert, the
recon board, the daily scan, the muster and the kingdom report, each for itself. The
USD/JPY scanner, a pasted close, a scan, a seed and a backfill all end in `ingest_close`.

**What is hard.**
* Handlers give way at every `await`: whatever a handler has read of the database
  may be old when it writes. SQLAlchemy flushes only the columns that changed.
* A signal's legs, a modify and its `be_done`, a monitor's two halves and a seed's
  days are separate transactions.
* A connector's report can be lost, late or cut off after the broker acted.
* The cron can overlap itself (two schedules post `/gold/monitor` on Sunday 22:00)
  and can be late, so a deadline, a stop and an expiry may all have passed.
* Days of the USD/JPY log can arrive twice or together.
* A watcher reads, compares with a marker, awaits a message and then writes the
  marker; markers are files that a redeploy may or may not keep.
* The engines are many, written apart, long and short by hand, and see a candle that
  still moves: plans may contradict each other, repaint, or lie on the wrong side of
  their own stop.

**What correctness means.** The queue: no order at the broker beyond what lost
reports explain; stops move only for the right position; nothing waits for ever; a
card's orders add up to the card. Positions: the caps hold up to the races the code
allows; a row's result is final; no exit is worse than the plan; everything ends. The
forward test: the journal is the one the documented backtest would make of the log.
Watchers: what the chat believes is what the markers say; no long before the dollar
has topped. Engines: every plan protects, short mirrors long, what closed candles
drew stays, and two readings of the same bars agree. The desk: how much a day can
lose.

## 2. Modules

State machines:

| Module | Models | State and actions |
|---|---|---|
| `ExecutionQueue` | queue, sweep, connectors, broker | `orders` is the table (id = index); `conn[c]` the loop of connector `c`; `wire` the ack POSTs in flight; `hand[h]` a request inside the app; `tickets` what MetaTrader holds; `plans[t]` the legs a caller has still to commit. `Place` and `Modify` may be reported refused although they were done (`PlaceUnclear`, `ModifyUnclear`: a partial fill, no answer from the terminal). An action is what runs between two commits or reads |
| `GoldPositions` | `gold_positions` and its requests | `rows`; `opener[o]` and `monitor[m]` hold what a request has read; `CheckDuplicate`, `CheckExposure`, `OpenPosition`; `ReadPending`, `CommitPending`, `ReadOpen`, `CommitOpen`; `Flush` writes the columns that differ from what was read |
| `Deployments` | `state_alert`, `confirm` and `muster(deploy=True)` over one book | `task[t]` is what a request has read and has still to open; `marks` the marker files, whose writes may fail unnoticed; `rows` the table, as far as the duplicate check, the cap and the budget look at it; a call may ask for no message; `fed` and `taken` count openings, `lost` and `missed` lost markers, since what was last written to one changed |
| `UsdJpyForwardTest` | `ingest_close` and its callers | `log`, `trades` are the committed tables; `request[r]` what one transaction has read and written; row locks and the unique key decide who waits and who fails |
| `UsdJpyBacktest` | the abstract specification | a log that grows at its end and a journal that is the non-overlapping scan of it |
| `TradingDesk` | cards, gate, VaR gate and orders of one day, closing trades, the record | `book` the tracked trades, `sent` the orders of the last card and what the VaR gate knew, `record` the closed results. The gate may be off, fail, or have no history (`known` is empty), and then lets the order through; an operator's request may leave the day's figures at the route's zeros. One step per request: interleavings are `GoldPositions`' and `ExecutionQueue`'s question |
| `OptimusDesk` | the setup alerter over the live reaction map | `feed` the candles as the provider gives them, `map` the zones and the staircase, `scan[s]` where a request is (its set-ups read, the bias or the broadcast awaited), `sent` the muted keys, `cards` how often each was sent |
| `Watchers` | `flip_check`, `recon`, its view, and the others who ask the lock | `calls[c]` what a call has read, `marker` the file, `chat` what Telegram has delivered; the market moves between the two reads |
| `CandleFeed` | the candles as they print: a feed that grows, its last candle moving | `feed` |
| `BarFeed` | the engines that re-read the feed | none of its own; every engine is an operator of it, and the properties compare two readings |

Operators (no state):

| Module | Translates |
|---|---|
| `PositionRules` | `gold/position.py`: deadlines, `EvaluatePending`, `Evaluate`, `PrelondonExits`, `CanOpen` |
| `Stratops` | `gold/stratops.py`, `gold/trade_budget.py`, `gold/conviction.py` |
| `UsdJpyRules` | window, mean, stretch, stop breach, new stretch (the z-score is compared by squares, so integers suffice) |
| `GoldSizing`, `OrderPlans`, `Scorecards` | prop-firm gate, lots, fleet, VaR; a card's orders and the tiers; scoreboard, scorecard, posture |
| `OrderBlocks`, `SwingSetups`, `SessionSweeps`, `GoldMaps` | `gold/radar.py`, `entry.py`, `warthog.py`; `b2b.py`, `session_levels.py`, `ict.py`, `level_finder.py`; `bumblebee.py`; `optimus.py`, `zones.py`, `big5.py`, `rejection.py` |
| `SdBoxes`, `FibLegs`, `RangeBreaks`, `RetracementRead` | `cbdr/`; `indicators/fibonacci.py`, `gold/timeline.py`; opening range, profiles, candle ranges, true range, set-ups; `gold/retracement.py`, `gold/venom.py` |
| `DollarRegime`, `BiasBoard` | the dollar's map and lock, macro regime, gates; the VAULTUM board of scores and how its route gathers them |
| `Arrangements` | `sorted()` and comprehensions that filter, by the places kept and the order they are put in (what the community modules' `SortSeq` and `SelectSeq` give, in a form that can be reasoned about) |
| `GoldScans` | `services/gold_intraday.py`, `gold_session_breakout.py`, `signal_engine.py` with their gates in order |
| `TradeWalks` | the backtests: what each takes from a history and how it walks it |

`MC*` are the instances for TLC, `*_proofs` the theorems (section 5), `CollectionTheorems`
the lemmas on sums, folds, filters and arrangements they share.

Composition: `CandleFeed` has the candles that `BarFeed` and `OptimusDesk` read; `BarFeed`
extends `TradeWalks`, which extends `GoldScans`, which extends
the chart engines and instantiates `OrderPlans` and `DollarRegime`; it instantiates
`PositionRules` to compare the backtests with the live book. `TradingDesk` extends
`OrderPlans` and `Scorecards` (both over `GoldSizing`); `OptimusDesk` composes
`GoldMaps`, `SwingSetups` and `BiasBoard`; `Watchers` is over `DollarRegime`;
`Deployments` over `Stratops`; `UsdJpyForwardTest` refines `UsdJpyBacktest`.

Conventions. An exception or a client that gives up is `RequestFails` (or
`EnqueueFails`, `SweepFails`, `SendFails`, ...), a redeploy is `AppRestarts`; what was
not committed is gone. So is a marker whose write fails, and what the broker did while it
answered otherwise counts as a fault too. `MaxFaults` bounds how many of them happen. A reading that may
be missing (`None`) is a set of at most one element. Prices are integers; modules whose
results need fractions say in which unit (thousandths, tenths, hundredths). Lots are in
steps of 0.01. Mutated forms of definitions (comment `mutant:`) stand beside the
originals: each checked property has one that it refutes.

## 3. Runs

Passing runs:

| Run | Instance | Question |
|---|---|---|
| `exec_safety` | two connectors on two accounts; a two-leg market group, a limit copied to both, or one order a scan queues past the switch; two handlers, one fault (a lost, late or cut-off report, an exception, an unclear result); 0.4M states | can the queue, the sweep and the bridge disagree about what the broker holds; is each runner behind its partial; does the queue drain, is every armed runner moved while nothing fails |
| `pos_safety` | two openers, one pass at a time, up to four rows, two cards, three prices, one fault; 4.8M states | how far can the caps be overrun, can a pass spoil a result |
| `pos_liveness` | two overlapping passes over one row, one fault; 29k states | is the trail kept, do limits and positions end |
| `deploy_safety` | one poll, one confirmation, one muster, two of them at a time; two sniper layers, three rows, a change of week, messages asked for or not, one marker lost by a failed write or a restart; a VIEW forgets the order of the rows, which no definition looks at; 3.8M states | how far is a tier's week overrun, what can one flip or rejection lead to |
| `usd_inorder` | every series of six closes over three prices, two requests (whole series or single days), one fault; 1.6M states | is the journal the backtest's at every commit |
| `watch_alerts` | two calls at once of a flip check, a board sweep or one of those who ask the lock; a lost message or a restart; 2.4M states | what the chat believes against what the markers say; who lets a long through |
| `desk_book` | three set-ups (a scale-out, a ladder, a single order), a fleet of two, an operator, three trades (interchangeable, so a symmetry set), a record of up to four closed results, at most four trades in the day's book and the record together, a gate with two, one or no estimates; 190k states | how much a day can lose, what is sent for a card, what the VaR gate lets through, what the record is called |
| `optimus_alerts` | two broadcasting scans and a preview over three candles, a booted, a refreshed and a posted map with levels less than a dollar apart, two faults; 17k states | how often a card is sent, is an armed set-up answered, does the staircase keep its shape |
| `feed_engines` | every feed of up to five candles out of ten (nine with their mirror images, and a rejection that closes at the end of its leg), the last one moving; 111k states | do plans protect, does buying mirror selling, do backtests agree with each other and the live book, do session reads agree, does anything closed change |

Runs that end in a violation show where the code differs from what a comment says:

| Run | Statement | What happens |
|---|---|---|
| `pos_hold` | the session hold exits in the trade's favour | capture is an absolute distance |
| `optimus_order` | a set-up is armed by one of the newest candles, as the bars are "oldest-first" | the sort looks at the date alone, so the last bar is the oldest of the day |
| `watch_view` | `POST /gold/recon` pushes an armed board | `GET /gold/recon`, "read-only", has written the marker |

**Bounds, and why they are enough.** Two of everything that races: two handlers (a
sweep against a sweep), two openers (a check against a commit), two requests on a day,
two connectors with different accounts, two calls of a watcher, two scans of a
dedup table. A group of two legs has every role the sweep looks at. One fault separates
"nothing failed" from "one thing failed anywhere"; `CopiesBounded` and
`ModifiesBounded` state the growth with the number of faults, and are proved for all. Four rows with a cap of two let both racing openers overrun and still leave
room for rows that have ended. Three prices put a pass at the stop, between, and at the
target; the hours lie before and after a deadline. Six days with a hold of two and a
look-back of three give two consecutive trades and every order of committing them. In
`Deployments` a tier's week is full after one position, so the third row of a tier is
one more than two requests can explain; the retracement is SELL_OTE or LEAVE, the third
state differing from LEAVE in nothing but its name. In `TradingDesk` no action relates the
book and the record, so `MaxTrades` bounds them together: a full book with a short
record, a full record with an empty book. In `BarFeed` five candles hold a
block, its confirmation and its retest; a sweep, its reversal and what follows; a
triad and two bars after it; two days and a day's walk. Its constants shrink look-backs
(a swing is one candle wide, a confirmation comes within three) so that every pattern
fits; candles are chosen so that each engine's pattern and its mirror image print, and
prices are fine enough that no padding hides a target on the wrong side.
`PendingLimit` and `RecentLimit` keep the code's values, which the instance never fills.
`CHECK_DEADLOCK FALSE` stands where the system stops: a feed that is full, a desk whose
record is, a series that is in, a watcher whose faults and calls are spent.

**Fairness.** `ExecutionQueue`: the event loop and the connectors' loops go on (weak
fairness of their steps), and a request that has arrived is served although others come
in (strong fairness, because `Handlers` bounds what the server does not). Nothing is
assumed of signals, faults or the broker, nor of `/execution/breakeven`: the shipped
workflow never calls it (`routes/execution.py:73-75` asks for a cron), so
`ArmedRunnersAreMoved` rests on the sweeps that follow reports, and only speaks of
histories in which nothing fails: after a lost report no sweep is bound to come. `GoldPositions`: a pass that has begun goes on and the
hourly cron begins another (`scheduled-scans.yml`). `OptimusDesk`: a scan that runs
goes on and the alert cron begins another; nothing of previews, refreshes or prices. The
others are checked for safety only.

## 4. Hazards and findings

`PROJECT.json` lists the hazards at their lines with the properties that would catch
them. Beyond the three violation runs, modelling the code gave the following. The
first group shows in the models; the second was met while reading.

* Overlapping sweeps queue a modify twice (never more often: `ModifiesBounded`).
* A limit leg is reported `sent` and its fill never is, so the runner behind a p1 that
  rests as a limit is never trailed (`mt5_bridge/connector.py:98`).
* A late pass fills a limit after its expiry: the touch is looked at first
  (`gold/position.py:86`). With overlapping passes `ResultsFinal` fails: a stale fill
  reopens a row that the other pass has closed.
* A USD/JPY day ingested late does not see the trades after it, and windows overlap.
* The hourly retracement poll writes the marker, so the deploying poll can miss the
  flip. A poll with `notify=false` moves the marker too, and nobody is told of the flip.
* A marker that cannot be written is passed over in silence
  (`services/retracement_service.py:43`, `services/confirm_service.py:38`): each later poll
  or confirmation takes the same state or rejection for a new one, tells it and opens it
  again, until the duplicate check or the cap stops it. `FedOncePerFlip` and
  `RejectionTakenOnce` count the lost markers.
* `connector.py:93-96` takes any return code but `DONE` and `PLACED` for a rejection. A
  partial fill, or an executed order without an answer, is a position that the books call
  rejected: `BooksMatchBroker` counts it as a fault, and no sweep ever moves its runner.
* `muster` counts a duplicate against the week, because the refusal carries an id
  (`services/stratops_service.py:252`, `SkipDuplicate`).
* The VaR gate counts the committed position and the order again, the order at fleet
  size also where there is no fleet (`services/trade_executor.py:459`). It lets an order
  through when it is off, fails, or has no estimate ("Fail-OPEN"): `VarNeverPushedOver` is
  about the orders it had an estimate for.
* A card's gate is asked with no open risk and no day's result, and the routes default an
  operator's figures to zero. What was asked with the day's figures stays under the cap
  together, as `propfirm/engine.py:14-16` says; `evaluate_trade` looks at the day's loss
  and at the open risk apart, so the same trades can lose two caps in a day, and each
  ungated card more. `DayLossBounded` states both.
* A set-up can be asked for at any price: a continuation too late or too early or a
  reversal too early has a target or its stop on the wrong side, which the absolute R does
  not show (`setups/engine.py:64`). `PlansProtected` says exactly when.
* SELL-the-OTE takes its entry from the rejection and its targets from Warthog's entry in
  the leg's pull-back (`gold/retracement.py:104-111`). A rejection that closed in the
  lowest 11.5% of the leg is sold for targets above it; the run has such feeds, and
  `PlansProtected` leaves out just those targets.
* A bounce of the staircase is at least a dollar lower than the one before it
  (`gold/optimus.py:422`), even if that is under the floor it comes from: at levels less
  than a dollar apart a "retrace_up" falls. `StaircaseDescends` says where it cannot.
* A triad's reaction may
  close beyond the far side of its range, and is then a "win" that loses
  (`indicators/amd_triad.py:69`); only the swept side is asked for.
* The protraction gate looks for a sweep of the newest eight hours among six of these
  hours and never opens (`services/gold_intraday.py:124`).
* A candle that closes where it opened is read one way in both mirror images, value
  areas grow upwards on a tie, and candle ranges sell at three deviations but buy at
  one: `ReadsTheSameUpsideDown` leaves these out.
* `simulate_forward` calls itself conservative and books a bar that holds both stop and
  target as the target; the other three walkers book the stop (`ReplaysAgree` states the
  difference). Partials at fixed distances mostly lie beyond the next floor.
* Reading ahead: the chained limits are armed with the whole London box and walked over
  London's bars (`backtest/cbdr_confluence_backtest.py:104`), and the intraday
  backtest's "causal" profile uses the day's own full bar (`backtest/gold_tiers.py:140`).
* The macro regime cannot vote short, and the board's dollar score is `weak` whatever is
  read (`gold/vaultum_scores.py`, `gold/macro_cycle.py`). The board's fallback uses
  `setdefault` on keys that exist with `None` (`routes/vaultum.py:119`): dead code, kept
  in `WithFallback`.
* The flip has no memory: 111 then 109 locks longs again. The daily scan, the muster and
  the kingdom report ask the lock without a price, where only the override opens it.

* `reconcile` compares order sides (buy/sell) with position sides (long/short), so
  each fill is an orphan (`services/trade_executor.py:607`).
* `_arm_limits` and `/gold/intraday` enqueue the broker order although the tracked
  open was skipped (`routes/gold.py:86,150`).
* `services/gold_session_breakout.py:188` calls a function that does not exist; the
  error is swallowed.
* `open_limit`'s duplicate check selects OPEN rows only, so a second limit of a side
  and tier is armed on the same day (`services/gold_positions.py:131`).
* The USD/JPY scanner marks its day before the fetch (`services/usdjpy_scheduler.py:65`).
* Two EdgeFinder snapshots of a day both insert (`services/edgefinder_service.py:120`);
  two starts stream twice (`services/polygon_stream.py:72`).

## 5. Theorems

Each holds for every value of the constants that meets the assumptions named in the
modules (all of them evaluated by TLC): any number of connectors, handlers, openers,
requests and trades, any cards, prices and limits, any bound on faults and rows.

`ExecutionQueue_proofs`
* `TypeCorrect`, and with it `RefsOK`: every id held in a batch, a message, a sweep or a
  ticket is the id of a row.
* `CopiesAreBounded`. `CopiesBounded` alone is not inductive: a batch, a message or a
  handler may still hold an order the broker has. `UnplacedPaid` adds that for each order
  that can still be placed, the copies already made are paid for by faults.
* `StoredTicketsAreReal`, `OnlyArmedRunnersMove`, from one invariant `SourceInv`: what a
  row, a message, a reply and a sweep say of a ticket is what the broker gave, and a
  modify exists only for the runner of a group whose p1 is `sent`. Neither property is
  inductive without the messages and sweeps that are still under way.
* `RunnersAreArmable`: `FollowInv` adds to `RunnersFollowTheirPartial` that each runner a
  caller has still to commit is behind a first partial that is queued or in its plan.
* `BooksAgree`: a row without a ticket, and none under way to it, has no more at the
  broker than there were faults. It is inductive beside `UnplacedPaid`.
* `ModifiesAreBounded`: modifies are counted with the sweeps that have read the runner
  and not yet written. It rests on a plan having at most one runner, which
  `plan_partial_exit` guarantees (`PlansAssumption`).

`GoldPositions_proofs`
* `TypeCorrect`; `BreakEvenIsSticky` for any number of overlapping passes.
* `LiveIsBounded` and `ResultsAreFinal`, for passes that do not overlap (`OneMonitor`).
  `SeenInv` says that what a pass has read is still what the table holds, except for rows
  opened since; it is what makes a flush write what was meant. `RoomInv` counts the
  requests past their check as if their rows existed.
* `RiskIsBounded` (`OneMonitor`): `RiskInv` adds the risk of the cleared requests to that
  of the open rows. The ceiling is exceeded by the risk of all cleared cards but one.
* `DuplicatesAreBounded`, with nothing assumed of the passes: `MarketInv` (market rows
  are never pending, and no pass can arm one) and `DayInv`, which counts the requests past
  the duplicate check.
* `ExitsStayWithinPlan`, `TrailedRowsNeverLose` (`OneMonitor`, cards that are
  `Protected`: the stop behind the entry, the targets ahead of it and in order): `PlanInv`
  bounds each row's result by its own card, through every branch of `evaluate`. Without
  `OneMonitor` a stale flush can join a status of one pass with a result of another.

`Deployments_proofs`
* `EachFlipFeedsOnce`, `RejectionsAreTakenOnce`: the openings since a marker changed
  and the requests that can still open (`Feeding`, `Taking`) are together at most the
  requests there are, and as many again for each marker lost since.
* `WeeksAreBounded`: a request past its reading of the week holds a token for each use it
  believes is left; positions and tokens together stay within the week's allowance times
  the budgeted requests.
* `FlipsAreAnnounced`, however polls overlap: what moves the marker from one state to
  another has sent the message of the new one, or was called with `notify=false`.
* `TypeCorrect`: what a request has still to open, and every row, is a card of the feed or
  a layer of a stack, whatever the muster scored, ranked, fitted to the week and
  allocated. It rests on what a stable sort, a filter and the fold of `allocate` keep.

`TradingDesk_proofs`
* `DayLossIsBounded`: `LossInv` keeps the risk of the trades asked with the day's figures
  within the cap, and the day's result with all open risk above minus two caps less the
  risk of the others.
* `VarIsNeverPushedOver`, an action property: the order `var_gate` lets through on an
  estimate leaves
  the book within the limit, or no further over it, because its risk is counted twice and
  the risk of a book is at most the sum of its parts.
* `OrdersCoverTheCard`: the arithmetic of `plan_scale_out`, `plan_partial_exit`, the
  ladder and the fleet, for any fractions and distances: legs of a step at least that add
  up to the lot, with the card's stop and a target on the winning side. Its hypothesis
  `TrendWins` says that a set-up which brings no targets has trend targets on the winning
  side of its entry: the code takes them from the trend as they are.
* `VerdictsDoAgree`: `RecordInv` (the record's trades are typed and its months do not go
  back) makes each month a stretch of the record, so that its fall is a fall of the
  whole curve; the fold of `max_drawdown_r` is the worst fall between two points of the
  curve, by the least place where the two part; the totals of the groups are the total of
  all; and the thresholds of scoreboard and scorecard, written apart in two modules, do
  not cross, provided a reflection asks for no more trades than a verdict
  (`MinSample <= MinTrades`, 10 and 20 in the code).

`Watchers_proofs`: `LongsWait` (whatever a call, a marker or the chat holds was read
while the dollar had been at its extreme or longs were unlocked) and `ChatIsTold`.

`OptimusDesk_proofs`
* `CardsAreBounded`: cards of a muted key with the requests waiting to send one are at
  most the requests that broadcast.
* `StaircaseFalls`: `MapInv` keeps the feed a sequence of candles and the levels of the
  map finite sets of prices, through boot, refresh and post. Then each leg of the
  staircase starts where the one before it ended, each retrace ends at least a dollar
  under the last, and the last leg ends at the target. That an impulse falls and a
  retrace does not needs stops that are a dollar apart and a first fall of a dollar: each
  bounce then ends a dollar above the next stop, so that the dollar taken off it
  (`gold/optimus.py:422`) never takes it under its floor. Without them it can, and the
  0.1% of slack of `gold/optimus.py:405` lets in a first block below the price and under
  the first floor. `PerDollar`, the prices to a dollar, is any positive number; it is two
  in the run, whose maps meet each of these cases.

and of `BarFeed`, whose engines read the same feed:
* `ClosedDoesNotRepaint`, an action property. `AlwaysWidens` says what a later read makes
  of an earlier one (closed candles stay, the range of the forming one only widens);
  each block (but for its being retested) and each swing and triad is then shown to
  depend on closed candles alone.
* `SessionCallsDoAgree`: from a session's range, its sweep and where its hours closed,
  through the continuity and the outcome, to the side each of the two reads takes.
* `ReplaysDoAgree`, in four parts. A retracement signal and a swing are planned with the
  stop behind the entry and the targets ahead in order, so that no walk loses more than
  the risk or makes more than the last target (`SignalsAreBounded`, `SwingsAreBounded`).
  The three walkers are compared at the first bar that ends an order (`WalkersAlike`).
  The live book is a fold of `evaluate` over the closes: its row stays open, with its
  break-even flag up exactly when a target was met, until the first close that ends the
  forward walk, and then says the same (`BooksAreAlike`). The two sell backtests go
  through a history abreast (`PassesAbreast`), and what the partials bank is at most their
  shares of the furthest of them (`BankBounds`). It rests on what `FeedAssumption` and
  `BoxAssumption` say: candles lie between their extremes, no box of two candles is one
  unit wide (half a deviation would be no price), three bars before a plan, partials that
  leave something to run.

`UsdJpyForwardTest_proofs`
* `TypeCorrect`, for days that arrive in any order. It needs that every place up to the
  size of a table has its day (`Placed`), so that a due trade's exit is a day of the log,
  and that a window's spread, a difference of sums of squares, is never negative.
* `ServiceImplementsWorkbook`: the service refines `UsdJpyBacktest` when no request
  starts beyond a gap (`~Gaps`: the days before its first are in the log).
  `InOrderKept`, checked by TLC before it was proved, says that the tables hold the
  first n days of the feed (`Rows`, `Book`) and that every transaction past its upsert
  is one of two kinds: `Retold`, which repeats a row as it stands, opens nothing
  because the scan covers its day, and settles nothing; or `New`, which tells day n +
  1, with at most the trade that day opens and exactly the exits that fall due. Only
  one is `New` at a time: the lock of its row and the unique key. A commit of the first
  kind is a stutter, of the second one `AddClose`. What the recursive scan makes of one
  more day (`ScanGrows`), and that it covers every day with a signal (`ScanCovers`),
  are inductions from the last day backwards (`LastFailing`). A stored close is not
  corrected in the model, and a late day is outside the theorem: windows can overlap
  then (section 4).

`CollectionTheorems` holds what these proofs share. The sum of a function over a finite
set does not depend on the order it is taken in, so it may be split, grouped, moved along
a bijection, bounded and compared; a filter keeps values and their order; a set of places
has an arrangement that ascends; a fold's result is that of its last step. The library's
induction theorems cannot be used, so inductions are made by looking for the least
counterexample (`LeastOf`). `SortSeq` and `SelectSeq` of the community modules are
recursive or defined by `CHOOSE` over all permutations, which the provers cannot open;
the modules that are proved about sort and filter through `Arrangements` instead.

Assumptions. Connectors' accounts are distinct; limits are positive; cards, candles and
rows are typed; openers, handlers, requests and scans are finite; requests of different
kinds are different; the greatest risk of a card exists; the daily cap is positive;
partials are positive and there is one; a plan's runner comes after its first partial; a
dollar has prices; a reflection asks for no more trades than a
scoreboard's verdict; and those of a feed just named.

Only model-checked:
* liveness under fairness (`QueueDrains`, `ArmedRunnersAreMoved`, `LimitsResolve`,
  `PositionsEnd`, `ArmedIsAnswered`), which is out of the prover's reach;
* `PlansProtected`. It is a statement about each of some sixteen engines, not about the
  feed: the parts the theorems above need are proved (retracement signals, Warthog's
  plans, swings), the others not;
* `ReadsTheSameUpsideDown`, which compares every engine with its own mirror image.

## 6. Not modelled

* `reconcile`, a read-only report; corrections of a stored USD/JPY close; the campaign
  objective of a card.
* The hidden Markov and volatility models, pairs, seasonality, COT, correlation, Benner,
  `mmm`, `pdarrays`, `quarterly`, `flow`: floating-point statistics and reports that no
  trade of the system follows.
* The optimiser's sweep over stop buffers, walk-forward folds, averages and hit rates of
  the backtests: aggregates of the results `TradeWalks` gives.
* The Wildchance scraper and its row, EdgeFinder snapshots, SaaS keys, MiroFish and
  Polygon: beside the trading system, mostly network I/O; their races are listed above
  and in the hazards.
* Network feeds, HTML parsing, message formatting, the HTML dashboards. A feed is a
  reading that may be missing, a message is sent or lost.
* Rounding to cents where a model's unit is coarser, and float equality.
* SQL isolation is READ COMMITTED with row locks, as PostgreSQL gives by default;
  SQLite's single writer is one of its schedules. `TradingDesk` takes a request as one
  step.

## 7. Plan

What was planned is done. What is left, in order of use:

* the rest of `PlansProtected`, engine by engine, from the lemmas on the extremes of a
  feed (`LevelEnds`, `BarLevels`) that the proved engines rest on. It needs what the
  instance has and `FeedAssumption` does not say: paddings of stops that are not zero.
* `ReadsTheSameUpsideDown`: each extreme becomes the other one under `Flip`, but halves
  and integer divisions round one way only, so that every engine needs its own
  condition of parity.
* a stored close that is corrected, in `UsdJpyForwardTest`, and the races of the
  Wildchance row, listed under the hazards.
