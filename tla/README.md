# APEX trading bot in TLA+

A verification project for the trading bot in this repository. TLA+ modules model what decides whether an
order is sent, booked and protected; whether the order book a decision is made on may be used; what the
engines find in the candles; how their readings become one decision, and how large an order it may become; and
how the process that runs all this starts and stops. TLC checks the modules on small instances; TLAPS proves
the central safety properties for every instance.

## 1. Inventory

### 1.1 Components

| Component | Source | State | Operations |
|---|---|---|---|
| Execution ledger | `brain/execution/lifecycle.py` | SQLite tables: intents, orders, fills, positions, reconciliation, kill-switch, events; `_recovery_state` in memory | `persist_order`, `persist_intent`, `persist_intent_order_transition`, `record_confirmed_fill`, `record_reconciliation`, `record_protection`, loads |
| Execution coordinator | `brain/execution/coordinator.py` | `_requests`, cached `recovery_state` | `submit_intent`, `process_confirmed_fill`, `synchronize_protection`, `submit_order_request`, `recover`, `reconcile` |
| Exchange adapters | `brain/execution/adapter*.py`, `paper_adapter.py`, `transport.py` | paper: orders and positions in memory; network: none that matters | `submit_order`, `get_order`, `amend_order`, `get_positions`, `get_open_orders`, `reconcile` |
| Execution consumer | `brain/runtime/execution_consumer.py` | queue, `_seen`, `failed` | `start` with the recovered backlog, `submit`, `_consume`, `stop` |
| Reconciliation service | `brain/runtime/reconciliation_service.py` | `healthy`, its task | `reconcile_once`, periodic `_run`, `stop` |
| Engine supervisor, recovery manager | `brain/runtime/engine.py`, `recovery.py` | lifecycle state | `start_runtime`, `run_forever`, `stop_runtime`, `recover` |
| Emergency script | `scripts/emergency_flatten.py` | none | one UPDATE from another process |
| Risk gate | `brain/risk/gate.py` | kill latch, the kill-switch row of the ledger | `evaluate`, `kill`, `reset` |
| Market data manager | `brain/runtime/market_data.py` | the feed's task, `running`, `failed` | `start`, `stop`, `ready` |
| Brain loop, shutdown and dashboard managers | `brain/runtime/*.py` | queue, `_seen`, `failed`, signal task | `submit`, `_consume`, `start`, `stop`, signal handlers |
| Bybit public feed | `market/bybit/public_ws.py` | order book with sequence, trades, tickers, reconnect delay | message handlers, reconnect loop |
| Live snapshot and histories | `market/integration/*.py` | price, open-interest and funding histories, data quality | callbacks, context building |
| Order flow, sweeps | `market/orderflow`, `market/liquidity` | rolling windows | `add`, `evaluate` |
| Gap and order block engines | `brain/fvg/engine.py`, `order_block.py` | none: zones are found again in every call | `analyze` |
| Structure and liquidity engines | `brain/structure`, `brain/liquidity` | none: swings, pools and sweeps are found again in every call | `detect_swings`, `detect_pools`, `detect_sweeps`, `analyze` |
| Open-interest, microstructure, regime and confluence engines | `brain/oi`, `brain/intelligence`, `brain/confluence` | none | `analyze` |
| Context, pipeline, decision | `brain/context`, `pipeline.py`, `decision/brain.py`, `value`, `execution/intent.py` | the engines and the gate it was built with | `run`: engines, signals, decision, gate, intent |
| Paper execution engine, order state machine | `brain/execution/paper.py`, `state.py` | open paper orders; legal transitions | `submit`, `update`, `transition` |
| Backtest, replay | `market/backtest`, `market/replay` | a cursor and a ledger of trades | offline |
| Alerts, scanner, monitoring, dashboard, memory, config, scripts | see `PROJECT.json` | little | formatting, views, parsing |

### 1.2 How they interact

`brain/main.py` wires one process: market data feeds contexts to the brain loop, whose results the
supervisor's `handle_result` hands to `ExecutionConsumer.submit`; the consumer calls
`ExecutionCoordinator.submit_intent`; the coordinator writes the ledger and calls the adapter; the
reconciliation service wakes up every interval, reads adapter and ledger and writes the gate through
`coordinator.reconcile`. Everything runs on one event loop. `submit_intent`, `ExecutionConsumer.submit`
and `reconcile_once` contain no suspension point, so they exclude each other; what interleaves with them
is the exchange, a crash of the process, and another process on the same database
(`emergency_flatten.py`). The public feed handles one message between two awaits; what interleaves with it
is the venue, the connection and a stop of the manager, and everybody reads its flags at any time. The same
handler merges the candles of all timeframes into one list; the context adapter gives an analysis the part of
it up to the time of the last message, and the engines compute everything from that list.

The main task polls the components, takes a context from the provider, which may have to be awaited, and
submits it to the brain loop; the
brain loop's task runs the pipeline on it and awaits the result handler, which hands an intent to the execution
consumer. The pipeline itself has no suspension point: `run` asks the engines, turns their readings into
signals, sums the signals, lets the decision brain decide and the risk gate approve. What interleaves is two
tasks that may both stop the runtime: the main one, when it leaves its loop, and the one the first signal
creates.

### 1.3 What is hard

* A call of the coordinator is up to a dozen ledger commits and exchange calls; the process can crash
  between any two, and the exchange moves meanwhile.
* A call to the exchange can fail before or after it took effect, and its answer can be late.
* Three components write the gate `recovery_state`, and the coordinator caches it.
* The queue is in memory, the intent rows are durable, and a second process edits them.
* Starting and stopping: a backlog recovered before the first reconciliation, a stop that joins a queue.
* Candles are confirmed in the order they end and listed in the order they start, the list is cut in front,
  and the cutoff of an analysis can go back: what was found in one analysis has to agree with the next.
* A pipeline of eleven signals with weights, a residual that must not count anything twice, ties that are
  broken by the order of the signals, and two halves of each engine, bullish and bearish, written separately.
* A stop waits for queues whose tasks may have died, and a second stop may overtake it.
* The local order book is built from increments that may be lost, repeated or late, survives reconnections
  and is judged through four flags that five handlers write.

`PROJECT.json` lists every hazard with its line and the properties that cover it.

### 1.4 What makes each component correct

* Coordinator: an entry is journalled before it is sent, sent at most once, booked within what was
  executed, protected within what was booked; an open gate means protected entries; nothing is sent past
  a closed gate.
* Consumer: each intent waits once, its row says what happened to it, and every queued intent is settled.
* Reconciliation and recovery: the gate opens only on a state that has been checked.
* Supervisor: a start that fails its first reconciliation sends nothing; a stop completes.
* Public feed: a book that may be used is one the venue had and never an older one than was shown before;
  the flags agree; every gap heals.
* Gap and order block engines: a zone has one life from analysis to analysis, what was filled or broken stays
  so, and what is still reported agrees with the newest candle.
* Structure and liquidity engines: a break is of a swing that was known before; a trend comes with a swing; no
  sweep is found late, and none is taken back unless its level was touched again; neither side is favoured.
* Pipeline and decision: upside down the readings decide the opposite; a reading that turns towards the trade
  does not lose it; nothing is counted twice.
* Risk gate: an intent loses no more than the risk of one trade at its stop; a kill holds until the reset,
  across restarts.
* Brain loop and stop: what was accepted is run once; the ledger is closed after its last writer; a stop ends.

## 2. Modules

| Module | Models | Extends |
|---|---|---|
| `Ledger` | the rows and the operations on them | |
| `Exchange` | what the adapters present of the exchange, paper or networked | `Ledger` |
| `Coordinator` | every step of the coordinator's calls; invariants common to its users | `Exchange` |
| `OrderContract` | abstract specification of what is promised per entry | |
| `CoordinatorProcess` | a process that calls the coordinator, crashes and restarts | `Coordinator` |
| `ExecutionConsumer` | queue and backlog in front of the coordinator | `Coordinator` |
| `ReconciliationService` | `reconcile_once` | `Coordinator` |
| `EngineSupervisor` | startup recovery, start, stop, crash, emergency script | the two above |
| `ExecutionRuntime` | the composition, fairness and runtime properties | `EngineSupervisor` |
| `CoordinatorSteps` | lemmas: what each step of a call preserves | `Coordinator` |
| `CoordinatorProofs`, `RuntimeProofs` | theorems of the two specifications | |
| `MarketStream` | the venue's order-book stream and what a connection may deliver of it | |
| `PublicFeed` | the feed, its reconnect loop and the manager that owns it | `MarketStream` |
| `BookReplica` | abstract specification of a local order book | |
| `PublicFeedProofs` | theorems of the feed | `PublicFeed` |
| `CandleTape` | the market, the candle list of the feed and what an analysis is given of it | |
| `ZoneEngines` | the engines as functions of a list: gaps, fills, strong moves, confidence, blocks, mitigation | `CandleTape` |
| `PriceZones` | zones from one analysis to the next, and the properties | `ZoneEngines` |
| `PriceZonesProofs` | theorems of the zones | `PriceZones` |
| `LevelEngines` | structure and liquidity engines as functions of a list: swings, trend, breaks, pools, sweeps, bias, strength | `CandleTape` |
| `PriceLevels` | levels from one analysis to the next, and the properties | `LevelEngines` |
| `PriceLevelsProofs` | theorems of the levels; the tape's come from `PriceZonesProofs` by INSTANCE | `PriceLevels` |
| `DecisionEngines` | from the readings of the engines to signals, their sums and the decision | |
| `RiskGate` | the checks, the size and the kill switch | `DecisionEngines` |
| `DecisionPipeline` | runs of the pipeline while readings turn, an operator kills and resets, the process restarts | `RiskGate` |
| `DecisionProofs` | theorems of the pipeline | `DecisionPipeline` |
| `BrainLoop` | queue and task of the brain loop | |
| `BrainRuntime` | `run_forever` and two overlapping stops around it | `BrainLoop` |
| `BrainRuntimeProofs` | theorems of that runtime | `BrainRuntime` |
| `MCCoordinatorProcess`, `MCExecutionRuntime`, `MCPriceZones`, `MCPriceLevels`, `MCDecisionPipeline` | instances for TLC | |

### 2.1 State and steps

`job` is the program counter and the locals of the call in progress: `at` names the statement reached,
`op` who called (`consume`, `direct`, `recover`), `id` the intent, `view` the order as the exchange
answered it, `arg` the protective leg in hand or the outcome to be recorded. A call is cut at each ledger
commit and at each exchange call; what lies between two cuts is one step. Each guard is the code's
condition or early return, in the code's order.

An intent is its client order id: `deterministic_client_order_id` gives equal intents the same id.
Quantities are whole units up to `OrderQty`; prices are a small set; they matter only where a fill id
hashes them. The targets tp1 to tp3 are one leg, `tp`, because one loop places them in sequence.
EXPIRED, CANCELLED and CANCELED are one terminal status, ACKNOWLEDGED is NEW, and a DISCREPANCY row is an
UNKNOWN row, because no code distinguishes them. A networked call has these outcomes: it is answered, with
the order's record, an earlier record or an unrecognised status; it fails with the effect done; it fails
with the request still on the wire (`inflight`), to arrive any time later; it fails without effect.
`sends` and `executed` are history variables.

`state` in `EngineSupervisor` abbreviates the lifecycle: STARTING covers RECOVERING and READY, ABORTING is
the exception branch of `start_runtime`, STOPPING is `stop_runtime` with the DEGRADED that leads to it,
DOWN is no process.

In `PublicFeed`, `phase` is where the task of the feed is suspended: connecting, waiting for the next
message, closing the connection, sleeping before the next attempt, or not running. The handler of a message
has no await, so `OutOfOrder`, `SequenceGap`, `Crossed` and `Apply` are each a whole call with the check of
the loop that follows it. The flags are the code's; `lastSequence` is 0 for None; `high` is a history
variable. The venue numbers its books; a connection is sent a snapshot of the book at its subscription and
one delta for every later book. What arrives is any choice, with repetition, among what was sent: a message
never chosen is lost, one chosen twice is a duplicate, and the order of the choices is the order of arrival.

In `CandleTape`, `candles` is the list of confirmed candles, `lastEvent` the time of the last message and
`seen` what the last analysis was given. `Confirm` is the kline handler on a confirmed candle: the candle is
put at its place by start, the list is cut, and `lastEvent` becomes the candle's start. `Form` is the handler
on a candle that is still formed, `Quote` any other message, `Analyze` the context adapter with its cutoff.
The operators of `ZoneEngines` take the list and a position in it, as the loops of the engines do. `LevelEngines`
has the swings as sets of positions, a pool as the set of positions that ended at its level and a sweep as a
record of the pool, the candle and whether it was rejected; what the code finds by scanning backwards is the
maximum of a set.

In `DecisionPipeline`, `evidence` is what the engines and the context report to one run, a record with one
field per reading; `Analyze` turns one of them, `Run` is `run` from the risk gate on, `RunRaises` the exception
of `pipeline.py:180`, `Handle` the result handler. `decision` and `result` are what the code calls so. A side is
1, -1 or 0, and the points of a signal carry the sign of its side, so that the sums of the bullish and the
bearish signals are sums over the sets of each sign. `latched` is `_killed`, `killRow` the row of the ledger a
new gate reads, `halted` a history variable: a kill without a reset since.

In `BrainRuntime`, `at` says for each of the two tasks that may stop the runtime which component it is about to
stop, that it makes the last step, or that it has returned; `MustWait` says that the component makes it wait in
`queue.join`, and `join` whether it waits there or was released and has not run since. `asking` is the await of the
context provider. `queue`, `seen`, `handling` and `task` are those of `BrainLoop`; `runs` counts how often the
pipeline ran on a context, and `late` remembers the queues that got something after a join on them was released.

### 2.2 Modelling choices

* The kill switch changes between two calls only: one thread owns the SQLite connection.
* The consumer always passes 0.0 as time (`engine.py:183`), so the staleness gate and the expiry of
  recovered intents never fire and are left out.
* The static gates of `submit_intent` (mode, configured kill switches, levels, limits, leverage) depend on
  the intent and the configuration alone: the constant `Admissible` names the intents that pass them.
* `Submit` stays possible in STOPPING: the brain loop is stopped after the consumer.
* The copy of open orders and positions at startup is one step; a crash on the way is repaired by the next
  start, which copies the same rows again.
* A protective leg whose call failed does not arrive later; entries do.
* `RiskGate` inside `ApexBrainPipeline()` has no ledger in the main wiring (`pipeline.py:73`); the steps
  `SetKillSwitch` stand for a gate that is given the runtime's ledger, as its constructor allows.
* `main.py` wires PAPER with the in-process adapter. A networked runtime is the supervisor with an
  injected coordinator, which its constructor accepts and its tests use.
* In `ExecutionRuntime` one `stop_runtime` is in progress at a time; `BrainRuntime` has two, and of the
  execution consumer only the intents it still holds and whether its task is alive.
* A context is known by its event time, as in `_seen`; its content does not matter to the loop.
* A join that is released schedules its task before the consumer can take anything more, because asyncio's ready
  queue is first-in first-out; so `BrainTakes` and `Executes` wait for a task that is resuming. The main task sleeps
  for the poll interval after each context, which is longer than a pass over the ready queue (`LeaveLoop`).
* The cancellation of a consumer's task and the wait for its end are one step.
* The stop of a component that is not a writer may raise (the dashboard's servers, the feed's task); the others end
  their task before they could. A second stop that comes to the end writes its rows to a closed ledger, which
  ignores them (`lifecycle.py:163`, `lifecycle.py:500`), and these are left out.
* The latch of the kill switch and its row are one step: between them nothing else runs, and a crash there is a kill
  that was never called. An order-book update of the venue always carries its `u` (`public_ws.py:272` would take one
  without).
* The readings of the engines that `DecisionPipeline` takes are those of `LevelEngines`, `ZoneEngines`, the order
  flow, VWAP, volume profile, ATR and the context; they are not computed from one tape, any combination may
  come. Percentages are on grids that keep the code's thresholds apart (`Neutral`, `Strong`, tenths of the book).
* The pipeline calls the gate with the positions and the drawdown it is given; the brain loop gives it none
  (`brain_loop.py:66`), so in the main wiring both are 0. The runs use other values too, as the parameters of
  `run` allow. The gate checks the spread, liquidity and correlation only when they are given; no caller does.
* Without the ledger a restart forgets the kill switch, and `pipeline.py:73` builds a gate without one:
  `HaltHolds` is checked and proved for `GateLedger = TRUE`, the gate `RiskGate` documents.
* The stream's `pu` is the sequence before `u`, so its check repeats that of `u` and has no step of its own.
  A level that arrives corrupt either crosses the book (`Corrupted` puts a bid on the highest price) or
  cannot be told from a real one by any check of the code; the second kind is left out.
* Candles, tickers and trades are there only as `Unusable` and `LateTrade`: a malformed one, or a trade
  older than the last, takes the book out of use. `Quality` is the verdict when the other streams are
  present and recent; ages have no clock in the model. The delay before a reconnect is a step, `Wake`.
* Prices are whole ticks. How far a gap is filled is the set of its ticks that no later candle reached, and
  `fill_pct` is the share of the others: one gap's set grows smaller exactly when its fill grows larger.
* Time is whole minutes and a timeframe its number of minutes. The code breaks a tie of starts by the
  timeframe's name; the model by its length, which is the same for the two in the instance and no property
  asks which it is. A candle that is not delivered before the next minute is lost.
* Candles that are formed take places of the list of 500 too, at most one per timeframe, and are filtered out
  by every reader; `Places` counts the confirmed ones.
* The symbol filter of the engines is left out: a feed has one symbol, and its candles carry none.

## 3. Runs

Runs that pass:

| Run | Instance | Shows |
|---|---|---|
| `CoordNet` | 1 intent, 2 units, 2 prices, networked, PAPER mode | `NoPhantomFills`, `LegsWithinFills`, `ExchangeKnownDurably`, `SubmissionReopensProtected`, refinement of `OrderContract` |
| `CoordTestnet` | 2 intents, 1 unit, TESTNET, answers without parent | `AtMostOneSend` |
| `RuntimePaper` | 2 intents on 1 symbol, queue of 1, paper adapter, fairness | types, `ReadyMeansProtected`, `EachOnce`, `OutcomesAreTrue`, `QueuedIsSettled`, `StopCompletes` |
| `RuntimeNet` | 2 intents on 2 symbols, queue of 1, networked | `AtMostOneSend`, `QueuedIsHeld`, `CachedGateSound`, `SendsAreClear`, `AbortedStartSendsNothing` |
| `FeedBook` | 3 prices, quantities 0 and 1, 3 books of the venue, fairness | types, `UsableIsVenue`, `NeverOlder`, `OneVerdict`, refinement of `BookReplica`, `Heals` |
| `ZoneTape` | timeframes of 1 and 2 minutes, 4 minutes, list of 4 candles, 6 shapes of a minute | `ZonesMoveForward`, `ConfidenceIsEarned`, `OpenGapsFacePrice`, `HeldBlocksContainPrice` |
| `LevelTape` | 6 minutes, list of 5 candles, swings of one candle on each side, 4 shapes of a minute | `BreaksAreOfKnownSwings`, `NoSideIsFavoured`, `TrendsAreEarned`, `SweepsStand` |
| `Decide` | every combination of the values listed for structure, sweep, gap, order flow, book and timeframes, and at most one of the other twelve readings turned | `OppositeDecides`, `BookEarnsResidual`, `LossWithinBudget`, `SupportNeverHurts`, `HaltHolds` |
| `BrainStops` | contexts of 3 times, brain queue of 2, execution queue of 2, contexts stale after 1, fairness | `RememberedIsAccepted`, `LedgerOutlivesWriters`, `AcceptedIsRun`, `StopEndsProcess` |

Bounds. Two units are the least quantity with a partial fill, two equal fills and an amended leg; two
prices tell fill ids apart. Two intents on one symbol share a position row, on two symbols they make
reconciliation compare positions; more intents only repeat pairs, since no operation involves three.
A queue of one is full with one intent waiting.
Three books are the fewest with a delta that can be skipped and one that follows it; three prices the fewest
with a spread that moves on either side; a quantity of 1 tells a level that is there from one that is not,
which is all the code asks. Four minutes give up to six candles for four places: a gap needs three candles
and a fourth to fill it, a list that is cut needs five; two timeframes give insertions and cutoffs that go
back; the six shapes are quiet minutes at three heights, strong moves both ways and a long wick, enough for
gaps and blocks of both directions, touched, half filled, broken and covered exactly. Five places and six
minutes give two swings of each kind, a break of them, a pool of two with a sweep and the candle that follows
it, and one candle that leaves the list; at the prices of the instance two are near when they are one tick apart.
`Decide` turns freely what can carry a score over the limit of 60 and the gate's 75; a reading of little weight
matters next to a threshold, for which one at a time is enough (`Rare`). The markets have a step that cuts the
size, a maximum that cuts it off the step, and a minimum it does not reach. Three event times and a queue of
two give a full queue, a context that comes again, one that is stale and one that arrives out of order. All
counters are bounded by the model itself: `sends` by
the property it is about, quantities by `OrderQty`; there is no state constraint. Symmetry over intents is
used only in runs without liveness. The runtime runs switch the deadlock check off because a process that
is DOWN on a ledger that says RECOVERY rightly never starts again.

Runs that find a violation, each of a statement quoted in `PROJECT.json`:

| Run | What the code does |
|---|---|
| `LegRaises` | a confirmed leg raises `sqlite3.IntegrityError` with the real adapters |
| `FillDropped` | two equal partial fills collide on their fill id |
| `OrderBlockRaises` | order blocks with a direction make the pipeline call a method that does not exist |

Behaviour met on the way that no document of the repository speaks of, and that is therefore no finding: a
second entry overwrites the position row of its symbol (`DerivedStateConsistent` says what the validation of the
derived state would ask); the periodic reconciliation reopens the gate of an entry that is not protected
(`ResumesProtected`); an intent the emergency script failed is still sent by a runtime that holds it in memory
(`AbortedNeverSent`); a stop waits for ever for the queue of a consumer that has died (`Stuck` in
`StopEndsProcess` names the case); a stop ends the execution consumer before the brain loop, so that intents
decided while the loop drains are refused unnoticed; the pipeline of `main.py` has a gate without a ledger and is
never told positions or drawdown. The three definitions named here are in the modules; no run checks them.

Scope of the properties that hold where the findings do not: `ReadyMeansProtected` is checked with the
paper adapter, whose calls cannot fail; `SubmissionReopensProtected` speaks of the calls that close the
gate on a partial fill and open it again, in PAPER mode, where a submission answered in full is protected
as well: outside PAPER mode the code leaves a full fill unprotected. Both say what the code guarantees; the
violations above say where the guarantee ends. `UsableIsVenue` and `NeverOlder` speak of the flags, which a
stop leaves as they are: a manager that is started again after an aborted start is ready with the old book
before it connects. No property forbids that.

`ZonesMoveForward` and `ConfidenceIsEarned` speak of two analyses of which the second goes on where the first
ended (`Extends`). Two things break that in the code, and then zones are rewritten: a longer candle is inserted
before shorter ones that were analysed already, and a candle message moves the cutoff back, so that the next
analysis does not see what the last one saw. Both are reached by the model and listed as hazards; no document
limits them. `TrendsAreEarned` speaks of such analyses too, `SweepsStand` of those where no candle left the
list in front: a pool that loses its first touches may become another one.

`NoSideIsFavoured` has two exceptions, both in the code: a price beyond the last high and the last low is called
bullish because the high is asked first, and a candle that rejects both sides is called bearish because its
bearish sweep is found last. `OppositeDecides` has none. `SupportNeverHurts` asks that the evidence stays
decidable: a timeframe that turns towards the trade can bring a conflict with another, and then nothing is
decided, by design.

`BrainRuntime` assumes weak fairness of the two stopping tasks, of the brain task and of the execution task,
which the event loop runs when they are ready, and of the context provider's answer: one that never answers would
keep `run_forever`, and so the process, for ever. Nothing obliges a context, a signal or a failure to come. The
run starts with any number of recovered intents still waiting.

`AcceptedIsRun` excepts a loop that failed before. It speaks of the contexts accepted before a join on the queue was
released: one that an awaited provider delivers after that, and before the released stop goes on, is accepted and
lost with the cancelled task. The provider of `main.py` is not awaited and cannot do this. `LedgerOutlivesWriters`
names such late contexts, and the intents that the brain's handler puts after the join on the execution queue, in
the same way. `StopEndsProcess` excepts the joins that nobody can release: behind a task that failed, and that of a
second stop that came to wait for such a late intent. The deadlock check is off because the process ends.

Fairness (`FairSpec`). The event loop runs every task that is ready, so the steps of a start and of a call
in progress are weakly fair. The consumer's wake-up and the return of `queue.join` compete with the other
tasks of the loop, which may repeatedly make them wait; asyncio's ready queue is first-in first-out, so
they are strongly fair. Nothing obliges a signal, a crash, a start, a decision of the brain or a move of the
exchange to happen. `QueuedIsSettled` allows the process to end first: the row is then part of the next
start's backlog.

The feed's `FairSpec`: closing a connection and sleeping end (weak fairness). An attempt to connect that is
made again and again succeeds in the end, and so does the delivery of a snapshot that is sent again and
again (strong fairness of `Connect` and of the application of a snapshot): without a network that works
now and then no feed recovers. Nothing is assumed of deltas, of the venue or of a stop. A message that is
merely rejected (`Unusable`, `Crossed`) keeps the connection: the book then stays out of use until the next
delta is refused as unfounded and the connection is replaced, which is the venue's doing, so `Heals` starts
where the loop has noticed the failure.

## 4. Proofs

The inductive invariant of the coordinator has four parts, defined in `CoordinatorSteps`:

* `CoreTypeOK`: types; a call in progress has an intent.
* `JournalInv`: an entry was sent at most once; what was sent has an order row; what the exchange holds or
  may still receive was sent; the call between its gates and the send is about an entry not sent yet, and
  from the first commit on about one that is journalled.
* `ClearInv`: the cached gate is never more open than the ledger; a call between its gates and the send
  still finds kill switch and reconciliation clear. The gate is asked several steps before the send;
  this part is why nothing can close it in between.
* `FillInv`: protected <= booked <= executed, what the exchange shows is what it executed, and the answer
  in the call's hands says no more than that.

Neither `AtMostOneSend` nor `NoPhantomFills` is inductive alone: the first needs to know where a call is
that is about to send, the second what the answer in its hands is worth. `CoordinatorSteps` has one lemma
per group of steps and part of the invariant; `CoordinatorProofs` adds crash, restart and kill switch.
`RuntimeProofs` adds to the invariant that a finished call carries an outcome (`OutcomeInv`), that queue
elements are distinct, seen and not in the consumer's hands (`QueueInv`), and that the gate is closed
without a process and in a start whose first reconciliation failed (`AbortInv`).

Four properties of the execution layer need more than that, each its own part:

* `OutcomesAreTrue` rests on `RowsInv`: not only the rows, also a call that is past its submission or about to
  report one must have sent (`SentInv`), because the row is written steps later, by the consumer.
* `QueuedIsHeld` rests on `HeldInv`. Rows and queue are written by different steps, so the invariant goes by way of
  what this process has seen: while it runs, a row that says QUEUED or RECOVERED is of an intent it has seen, and
  what it has seen and not taken is in the queue. A crash keeps the rows and forgets what was seen, which is why
  the first half is about a running process only.
* `SubmissionReopensProtected` rests on `ProtectInv`: up to the fill an open submission holds the gate open
  (`CallInv`), so a gate it later finds closed was closed by itself, and the legs before the one in hand cover the
  fill (`CoverInv`). In the runtime other tasks write the gate, but none while a call is under way (`GateAtRest`).
* `ReadyMeansProtected` is proved where the program has it without exception: for the paper adapter in the process
  (`InProcessPaper`). `PaperInv` says that nothing is lost, late or refused there (`SmoothInv`), that an order is
  filled whole by the call that sent it and booked once (`WholeInv`), and that every entry but the one in hand is
  covered by its legs (`LegsInv`).

The feed's invariant in `PublicFeedProofs` adds to the properties that a sequence which is kept is the
newest shown, and that a connection on which nothing was applied yet is not behind what was shown before it
(`SequenceInv`): without the second a new snapshot could step back. Two lemmas carry the step that accepts a
message: a delta turns the book before it into the book after it and a snapshot turns any book into its own
(`UpdatedIsPublished`), and a book a corrupt level was put into is crossed (`CorruptedIsCrossed`), so it is
never accepted. The theorems hold for any prices, quantities and number of updates (`StreamAssumption`):
`TypeCorrect`, `UsableBooksAreReal` (`UsableIsVenue`), `NoStepBack` (`NeverOlder`), `FlagsAgree`
(`OneVerdict`) and `ReplicaImplemented` (`ImplementsReplica`).

The zones are proved about by comparing lists. A list that an analysis goes on with begins with the old list
shifted by what left it (`Shifted`); for the candles they share, `GapsShift` and `BlocksShift` show that the
engines find the same gaps and blocks and that nothing of them comes back. What makes a zone new or old is the
identity of its candles, so the order of the list matters: `AddedAreNew` and `CandleKeepsPlace` use that it is
strictly ordered, which is the part of `TypeOK` that needs induction (`InsertedInOrder`, `NewestShifts`). The
theorems hold for every market, set of timeframes and length of the list (`TapeAssumption`): `TypeCorrect`,
`ZonesOnlyShrink` (`ZonesMoveForward`), `ConfidenceEarned` (`ConfidenceIsEarned`), `GapsFacePrice`
(`OpenGapsFacePrice`) and `BlocksContainPrice` (`HeldBlocksContainPrice`).

`PriceLevelsProofs` works on the tape of the zones, instantiated, so that the order of the lists is
`PriceZonesProofs!TypeCorrect`. All its theorems hold for every market, list and strength of the swings.

* `BreaksAreKnown` (`BreaksAreOfKnownSwings`): without its newest candle a list has the same swings but the one
  that candle confirms, and a candle never breaks the swing it confirms, because that one would be the last and
  its level bounds the close.
* `TrendsAreNew` (`TrendsAreEarned`) compares lists as the zones do: without a newly confirmed swing the swings of
  the new list are those of the old one still inside (`SwingsShift`), so the last two of each kind are the same
  (`LastTwoShift`).
* `SweepsAreKept` (`SweepsStand`): the groups of prices are a recursive function, which has a value because it can
  be climbed to from 0 (`Climb`, `FirstsExist`) and is reasoned about by its equation alone. A list that goes on
  has the groups of the shorter one on the shared candles (`FirstsKept`), so each old pool is kept or was touched
  again (`PoolsKept`), and the level of a kept pool is the same sum (`SumKept`).
* `StructureHasNoSide`: the first half of `NoSideIsFavoured`, without any assumption on the prices. Upside down the
  high swings are the low ones (`SwingsFlip`), the comparisons and breaks change sides, and what is left are the
  ties `BeyondBoth` names.
* `NoSideIsAhead` (`NoSideIsFavoured`): the half about liquidity measures in percent of a price, and 0.15% of a price
  is not 0.15% of its mirror image. So the theorem has a hypothesis, `EvenScale`: near and far say the same on
  both sides. `NarrowScalesAreEven` says when it holds, namely in a range of prices in which both percentages are
  worth the same number of ticks throughout, and TLC checks it of the prices of the run (`ScaleAssumption`).
  Then prices that are near in the same way form the same pools (`PoolsAgree`), the level of a pool is mirrored
  with its prices (`SumFlips`, by descent over the subsets that are summed), each sweep becomes the other side's
  (`SweepsFlip`), and the last rejection found is the same candle unless one candle rejects both ways
  (`LastExists`, `RejectionsFlip`).

The theorems of `DecisionProofs` hold for every price, account, limit and market, and for any readings within
`ReadingsAssumption`, which says of the fields the arithmetic touches what the engines can report.
`LossBounded` (`LossWithinBudget`) is the arithmetic of the size (`SizeFits`: a quotient times its divisor, floored
to the step and cut at the maximum) with the check of the gate that the stop is on the right side, without which
the loss of a unit could be 0. `HaltIsKept` (`HaltHolds`) assumes a gate with a ledger; its invariant
`HaltIsRecorded` says that a halt is latched and what is latched is in the row the next gate reads. `BookEarns`
(`BookEarnsResidual`) shows that without the book the score of the microstructure is at most what has signals
of its own, case by case.

Two theorems of `DecisionProofs` compare the decision on a market with the decision on another one. The scores are
sums over sets of signals and of timeframes, folds in the model. They are reasoned about by descent: the strict
subsets of a finite set are well founded, so what holds of a set whenever it holds of the smaller ones holds of all
(`Descend`); from it, a sum may be taken in any order (`SumTakesAny`) and a sum over more, of what is not less, is
not less (`SumGrows`).

* `OppositeMarketsOppositeDecisions` (`OppositeDecides`): upside down each group of timeframes leans the other way
  (`LeanFlips`, `FramesFlip`), each signal has the opposite points (`PointsFlip`), the two sides exchange their
  scores (`ScoresFlip`) and the decision, its confidence and its vetoes follow (`DecisionFlips`).
* `SupportIsKept` (`SupportNeverHurts`): a reading that turns to a side turns no signal away from it. That is plain but
  for the microstructure, which is what is left after order flow and sweep were counted; in closed form
  (`ResidualIs`) it is ten points for a side the book earned and nothing else, and only rises (`ResidualRises`). So the
  side's score does not fall and the other's does not rise (`PointsRise`, `ScoreRises`), and the winner stays
  (`WinsWhen`, `TurnKeeps`).

`BrainRuntimeProofs` has `Remembers` (`RememberedIsAccepted`), inductive as it stands, with lemmas on what a queue
holds after an append and a tail, and `LedgerIsClosedLast` (`LedgerOutlivesWriters`), whose invariant has two
parts: `StopsInOrder`, no writer that a stop has passed runs, and `StoppedIsIdle`, a component that was stopped, or
whose join was released, has no work left but what came late, and takes none. The second stop is why `StopsInOrder`
speaks of each task by itself; the released join is in `StoppedIsIdle` because it is there, and not at the cancel,
that the queue was found empty (`StopsReleaseNone`, `OthersStayBlocked`).

Theorems of the execution layer, each for any sets of intents and symbols, any quantity and queue size,
every mode and both kinds
of exchange; the assumptions are `LedgerAssumption`, `ExchangeAssumption`, `CoordinatorAssumption` and
`ConsumerAssumption`, which say no more than what the constants are:

| Property | Coordinator process | Runtime |
|---|---|---|
| `TypeOK` | `TypeCorrect` | `TypeCorrect` |
| `AtMostOneSend` | `SentAtMostOnce` | `SentAtMostOnce` |
| `ExchangeKnownDurably` | `KnownDurably` | `KnownDurably` |
| `NoPhantomFills` | `FillsAreReal` | `FillsAreReal` |
| `LegsWithinFills` | `LegsAreWithinFills` | `LegsAreWithinFills` |
| `CachedGateSound` | `GateIsSound` | `GateIsSound` |
| `SendsAreClear` | `SendsFindGatesOpen` | `SendsFindGatesOpen` |
| `EachOnce` | | `WaitsOnce` |
| `AbortedStartSendsNothing` | | `AbortedStartIsSilent` |
| `OutcomesAreTrue` | | `OutcomesTrue` |
| `QueuedIsHeld` | | `QueuedAreHeld` |
| `SubmissionReopensProtected` | `SubmissionsReopenProtected` | `SubmissionsReopenProtected` |
| `ReadyMeansProtected` | | `PaperIsProtected`, paper adapter in the process |
| `ImplementsContract` | `ContractImplemented` | `ContractImplemented` |

Every safety invariant and action property of the passing runs is a theorem, two of them under a hypothesis a run
shows to be met: `ReadyMeansProtected` for the paper adapter and `NoSideIsFavoured` for even prices. Only
model-checked are the liveness properties, `QueuedIsSettled`, `StopCompletes`, `Heals`, `AcceptedIsRun` and
`StopEndsProcess`: fairness is stated with ENABLED, which the prover does not reason about.

## 5. Plan

1. Done: the execution layer; the order book of the public feed against the book replica; the candle list with
   the zones and the levels found in it; the pipeline from the readings to the intent with the risk gate; the
   brain loop and the stops of the runtime.
2. Done: every safety property of the runs as a theorem.
3. Next: the facts the liveness arguments rest on, stated as safety: what a stop or a recovery must have done
   before its next step.
4. Not planned: what section 6 lists.

## 6. Not modelled

* Execution ledger: the event journal and its hash chain, backups and schema migration.
* Adapters: signing, parameters, rate limits and retries of the transport, the routing of Binance algo orders,
  the cache of instrument filters. The runtime of `main.py` is built on the paper adapter.
* Supervisor: the synchronous start and stop, for callers without an event loop.
* Feed and snapshot: the tape of trades and the tickers beyond what they do to the flags, the ages of the data and
  the limits they are compared with (a wall clock the models do not have), the histories, and the readings
  `LiveMarketSnapshot` computes, which the pipeline computes again.
* Engines: `rolling.py` and `sweeps.py` serve the live snapshot alone; the effort engine and
  `intelligence/confluence.py` decide nothing in the pipeline; setup, entry and pre-expansion are computed by
  `run` and read by neither decision nor risk; `decision/engine.py`, approval and management are not called
  by it. The bias of the order block engine enters the pipeline as a reading.
* `PaperExecutionEngine` and the order state machine of `execution/state.py`: the runtime builds neither, its
  statuses are those of the ledger.
* Backtest and replay: offline, sequential, over floating-point statistics.
* Alerts, scanner, monitoring, observability, dashboard views, memory, reasoning, language model provider,
  configuration and operator scripts: formatting, views, parsing.

`PROJECT.json` gives the status and the reason for every component.
