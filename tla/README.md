# AnchorBell in TLA+

AnchorBell is a market-making engine in Rust (`src/engine/`) that quotes index-anchored
perpetuals on Binance. It trades live, on the testnet, or against recorded and live market
data in a simulation batch, and an operator's console starts all three. This directory
holds TLA+ specifications of its components, configurations with which TLC checks them on
small instances, and proofs about most of them that TLAPS checks for every value of the
constants. Paths below are relative to `src/engine/src/`.

## 1. The system

| Component | State it keeps | Operations | Talks to |
|---|---|---|---|
| Recovery machine `execution/recovery.rs` | state, current epoch (gap, snapshot) | start_epoch, record_*, mark_reconciled, apply | owned by the supervisor |
| Execution supervisor `execution/supervisor.rs` | state, position per symbol, unknown_remote_state, recovery machine | on_disconnect, on_reconnect, mark_snapshot_loaded, reconciliation_clean, begin_flatten, confirm_flattened, on_user_data, observe_symbol, restore_checkpoint, evaluate | called by the live runner |
| Live runner `bin/anchorbell_live.rs` | positions, working orders, supervisor_ready, last event time, where its one task is | the branches of one `select!`: deadline, 250 ms tick, event | supervisor, control plane, REST, the event channel |
| User-data stream `spawn_user_data`, `execution/user_data.rs` | listen key, socket, keepalive task | connect, relay, time out, expire, renew | pushes into the runner's channel |
| Control plane `runtime/control_plane.rs` over `platform.rs` | last health report of each system, the graph of dependencies | bootstrap_ready, heartbeat, report, mark_halted, replace_policy, readiness | called by the runners |
| REST adapter `execution/rest.rs`, `deployment.rs` | credentials, policy | the permission gate, one request, the classification of its answer | exchange |
| Run registry `runtime/run_registry.rs` | `run.json`, a lock file | create, claim, transition, heartbeat, recover_stale, checkpoint, fail | several processes through the file system |
| Maker-order lifecycle `execution/lifecycle.rs`, `lifecycle_contract.rs`, `order_manager.rs`; reconciliation `execution/reconciliation.rs` | status and filled quantity of an order | request, cancel, report; compare both sides | exchange reports |
| Order book `orderbook.rs` and its recovery in `simulation_batch.rs` | levels, last sequence, validity; queues of requests and answers, a buffer | load, replay, apply; buffer, ask, install, give up | feed, snapshot task, ledgers |
| Market connection `market/connection.rs`, `live.rs`, `subscription.rs` | attempt, age of connection and of data | connect, read, ping, rotate, time out | exchange |
| FX poller `market/fx.rs` | two-age cache files, back-off | poll, fall back, send | runner's channel, other processes |
| Public REST limits `network.rs`, `market/metadata.rs` | cooldown file, lease file, weight | acquire, send, note response, release | all processes of the machine |
| Market metadata `market/metadata.rs`, `capability.rs` | cache files, filters | exchange info, premium index, normalise, capability gate | the above |
| Record writer `runtime/io.rs`, audit file `runtime/audit.rs` | channel, buffer, segments; numbered lines, lock file | send, flush, rotate, compress; append | file system, other processes |
| Signals and controls `strategy/`, `m8.rs` | pure; calibration keeps windows of samples | quote, fair value, funding, deadline, capital | engine, testnet runner |
| Risk gates `risk.rs`, `execution/risk.rs`, `funding_risk.rs`, `limits.rs` | pure | evaluate | engine |
| Calendars `strategy/calendar.rs` | pure | session, deadlines, anchor windows | engine, live runner |
| Simulation engine `simulation/runtime.rs` | working orders, positions, guard of one ledger | on_event and the chain of handlers, shutdown | batch runner |
| Evidence `analytics_evidence.rs`, `analytics_validation.rs`, `oos_validation.rs`, `promotion_policy.rs`, `validation_contracts.rs` | pending points | observe, finish; select, promote, adjudicate | batch, selection binary |
| Plan and checkpoint `simulation/experiment_plan.rs`, `strategy/method_*.rs`, `execution/session_checkpoint.rs` | the plan, a checkpoint file | validate, resolve, register; write, read | batch and runners |
| Console `bin/anchorbell_dashboard.rs` | sessions, processes | save form, save credentials, start, stop | child processes |
| Testnet runner `bin/anchorbell_testnet.rs` | one working order, position | market event, poll, stop | exchange |

What is hard in it:

- **One task, many awaits.** The runners' loops are sequential, but each REST call is an
  await during which fills go on and events pile up. An account snapshot is two such calls.
- **Several copies of the truth.** Positions live at the exchange, in the runner's map, in
  the supervisor's map, and in account updates still in the channel; books live in the
  batch and in each ledger.
- **Streams that come and go.** Events between two sessions are never repeated; each
  failure produces one or more notices, and each notice starts a new epoch.
- **Protocols between state machines.** The supervisor and the recovery machine are kept in
  step only by the order of the calls; an error ends the process with its orders resting.
- **Files as shared memory.** Lock files, leases, cooldowns and records are created,
  renamed and removed by processes that may die between any two steps, and locks are broken
  by age.
- **Freshness.** Permission to trade rests on reports, caches and answers that expire.
- **Cancels take time.** An order that is being cancelled goes on being filled while the
  next one is sized.
- **Integer edges.** Ticks, basis points, ranks and session boundaries decide whether an
  order is placed.

`PROJECT.json` lists the hazards at their lines, each with the properties aimed at it.

## 2. The modules

| Module | Models | How |
|---|---|---|
| `RecoveryMachine`, `ExecutionSupervisor` | recovery.rs, supervisor.rs | operators on records: `<Method>` is the object after the call, `<Method>Ok` whether it returned Ok |
| `SupervisorApi` | any caller of the supervisor | one action per public method, its arguments chosen freely |
| `TradingPermit` | what a session promises about new risk | abstract specification |
| `LiveSession` | run() with supervisor, stream, channel, exchange | a program counter names the await the task is at; the code between two awaits is one action |
| `ControlPlane`, `SystemRegistry` | control_plane.rs and platform.rs, as the live runner drives them, and as any caller may | reports with times, expiry, dependency closure |
| `ReferenceFeed` | fx.rs in front of `ControlPlane` | composition: its quotes are the reports of the reference system |
| `RunRegistry`, `RecordWriter`, `AuditLog` | run_registry.rs, io.rs, audit.rs | every file operation is a step; crashes and failing operations between them |
| `PublicRest`, `MarketMetadata` | network.rs and the limits, caches of metadata.rs | likewise |
| `OrderContract`, `OrderLifecycle` | lifecycle_contract.rs; lifecycle.rs, order_manager.rs, reconciliation.rs with an exchange | the contract is the abstract specification the order implements |
| `DepthRecovery` | orderbook.rs and its recovery in the batch | operators on a book; a lossy feed, a snapshot task, queues |
| `MarketConnection` | one shard | time in ticks |
| `SignalPolicy`, `EntrySizing`, `StrategyControls`, `RiskGates`, `PositionExits`, `TradingCalendar`, `EvidenceGates`, `BatchPlan` | decisions | operators on integers, checked on all small inputs against what they promise |
| `EvidenceStream`, `Calibration` | analytics_evidence.rs, strategy/calibration.rs | state machines fed with events |
| `SimulationEngine` | simulation/runtime.rs and the shutdown in simulation_batch.rs | an event runs a chain of handlers, so an operator answers the set of engines it may leave; uses `PositionExits` |
| `RestAdapter`, `Dashboard` | rest.rs, deployment.rs; the console and the process it starts | operators on what the exchange does with a request; composition |
| `TestnetRunner` | anchorbell_testnet.rs with an exchange | `todo` holds the calls the running handler has yet to make |
| `GuardProofs`, `LiveSessionProofs`, `RegistryProofs`, `RunRegistryProofs`, `UnitsProofs`, `DecisionProofs`, `SimulationProofs`, `DashboardProofs` | | theorems |
| `MC*` | | instances for TLC |

Modules that compose: `LiveSession` and `SupervisorApi` over `ExecutionSupervisor` over
`RecoveryMachine`; `ReferenceFeed` over `ControlPlane`; `SimulationEngine` over `PositionExits`; `EntrySizing` over
`SignalPolicy`; `Dashboard` over `RestAdapter`.
`LiveSession` leaves the verdict of the control plane open; `ControlPlane` models how it is
made. Parts that share no state are checked side by side in one run, each behaviour being
about one of them (`MCUnits`, `MCBatch`, `MCRunRegistry`, `MCReferenceFeed`,
`MCSupervisorApi`): the state graph is the sum, not the product.

### State and actions against the code

*LiveSession.* `pc` is the await: `readOrders`/`readPositions` (the two reads of
`authoritative_account_snapshot`, with `phase` telling startup, recovery and final apart),
`select`, `sweep`, `trade` (the loop over symbols), `exit`, `closing`, `ended`; `todo` is
what is left of `for symbol in &symbols`. `Turn` is the tail of the event branch; the event
actions do what the match on the event does and then run it. Every `?` on a supervisor call
is the outcome `rejected`; other errors are `failed` or `Crash`. A restart begins from what
the exchange holds. The exchange is external and as weak as the code may meet it: orders
fill in parts at any time, the updates of one fill come in either order, updates emitted
while no stream is connected are lost.

*SimulationEngine.* The record `engine` holds the maps of the struct that decide control;
an action of the specification is `on_event_at_ref` for one kind of event, the whole chain
included (latency, cancels, fills, guard, calibration, rebalance of every symbol). What the
numbers decide (is there a signal, does the guard trip) is left open.

*Files.* `RunRegistry`, `RecordWriter`, `AuditLog`, `PublicRest` and `MarketMetadata` give
each create, rename, remove, read and write a step of its own, and let the process die, or
the operation fail, at each. That a lock is older than its limit is a step too
(`LockExpires`, `Ages`), so the timing of who finds it stale is open.

*Dashboard.* A handler is atomic between two acquisitions of a mutex; `handlers` holds the
requests that are between two of them.

*TestnetRunner.* The handlers append the REST calls they make to `todo`; each call is an
action, may fail, and may fail after the exchange has accepted it.

*Decisions.* `MCUnits` asks each decision operator on every input of a small set (`Ask...`)
and its invariants compare the answer with a statement that does not repeat the
computation: a quote never crosses and has room, an entry can be left before the deadline.

*EntrySizing.* What `rebalance_symbol` does for a flat symbol that may open a position, from
the evidence the engine keeps (moving averages, counts, samples) through hurdle, risks and
relief to the order: `EngineThreshold` makes the hurdle, `SignalOf` the input of
`SignalPolicy!Decide`, `Sized` the chain of cuts to what it answers. Data are known and
valid here (the branches for missing ones give no entry), `threshold_scale_ppm` is one, and
the variants that have a branch of their own (M0, M8, M9) are left out.

Each module's head says what it leaves out.

## 3. The runs

| Run | What holds |
|---|---|
| `supervisor_api` | any caller: a resume needs evidence, recovery stays possible, an allowed entry fits the limit; public requests: one at a time, a cooldown that was read is heeded, every request ends |
| `live_session` | two symbols, one fault: no supervisor call is rejected, the accounts agree up to what is on the way or was lost or skipped, one exit per symbol, new risk only after a snapshot of the epoch |
| `live_recovery` | two processes, two faults: completion leaves nothing behind, the permit is implemented, recovery completes, quotes are withdrawn |
| `reference_feed` | readiness needs every source fresh; replaced policies keep the core's dependencies; a halt outlives heartbeats |
| `run_registry` | the lock excludes, the record survives and says what was told, one owner; record files repeat no line and lose of the counted ones a flush interval at most; the audit file loses a line for each death at most, and its numbers rise until the lock of a living writer is taken for stale |
| `batch` | exits fit positions, exposure grows up to the limit in force only, an event that cuts limits leaves no entry where more is held than the new one allows, an event after which the guard blocks has withdrawn the entries; books that say they are valid are the exchange's |
| `dashboard` | credentials fit the environment, orders only as authorised, a done or refused call is so at the exchange |
| `units` | the remaining parts, see the comments of the properties |

| Run | What the code does not do |
|---|---|
| `live_duplicate` | `OneEntryPerSymbol`: apply_user() removes the symbol's working order on a terminal update of any order of that symbol, so a late CANCELED makes the runner place a second entry. No fault is involved. |
| `live_flatten_stuck` | `FlattenCompletes`: Flattening is one state for all symbols; after the first exit the trading block is not entered again and the second position stays. Checked under `CalmSpec` (no fault, no deadline, every event handled, every order filled in the end). |
| `control_plane_fresh` | `FreshInputsAdmit`: control.kernel is reported once, by bootstrap_ready, and expires after five seconds; from then on no input makes execution ready. |
| `good_fills` | `GoodFillsAreFree`: the surcharge of a side whose fills went better than the average is negative, which the threshold refuses; neither side is quoted then. |

`findings` in `PROJECT.json` quotes the documents these disagree with.

### Bounds

Every bound is a constant in the `.cfg`, used in the guards of the environment only.

- `supervisor_api`: two symbols, limit 1, positions in -2..2 (one past the limit on both
  sides), no bound on the number of calls. Public requests: three tasks, two processes, one
  crash.
- `live_session`: two symbols (the loop has an earlier and a later one), quantity and limit
  1, three orders (two resting and one whose updates cross theirs), three queue slots, one
  fault. `live_recovery`: one symbol, so that behaviours can be followed to their cycles;
  two processes, so that the second meets zero, one or two orders of the first; two faults,
  so that a second notice falls into the recovery from the first.
- `reference_feed`: two currencies (one may fall back while the other is fetched), five
  units of time with the intervals in the order of the real ones. A poll comes later than
  the one before by more than its cache is fresh (`Ttl < Refresh`): in the code both are
  30 s and the requests take time. The registry beside it: five systems, two calls after
  each other at up to two moments.
- `run_registry`: one runner with two tasks and a watcher in another process; one crash and
  one failing operation, at every possible place. The record writer: segments of three
  lines that flush every two, seven lines, so two rotations. The audit file: three processes
  with two transitions and two tries at the lock each, one of which dies, so that the two
  others may both take its lock for stale and the second removes the first one's new one.
- `batch`: two symbols with depth 1 and limits that are 3 and 1 or both 1 (`MCCaps`), so a
  limit is cut below what is held, and raised again; signals for 1 or 3 (`Quantities`), so
  fills are partial, both sides of a position occur, and an order is cut to what is left of
  the limit; cancels with latency. Books: five updates, two losses, one failing fetch,
  queue of two and buffer of three, so both overflow.
- `dashboard`: two concurrent requests, one child process, every form, with
  `InheritedConfirmation` (the child inherits the console's own environment).
- `units`: see the comments in `MCUnits`. The entries that are asked for include symbols
  with and without evidence, residuals that grow and that turn, both sides of the fair value,
  calm and stressed markets; each of the four variants enters on some of them. `PingEvery > ReadTimeout` in `MarketConnection`
  is the exchange's ping interval of three minutes against a shorter read timeout. A basis
  point has four parts (`PicoBpsScale`), so that a funding payment may be below half of one.

`CHECK_DEADLOCK FALSE` is set where a process may end for good or an environment's budget
is used up; `supervisor_api` and `dashboard` check deadlock.

### Fairness

- `LiveSession!FairSpec` is `WF_vars(Task)`: an awaited request is answered or fails.
  Nothing is assumed of market, exchange, stream or events. `RecoveryCompletes` adds that a
  turn which finds execution ready is not put off for ever; `QuotesWithdrawn` that the
  250 ms tick keeps getting its turn, as tokio's `select!` polls its branches in random
  order.
- `PublicRest!RestFairSpec`: weak fairness of time and of each task's next step: file
  operations return, requests time out.
- `TestnetRunner` (in `MCUnits`): weak fairness of the running handler, strong fairness of
  the poll, again because `select!` chooses at random among ready branches.

## 4. The proofs

| Module | Theorems | Inductive invariant |
|---|---|---|
| `GuardProofs` | `TypeCorrect`, `ResumeNeedsEvidence`, `RecoveryAlwaysPossible`, `EntriesWithinLimit` | `Inv` |
| | `OneAtATime`, `CooldownIsHeeded` | `LeaseInv`, `HeedInv` |
| `LiveSessionProofs` | `TypeCorrect`, `NoCallIsRejected`, `EntriesNeedASnapshot`, `SessionImplementsPermit`, `AccountsStayTrue`, `OneExit`, `NothingIsLeft` | `Base`, `ViewInv`, `ExitInv`, `ListedInv` |
| `RegistryProofs` | `StopsAreKept`, `CoreStays`, `FeedStaysSound` | `RegistryInv`, `CoreInv`, `FeedInv` |
| `RunRegistryProofs` | `LockIsExclusive`, `RecordsHold`, `RunHasOneOwner` | `LockInv`, `CallInv`, `RecordInv` |
| | `RecordsStayKept` | `RecordsInv` |
| | `SequenceStaysKept` | `AuditInv` |
| `UnitsProofs` | `FillsStayReal`, `NothingIsMissed`, `OrderImplementsContract` | `LifecycleInv` |
| | `SilenceEnds` | `ConnectionInv` |
| | `MetadataStaysCurrent` | `MetadataInv` |
| | `RunnerStaysTidy` | `RunnerInv` |
| `DecisionProofs` | `EvidenceStaysSound` | `CalibrationInv` |
| | `EveryPointStaysMeasured` | `EvidenceInv` |
| | `QuotesStaySafe`, `GatesStayWithinLimit`, `FundingStaysPaidFor`, `EntriesStayLeavable`, `SessionsStayApart`, `FairValueStaysAnchored` | none: about one decision, for every input |
| `SimulationProofs` | `ExitsAlwaysFit`, `ExposureAlwaysHeedsLimits`, `CutLimitsStayHeeded`, `GuardAlwaysWithdraws` | `EngineInv` |
| | `BooksStayTrue` | `BooksInv` |
| `DashboardProofs` | `CredentialsFit`, `Authorised`, `OutcomesHold` | `IInv` |

A theorem is about the specification of its component alone (`RecordSpec`, `DepthSpec`,
`RunnerSpec`, ...). Where a run checks several components side by side, a behaviour of the
run is one of such a specification and leaves the other variables alone.

*Supervisor.* `ResumeEvidence` and `RecoveryPathOpen` speak of two machines at the moment of
a resume and are not inductive. `Inv` adds `RecoveryShape` (which states the recovery machine
reaches when a supervisor owns it, and with which epoch) and `SynchronizingLink` (a
Synchronizing supervisor has a recovery machine that can finish). `Untouched` and `Stopped`
dispose of the calls that leave the machine alone or begin an epoch; `CleanTransitions` is
about the one step that opens the gate.

*Live session.* Three layers, each proved with the ones before it. `Base` has the types,
what each place of the task goes with, and the point of the whole: in the hands of this
caller the recovery machine takes four values only, and which of them goes with the await
the task is at. So no call is ever rejected, an entry finds the gate open, and the map that takes the session to
`TradingPermit` is preserved action by action. `ViewInv` says that the
last account update of a symbol in the channel is the exchange's position, or is doomed to be
skipped because something later has been seen; without it `AccountsAgree` is not inductive.
`AccountsAgree` has one excuse, and the variable `lost` keeps it: the latest update of a symbol was
emitted while no stream was up, or skipped as out of order. An account update holds the whole
position, so the next one of the symbol that reaches the channel ends the excuse, and so does
a snapshot that is read with none waiting. Nothing else does: the code has no other way to
notice a fill that falls between the startup snapshot and the first connection, between the
end of a session and the next connection after a snapshot, or into a skipped update, and a
session that meets neither goes by the wrong position to its end.
`ExitInv` adds to `OneExitPerSymbol` that none rests while one is being placed.
`CompletedIsFlat` is about the end, where the final snapshot is two requests and the exchange
goes on between them: by `ListedInv` every order still at the exchange is one the first of
them has listed, so that what it finds empty stays empty. The assumptions are that the symbols are a finite
sequence without repetition and the bounds are numbers.

*Registries.* `RegistryInv` says by which mark a stopped system is known (Halted, or a broken
invariant), and that heartbeats keep the mark, which is more than readiness shows. `CoreInv`
says what is needed of the topology: only descriptors of governed policies ever differ from
the first ones. Both registries compute a closure in rounds, as many as there are systems;
`WiderGraphReachesMore` and `RoundsGrow` are about any number of them, and give that what the
core reaches through itself is reached whatever policies are replaced. `FeedInv` joins the poller, its cache files and the channel to the reports of
the control plane: `LastReports` has the time of the last report of each source, and
`QuotesInOrder` says that what is on the way is not older. The catalog is assumed to be one
that `PlatformTopology::from_catalog` accepts.

*Run registry.* A task under the lock is not enough: one that is about to remove a stale lock
file would take somebody else's. `LockInv` adds that, as long as no process has died with the
file, the file never looks old and nobody is on the way to removing it. `CallInv` says what a
call under way has read and will write, and what its caller has been told; `RecordInv`, that
the record, on file or in the hands of the one writer, agrees with it. The three properties
are conditional on `~abandoned`: once a process has died with the lock file, two tasks may
break the same lock.

*Record writer.* `RecordsKept` compares what can be read of the files with what was sent, and
knows nothing of the lines that are in neither. `RecordsInv` follows a line through the
writer: the segments and the open file hold a stretch from the first line on (`FilesInv`);
the buffer goes on from there, and the channel from the line the writer has taken
(`WorkInv`); a line is counted before the flush it makes due, so a whole flush interval of
counted lines is what a failure or a death can take, and no more (`EndInv`); and during a rotation the last segment is there as a file or as an archive
at every step (`SegmentInv`), so that a death between compressing and removing loses nothing
and repeats nothing. `TapeIsRead` and `TapeGrows` are the lemmas on what the segments hold
together.

*Audit file.* `AuditInv` is a ledger of losses: a line that cannot be read is paid for with
a death, and a reported number that is missing with such a line (`LossesInv`). This holds of
any number of processes, whatever they take from one another. That the numbers rise rests on
the lock (`GuardInv`: who is under it has created the file that is there), and the lock is
broken by age, in two steps and by name. `AuditFileLock` cannot tell whose file it removes:
with three processes, one of them dead, the second of two that found its lock removes the
new lock of the first, and both write under the same number. `stolen` is the history of
that moment, and `SequenceIsKept` claims the order of the numbers until then only;
`SequenceStaysKept` has no condition. Nothing in the code restores the order afterwards.

*Public REST limits.* `LeaseInv` is about time where `LockInv` is about steps: as long as no
process has died with the lease, the file exists exactly while its one holder does, and it
never grows stale, because a request times out before `MaxAge` (the guard of `Tick`); so
nobody is on the way to breaking it. `HeedInv` says why the deadline a task has read may be
forgotten: it is contained in its process's own cooldown, which responses only extend, and
time runs both down together.

*Orders.* Reports may be lost or refused, so what the runner has counted is compared with the
exchange through the reports still on the way. `Backed` says that there is a chain of
executed quantities, from what the runner has counted to what the exchange has executed, in
which each report has its place and tells of no more than the distance to every later one.
A step that takes, adds or loses a report gives a new chain. For `OrderImplementsContract`,
`Ranks` has the places of the contract's states in their declared order, and every step of
`OrderLifecycle` goes the way the contract allows.

*Market shard.* `SilentShardsAreRecycled` bounds the silence of data, while the timer that
ends a connection measures the time since any frame. `Reading` relates the two: they are the
same, or a control frame came between and the next one is as far away as `PingEvery` says,
which is later than the timer. `ConnectionAssumption` has that order of the two constants.

*Metadata.* The file and the answers that go to it are written by several callers, in any
order. What the property says of an answer is therefore carried by the file
(`FileIsRecent`: what it holds was true shortly before it was written) and by each call on
its way there (`CallsAreRecent`); which write wins does not matter then. `GateIsLatest` says
that what the gate has admitted is the last thing it was offered, and was valid.

*Testnet runner.* A start, a poll, a replacement and an end are lists of calls in `todo`, and
each may fail after the exchange has done it. `HandlerInv` names the lists that occur in each
phase; `OrdersInv` says that an order the runner does not know of is only ever one whose
placement it believes failed, after which it does not go on, and that none is placed while
one is known; `StartInv` that a start has seen every order an earlier process left before it
relies on that; `EndInv` that at the end the position is read only when nothing can trade any
more. Without the last, a fill between the two reads would make a clean exit wrong.

*Calibration.* `CalibrationInv` says that the waits are of different orders that ended
unfilled, and that there are no more trials than orders. The property speaks of what
`from_state` computes from them: `WilsonAtMostOne` bounds the lower bound of the fill
probability, with the integer square root and the roundings of the code, and `MedianIs` with
`LeastOne` says that the median is one of the samples.

*Evidence.* `EvidenceInv` has an equation for each horizon: measured, waiting and dropped
points are together the eligible ones. That no horizon is counted more often than a shorter
one needs that this holds of each point in the queues, whichever finishes first
(`ShortestFirst`), as the order of the queue is not the order of their deadlines.

*Decisions.* A decision has no state, so its theorem is about one application of it to any
input; in the run `DecisionsAreSafe` is the conjunction of these properties over the inputs
of an instance. The inputs are integers of either sign wherever the code has an integer, and
what is not is said in the hypotheses:

- `QuotesStaySafe` (`QuoteIsSafe`): fills and confidence are parts of the whole, which
  `ConfidenceInterval::new` and the estimator of fills see to. The hard part is the order of
  preference between the two sides: `Decide` chooses the best by a relation, and `FirstOfAll`,
  by induction, says that a finite stretch of numbers always has a first one in it.
- `GatesStayWithinLimit` (`GatesKeepTheLimit`): the maximum is positive, as the constructors
  of the gates require.
- `FundingStaysPaidFor` (`FundingIsPaidFor`): for every set of rates a better one is chosen
  from, and every number of parts of a basis point. The engine hands the gate a carry that
  `pico_to_bps` has rounded (m8.rs:76-88, `Rounded`), so a payment below half a basis point
  is none to the gate: the property asks of a payment of half a basis point or more that the
  edge pays for it (`RoundsToPayment`).
- `EntriesStayLeavable` (`EntriesCanBeLeft`): that an entry refused is not taken later rests
  on each part of the edge moving one way as time runs out: the chance of a fill
  (`FillsGrow`) and the expected reversion (`ReversionsGrow`) only fall, costs
  (`CostsShrink`) only rise. Each is a quotient of products, so that the lemmas on quotients
  (`Quotients`, `Fits`, `QuotientsGrow`, `PartsGrow`) carry the proof.
- `SessionsStayApart` (`SessionsAgree`): for any calendar about days of the natural numbers,
  whatever is a holiday, a half day or not covered. The lead is at most 540 minutes, the
  night before the earlier auction; the code has 30. The lemmas reduce a moment to a day and
  a minute (`DaysAreCounted`) and a deadline to the first trading day ahead (`EarliestIs`).
- `FairValueStaysAnchored` (`AnchorIsPrimaryWhileItLasts`): the fair value is the anchor and
  a weighted difference divided by all the weight there is (`PricesAre`), so an anchor that
  loses weight makes the divisor smaller and the distance larger (`Divides`, and
  `LossesDivide` where the quotient rounds away from it).

*Simulation.* An event is a chain of loops over all symbols. `EngineInv` is about single
symbols (an exit order fits what it reduces; nothing rests before there is a book), and
`Acts` states what seeing to one symbol may do: it touches only this symbol, never turns or
raises a position, lets the exposure grow up to the limit in force only (`Held`), leaves no
entry at a symbol it goes on holding (`Tame`), and moves the valuation only by an execution. The lemmas up to `SeenTo` show it of the code's chain, from the filters that
round and raise quantities (`NormalizedQuantity`) to the replacement of an order. `Passed`
carries it through a loop over any number of symbols, by induction along the order of the
symbols. That it also says something of the guard takes three cases, since a taker exit in
the middle of the loop may change what the guard sees: a guard that has stopped for good
(`Stopped`), a pass that executes nothing (`Idle`), and one that executes for one symbol only
and begins with the guard blocking (`Alone`), which is the loop after a trade has filled an
entry that the same event takes back. The attempt to prove the stronger statement, that no
entry is live while the guard blocks, failed for a reason: see `NoEntryWhileBlocked` below.
Limits may be reallocated at any event, so no bound on the exposure by the limit is an
invariant: `ExposureAlwaysHeedsLimits` says that it grows up to the limit in force after the
event only, and `CutLimitsStayHeeded` that the pass over the symbols whose limit was cut below
what they hold takes their entries. A budget that moves by less than the deadband may come
with any limit, which is more than the code's integer shares allow. The rules of the exchange are assumed positive, as the filters' parser has it.

*Books.* A book that says it is valid must be the exchange's at its last sequence number.
`BooksInv` says of everything on the way what it was made of: each event is a diff of a
stretch of the exchange's history, each snapshot one of its versions (`QueuesInv`), each
buffer a sequence of such diffs, and each copy the version of its last sequence number or not
valid (`CopiesInv`); the history only grows. It does not say that anything arrives in order
or at all: that a diff which does not continue the book makes it invalid is in the code, and
the lemmas on `Apply` and `Replay` show that they never leave a valid book that is not a
version.

*Console.* `IInv` ties three places together: a session holds what its form in force makes of
it, up to credentials of that form's environment; a process was made from one such session;
and an effect passed the gate of the process's deployment. The properties compare the first
and the last, which no single step does. `Truthful` adds, for calls under way, what the
exchange has already done. `OutcomesAreTrue` leaves one answer out: a 5xx whose body is the
exchange's JSON, which exchange_error reports as `Exchange`, the error of a refusal, although
the order may be at the exchange (section 5).

The assumptions are those the modules declare, and are evaluated by TLC in the runs. Proved
for every value of the constants; to check, `tlapm <module>.tla`. Induction over the numbers
comes from `Induction`, a lemma about sets of numbers proved with the pigeonhole principle:
the library's theorem takes an operator as its parameter, which the provers cannot do.

Only model-checked:

- liveness, and what speaks of ENABLED: out of the prover's reach;
- `EntriesAreSized` and `WeightsAreFair`, the parts of `DecisionsAreSafe` that no theorem
  covers, and `ExperimentsAreSound`: they add up, sort and choose from sequences and sets of
  data by folds and recursion, and what those compute is induction over data. TLC compares
  them with what they promise for all inputs of a small set.

## 5. What the code does not keep

Some statements of comments or documents are written down as definitions that no run
checks, because the code refutes them; the module has the definition with its comment.

- `SupervisorApi!HaltIsSticky`: on_disconnect, observe_event_gap and restore_checkpoint
  leave Halted. The live runner returns on every halt.
- `LiveSession!RiskNeedsUserStream`: a failed renewal of the listen key is handled by
  disconnecting, reconciling and trading in one turn, with no stream connected.
  `LiveSession!FlattenCancelsEntries`: an entry of another symbol rests while one flattens.
- `TradingCalendar!ReopeningIsADeadline`: an entry before a midday break or at the end of
  the year has a deadline after the reopening, or none (README.md:43); exit_deadline_at is
  called by nobody. `LiveClockIsLocal`: the live runner takes the weekday of UTC
  (bin/anchorbell_live.rs:1912) and knows neither holidays nor half days.
- `PublicRest!CooldownOnlyExtends` (market/metadata.rs:882): a shorter answer replaces a
  longer cooldown.
- `ReferenceFeed!FeedKeepsRunning`: a fallback quote behind a fetched one is a report that
  goes back in time, an error that ends the run.
- `SystemRegistry!HaltIsTaken`: a halt with an earlier time than the last report is
  refused. A system that is degraded after a halt becomes Ready by a heartbeat;
  replace_policy does not look at capability contracts again.
- `SimulationEngine!NoEntryWhileBlocked`: with three symbols and more, a taker exit in the
  loop over the symbols (simulation/runtime.rs:1786-1799) may lift the valuation, an entry is
  placed for the next one, and a second exit lowers it again: the guard blocks and the entry
  rests. The loop also passes over the symbol of a price that was stale, whose handler did
  nothing. The next event withdraws the entries of both.
- `SimulationEngine!FlattenWithinDepth`, `DepthRecovery!LedgerSynchronized`: the final
  order is capped by depth only where depth is known; a ledger's copy can stay behind the
  batch's book without saying it is valid.
- `Calibration!OneSuccessPerOrder`, `EveryEndIsASample`: a fill in parts counts more than
  once in some windows, and some ends are no sample. The counter of null weights never rolls.
- `RecordWriter!EveryLineIsCounted`: lines in the channel of a failed writer are counted
  nowhere. A restart on the same path numbers its archives from the start again.
- `AuditLog!WritersExclude`: with three writers, one of them dead, two may be inside, and
  from then on the numbers of the file need not rise.
- `RestAdapter!ExchangeError`: execution/rest.rs:878 takes 503 alone for an unknown execution;
  any other 5xx with a decodable body is an `Exchange` error, which a caller cannot tell from
  a refusal.
- docs/M8_FUNDING_AWARE_ROBUST_CONTROL.md:36 lets adverse carry veto new risk; a payment
  below half a basis point is rounded to none before the gate sees it (m8.rs:179,
  simulation/runtime.rs:2869), and the entry does not pay for it.
- `BatchPlan!OneLedgerPerHypothesis`: experiment_plan.rs:195 compares spellings, while
  method_catalog.rs:221-229 resolves without regard to case; the ablation " funding " is
  accepted and then ignored.
- `Dashboard!OneProcessPerMode`: two start requests may both find no process
  (bin/anchorbell_dashboard.rs:580-586, 866-868).

Observed while modelling, kept in the model as the code has it: the order manager accepts
Filled to CancelPending; the testnet runner hands the adverse selection over in another unit
than the policy reads; funding whose next time is unknown is not acted upon; the decay of
the deadline policy is capped in the numerator only; FundingGate halts before it flattens
while SessionGate flattens first; adjudication lets a hypothesis whose falsification was
not run become deployable; a measurement is taken by the first later event, however late; a
slower metadata call can put an older answer over a newer one, and a failed rename removes
the cache; the sparse side of a fill bound uses the aggregate; MarketCapabilityGate and the
evidence state machine have no caller in the binaries; relief lets CoreV1 past the signal
but core_v1_margin_scaled_quantity compares with the hurdle without it and sizes to nothing
(simulation/runtime_math.rs:734); a fill probability of zero leaves the quantity whole, where
the comment (simulation/runtime_math.rs:845-849) has a monotone map; the brake on inventory
(inventory_adverse_drift_blocked) is asked only when there is none.

## 6. Not modelled

- Bytes: signing, decoding, JSON, HTTP, paths, logs, pages.
- Numbers that decide nothing a property speaks of: volatility estimators, profit and loss
  accounting, descriptive statistics, saturation, and rounding to basis points where nothing
  is decided on the rounded number.
- The runtime bus and event loop (`runtime/supervisor.rs`, `event_loop.rs`, `channels.rs`):
  no binary uses them.
- The drivers of replay and backtest: sequential, they feed the engine one event at a time.
- The instrument registry, a table read once; wire formats, key storage and smoke tools.
- Tests, fixtures and the start-up checks of the runners.
- Draining in the registry, to which nothing leads.

The components and reasons are in `PROJECT.json`.

## 7. Plan

The components that carry the engine's own logic are modelled and their central invariants
proved. What would come next, in this order:

1. The composition of `LiveSession` with the verdict of `ControlPlane`.
2. `SimulationEngine` with two ledgers under one batch.
3. `EntriesAreSized` and `WeightsAreFair` for every input, with sums defined by recursive
   functions over 1..n and an induction of their own.
