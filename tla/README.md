# Formal models of the crypto portfolio manager

TLA+ modules, TLC configurations and TLAPS proofs for the parts of `crypto_portfolio`
that keep state or decide about it. Paths below are relative to `src/crypto_portfolio/`
unless they begin with `docs/`, `references/`, `config/`, `scripts/` or `tests/`.

To check a run: `tlc -workers 2 -config MCRebalance.cfg MCRebalance`.
To check the proofs of a component: `tlapm RebalanceProofs.tla`.

`PROJECT.json` lists every component with its status, every run, the source lines of every
definition, the hazards of the code at their lines with the properties that watch them, a
plausible bug for every property (a "mutant" under which the property fails), and the
theorems.

## 1. The system

The package is a library and a set of command-line scripts that a host (a person or an
agent session) runs to produce one *review*: collect data, score assets, derive targets,
gate them by risk, propose trades, record a decision. Nothing in it runs in the
background and nothing is threaded. What is concurrent is *sessions*: several host
processes share one runtime directory (`~/.local/share/crypto-portfolio-manager` or
`CRYPTO_PORTFOLIO_DATA_DIR`), and only `state/_jsonl.py` takes a file lock. What is hard
besides is *sequences of reviews*: almost every rule of the program reads what the review
before it left behind.

A review goes through `acquisition.py` -> `providers/router.py` (-> `cache.py`,
`circuit_breaker.py`, `http.py`, one adapter per vendor) and `events/*` -> `engine/*`
(scores, regime, risk, allocation) with the history read by `state/context.py`
(snapshots, resolutions, decisions) -> `engine/rebalance.py` (actions, read against the
recorded actions) -> `state/review.py` (finalization, prior plans) -> `state/decisions.py`
(append). `research/orchestrator.py` and `research/strategy_replay.py` run the same
engines in a loop over history.

| Component | State | Operations | What is hard | What makes it correct |
|---|---|---|---|---|
| `state/_jsonl.py` | the lines of a file | append, read | torn writes, append onto a torn tail | a readable file lost nothing |
| `state/decisions.py` | decisions, status events | append decision, append event, reconstruct status | check, then append, under separate locks | an outcome is terminal unless two sessions held the right to it, events are grounded |
| `state/snapshots.py`, `cash_flows.py`, `engine/cash_flow.py`, `engine/ledger.py`, `state/context.py` | snapshots, resolutions | append both, overlay, NAV, finality | late and out-of-order facts, resets, gaps | flows are no returns, the views agree, no look-ahead |
| `state/fills.py`, `metrics.py`, `cash_flows.py` | fills, observations, resolutions | append (batch), supersede | check then append, torn writes, batches, repeated and late results | a readable file misses nothing, copies need races, revisions fork only late |
| `providers/circuit_breaker.py` | state, count, opening time | allow, record success / failure | half-open without an outcome | the count explains the state |
| `providers/router.py` | pending metrics, chains, budgets, breakers | `collect` | groups, fallback, tails, budgets and breakers in combination | fallback in order, budgets kept, termination |
| `providers/cache.py`, `state/market_data.py` | entries, manifests, content | load, save, quarantine, merge, prune | sessions without locks, TTL and as-of bounds | what the cache answers is no look-ahead, losses need a race |
| `providers/http.py` | the attempts of one request | request with retries | retries and pages behind one call | bounded attempts |
| `acquisition.py`, `events/*` | observations, scans | run: reuse, collect, derive, scan, judge | stale or borrowed evidence, returns from scalars or from series | ready means evidence, clear was seen |
| `engine/risk_recovery.py` | `RecoveryState` | `advance_emergency_recovery`, once a review | paths of relaxations, resets and promotions | stress always tightens, calm always releases |
| `engine/regime.py` | the previous label | one reading at a time | notches, floors and unknown domains | a storm is never read as calm |
| `research/orchestrator.py` | the book, label, streak | one review, then trades | regime, recovery, overlay, gate and execution meet | a breach never adds risk |
| `engine/scoring.py`, `scoring_v3.py`, `execution_quality.py` | none | scores, coverage, allowances | missing and degraded readings | what is missing decides nothing by itself |
| `providers/chain_liveness.py` | none | ask sources, judge heads | silent, late and forked sources | a halt is agreed on |
| `engine/allocation.py`, `engine/risk.py` | none (the book follows) | `build_target_allocation`, `run_risk_gate` | a dozen caps and what they free | every limit at once, growth is earned |
| `engine/rebalance.py` | the recorded actions, the book | `recommend_rebalance` and its gate | what is held back feeds the next gate; funding in order | plans are funded, reversals were held back once |
| `state/review.py`, `engine/resting_orders.py` | none of its own | finalize, supersede, dispose of prior plans | facts read at different times, events lost | one open plan per asset, reports are true |
| `models/policy.py` | none | `_parse_policy`, `with_overrides` | what a policy may say | the assumptions of the models |
| `engine/portfolio_risk.py`, `risk_tier.py` | previous tier | statistics, tiers | -- | enter as scales and tiers |
| adapters, technical indicators, entry planning, reports, importers, `research/*` statistics, `scripts/*` | none or files | requests, arithmetic, formatting | -- | -- |

## 2. The modules

A module per component, composed where the code composes them. `A <- B` below means that
A EXTENDS or INSTANCEs B.

    HistoricalReplay <- EmergencyRecovery, Regime        the review loop
    DecisionLedger   <- JsonlFile, DecisionOutcome        (abstract: DecisionOutcome)
    ProviderRouter   <- CircuitBreaker
    ResponseCache    <- HttpClient
    Rebalance        <- DirectionGate, DirectionFlip      (abstract: DirectionFlip)
    Allocation       <- Scoring, RiskGate, PolicyRules    (Scoring <- Absence, Sums;
                                                           RiskGate <- ChainLiveness, Sums)
    Acquisition      <- EventScan
    SeriesCache, RuntimeStores, ReviewLifecycle, Accounting stand alone
                                                          (Sessions declares the sessions
                                                           both caches share)

**EmergencyRecovery** (`engine/risk_recovery.py`, the ladder of
`engine/portfolio_risk.py`). The variables are the fields of `RecoveryState`, the cap of
the block the last call returned (`riskyCap`), the drawdown it reported (`depth`), and two
history variables no action reads: `quiet` counts consecutive calm reviews, `stressed`
says whether the last one was under stress. One step is one call of
`advance_emergency_recovery` with any observation: `Observe` is what every call does
(clocks, low), and the branches of the code are the actions `LadderRelaxed`,
`ResetToLadder`, `EnterRecovery1`, `EnterRecovery2`, `ReleaseBook` and `Hold`. Drawdowns
are depths in whole points, so the code's `1e-12` tolerances disappear; review counters
saturate at `ReleaseReviews`, the largest threshold they are compared with.

**Regime** (`engine/regime.py`): `determine_regime` and `market_only_regime` in both
models, the drawdown floor, events and the bound of one notch, as operators on a reading
and the label before it.

**HistoricalReplay** (`research/orchestrator.py`, `run_historical_backtest`): the review
loop, in which the four meet. A review (`Decide`) reads a market and its own drawdown,
labels the regime, advances the recovery machine, chooses a target under the cap and is
judged by the gate; then it trades (`Trade`) as the execution rule lets it. The book is
one number, its risky weight; `mode` is `risk_engine.mode`. The machine's variables are the
machine's own, and `DrivesRecovery` says that what the loop does to them is the
machine's specification.

**JsonlFile, DecisionLedger, DecisionOutcome** (`state/_jsonl.py`, `state/decisions.py`).
A file is a sequence of lines and a flag for a torn tail. `append_decision` is
`BeginDecision` (read, refuse duplicates) and `AppendDecision`; `append_status_event` is
`BeginEvent` (read the decisions), `CheckEvent` (read the events, check the transition)
and `AppendEvent`. Each of these is atomic because it holds the file lock; between them
any session may move. `TearDecision` and `TearEvent` stop inside the write, `Crash`
between two steps. A generated uuid is the choice of an unused id. `acked` is history.
`DecisionOutcome` is the promise of `docs/HOW_IT_WORKS.md`: a decision is resolved once, by
a right granted while it was PENDING, and its outcome is terminal. The code keeps it except
for decisions that are `contested`: those two sessions have held the right to at once, whose
outcome may be replaced (section 6). `DecisionLedger` instantiates it with the status
`reconstruct_decision_status` computes from the files, with the sessions that have passed
the check, and with the history of contested decisions (`ImplementsPromise`).

**RuntimeStores** (`state/metrics.py`, `fills.py`, `cash_flows.py`,
`engine/metric_normalization.py`): the other append-only stores, by the same rule of one
lock per read and per append. A job is a collected or resubmitted observation
(`Collect`, `Resubmit`; `Mark`, `CheckObservation`, `WriteObservation`, `CheckEvent`,
`WriteEvent`), a page of fills (`Import`, `AppendFill`, `EndImport`) or a resolution
(`Resolve`, `CheckResolution`, `WriteResolution`), and may be killed anywhere (`Crash`),
also inside an append (`TornWrite`). A file is the lines of it that parse and two marks: it
ends in a fragment (`torn`), or a fragment has swallowed the line appended next
(`spoiled`). Every reader refuses a file with either. `raced` is history: the stores two
sessions have used at once.

**CircuitBreaker, ProviderRouter, HttpClient** (`providers/circuit_breaker.py`,
`router.py`, `http.py`). A breaker is a value with operators for its methods;
`CooledDown` is the passing of `cooldown_seconds`. A review begins (`Begin`: fresh
budgets, metrics at the head of their chains), each round groups the pending metrics by
provider and request (`NextRound`), and a group is served in one step (`Serve`), which the
single thread justifies. The disjuncts of `Serve` are the ways `_collect_one`,
`_collect_full_history_tail` and `_collect_ohlcv` can end. What cache and provider answer
is the environment's choice, and so is the order of a round's groups. `HttpClient` is the
retry policy of `request_json`; the response cache calls it.

**SeriesCache** (`providers/cache.py`, `state/market_data.py`, `_collect_ohlcv`). The
candle series of one market, which every session shares without a lock: a manifest names
content-addressed series files. A candle is its opening time and a series a set of
candles. A review loads the manifest and its content (`LoadCorrupt`, `LoadIncomplete`,
`LoadAnswers`), moves a corrupt manifest away (`Quarantine`), asks the provider for one
missing range and merges the answer with what it *loaded* (`Fetch`), writes the content
(`StoreContent`) and then the manifest (`StoreManifest`). Other sessions move between
these steps, and `GiveUp` is a failure or a kill at any of them. `MissingRange` is
`missing_series_range` with its cursor. Time is counted in ticks, `Day` of them to a
candle, because requests carry a time of day and candles do not. `overtaken` is history.

**ResponseCache** (the rest of `providers/cache.py`): response entries and full histories
of one dataset, their TTL and as-of bounds, the look, the fetch through `HttpClient`, the
save, the quarantine and the pruning after every so many saves, as separate steps of
sessions. A provider answers what it likes, observations after the cutoff and undated ones
included, and what it answers is stored as it came: only the guards of the next look
(`Usable`) stand between it and an answer. `Rot` damages a file, `Retire` changes the source
contract, `raced` is history. One dataset at a time: that a pruning also visits the files of
other datasets is left out. The checked instance runs both halves of the cache side by side
(`MCProviderCache`); they share no file.

**Acquisition, EventScan** (`acquisition.py`, `events/scanner.py`, `models/events.py`).
One action is one run of `AcquisitionManager.run` in any fetch mode for any date up to
today: reuse of stored observations, requests, derived and relative observations, shared
regulatory scans, statuses, readiness. A relative return has two sources: the cached
candles of both assets, aligned over the horizon (`OfCandles`), and, only where neither has
any, the two reported returns (`OfReturns`); one series without the other fails it. The
candles are the environment's choice in each run, because they change outside it.
`EventScan` is what a scan makes of the answers of
its sources. `store` outlives the run; `result` is its answer.

**Scoring, PolicyRules, ChainLiveness, RiskGate, Sums, Absence, Allocation**. `Scoring`
(`engine/scoring.py`, `scoring_v3.py`, `execution_quality.py`) computes scores, coverage,
confidence and the deployment allowances from readings. `PolicyRules` (`models/policy.py`)
is what `_parse_policy` demands of the numbers, and the assumption of everything about the
allocation. `ChainLiveness` (`providers/chain_liveness.py`) is what the heads of
independent sources say of a chain. `RiskGate` (`engine/risk.py`) is `run_risk_gate`.
`Allocation` (`engine/allocation.py`) composes them; an asset's view also holds what the
market overlays allow to be bought of it. A review chooses any evidence and
computes `build_target_allocation` and the gate over it in either engine (`Review`), and
the book follows all, the reductions or none of it (`Execute`). Weights are thousandths,
divisions round down, and what rounding leaves over stays in the stable sleeve.

**DirectionGate, DirectionFlip, Rebalance** (`engine/rebalance.py`). `DirectionGate` is
the gate's operators over one asset's recorded history; `DirectionFlip` the promise of one
asset's turns; `Rebalance` the whole of `recommend_rebalance` over several assets, a
stable sleeve and sales: gaps and bands, hard reasons, the gate, staging, sizing, funding
in the order of the buys, and the raises of `RebalanceAction`. The operator executes all
of a plan, its sales or nothing; then the market moves. Holdings the policy excludes count
in the total and are no part of a plan, so a binding overlay restores the stable floor but
for them. `GatePerAsset` says that every
asset's steps are steps of `DirectionFlip`. `standing` and `held` are history.

**ReviewLifecycle** (`state/review.py`, `engine/resting_orders.py`): plans of one asset
from review to review against an exchange and a user: `Snapshot`, `Finalize` (finalization,
the disposition of the prior plan, the superseded events proposed), `CloseSuperseded` and
`Report` (events appended, or not), `Follow`, `Ignore`, `Fill`, `TradeByHand`. A snapshot
may come after a deposit or a withdrawal. `causes` is history: what may have led the disposition astray.

**Accounting** (`state/snapshots.py`, `cash_flows.py`, `context.py`,
`engine/cash_flow.py`, `ledger.py`). The state is the two append-only files and what each
session has checked and not yet appended. What the code computes from the files is an
operator: the overlay (`Effective`, `OverlayRaises`), the order (`Position`, `History`), the unit
arithmetic (`NavHistory`, in exact fractions; a drawdown *d* is kept as *d + 1*), the
segments between baseline resets and the two finalities. A raise is a predicate
(`BuildRaises`, `NavRaises`), and the properties speak of the histories that can be read
(`Computable`).

The `...Proofs` modules and **SetSums** hold theorems, the `MC...` modules instances.

## 3. Runs

| Run | Bounds and why they are enough | What it shows |
|---|---|---|
| `replay` | depths 0..5 give two depths in BREACH (a new low inside the band) and one or two in every other band; clocks of 2, 3 and 3 reviews keep the stages apart; both engines; books of 0, 25 and 85 % risk; the regime's shipped weights and severities; markets that are calm, noisy, stormy and unknown; sequences of reviews are unbounded | stages wait for their clocks and for a calm market, the label covers the ladder, stress ends under the ladder's cap (`RecoveryInvariant`); a calm market releases within `ReleaseReviews + 2` reviews (`QuietMarketReleases`); the loop drives the machine as specified (`DrivesRecovery`), keeps its own state consistent (`ReplayInvariant`) and never adds risk in a breach (`BreachNeverAddsRisk`) |
| `replay_doc` | the same | violation, see section 6 |
| `ledger` | two sessions that race, stop and start again; one id used by two decisions of different content or by two events; two timestamps to disorder. A third session multiplies the states by ten and finds nothing more: the theorems are for any number | types, grounded events, held rights (`LedgerInvariant`); a readable history lost no acknowledged record (`ReadableIsComplete`); every step is a step of `DecisionOutcome`, whose outcomes are terminal but for contested decisions, or a stutter (`ImplementsPromise`) |
| `stores` | two sessions, three values of one point (so that V1 -> V2 -> V1 happens), three fetches, four jobs, each append whole or torn | a file that can be read misses nothing acknowledged, no event lacks its observation, and a fragment swallows an acknowledged line only in a race (`StoresInvariant`); without a race each line supersedes the newest fetch before it, and the chain forks only at a result handed in late (`RevisionsInvariant`); copies need a race, and no key outgrows its sessions (`CopiesNeedRaces`) |
| `router` | two reviews of four metrics, three sharing a request at different places of their chains, one unsupported and one disabled pair, a full history with a tail; budgets 3 and 2 and a threshold of 2 are all reached | partition of a round, fallback in order, breakers, CACHE_ONLY (`RoutingInvariant`); both budgets (`BudgetsRespected`); `OpenCircuitIsNotCalled`; every review ends (`CollectTerminates`) |
| `provider_cache` | series: two sessions, two ticks to a candle so that every second review lies inside a day, horizon 6, reviews dated now or a day back, planned and open ranges, three content files, one damaged; responses: two sessions, a TTL of 2 and a pruning every 2 saves in 4 ticks, three jobs of up to two attempts, one file that rots or contract that is retired | the manifest names stored content, no open candle is kept, a back-dated review sees no later one (`SeriesInvariant`); candles are lost only with damage or between overlapping reviews (`CandlesAreLostInRaces`); an answer from the cache has every candle asked for (`CacheAnswersAreComplete`). Although what providers answer is stored as it came, no answer of the cache is stale, damaged, of another contract or later than its cutoff (`CacheInvariant`); what is alive vanishes only in a race (`LoneSessionLosesNothing`) |
| `acquisition` | BTC, ETH and SOL with one, two and no catalogued groups of security sources, three plans, three days, two runs, two review types, routed returns up to a day behind, three caches of candles, scans of host and resolver in every state, among them a shared scan that read a part of its sources and found an event of one asset | a ready review has its critical evidence, or the shared regulatory scan read only a part and found an event of another asset (`ReadyMeansEvidence`, section 6); "nothing known" was read in full (`ClearWasSeen`); nothing from the future (`AcquisitionInvariant`); a new relative return is of one cohort: two cached series of one venue, each covering its horizon, up to the newest day both have, or, where neither side has a series, the two reported returns of one venue and one candle (`OneCohort`) |
| `allocation` | the shipped numbers and chain limits; two satellites beside BTC and ETH, of different tiers and with a market overlay that halves one; eleven sets of factor readings, seven views of each satellite, three of the core pair; chains moving, standing, silent and forked; three situations in three regimes; two books, two reviews | every limit of the finished target at once (`TargetInvariant`); a held satellite about which too little is known keeps its weight (`MissingEvidenceNeverSells`); unused budget goes to BTC (`UnusedBudgetIsBtc`); nothing grows unless it is entitled, and nothing on a chain seen to stand (`OnlyTheEntitledGrow`) |
| `rebalance` | two assets; the shipped bands; books of 100 dollars, one of them with an excluded holding, and a deposit that doubles them, so that gaps are whole dollars; four mandates, one above BTC's cap; four requests; three reviews over two days with two closes required | no part of a plan passes its target and a binding overlay restores the floor (`PlanInvariant`); `EveryBuyIsFunded`; a review without new cash or a caller's reason never raises where targets respect their caps (`OwnReasonsNeverRaise`); the gate per asset (`GatePerAsset`); a marginal turn was held back, once, in its own direction (`TurnsAreHeldOnce`) |
| `rebalance_doc` | the same | violation, see section 6 |
| `lifecycle` | two zones, five plans, three reviews, three trades, one deposit or withdrawal; states beyond the first cause of error are not continued (`UntilACause`), since the properties speak only of what comes before it | until the first cause of error: orders of older plans do not go astray (`LifecycleInvariant`); lost closures are proposed again (`LostClosuresAreProposedAgain`); NOTHING_RESTING is true (`NothingRestingIsTrue`) |
| `accounting` | three snapshots over three timestamps and one resolution; values and flows make market moves, pure flows and an empty portfolio happen | time-weighted NAV and drawdowns (`AccountingInvariant`), the two finalities agree until a baseline is reset, the two returns where nothing is unresolved (`ViewsAgree`), explicit classifications are permanent (`ExplicitIsForever`), late facts restate only what is later (`LateFactsRestateOnlyLater`) |

Between 2,400,000 (`stores`) and 20,000 (`router`) distinct states; the slowest runs,
`provider_cache`, `lifecycle` and `acquisition`, take up to two minutes with two workers.

Deadlock is checked for `replay`, where a review is always possible. Elsewhere bounds on
lines, reviews, jobs and days end every behaviour, so `CHECK_DEADLOCK FALSE`;
`CollectTerminates` says instead that a review is never stuck. Symmetry is used over
sessions and over values and ids that only name things, in runs without liveness.

**Fairness.** Only `ProviderRouter` has any: `WF_vars(Step)`, the loop of one `collect`
in the calling thread, whose provider calls have timeouts. New reviews and the passing
of the cooldown are not fair. Everything else is safety; what a host or a user does next
is up to them.

## 4. What is proved

TLAPS proves for every value of the constants that the named assumptions allow, and for
behaviours of any length (the bounds of the runs on counters are constants too). The
theorems below are those listed in `PROJECT.json`; the lemmas under them are in the same
modules.

**The recovery machine and the review loop** (`HistoricalReplayProofs`, from
`RecoveryPolicy` and the other assumptions of the policy): `RecoveryHolds`,
`QuietMarketAlwaysReleases`, and for the loop `ReplayHolds`, `LoopDrivesMachine`,
`RecoveryHoldsInLoop`, `QuietMarketReleasesInLoop`, `BreachHolds`. The machine's invariant
joins the properties to the types: the types bound the counters, and the two properties
of the stages speak of the clocks of the same step. The quiet release is not inductive:
`QuietClimb` relates the count of calm reviews to the stage and the clocks, so that each
quiet review either has released the book or has brought it one step nearer. The loop
steps are steps of the machine (`LoopDrivesMachine`), which carries the machine's
theorems into the loop without a second proof.

**The decision history** (`DecisionLedgerProofs`): `LedgerHolds`, `ReadableHolds`,
`PromiseHolds`, for any sessions, ids, times and any number of lines. The inductive
invariant is the type invariant with `FirstExists` and `LatestExists` (the choices the
readers make have something to choose), `EventsAreTerminal`, `EventsAreGrounded`,
`HeldIsTrue(s)` (what a session read and still relies on was there when it read) and
`ReadableIsComplete`. `PromiseHolds` is the refinement: appending a line leaves the first
line of an id alone and makes the latest the new one or the old, so that each append is
one step of `DecisionOutcome` and everything else, torn writes included, a stutter or a
lost right. What makes an outcome terminal is counting rights: as long as a decision is not
contested, one session at most may append to its history.

**The other stores** (`RuntimeStoresProofs`): `StoresHold`, `RevisionsForkOnlyLate`,
`CopiesAlwaysNeedRaces`. `Progress` says of each job what it may still acknowledge, through
fragments and lines that join them. The bound on copies is a potential: the lines written of a key,
together with the sessions that are about to write it without having seen it, never exceed
the sessions. `SerialInv` says what a session knows while no other has touched its store:
that a fragment is found before anything is appended to it, and that the row to supersede
is still the newest.

**The router** (`ProviderRouterProofs`, from `RouterAssumption`, `ThresholdAssumption`):
`RoutingHolds`, `RoundsPartition`, `FallbackInOrder`, `BudgetsHold`, `OpenCircuitsRest`.
That a metric which advances was asked of the provider at its own position is the round's
partition, which itself needs that only the pending metrics of a served group move.
`GroupEnds` reduces the many ways a group may end to what they do to the breaker, to the
budgets and to the metrics; each conjunct is then preserved by its own part.

**The acquisition** (in `ProviderRouterProofs`, from `AcquisitionAssumption`,
`CatalogAssumption`, `WindowsAgree` and `SuppliesAssumption`): all four properties of the
run, `NothingLaterIsSeen`, `ReadyHasItsEvidence`, `NothingUnseenIsClear`, `CohortsHold`,
for any plan, catalogue of sources, venues, candle caches, windows, days and runs. The
registry keeps a return as long as the relative return made of it (`WindowsAgree`), without
which the result could carry a relative return and not the returns it is made of; a scan a host hands in has the state its events and coverage make
(`SuppliesAssumption`, what `EventScanner.build_result` returns; a host could write
another state into a record by hand). The inductive invariant adds that every stored
observation is trusted (`Trusted`): it says that nothing is known only where everything
was read. A run is then split by where evidence comes from: reused, routed, derived,
scanned (`Layers`), each trusted and under its own name; `Verdicts` says what succeeds.
The heart of `ReadyHasItsEvidence` is that all regulatory scans of a run are one shared
scan seen by different assets (`Shares`): if it was full it settles all of them, and if it
was not, it settles those it found an event of. The first attempt stated the property
without that exception; the obligation that could not be proved led to the fact in
section 6.

**The provider cache** (`SeriesCacheProofs`). Of the candle series, from
`SeriesAssumption`: `SeriesHolds`, `LossNeedsARace`, `CacheIsComplete`, for any sessions, killed at any step. The invariant
adds what reviews carry: a session about to write the manifest holds stored content,
every held candle has closed, and a review that was not overtaken holds all that the
manifest names (`LoadedIsCurrent`), the heart of the loss property. Completeness needs
what the gap-scanning cursor does: a scan that finds nothing missing has passed every
candle of the range (`CoveredIsComplete`, by induction over the cursor).
Of the response entries, from `CacheAssumption` and `NoneIsNoFile`: `ResponsesHold` and
`LoneSessionIsSafe`. The invariant says of each job what it is by where it stands
(`JobsAreTyped`), and that only a history's tail is asked for and only where the history
ends by the cutoff (`Purposes`). Nothing is assumed of what a provider returns; that an
answer of the cache keeps to its cutoff rests on the guards of the look alone, and of an
answer straight from a provider nothing is claimed. `LoneInv` is the argument of the second theorem: until two jobs
overlap one session at most is at work, and what it found out (`Knows`: the file is
corrupt, the entry is dead, no history reaches further) stays true until it acts on it,
whatever the clock and rotting files do.

**Sums** (`SetSums`): the community module's `MapThenSumSet` folds a set in an order it
chooses. Here its recursion is shown to have a solution, the order to make no difference,
and the sum to respect order, addition and subsets. Induction over finite sets is stated
with a set of sets in place of a predicate, which the provers can instantiate; this is
what makes sums, and recursions that shrink a set, provable at all.

**Prior plans** (also in `HistoricalReplayProofs`, from the assumptions of the module):
`OrdersDoNotGoAstray`, `NothingRestingHolds`, `ClosuresAreProposedAgain`, for any zones,
plans, prices and any number of reviews. The first two hold until the first of the causes:
a trade outside a plan (a fill between a decision and the user's action is one), a report
that was not followed, a kept order larger than its plan. What a review sees of an exchange is one number,
the change of the quantity held. `BooksBalance` says that between two snapshots without a
transfer it is the sum of the trades of that window. `OrdersFollow` says where orders rest
while no cause of error has occurred: what rests of the latest plan and what the window
executed of it add up to what it planned, zone by zone, and nothing else rests. The
disposition is right for one reason (`SumTight`): no zone executed more than it was
planned, so if the sum reaches the total, every zone is executed in full. `AdviceFits`
carries this from the decision to the user who acts on the advice. A closure that was lost
between decision and report is proposed again because every PENDING plan behind the latest
one is in each new proposal (`PendingAreProposed`).

**The plan of orders** (`RebalanceProofs`): all five properties of the run, for any
assets, policy, books, targets and requests. `GateHolds` is the refinement
of `DirectionFlip` per asset, `TurnsHold` what follows of a turn: one hold of its direction,
whatever number of closes is required and on whatever day. `PlanHolds`: a staged action is at most the gap it closes,
and where the overlay binds the rounding of whole dollars is all that is left of the floor.
`FundedHolds`: buys are funded in order of size out of one pool; `PoolIsEnough` says that
the last of them leaves the pool at least what the others draw, so by induction over the
set of buys nothing is spent twice. `OwnReasonsHold`: where targets respect their hard
caps, a hard reason finds something to sell.

**The accounting** (also in `RebalanceProofs`, from `AccountingAssumption`):
`AccountingHolds`, `ViewsAlwaysAgree`, `ExplicitHolds`, `LateFactsHold`, for any inputs,
any number of sessions and files of any length. The run has one session and three
snapshots; that what two sessions do between check and append changes nothing here is the
proof's. The inductive invariant is the types and that a session holds one append at a
time; the rest is about what is computed from the files. `PlacesAreTaken` counts: the
position of a line is the number of lines before it, which no two lines share, so every
place of the history has one line. `NavsExist` gives the recursion of the ledger a
solution, by induction over the records. The NAV is time-weighted because units are bought
at the NAV a flow finds: in numerators and denominators, `ScalarGrowth`, where all that
the flow adds cancels. From then on only the order of positive fractions is needed: peaks
and drawdowns are kept record by record (`PeaksAreKept`, `WorstIsKept`), and quotients of
equal fractions are equal (`EqualQuotients`), so they are the drawdowns of the
time-weighted NAV. No look-ahead: a late fact moves no line that is earlier
(`LateSnapshot`, `LateResolution`), and the state of a record needs only the records up to
it (`StateNeedsThePast`); where its segment ends later does not matter (`ValuedWhere`).
That the one-pass return and the segmented one agree holds as an equation and not only in
value: from the last reset on the two recursions take the same steps (`NavsAgree`).

**The allocation** (`AllocationProofs`, from `AllocationAssumption`, that is, from what
`_parse_policy` accepts): the properties of the run, for every accepted policy, profile,
set of readings, book and any number of satellites. The inductive invariant is
`AllocationTypeOK` with `PlanIsConcluded`: the standing plan is what the allocator and the
gate make of the standing book and evidence (`PlanStaysConcluded`, `AllocationTypes`). The
rest is about that one computation:

- `TargetsHold`: the sharing under caps ("water-filling") is a recursion that shrinks the
  set of claimants; what is left to share, relative to what is still claimed, only climbs,
  so no share falls below its claim's and the sum fits the budget. Satellites, the core
  anchor, the baseline and the risk caps then each keep the sums they found, and the gate
  errs only for a cause that is there.
- `BtcTakesTheRest`: only a hard risk of BTC or its own single-asset cap leaves budget of
  the volatility engine unused.
- `MissingEvidenceHolds`: a score is a weighted mean of the readings that are there, so
  a held satellite of which only too little is known falls under no threshold by what is
  missing alone.
- `EvidenceCarriesGrowth`: what grows has the evidence that carries it. Unconditional.
- `EntitlementHolds`: `OnlyTheEntitledGrow` where the cap of a single asset leaves room for
  the satellite envelope (`CapsAreWide`, true of every shipped regime). The hypothesis is
  needed: see the first fact of section 6.
- `QuorumNeverHalts`, `EthIsNeverHalted`, `HaltIsUnanimous`, `StoppedChainsHold`: what a
  verdict on a chain takes, and that nothing grows on one seen to stand still.
- `SatelliteCaseHolds`, `CurveClimbs`, `AllowancesBind`: what a satellite's growth takes,
  that a better score never earns a smaller share of the envelope, across the breakpoints
  and the roundings, and that no allowance is exceeded, that of the market overlays included.

## 5. What is only model-checked, and what is not modelled

Only model-checked is `CollectTerminates`: liveness under fairness is out of the prover's
reach. Every other property of a passing run is also a theorem. What stays with TLC
besides is that the instances are not empty: that every action fires, that each property
has a mutant of the code that breaks it, and that the counterexamples of section 6 exist.

Not modelled: float rounding (fractions and integers are exact), the validation and
formatting of records, telemetry (attempt records, fallback indices), vendor adapters, rate
limits and backoff, text matching of events, technical indicators and factors (stateless),
entry planning, research statistics, reports, importers and scripts. `PROJECT.json` gives
the reason for each component. Of the parts that are modelled, the modules' headers say
what they leave out: Allocation the other core modes of the volatility engine, the unlocked
ETH tilt, a minimum share of ETH and the texts, Rebalance the
reconciliation records, PolicyRules the shapes of objects, HistoricalReplay the composition
of the book, with the gate's errors about it, and carry and costs, Acquisition the refusal
of a relative return below -100 %.

Instances never test a code path alone where the code composes it: the recovery machine
and the classifier are checked inside the loop, the scores, the chains and the gate inside
the allocation, the direction gate inside the rebalance. The exceptions are `ProviderRouter`,
for which both caches are the environment's choice, and `Acquisition`, for which the router
is.

## 6. Where code and documentation disagree

Two disagreements are runs. `replay_doc`, `engine/risk.py:550-557` with
`research/orchestrator.py:578-581`: a book whose drawdown is beyond
`max_portfolio_drawdown` gets DRAWDOWN_BREACH in every review, whatever the recovery
machine or a confirmed recovery allows, and every increase of a review with errors is
dropped. The caps of RECOVERY_1, RECOVERY_2 and `recovery_risky_floor` apply only to a book
that is beyond its budget or was, so the relaxation they grant cannot be bought while it
is. `references/risk-model.md:258-265` says of a book pinned at -D that it "may re-risk up
to `recovery_risky_floor`"; so do `engine/risk_recovery.py:3-9` and
`docs/STRATEGY_V2_1_VALIDATION.md:42-43`.

`rebalance_doc`, `engine/rebalance.py:112, 175-200`: a marginal reversal held back in the
morning executes at the second review of the same day, because the candidate it was
recorded under is then the standing direction; with more than one close required, one hold
is all the gate asks for. `references/decision-rules.md:88-93` and the docstrings at
`engine/rebalance.py:86-91, 162-165` ask for that many distinct daily closes. The property
of the run (`TurnsPersistAcrossCloses`) is that promise; what the gate does keep is
`TurnsAreHeldOnce`.

The others are facts met while modelling and proving. Each was seen in a counterexample of
TLC, in an obligation that could not be proved, or in the code; no run repeats them.

**Allocation**

- A regime with `single_asset_max < satellite_max` and a small or zero `core_risky_min`,
  which the parser accepts and no shipped regime has, lets the sharing hand a CAPPED_HOLD
  satellite of the volatility engine more than it holds (`engine/allocation.py:711-760`,
  `1301-1303`): it grows without a case. With single 100, satellite_max 250 and no core
  minimum, a book of 15 % BNB and 5 % SOL targets 10 % SOL. A core minimum of 50 % makes
  the gate refuse the plan. Hence the hypothesis of `EntitlementHolds`.
- A held satellite with incomplete evidence keeps its weight up to the satellite cap
  (`allocation.py:1262-1268, 1301-1303`), while the hard exposure cap published with it is
  the envelope times its tier's fraction plus a buffer (`1091-1094`). AAVE held at 24 % in
  tier high_beta has the cap 15.5 %: `recommend_rebalance` derives RISK_BUDGET_BREACH at a
  gap of zero and raises (`engine/rebalance.py:921-928, 1036-1044, 632-638`), so the review
  ends in a ValueError. Both loops hand these caps on (`research/orchestrator.py:556-560`,
  `strategy_replay.py:470-474`); `tests/test_execution_attribution.py:286-300` has only
  targets below the cap. Hence the premise of `OwnReasonsNeverRaise`.
- `references/scoring-model.md:249-256, 392-395` say that missing factors alone never
  produce a satellite exit and that an incomplete held satellite stays at full weight.
  `satellite_eligibility` (`allocation.py:666-693`) guards the market factors only: with a
  structural factor missing and a normalized score below the soft exit the satellite is
  INELIGIBLE, and above it it is resized by the curve.
- Two accepted policies get round `MissingEvidenceNeverSells` as the text words it, and the
  property excludes what they reach: a market-entry threshold below the satellite entry
  score, and a factor of the market family outside the profile (`engine/scoring_v3.py:103-107`).
- In legacy mode, with structural 40 and market 90, a held SOL of score 66.99 may hold
  9.99 % and one of 67 only 7.5 %, against `references/scoring-model.md:387` and
  `allocation.py:546, 607-608`. `CurveClimbs` shows that the curve itself climbs: the cliff
  comes from the tactical fraction.
- Neither loop hands `chain_liveness` to `build_target_allocation`
  (`orchestrator.py:489-504`, `strategy_replay.py:436-447`): only the gate sees a halt, and
  drops every increase of the review; `strategy_replay` raises. The BTC core state ignores
  the argument anyway.
- `RiskCheckResult.deployment_caps` has no consumer, so the 25 % cap on a DEGRADED chain of
  `references/risk-model.md:398-400` is never applied. No loop in the repository hands a
  decision confidence to the allocator or the gate.
- The routing of residuals by the capital hierarchy is dead code for the shipped policy,
  and the sharing may exceed a request.

**Chains and policy**

- With the catalogue of the repository ETH is never HALTED, whatever its sources answer
  (`EthIsNeverHalted`; `providers/chain_liveness.py:82-108, 800-900`), against
  `references/risk-model.md:401-403` and `docs/USAGE.md:454`;
  `tests/test_chain_liveness.py:215-226` tests it without a secondary. ETH grows while all
  its heads stand still. `halted_minimum_independent_sources` may be any number from 2, and
  3 with two sources makes HALTED unreachable.
- The parser accepts policies under which a review raises: families missing for a
  profile, or a market family of BTC that weighs `relative_strength_btc`
  (`scoring_v3.py:66-70, 96-103`), and `confidence.caps` without `hard_critical_missing`.
- `with_overrides` (`models/policy.py:1539-1575`) repeats only a part of the checks of the
  universe, against the comment at 2745-2750.
- `calculate_data_confidence` has no callers; a hard-critical metric whose latest row is
  CONFLICT or FAILED but fresh does not cap it (`engine/confidence.py:640-690`).

**Recovery and regime**

- A book braked at EMERGENCY, healed to no drawdown and sliding back to its old depth is
  not at a new low and not re-asserted; `engine/risk_recovery.py:238` takes it for a
  released book with cap 1.0, against `references/risk-model.md:233-234`.
- `include_portfolio_drawdown=False` drops the floor of `risk-model.md:229-230`; if every
  domain is unknown the label is NORMAL.
- The hysteresis of `engine/risk_tier.py:32-142` writes a lower-case key and looks up an
  upper-case one, so it never holds (`risk-model.md:284-288`).

**Rebalance**

- Alternating proposals hold each other for ever.
- `recommend_rebalance` raises when new cash dilutes an overweight asset to its target, or
  when a caller's hard reason meets an asset at its target.

**Stores and accounting**

- Two sessions pass the check of `state/decisions.py:142-187` before either appends, and
  CONFIRMED is followed by NOT_EXECUTED; `docs/HOW_IT_WORKS.md:125-127` and the error at
  `decisions.py:178-182` call both terminal. These are the contested decisions of
  `DecisionOutcome`, the only ones the promise is not kept for.
- An append neither looks at the tail nor writes atomically (`state/_jsonl.py:24-31`): the
  line of a session that had read the file before another one's write was torn joins the
  fragment, and its acknowledged record is lost with it. From then on the file is refused
  as a whole.
- A late result with an older `fetched_at` supersedes the newest row and leaves it newest, so
  the next one supersedes it too: two rows supersede one (`state/metrics.py:59-68`), with
  no race. Hence the exception in `RevisionsInvariant`.
- An unresolved flow before a baseline reset leaves the NAV result FINAL
  (`engine/ledger.py:363-376`) and the cash-flow review of the same history PROVISIONAL
  (`state/context.py:94-116`); `docs/DEVELOPMENT_DEBUGGING.md:50` lets it block finality.
- `scripts/cash_flow_resolutions.py` appends a resolution without asking whether its
  snapshot exists or may be overridden; if not, every later overlay raises, and the file
  is append-only. Two snapshots with one timestamp do the same to `build_nav_history`.
- A point that goes V1 -> V2 -> V1 keeps V2 as its latest value, since the third row has
  the id of the first; `latest_usable` breaks ties by file order (`state/metrics.py:265`).

**Acquisition and events**

- A shared regulatory scan that missed sources and found an event of one asset completes
  the group ("MARKET", "regulatory") of `AcquisitionResult.hard_critical_unresolved`
  (`acquisition.py:119-153`), because the copy of that asset is MATERIAL_EVENT_FOUND
  (`_map_shared_regulatory`, 1172). Every other asset's regulatory metric is FAILED, and an
  event review, to which it is critical, is ready for scoring all the same; what remains
  is the FAILED metric itself. Hence the exception in `ReadyMeansEvidence`.
- A dispute in a shared regulatory scan is lost: CLEAR, and ready
  (`references/data-sources.md:303`). A stale scan handed in counts as completed, and one
  without a date is CURRENT at any age. A CACHE_ONLY event review with BTC's scan makes
  ETH's regulatory metric FAILED and the review ready
  (`references/risk-model.md:424-427, 432-435`).
- SOL's security metric has no catalogued source, so a review that needs it is never
  ready. Web fallbacks are dead code. Pairs of returns are invalidated in the order of the
  plan.

**Caches, router, HTTP**

- The scan for gaps steps from the requested start, which carries the time of day of the
  review, while candles open at midnight (`providers/cache.py:592`, `router.py:918`): over
  a complete series it reports a gap from the start on, and the newest closed candle is not
  fetched (`docs/DEVELOPMENT_DEBUGGING.md:46-48`).
- `cache_ohlcv` reads a content file that exists before it would write it: a review that
  fetches exactly the content whose file is damaged fails at every retry. A corrupt entry
  counts as a retryable network error against the breaker of a provider nobody asked.
- `_saves_since_prune` counts per process, so reviews of fewer than 25 saves never prune;
  `load_response_record` has no callers.
- The review's budget counts collects, and one collect sends pages times attempts
  (`providers/http.py:340`). A budget refusal after `allow()` leaves the breaker HALF_OPEN;
  a failed fetch of the tail discards the cached history that could have served.
- A 429's Retry-After is clipped at 30 s, and the last diagnostic of `request_text` is
  never retryable.

**Prior plans**

- `_zones_match` compares prices only, so a smaller plan in the same zones keeps the
  excess of the old order (`state/review.py:66`); the window of attribution starts at the
  prior snapshot; superseded events ignore fills; a plan of an asset that is no longer
  asked about stays PENDING.

## 7. Plan

Done: the recovery machine and the review loop, the decision history and the other stores,
the router, both caches, acquisition and event scans, the regime, scoring, chains, gate and
allocation, the rebalance, prior plans, accounting; proofs as in section 4.

Left, all of it modelling:

1. `ProviderRouter` with both caches in place of the environment's choice, and
   `Acquisition` over it.
2. Risk tiers with their hysteresis, once its key is repaired.
