# A verification project for the crypto acceleration backend

The repository is a fail-closed trading backend: a FastAPI service, a PostgreSQL
schema with triggers that repeat the most important rules, an adapter for the
Bybit V5 exchange, and an operator panel that opens the live gate step by step.
The code promises a few things that are hard to test and that matter more than
everything else it does:

* an approved risk decision is sent to the exchange at most once, and never
  without a committed row that says so;
* a symbol has at most one entry in flight, whatever processes, retries and
  crashes do;
* the live gate is open only on evidence that belongs to the running
  configuration, gathered in the prescribed order;
* no entry is permitted during a stop, its cooldown, or a market the regime
  classifier does not trust;
* an approved entry loses at most its risk budget, base costs included;
* an open preflight was ready in every respect, and a shut one says why;
* a manual action that was accepted raises no risk, and every answer is in the log
  as it was given.

The modules here state these promises against models translated from the code,
TLC checks them on small instances, and TLAPS proves the central ones for every
value of the constants. Paths below are relative to the root of the repository.

## 1. Inventory

For each part: the state it keeps, its operations, what it talks to, what is
hard about it, and what would make it correct.

**Live order submission** (`app/api/routes/execution.py`,
`app/execution/order_router.py`, `app/execution/idempotency.py`,
`app/live/gate.py`, table `orders` with its trigger and indexes).
State: an in-memory response cache and symbol locks per process; rows of
`orders`, `risk_decisions`, `signals`, `incidents`. Operations: `live_submit`,
`paper_submit`, `build_intent`, `lock_symbol`, `reserve_order_intent`,
`place_order`, `update_order_submitted`, `mark_order_error`, `create_incident`.
Hard: several processes, a crash at any await or statement, a REST call whose
result is unknown, a retry under another key. Correct when: one call per
decision, the row before the call, one entry per symbol, truthful answers, and
every uncertain order marked. Modelled.

**Regime classifier** (`app/regime/classifier.py`). State: per symbol, the
current regime, a pending one with a counter, the end of a cooldown. Operations:
`classify`, `strategy_allowed`. Called by the routes `signals` and `paper`, which
make a new object for every request. Hard: memory over a sequence of readings.
Correct when: no entry in an unsafe reading or in a cooldown; no flip to a less
safe regime on a short streak; a steady market is recognised in the end. Modelled.

**Operator jobs** (`app/services/operator_jobs.py`,
`app/api/routes/operator_jobs.py`, `scripts/bootstrap_db.py`). State: a table of
jobs in memory, the last job of each command, cached answers; through the
bootstrap job, the schema. Operations: `start`, `_run_job` in a thread with a
subprocess and a timeout, `list_jobs`, `apply_migrations`. Hard: threads, a
timeout that kills a migration half way, restarts that forget the jobs, two jobs
of the same command at once. Correct when: every job ends, a replay starts
nothing, behind a weakened trigger stands an unfinished job. Modelled.

**Operator workflow** (`app/api/routes/operator_workflow.py`, evidence functions
of `app/db/repository.py`, `scripts/record_go_no_go_evidence.py`). State: the
append-only table `go_no_go_evidence`, the jobs of the panel, the clock.
Operations: `build_workflow`, `run_workflow_action`, `record_go_no_go_evidence`,
`live_evidence_status`. Hard: a gate that is derived from rows and from jobs of
this process, a command line beside it, a configuration that changes half way, 14
days. Correct when: each gate is passed only after the earlier ones, and the live
gate and the panel, which read the same rows by different rules, agree when the
panel is green. Modelled but for the paper trades themselves.

**Risk approval and sizing** (`app/risk_engine/*.py`, `app/api/routes/risk.py`,
`app/market_data/bybit_ingestion.py`). State: the decisions in PostgreSQL and a
response cache; everything else is a snapshot read from the exchange during the
request. Operations: `approve`, `approve_signal`, `compute_sizing_after_rounding`.
Hard: the snapshot is old when the decision is used; caps over the day and the
portfolio depend on orders nobody has counted yet; rounding and costs at the edge
of the budget. Correct when: an approved entry respects its budget and the caps
hold for the sequence of approvals, not for each alone. Modelled in the main.

**Database availability** (`app/db/availability.py`, `app/db/connection.py`,
`app/main.py`). State: `app.state.db`, `repository`, readiness flags. Operations:
`_install_database`, `ensure_database_ready`. Hard: the pool is replaced under
requests that use it; readiness is judged by tables.

**Live preflight and startup guard** (`app/live/preflight.py`, `app/live/gate.py`,
`app/security/startup_guard.py`, `scripts/live_preflight.py`). State: the settings
read once at the start and `app.state.db`, `repository` and readiness flags; a run
keeps its checks and reasons. Operations: `run_live_preflight` in two modes, called
by the gate of the live submit, by the panel and by hand; `ensure_database_ready`.
Hard: a run reads settings, database and exchange one after the other while all of
them change; checks and reasons are kept side by side; a limiter of ten calls is
shared by all questions of a run. Correct when: an open gate had everything it
stands for, an incident open all along shuts it, what the startup guard lets
through the gate's own flags do not shut out. Modelled.

**Bybit adapter** (`app/execution/bybit_adapter.py`,
`app/execution/rate_limiter.py`). State: clock offset with a time to live, a token
bucket; both per adapter object, and an adapter is made per request. Operations:
`sync_time`, signed GET and POST, public GET, error classification; there is no
retry. Hard: a timestamp must fall into the window of the exchange although two
network legs and corrections of the local clock lie between learning the offset
and using it; a bucket that counts from the import of the module. Correct when: no
call falls out of the window of a calibrated setup, no stale offset is used, burst
and rate hold. Modelled.

**Order state machine, reconciliation, protection watchdog**
(`app/execution/state_machine.py`, `app/reconciliation/*.py`, the constraints of
table `positions`). Pure functions and constraints that no route calls yet.

**Manual actions** (`app/api/routes/actions.py`, table `manual_request_log` with the
CHECKs of migrations 0001 and 0003). State: rows of the log, a cached answer per key.
Operations: one handler, which changes no trading state; migration 0003 beside it.
Hard: the handler's guard and the CHECK of 0003 judge the same target differently,
the CHECK may come after the rows, and the INSERT fails or the process dies before
the answer. Correct when: no accepted change raises the risk, every answer with a
repository has its row, a key with an answer writes nothing more. Modelled.

**Strategies and orchestrator, paper pipeline, demo state**
(`app/strategies/*.py`, `app/paper_trading/pipeline.py`,
`app/services/demo_state.py`). Pure candidate generation over static demo data.

**ML gate, registry, labels, training** (`app/ml/*.py`), **LLM news risk**
(`app/llm/*.py`), **backtest and reports**: pure or offline functions.

**Configuration, phase validator, settings, auth, redaction** (`app/config/*.py`,
the rest of `app/security/*.py`, `app/core/*.py`): predicates evaluated
once at start or per request.

**Dashboard and read routes** (`app/api/routes/operator.py`, `state`, `runtime`,
`health`, `incidents`): read-only projections. **Frontend** (`frontend/`) renders
them and decides nothing.

## 2. Modules

| module | models | used by |
|---|---|---|
| `EntryGuard` | what live submission promises: a decision is approved, reserved while its symbol is free, sent only after that and once | refined by `LiveSubmit` |
| `LiveSubmit` | `live_submit` and `paper_submit`, order router, idempotency store, the statements on `orders` with trigger and indexes | `LiveSubmitMC`, `LiveSubmitProofs` |
| `EntryRisk` | `POST /api/risk/approve` with live data, sizing, costs, limits; entries, fills and closed positions around it | `EntryRiskMC`, `EntryRiskProofs` |
| `RegimeClassifier` | raw regimes, cooldown and hysteresis memory, `strategy_allowed` | `RegimeClassifierMC`, `RegimeProofs` |
| `OperatorJobs` | jobs, their threads and children, migrations as transactions, the database behind the backend | `OperatorJobsMC`, `OperatorJobsProofs`, `OperatorWorkflow` |
| `OperatorWorkflow` | evidence rows and the gates derived from them; extends `OperatorJobs` | `OperatorWorkflowMC`, `OperatorWorkflowProofs` |
| `BybitAdapter` | clock offset, signing, window of the exchange, token bucket | `BybitAdapterMC`, `BybitAdapterProofs` |
| `LivePreflight` | a run of the preflight, its callers, startup guard and database of the server | `LivePreflightProofs`, `ManualActions` |
| `ManualActions` | the action handler and its log; extends `LivePreflight` to the whole server | `ManualActionsMC`, `ManualActionsProofs` |

Every `...MC` module gives the constants of its component small values and
defines nothing else. Every `...Proofs` module extends the module it is named for,
`OperatorWorkflowProofs` the proofs about the jobs as well, `ManualActionsProofs`
those about the preflight. The component modules hold, beside each definition a
check depends on, a faulty form of it (marked "Faulty"), with which the property
must fail; no specification uses those.

**Process model.** The handlers are `async def` without an `await` before their
answer, so one process runs one handler at a time and never interleaves two; what
interleaves are processes (`Workers`), the database and the exchange. A handler is
a record with a program counter, and every point where another process, a crash
or a failing statement can come in between is a step of its own: one step per SQL
transaction and per call to the exchange. A crash empties what is in memory
(`InMemoryIdempotencyStore`, symbol locks, jobs, cached answers), and only that.

**`LiveSubmit`.** `handler[w]` walks `verify` (`verify_live_risk_decision`),
`build` (`build_intent`, `lock_symbol`), `reserve` (look up the key), `insert`
(`INSERT INTO orders`, with the indexes and the trigger of migration 0003),
`place` (`place_order`), `record` (`update_order_submitted`) or, when the call
raised, `mark` and `incident`. `PlaceRaises` leaves open whether the exchange
took the order. The constant `HardInvariants` says whether migration 0003 is
applied. `PassGate` is the part of the live gate that changes under running
requests: no open HIGH incident. Decisions are approved, rejected again and
expire at any time. Timeouts of the client are retries with the same or another
key, on the same or another process.

**`EntryRisk`.** `handler[w]` walks `wallet` (specs, market and
`get_wallet_balance`), `positions` (`get_positions`), `decide` (`approve_signal`,
`persist_signal`) and `decision` (`persist_risk_decision`, the remembered answer).
The account is read in two calls between which orders fill and positions close.
Amounts are integers, percentages basis points, and every inequality of
`compute_sizing_after_rounding` and `approve_signal` is multiplied out, so that
nothing is rounded except where the code rounds (`floor_to_step`). An
approval becomes an entry in the order table by `Reserve`, which is the live gate
and the INSERT of the deployed schema in one step; `Send` is the call of the
exchange, after which the order fills or is cancelled. The two are surroundings of
the approval and nothing is shown about them here: the statements between which a
submission can be interrupted, and what `EntryGuard` asks of them, are in
`LiveSubmit`. The row stays and keeps its symbol reserved, as there. The exchange is
modelled from how the code uses it. An approval
reckons with the spread and the funding its market shows (`Cost`); the properties
count the base costs only (`BaseCost`), those every market has. A position rejects every approval, so the
portfolio notional an approval adds to is always zero and is not carried. Two
variables are history: `told` (answers given) and the field `held` of a handler
(positions open ever since its request began).

**`RegimeClassifier`.** A reading is a record of the facts `_raw_candidates`
compares, already compared; the raw regime is the safest candidate. Memory is kept
per symbol: current, pending with its count, and the cooldown, counted down by
`Tick`. `PerRequest = FALSE` is the classifier as a caller that keeps it would use it,
which is what run and proofs are about; the routes make a new object for every
call (`TRUE`), see section 7. `log`, `streak` and `calm` are history. No sign yields
`TREND_DOWN`, as in the code. Symbols share nothing but time, so TLC checks one; the proofs are
for any set.

**`OperatorJobs`, `OperatorWorkflow`.** A job is a record with its child; the
thread's states, the timeout, and a child that survives a restart are separate
steps. A migration is one transaction and the schema is the set of its visible
effects, so a bootstrap job can stop between any two of them and two jobs can
interleave; migration 0001 puts its weak trigger back each time it runs. The
workflow adds evidence rows in order of arrival, the day, the hash the process was
started with (`config`) and the hash of the files now (`files`). `Offers` is
`build_workflow`, `Accepts` what `run_workflow_action` adds to it (a second look
at the prerequisites), `LiveEvidence` the gate's own reading of the same table.
The command line records whatever rows `CliRows` allows; `ShortPass` names the
passes whose measured period is shorter than the gate asks for, `EndsAhead` the rows
that claim an end after today.

**`BybitAdapter`.** Time is an integer in any unit; the exchange has the true
clock, the local one is off by `skew`. A call is a record under way: `asked` (the
time request waits for the server), `stamped` (its answer is on the way back),
`signed` (a private call is on its way). Every step of a call is an action, so the
two network legs of an exchange take any share of its time and the local clock is
corrected between any two steps. The bucket counts tokens in `Cost`-ths of a call,
which keeps refills whole. `SignAtOnce` and `SignAfterSync` are the two ways
through `_private_get` and `_private_post`; `Limited` is a refusal at the first or
at the second token. `born`, `granted` and `heard` are history. A server time may
come in whole seconds, which `_extract_server_time_ms` accepts.

**`LivePreflight`.** `settings` and `app` are the server, `up`, `schema`,
`incident` and `evidence` the world, `stage` walks `incidents`, `evidence`, `time`,
`specs`, `key`, `wallet`, `contract`, `positions` to `done`, with a step of the
world possible before each. `Gate`, `Panel`, `Look` and `Script` are the callers
with what each hands over: `app.state` as it is, or after `ensure_database_ready`
(which keeps a repository whose pool still works, `kept`), or a database opened by
the script. A call of the adapter ends well, unfit, with an exception or at the
limiter; `tokens` is a lower bound, since refills only help. `Restart` starts a
process with any of the `Chosen` settings that `StartsUp` accepts. Two variables
are history: `openAlong`, and `calm`, that the database held nothing against the
run until the run had looked (`Clear`: it answers, has its tables, no open incident
and, where the settings ask for it, all evidence).

**`ManualActions`.** One server with both: a request is received, its row inserted
(or the statement raises, perhaps after committing), the answer kept and given; a
restart forgets the answers and the request. Of a target only what the two guards
look at is kept, so a `risk_increase` given as text, which the handler accepts and
the CHECK refuses, is its own case. `schema`, the tables, comes with migration 0001;
`hard` says that 0003 is applied, whose CHECK on configuration changes is asked only
then. `Harden` applies 0003 while the server runs, and fails while the log has a row
against that CHECK, because `ADD CONSTRAINT` looks at the rows that are there.

## 3. Runs and bounds

| run | what is asked | instance |
|---|---|---|
| `live_submit` | one entry per symbol, true answers, symbol lock, refinement of `EntryGuard`, which contains one call per decision and the row before the call | 2 processes, 2 keys, 2 signals with a decision each on one symbol, deployed schema; 0.9 M states |
| `live_submit_0001` | the error path as written, rows that only move forward, and refinement of `EntryGuard` decision by decision without the strong trigger | one signal evaluated twice, schema 0001; 0.9 M states |
| `entry_risk` | approvals and open positions, one verdict, costs against rounding, positions inside the budget of their entry | 2 processes, 1 key, 3 candidates on 2 symbols, limits of `config/risk.yaml`; 1.2 M states |
| `regime` | entries, cooldown, hysteresis, recovery | readings on both sides of every threshold, 3 bars, cooldown of 2 ticks |
| `operator_jobs` | every job ends and is then never heard of again, replays, who weakened the trigger | 2 keys, 2 jobs; 0.15 M states |
| `workflow` | order of the gates, one configuration, a green panel against the gate's reading, what takes complete evidence away, what leaves the panel without a button | 2 configurations, 2 jobs, 8 rows, 3 days, paper periods of 1 day, window of 1 job, one row of the command line out of turn; 1.7 M states |
| `adapter` | timestamps in the window, age of an offset, burst and rate | 1 adapter, half-second units, window 3.5 s, margin 0.5 s, 1 s of round trip, 0.5 s of correction, clocks 3.5 s slow or 1.5 s fast, burst of 2 calls; 4.4 M states |
| `operator_desk` | an open and a shut preflight, each with its cause, limiter, the log of actions, accepted changes around migration 0003, quiet keys | 7 settings a server starts with, 2 symbols with the least burst for them, 1 key, 3 actions; 2.2 M states |

Bounds and why they are enough. Two processes and two keys give every race of two
requests and every retry under another key; a third process adds no new kind of
race, as each handler only meets rows, and the proofs hold for any number. Two
decisions on one symbol is the smallest case in which two entries on a symbol are
possible. Three bars make a streak of two, which must not flip, different from one
of three. In the workflow `MaxRows`, `MaxJobs`, `MaxDay` and `MaxCliRows` stop the
growth of append-only state: seven rows are a complete run of the panel, and there
is room for one row of the command line (`OutOfTurn`): a paper FAIL without dates,
which takes the panel's buttons away, a pass of a period of no days, or a period
that claims an end still ahead and that the panel then passes today. With three days
a configuration has more than one passed period, so that which of them the gate
measures matters, and evidence that was complete is taken away by either of the last
two rows. `DaysRequired = 1` stands for the panel's 14 days and `MinPaperDays = 1` for
`CAS_MIN_PAPER_DAYS`, because both only compare; that the two may differ is left to
the theorems. States of that run that differ only in what no action and no property
reads (a `VIEW`: forgotten jobs, who started one, in what way it failed, the day of
rows that are no paper rows) or in the names of the two configurations (symmetry)
are one. A window of one job (`JobWindow`, 50 in the code) makes
jobs scroll out as they do after fifty presses. In `entry_risk` the deposit and
the candidates are chosen at the edge: `Edge` is approved with an equity of 490
USDT and rejected with 500, because five steps fit into the budget but their costs
do not; whether `Tight` keeps the reserve beside a resting order depends on how
the available balance is read; `Carry` is a strategy the phase forbids. A closed
position gains 60 USDT, so that the equity an entry was sized by and the present one
differ, and beside positions and resting orders nothing is available, which the code
reads as everything; negative balances and losses are left to the theorems. In `adapter` the two clocks differ by more than
the window, so that an unsynchronised signature would be refused, and the numbers
are near the edge of `Calibrated`: a correction or a round trip of one unit more
would break it. One adapter is enough because adapters share only time. In
`operator_desk` the settings are the ready ones, all that differ from them in one
switch, and the one that trusts neither database nor evidence; the guard lets
seven of them start. `Mixed = FALSE` has a behaviour of that run either preflight
runs or manual requests: the two share only what neither writes (`app` apart,
which the panel's look replaces while no request is under way), and the theorems
hold for mixed behaviours too. No cfg uses a state constraint. Deadlock is checked
in every run.

Four more runs each refute one sentence of the repository, see section 7.

## 4. Fairness

Safety runs use none. Two specifications state it:

* `OperatorJobs`: weak fairness of `RunJob` and `TimeOut` of each job. Threads of
  the process are scheduled, and `subprocess.run(..., timeout=...)` returns when
  the time is over whatever the child does. No fairness of operators, children,
  restarts or the database. `EveryJobEnds` needs both: a child may hang for ever.
* `RegimeClassifier`: weak fairness of `Tick` and of each symbol's `Classify`:
  time passes and the caller goes on asking. `SteadyRegimeReturned` is about a
  reading that stays, so nothing is assumed of the market.

## 5. What is proved

`tlapm` checks the following for every value of the constants that satisfies the
named assumptions of the modules (types of the parameters, and
`HardInvariants` where stated).

* **`LiveSubmitProofs`.** The inductive invariant `Inv` joins the types with: rows
  are unique by client order id; a handler past its INSERT owns a row nobody else
  owns, so no two handlers are between the INSERT and the answer of the same
  decision; a handler that has not called yet has a decision that was not called;
  what was acknowledged is live. `AtMostOneCall` follows because the call is made
  only by an owner, and `WriteAhead` because owning is having a committed row. The
  strengthening is needed because one call per decision alone says nothing of two
  handlers that are both about to call.
  `TrueAnswers` says what a 200 means. Under `HardInvariants` a row of an entry
  keeps its state pending, hence its symbol reserved (`SymbolsAreReserved`):
  `OneEntry`, and `Refinement` of `EntryGuard`, step by step. Without it the symbol
  is freed again, but `DecisionsAreGuarded` says that `EntryGuard` is still
  implemented for each decision by itself, because a call is the first one of the
  decision its caller owns (`FirstCall`). `RowsAreFinal` is the action property of
  the table: no row is lost or moves back, and an acknowledgement never covers a
  mark. It needs that the row of a handler between the call and its outcome is
  still as it was inserted (`OutcomeIsOpen`). `SymbolLock` is the in-memory half.
  `TrueAlarm`: a 502 is true on either schema, the row waits for reconciliation and
  the incident is open.
* **`EntryRiskProofs`.** `RoundingPays` is arithmetic: with `n` steps of size `s`
  and the budget `b < 10000 d s (n + 1)`, a loss `n s d 10000 + n s p c <= b`
  leaves `n p c < 10000 d` (`CostsFitIntoOneStep`), and `c` is at least the cost
  every trade has. `FlatApprovals` needs that `held` is always part of what is
  open (`HeldIsOpen`) and that a handler without mismatch holds nothing
  (`FlatWhenMatched`). `OneVerdict` needs that a request under way has a key the
  process has not answered (`AnsweredOnce`). `PositionBudget` follows a decision
  to the position it ends in: what was approved was affordable for the equity it
  was sized by, base costs included (`ApprovalsFit`, of decisions under way, approvals
  and rows), a
  symbol has one row (`OnePerSymbol`), so its position is that one fill and nothing
  is added to it (`PositionsAreEntries`). Neither the present equity nor the number
  of approvals enters, which is why it holds although approvals overlap.
* **`RegimeProofs`.** For a kept classifier (`PerRequest = FALSE`): the remembered
  regime is the last one returned, the pending count is the length of the streak of equal
  raw regimes, nothing is pending in a cooldown. From it `NoFlipFlop` for every
  number of bars and `RestedEntries` for every cooldown. For either kind
  (`AnyInv`), for every set of readings: `TypeCorrect`, and `CalmEntries`, because
  a normal regime is returned only for a normal reading. `RequestsForget` says of
  the classifier the routes make for each request that it returns what the reading
  shows, so that `RestedEntries` and `NoFlipFlop` cannot be had from it. `HeldBack`
  is the safety half of `SteadyRegimeReturned`: the returned regime differs from the
  raw one only in the cooldown after a stop, or while a flip is counted for fewer
  than `HysteresisBars` calls, and an immediate regime is never held back.
* **`OperatorJobsProofs`.** An invariant of four parts: a job this process remembers
  has the answer of its key (`Answered`), keys are not shared, a child
  belongs to a running job, and a bootstrap job shown
  as ok has no migration left. `OneJob` and `WeakTrigger` follow; the last needs
  the fourth part, because a second job may finish between two migrations of the
  first. `EndedIsFinal` is an action property: no thread, timeout, surviving child
  or restart changes a job that has ended, since an ended job has no thread left.
* **`OperatorWorkflowProofs`.** Rows are only ever appended, so what is said of rows
  before a row stays true (`EarnedStays`). Each row of the panel is `Earned`: the
  rows its button asked for stand before it with the same configuration. The chain
  of five rows in `GoEarned` is put together from those links. `GreenIsOpen` adds
  that dates of the panel's paper rows are in order and needs
  `MinPaperDays <= DaysRequired`. `EvidenceLostByShortPass` names the
  only ways in which a gate that is satisfied for a configuration stops being so: a
  PASS of the paper period that the gate finds too short, recorded by the command
  line or by the panel for a period whose claimed end lies ahead. A FAIL or a new
  period takes nothing away, because the gate measures the pass that ended last. It
  needs `MinPaperDays <= DaysRequired`, and rests on what a press of the panel's pass
  button measures (`PassedIsLong`). `StrandedByCommandLine` says that the panel is
  without a button for the paper period only behind a row of the command line that
  is no pass and counts too few days, see section 7; it assumes nothing.
  `CiBeforeGo` finds the cause of the finding `go_without_ci`: as long as testnet
  preflights are started by the panel's button (`TestnetByPanel`), the CI evidence
  of the configuration precedes every GO/NO-GO of the panel. Its invariant
  (`CiAsked`) is that a testnet job the button started had asked for that evidence.
  `JobsBesideWorkflow` and `EndedBesideWorkflow` carry the theorems on jobs over to
  the composed system.
* **`BybitAdapterProofs`.** The offset differs from the true one by at most half a
  round trip, the corrections and a lost second (`OffsetBounds`), whatever the legs
  are; `WindowHolds` follows for every setup that is `Calibrated`, and
  `DefaultsHold` puts in the numbers of `BybitConfig`: a round trip and two clock
  corrections of together at most 2498 ms. `LimitHolds`: the
  tokens and the calls granted never exceed the burst and what came in since the
  adapter was made. `SignedSoon` bounds the age by the lifetime and one correction.
* **`LivePreflightProofs`.** The invariant keeps `reasons` beside `failed`, counts
  the good answers that a run without reasons must have had (`Counted`), and ties an
  incident open all along to its check. `BlockExplained` has the other direction,
  that a run which blocks had a cause: while the database held nothing against the
  run and every question was answered well, only flags are down (`Justified`), and
  the flags of a server that trades, all but the one of the database, are what its
  startup guard looked at (`GuardCoversFlags`, with `Path` for whose settings a run
  uses). `LimiterSpares` assumes `Universe + 5 <= Burst`: the
  time, each symbol, the key, two wallets and the positions.
* **`ManualActionsProofs`.** `ImplementsPreflight` says that the server with manual
  actions is still a `LivePreflight`; so its theorems hold of the composition.
  `Audited` and `QuietKeys` rest on the row a request has once its INSERT is behind it.
  `AcceptedKeepRisk` adds two invariants: no answer accepts JSON true, and with 0003
  applied every row of the log satisfies its CHECK (`LogIsSafe`), the rows before it
  as well. It puts the row of an answer and the CHECK together.

Every safety property of the passing runs is stated by one of these theorems. Only
model-checked are the two liveness properties `EveryJobEnds` and
`SteadyRegimeReturned`, because fairness and ENABLED are out of the prover's reach:
that a flip is counted at all, and that a cooldown runs down, is what TLC adds to
`HeldBack`; and that a thread gets to its end is what it adds to `EndedIsFinal`. The
four findings of section 7 are counterexamples of TLC.

## 6. Not modelled

The order states after submission, reconciliation and the protection watchdog:
pure functions that no route or job calls, so there is no handler to model them in.
Strategies, orchestrator, paper pipeline and demo state: functions of one snapshot
without state between calls. ML, LLM news risk, backtest and reports: offline or
floating point; their verdicts enter as inputs. Configuration and authentication:
predicates in front of every handler. Read routes and the frontend: projections;
what a read route does to the server is in `LivePreflight` (`Panel`, `Look`).
`PROJECT.json` has the reasons part by part. Within modelled parts: wording of
answers, hashes and identifiers (equality is what counts), NaN and malformed
numbers, the demo branch of `risk/approve`, `run_paper_once`, optional absolute
exposure caps nobody configures, the connection pool, payloads and signatures of
the adapter, the local smoke run of the preflight, and progress inside a SQL
transaction.

## 7. Where the code and its documents disagree

Each of these is a run with one property that TLC refutes.

* `uncertain_unmarked`: the trigger of migration 0003 refuses the update
  to `ERROR_RECONCILIATION_REQUIRED` that the runbook promises for an uncertain
  order; the row stays `APPROVED`, no incident is opened and the gate stays open.
  Repairing the trigger alone would free the symbol, since the partial index of
  pending entries omits that state: `live_submit_0001` shows this schema, on
  which `OneEntryPerSymbol` does not hold.
* `one_position`: `max_risk_positions: 1` is read by no code, and the snapshot
  sees filled positions only. Two approvals on different symbols before the first
  fill open two positions; the leverage cap "of the whole portfolio" is passed by
  the same route.
* `daily_cap`: the live snapshot never carries realised losses, so the daily and
  weekly caps compare with zero.
* `go_without_ci`: the panel records GO/NO-GO without CI evidence when the testnet
  preflight was started from the command route. The theorem `CiBeforeGo` says
  that this route is the only way around it.

Remarks the models led to, without a run:

* No code releases a symbol lock (`release_symbol`) or resolves an incident; a
  refused reservation keeps its symbol locked until the process restarts. It fails
  closed.
* With a fine quantity step every candidate is rejected: sizing spends the budget
  on the stop distance alone and costs fit only into the rounding
  (`CostsComeOutOfRounding`).
* `totalAvailableBalance` of exactly zero is read as the whole equity
  (`Available`).
* The payload sent to the exchange carries no stop loss, so a filled entry is
  unprotected until somebody protects it.
* A paper period recorded as FAIL without dates by the command line takes away the
  panel's start button, and its pass button never comes
  (`operator_workflow.py:107`). The run `workflow` reaches such states;
  `OnlyCommandLineStrandsPanel` says that the buttons alone never lead there.
* A later, shorter pass shuts a gate that was open, because the gate measures only
  the pass that ended last: one of the command line, or one of the panel for a period
  the command line opened with an end still ahead, since the panel measures the
  claimed end and records today's (`operator_workflow.py:373`). The run `workflow`
  reaches both; `OnlyShortPassLosesEvidence` says that there is no third way.
* The live gate takes any PASS row of a type while the panel takes the newest row.
* `/commands` answers a reused key with the earlier job even for another command;
  jobs started by the workflow's buttons write no audit row.
* `update_order_submitted` is refused when the decision has expired during the
  call: the exchange holds an order whose row says `APPROVED`, and no incident is
  opened. The properties see that it is not sent again and keeps its symbol; none
  asks for the incident. A process that dies between `mark_order_error` and
  `create_incident` leaves no incident either: `UncertainIsReported` is about the 502
  that is given after both.
* The routes make a new classifier for every request (`signals.py:23`,
  `pipeline.py:16`), so the hysteresis and cooldown of
  `docs/TRACEABILITY_MATRIX.md:25` have no effect there.
* A bootstrap that stops after migration 0001 leaves a schema that counts as ready,
  since readiness looks for tables (`availability.py:8-10`), without the
  constraints of 0003.
* The panel's 14 days are a literal, the gate reads `CAS_MIN_PAPER_DAYS`. With a
  larger setting the panel turns green after 14 days, offers no longer period, and
  the gate stays shut.
* `execution.py:74` and `risk.py:83` build the adapter with the default window,
  lifetime and margin; the settings for them reach the preflight only.
* Every request has its own bucket, so the burst holds per request and nothing
  bounds the process. A preflight over a universe of six symbols or more, which
  later phases allow, may need more calls than the burst of 10; whether it passes then
  depends on how slow the calls are.
* With the defaults and a clock that is not corrected a time request may take
  2498 ms before its offset can put a timestamp outside the window, while httpx
  waits 10 s; a refused timestamp (10002) does not resynchronise. A server time in
  whole seconds loses up to another second.
* The job `preflight_live` sets `BYBIT_TESTNET=false` for its child: it can be green
  for settings the server does not run with.
* With the Go/No-Go requirement switched off the preflight reports the evidence as
  verified, and the paper step of the dashboard is green without any
  (`operator.py:227-281`).
* `DISABLE_TRADING` is described as switching off new entries (`operator.py:48`);
  the handler only writes an audit row, and the gate reads nothing it changes. The
  same holds for `CANCEL_OPEN_ENTRIES` and `RESOLVE_INCIDENT`.
* A manual action accepted without a repository leaves no row. A reused key answers
  with the first action, whatever the second asks for. A row that was committed
  before its statement raised, or before a crash, is written again by the retry.
* A `risk_increase` given as the text "true" passes the handler and is refused by the
  CHECK of 0003: a 500, and no row, neither under the action nor under the marker. The
  comment at `actions.py:56-60` says that the marker prevents the 500 and keeps the
  attempt; it does for what the handler refuses itself. On a database with 0001 alone
  the same request is logged as accepted, and from then on 0003 cannot be applied, its
  trigger on orders included, because `ADD CONSTRAINT` refuses the row.

## 8. Plan

Built in this order: live submission with its abstract specification and proofs,
regime, jobs and workflow, risk approval, then the adapter, the preflight with the
manual actions, and the proofs about them; last the entries of `EntryRisk`, and the
action properties of rows, jobs and evidence. What is left:

1. Put `EntryRisk` and `LiveSubmit` on one order table, so that the steps of a live
   submission take the place of `Reserve` and `Send`.
2. An abstract job table, started and ended once for a key, implemented by
   `OperatorJobs` and by the workflow around it.
3. The order states, reconciliation and the watchdog, once a route calls them: the
   transitions of `state_machine.py` against those the trigger lets through, and an
   active position that is never unprotected.
4. The connection pool that `_install_database` replaces under requests of several
   steps.
