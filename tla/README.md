# A TLA+ model of PennyPrompt

PennyPrompt is a proxy between coding agents and LLM providers. It estimates the cost of each
request, reserves it on the budgets that apply, forwards the request, and settles the
reservation to what the provider reports. A detector watches for loops and may pause a session.
This directory holds TLA+ modules for the parts where order, concurrency, failure and rounding
matter, TLC configurations that check them on small instances, and TLAPS proofs.

Paths below are relative to `src/`. A line such as proxy:1446 means
`crates/penny-proxy/src/lib.rs`, line 1446; likewise ledger, budget, detect, store, admin,
providers, cost, types, config, observe, and cli for `crates/penny-cli/src/main.rs`.
`PROJECT.json` maps every definition to the lines it models.

## 1. Inventory

| part | state | operations | talks to | what is hard | what makes it correct |
|---|---|---|---|---|---|
| penny-ledger | table `cost_ledger`, append only | `reserve`, `reserve_allow_over_limit`, `reconcile`, `release`, each one `BEGIN IMMEDIATE` transaction (ledger:372) | SQLite through one pooled connection per process | several budgets per call, repeated and conflicting calls, another process on the same file, checked arithmetic that fails in mid-loop | totals chain; a request is charged once, on all budgets or none; no reservation above a hard limit |
| penny-budget | none (limits are in `budgets`) | `evaluate`: lookup, reserve, soft-limit check | store, ledger | the limits are read before the reservation; a query fails after it | guard mode fails closed; a grant is within the limits that were read |
| penny-proxy | per request: local variables of a handler or of a stream's task; permits of the concurrency limit; detection tasks | queue, attribution, pause check, admission, dispatch, stream, reconcile or release, bookkeeping, feeding the detector, seeding of budgets | all the others | every await is a point where other requests run, the client leaves or the process dies; streams outlive their handler; writes without a transaction | what is sent is held, what is billed is charged, no hold is left behind, everybody is answered |
| penny-providers | opened streams waiting in a map (providers:72); a task and a channel per stream | `send`, `take_stream_receiver`, translation between the two formats | provider over HTTP, proxy | bodies cut anywhere; bounded channels in a row; time to live and capacity of the map; two formats of usage | lines come in order and once; complete answers are charged what is reported; streams end |
| penny-detect | windows of digests, pauses, active alerts, recorded events, behind one RwLock | `feed`, `resume_session`, `status`, `recorded_events` | fed by the proxy's tasks, resumed by the admin plane | digests arrive out of order; pruning by age and eviction by count take entries of four maps | alert and pause agree; alerts are current; memory is bounded; a pause lasts |
| penny-store | tables of projects, sessions, requests, usage, budgets, events, prices | repositories of single statements; import of prices in a transaction | SQLite | find-or-create and update-or-insert in two statements; `last_insert_rowid` of a shared connection | one active session per project, one row per budget, answers about one's own row |
| penny-admin | a detector of its own, the database, a Unix socket | `detect resume`, budget edits, reports, estimates, health, event stream | operators (cli over HTTP), store, detector | it runs beside the data plane; its answers take two queries; a cursor over a table that grows | an operator's command reaches what it is about; estimates and reports are true of what was read; no event is skipped |
| penny-cli | pid file, its lock, address and socket of the daemon; the configuration file | `serve`, `--daemon`/`--status`/`--stop`, `init`, `budget set/reset`, `prices update`, `estimate`, reports, `tail`, `doctor`, launch plans | all | start, stop and crash race on the pid file; several processes on one file and one database; any command may be killed | one daemon; answers that are true; a server enforces what was configured |
| penny-config | none | layers, merging, environment, validation | files | three layers with required, optional and listed settings | every setting is that of the topmost layer that states it |
| penny-cost | none (prices are in `pricebook_entries`) | import of pricebooks, price lookup, cost, estimate, proration (cost:294) | prices table | rounding and the width of i64; rows that overlap in time; an update that fails half way | close to exact arithmetic; prices change by whole versions |
| penny-types | none | `Money` as i64 micros, checked operations, conversion from dollars | | width | errors instead of wrap-around |
| penny-observe | none | redaction and set-up of logs | | a filter that does not parse ends the process | none beyond that |

How they interact: the proxy's handler calls attribution (store), the detector's pause check,
the admission check (budget, which calls store and ledger), the provider, the ledger again and
the bookkeeping (store), each behind an await; a task spawned after the answer feeds the
detector. A streamed answer moves the second half into a task of its own (proxy:1636), which is
fed by a task of the adapter through a channel. The admin plane and the command line write the
same database and, for pauses, talk to a detector. Commands and daemons meet at the pid file,
at the socket and at the configuration file.

`PROJECT.json` lists the hazards of each part at the line where they bite, with the properties
that cover them, or why none does.

## 2. Modules

| module | models | checked by | proved in |
|---|---|---|---|
| `LedgerTable` | the `cost_ledger` table and its queries, as operators on a sequence of rows | through the next two | `CostLedgerProofs` (lemmas) |
| `CostLedger` | penny-ledger: one action per call | `ledger`, `ledger_promise` | `CostLedgerProofs` |
| `BudgetHolds` | abstract: requests hold one charge, settled or returned once | refined by `CostLedger` in `ledger_promise` | `CostLedgerProofs` |
| `RequestPipeline` | a request from arrival to its last write: proxy, budget, ledger, store; operators, clients, crashes | `pipeline_guard`, `pipeline_live` | `RequestPipelineProofs` |
| `StreamRelay` | a streamed answer: the adapter's task and map, the proxy's task, the client | `relay` | `StreamRelayProofs` |
| `DetectEngine` | penny-detect | `detector` | `DetectEngineProofs` |
| `ServePlanes` | one `serve` process: requests in flight around the data plane's detector, the admin plane's detector, a clock, restarts | `planes`, `resume_finds` | `DetectEngineProofs` |
| `StoreStatements` | the statements of penny-store's callers, one by one, of several tasks on one database | `store` | `StoreStatementsProofs` |
| `ServeDaemon` | `serve --daemon`, `--status`, `--stop` and the daemons, down to files and signals | `daemon` | `ServeDaemonProofs` |
| `Configuration` | penny-config, as operators on layers; the log filter; what a server takes of a configuration | through `OperatorSetup` | `OperatorSetupProofs` |
| `UsageReports` | the usage of whole answers, from the provider's report to four billed counts | through `OperatorSetup` | `OperatorSetupProofs` |
| `Pricing` | penny-cost: price lookup, costs, estimates, as operators | through `OperatorSetup` | `OperatorSetupProofs` |
| `OperatorSetup` | commands and a server on one configuration file and two databases: `init`, `budget set` and `reset`, posted budgets, `prices update`, the start of a server | `setup`, `prices` | `OperatorSetupProofs` |
| `FiniteSums` | sums over finite sets: the lemmas that `CostLedgerProofs`, `StoreStatementsProofs` and `OperatorSetupProofs` cite | | itself |

`RequestPipeline` takes its ledger steps from `CostLedger` (INSTANCE), so a change of the ledger
is a change of the pipeline. `ServePlanes` extends `DetectEngine`, whose state is that of the
data plane, and instantiates it once more for the admin plane. `OperatorSetup`
extends `Pricing`, which extends `Configuration` and `UsageReports`.
Each `MC*` module gives the constants of a module small values. The operators marked "Mutant" are
faulty variants of the definition that follows them, of the kind a slip in the code would make;
each property of a passing run is violated when one of them is put in place
(`PROJECT.json`, "mutants").

### LedgerTable and CostLedger

`rows` is the table; the autoincrement id of a row is its position. `reply` is what the last
call returned: the type of the rows it names, `denied` (a hard limit) or `error`, and their ids.
`ReserveInternal`, `Reconcile` and `Release` follow ledger:62-273 with every early return: invalid
arguments, an empty list of budgets, the answer of a repeated call from the rows of the first, a
repeated call with other arguments, reconcile after release and the reverse. The loop over the
budgets stops at the first that overflows or exceeds, and that decides between `error` and
`denied`. `StorageError` is any statement that fails: the transaction rolls back.
Money is an integer with the checked range `-MaxMoney-1 .. MaxMoney`; `Modes` says whether the
callers enforce limits (`reserve`) or not (`reserve_allow_over_limit`). The callers are arbitrary:
every call may come at any time and be repeated.

`BudgetHolds` knows no rows. A request goes from `none` to `held` on a set of budgets, then to
`settled` at its actual cost or to `returned`, and the accumulated charge of each budget follows.
The refinement mapping (`phaseBar`, `scopeBar`, `chargeBar`, `spentBar`) reads these off the rows.

### RequestPipeline

`job[r]` holds the local variables of the handler of request `r`, or of its stream's task: where
it stands (`at`, the name of its next await), what its client was told (`told`), the limits the
lookup saw (`seen`), the estimate, `reserve_persisted` (`kept`), what the provider billed, what
the request was priced at, what the bookkeeping wrote, and `slips`, a history of what failed on
the way. One action per await, in the order of `process_normalized_request` (proxy:468-719),
`evaluate_budget_before_dispatch` (proxy:1398) with `BudgetEvaluator::evaluate` (budget:32), and the
stream's task (proxy:1626). Each database call may fail where `Faults` says so. A failure in
guard mode ends the request with a 402; in observe mode the request goes on
(`Failsafe`, budget:334). Further actions: the operator sets or resets a budget
between any two steps (`SetBudget`, `ResetBudget`), the client leaves and the handler's future is
dropped (`Disconnect`), the process dies and starts again (`Crash`). A deleted budget that was
looked up before makes the reservation fail, because `cost_ledger` has a foreign key on it.

### StreamRelay

`handler[s]` is where the handler of a stream is, which opens it, takes its channel and goes on as the
proxy's task. `stream[s]` holds the local variables of the two tasks: `pos` and `buffer` of the adapter's task, the lines it has still to send (`out`), the channel, the lines
the proxy's task has seen, and the client's unread lines. `ReceiveChunk` takes any number of
symbols of the body, so a cut falls anywhere, also inside a separator. `TakeEvent` is a turn of the loop of
`drain_sse_events` (providers:1094): it takes what is before the first separator (`Before`) out of the buffer
and leaves what is behind it (`Behind`). The code drains all complete events before it sends the lines of the first; the
buffer is the task's own, so nobody sees the difference, and no chunk is received and no body ends while an event is left to take.
`Emit` has the inner loops of the two producers, `Translate` the
state machine that turns Anthropic's events into OpenAI's chunks. `SendLine` waits for room in the
channel or finds the receiver gone, and the task ends with the last line. The map of opened streams is a function to their ages, pruned by age
and by capacity at each `Open` and by age at each `Take` (providers:72-100). `RelayLine` and `RelayEnds` are
`stream_passthrough_response` (proxy:1626) up to the usage the stream is settled to (`Usage`);
pricing and settling are in `RequestPipeline`. `BodyEnds` is the end of the body, its breaking
off, or the timeout of the adapter's client, at any byte. The mock provider's lines are ready when
the handler asks.

Each worker thread runs the handler from `insert_stream` to `take_stream_receiver` without an
await, so at most `Threads` streams stand between the two. This, and that a thread is not held
up there for longer than the time to live, is `PendingAssumption`, on which `OpenedIsFound` rests.

`AnswersAssumption` is what the providers' protocols say of a body: nothing follows an event that is cut off,
and in Anthropic's form a `message_delta` with a count comes after a `message_start`, with no second start behind
it. That order is needed only for what a stream is charged: for an Anthropic client the proxy takes the last count, which is then
the provider's final one. Everything else of a body is free: empty, ended anywhere, two starts, events
after the last, events that neither side knows.

### DetectEngine and ServePlanes

`windows`, `paused`, `alerts`, `events` are the fields of `DetectorState` (detect:98). `Feed` is the
whole of detect:137-264: it prunes the sessions that are older than the retention at the
digest's own timestamp, appends and trims the window, raises alerts in their order, replaces the
active alert, pauses, caps the number of sessions (a tie leaves the choice open), and
records events. `Resume` is detect:277-304. A digest is reduced to what the rules tell apart:
content, tool, whether the tool failed, cost, arrival time. Timestamps are arbitrary per digest in `DetectEngine`.
In `ServePlanes` they are the arrival times of requests, at most `MaxLag` old.

`ServePlanes` has the check of the pause when a request is accepted and the feed when its task
runs; in between other requests come, the pause may begin or end, and the clock moves. Its admin
plane has a second `DetectEngine`, as `run_serve_with_shutdown` wires it (cli:1812-1819).

### StoreStatements

Every SQL statement outside a transaction is a step. A task runs one program: a request's
attribution and bookkeeping (proxy:1260-1330, `persist_request_and_usage`), the upsert of a list of budgets (a command, the
admin API, or the seeding of a start), `budget reset`, a reservation (one step: `CostLedger` has
the rest), an estimate, an event, a report, the dashboard, or the event stream of the admin plane.
`lastRow` is SQLite's `last_insert_rowid` per connection: handlers share the server's one pooled
connection, a command line has its own. `raced` is a history variable: the projects and budget keys for
which two tasks both found nothing, or whose row an update by id moved. The properties
say that duplicates come from there and from nowhere else. A feed that is asked for events after a negative id
starts with the first event.

### ServeDaemon

`path` is the inode at the path of the pid file, `content` and `lock` are per inode, as a
file keeps its flock after its path is removed. A daemon opens, locks, truncates and writes the
pid file (cli:1637), builds its state, binds the address, unlinks and binds the socket
(admin:428), installs its handlers, serves, drains and cleans up (cli:1783-1900); each of these is a step, any of them may be
the last (`Crash`), and the binds, the unlink and the handlers come in any order. The lock, the
truncation and the writing of the pid file (cli:1983, 1992, 2004) are three steps. A command
reads, discards, probes, removes, spawns, waits with a deadline and signals, one system call at a
time, and may be killed before any of them (`Kill`), which gives back the lock of a probe. Reading a pid file while it is
truncated, and the lock that a probe holds for a moment, are there.

A daemon is in a session of its own (`setsid`), so it outlives a killed `serve --daemon`. Until it has written
its pid no command can find it (`Unnamed`). `raced` is a history variable: a command was started in that while.

### Configuration, UsageReports, Pricing, OperatorSetup

A layer is what a file or the environment states: some keys of some sections and perhaps a list
of budgets. `Merge` is `merge_from`, `Missing` and `Valid` are the checks of `load_config`.
An amount is in tenths of a micro-dollar, so that the rounding of `from_usd` is there.

`UsageOf` is the path of an answer's usage: the adapter's translation, the mock provider,
the two parsers of the proxy and the fallback to the estimate. `Prorate` rounds half away from
zero at the width of Money, `Calculate` adds four parts, `GetPrice` picks the row in force by its
start and its id, `EstimateRange` and `AskedFor` are the estimate of a single pass, several rounds, or
an agent's task.

In `OperatorSetup` each process reads the file when it opens its store, and `serve` and `prices
update` read it once more. A server takes its database from the first reading (`opened`, `db`), or from its command line, and all
else from the second (`read`), except the two addresses where its command line has options for them (`OrElse`, cli:1805-1811).
It then upserts the budgets of the file one by one. An upsert is a SELECT (`FindBudget`) and an INSERT or UPDATE
(`PutBudget`), after an UPDATE where a posted budget has an id (`UpdateById`), so `budget set`, `budget reset` and
`post_budgets` of the admin plane come between. `StoreStatements` asks of these statements which rows they duplicate;
here the question is what they leave of the configuration of a server. `touched` is a history variable: the keys of
the rows that operators changed, each forgotten when the server looks for a budget of that key.

`init` truncates the file and then writes it; an update validates, registers providers and models one at a time, then
imports all entries in one transaction (cost:371, cli:1037). A process may end at every step (`Ends`), and
an operator may leave anything in the file (`EditFile`), also what does not parse.

## 3. Runs

Symmetry is used only in runs of safety properties, over sets whose members the constants do not tell apart.

| run | instance | what it shows |
|---|---|---|
| `ledger` | guard processes only; 3 requests and a blank id; a limit of 3 and an unlimited budget; lists `<<>>`, `<<b1>>`, `<<b2,b1>>`; costs -1, 1, 3; `MaxMoney` 5 | `TypeOK`, `TotalsChain`, `SettledWhole`, `ReservesWithinLimit`, `OverspendIsOverrun`, `NeverNegative`, `AnswerMatchesTable` |
| `ledger_promise` | guard and observe processes on one file; 2 requests and a blank id | `ImplementsHolds`: every call is a step of `BudgetHolds` or a stutter; `TotalsAreCharges` |
| `pipeline_guard` | guard; 2 requests on both budgets; every fault, disconnects, crashes; costs 1 and 3; one edit of a budget at any time | `FailClosed`, `NoStrandedHold`, `BilledIsCharged`, `RefusedIsFree`, `UsageMatchesCharge`, `GrantsWithinSeen` |
| `pipeline_live` | guard and observe; an empty or a filled budgets table; 1 permit for 2 requests; disconnects, crashes, every failure of the admission check up to the reservation; fairness | `Concludes`, `HoldsConclude` |
| `detector` | 3 sessions, room for 2; threshold 1 or 2; times 0..2; windows of up to one digest above the threshold; 2 recorded events | `LoopAlertMeansPaused`, `AlertsCurrent`, `ResumesAlternate`, `MemoryBounded` |
| `planes` | 2 requests, 2 sessions, 2 kinds of content; retention 2, lag 1, clock 0..3, 1 restart | `PausesLast` |
| `store` | 3 tasks, each with any of 20 programs on 3 paths (two with one slug) and 2 budget keys; session window 1, clock 0..2 | `OneSessionPerWindow`, `RefusedOnlyOnSlug`, `OneRowPerBudget`, `AnswersOwnRow`, `TotalsCoverPage`, `FeedComplete`, `EstimateForetells` |
| `relay` | 2 streams on 2 threads, map of 2; 6 bodies by 4 paths, and the mock; cuts at any symbol; channel of 2, client's buffer of 1 | `RelayedInOrder`, `CompleteIsCharged`, `OpenedIsFound`, `StreamsSettle` |
| `daemon` | 1 command at a time, killed anywhere, 2 daemons; crashes, failing builds, clients that stay attached; fairness of the daemons | `OneDaemon`, `AdminReachable`, `RepliesTrue`, `ToldEnds` |
| `setup` | 1 command line or admin handler and a server, 3 processes started, 4 edits, 4 environments, 2 command lines of `serve`, ids 0..2, 2 databases; no pricebooks | `ServedAsConfigured` |
| `prices` | 1 command line and a server, 3 processes started, 2 edits (one does not parse), 2 versions of the pricebooks, clock 0..1; no budget commands | `CostWithinRounding`, `UpdateIsWhole` |
| `resume_finds` | see Findings | the code against a sentence of the documentation |

Why the bounds are enough:

- `ledger`: two requests are needed to compete for one limit, the third makes the totals of the
  first two its history. The two lists overlap in the limited budget and name the unlimited one
  first, so a denial comes after the check of a first budget. Costs of 3 reach the limit exactly;
  two of them on the unlimited budget exceed `MaxMoney` = 5, so the overflow happens. Each
  request has at most four rows, so the state space is finite without a further bound.
- `ledger_promise`: observe processes may pass the limit, so both modes are mixed. The action
  property of the refinement needs no symmetry.
- `pipeline_*`: two requests interleave at every await; a third only adds to the number of
  competitors, which the `ledger` run has. `MaxMoney` = 20 is never reached here, on purpose: overflow is the
  ledger's own question. `MaxEdits` = 1 suffices to put an edit between a lookup and a
  reservation; a second could only replace what the first did before it is read. `GrantsWithinSeen` speaks of
  guard processes, which is why it is checked there; `pipeline_live` has the observe ones and the empty table too.
  An edit to 4 raises the limit of 3 and limits the budget that had none.
- `detector`: with 3 sessions and room for 2 an eviction may take the session just fed;
  and with a threshold of 1 that session is paused by the same feed, the one way to a pause without a
  window; with a threshold of 2 an alert can be followed by a digest without one.
  `Window` = `Retention` = 1 and times up to 2 let entries expire in either order; 2 recorded
  events overflow with the first alert that pauses. `MaxAbove` only cuts feeds of a window that is
  already above the threshold.
- `planes`: a lag of 1 lets a digest that arrived before a pause be fed after it; without
  the term `MaxLag` in `PausesLast` TLC finds a counterexample, so that case happens. `MaxNow` = 3
  passes retention plus lag from the first pause. The view leaves out `heard`, which
  no action and no property of that run reads.
- `store`: the races are between the two statements of two tasks; the third task is the
  bystander whose insert, delete or update by id comes between. A clock of 2 with a window
  of 1 has sessions that are active, at the very edge of the window, and expired.
- `relay`: a channel of 2 and a client's buffer of 1 fill up with the longer bodies, so both
  waits happen. The six bodies have both separators (and both in one body), two starts, events after
  the last, a cut before the end, an ANSI sequence and an empty event. The second stream has an
  empty body and only competes for the map, whose time to live (1) an entry reaches but, by the
  assumption, does not pass; with room for one stream less TLC finds `OpenedIsFound` violated.
- `daemon`: the two daemons are one that crashed, fails to bind, is told to end or drains, and another that is
  started beside it or after it; what a third adds is left to the proofs, which hold for any number.
  Commands run one at a time: see Findings.
  A start needs a pid that was not used; when none is left, the other commands still go on, so
  deadlock is checked. The case that `raced` excepts happens: without the exception TLC finds each of the
  three safety properties violated. Symmetry would not be sound for `ToldEnds`, and is not used.
- `setup`: three processes are a server's start that ends half way, a command beside it and a
  second start; or a start with two commands beside it, one after the other. A post may name no row, the one that the server is seeding,
  another one or one that is not there. The file may name the other database before or between the readings of a
  server. Amounts are small (`MaxMoney` 120, tenths of a micro for dollars) so that limits round up, round down and overflow.
- `prices`: three processes are an update, a second one after a first that ended half way, and a server. With
  `Mtok` 10 costs round, fall on a half and overflow. `MaxRows` only keeps a fourth update out. Two updates at the
  same time are not in the run, as it has one command line: `UpdatesAreWhole` covers them.

`CHECK_DEADLOCK FALSE` is set where the system really stops: all requests over (the pipeline), all
tasks or streams at their end (`store`, `relay`), or the clock at its bound (`ServePlanes`).

### What the properties say

- `NoStrandedHold` names every way in which a request that is over leaves a reservation behind
  without a crash or a disconnect. There are four: the soft-limit query fails after the
  reservation (guard mode refuses the request and nobody releases it), the confirming
  SELECT fails, the release fails, the reconcile fails. Nothing in the code looks for such
  reservations later: they stay in the totals of their budgets.
- `HoldsConclude` is its liveness: as long as the database answers, only a crash or a disconnect
  leaves a hold for ever.
- `BilledIsCharged` and `UsageMatchesCharge` relate the provider's bill, the ledger and the usage
  table, which are written one after the other without a common transaction. They may disagree for a stream
  whose reconcile failed: its task goes on and writes the usage.
- `OverspendIsOverrun` is the precise form of "concurrent requests cannot break the limit"
  (README.md:97, README.md:130): the excess of a budget that was charged is at most what its requests cost above their estimates. (One that
  was not has a total of 0, and its limit may be negative: the admin API accepts that.)
- `AlertsCurrent`, `LoopAlertMeansPaused` and `MemoryBounded` relate maps that are pruned by two
  criteria; the one exception of `MemoryBounded`, a pause without a window, is the session
  evicted by its own feed (detect:413).
- `PausesLast` says how long a pause holds: the retention, less the lag of a late digest.
- `OneSessionPerWindow` and `OneRowPerBudget` say that the two-statement repositories duplicate
  a row only in the race that the code leaves open.
- `EstimateForetells` makes the admin plane's estimate and the ledger's decision one rule, over the
  states in which nothing has changed between the two.
- `RelayedInOrder` and `CompleteIsCharged` compare the two tasks with a reader of the
  whole body: whatever the cuts, the lines are the same, and a stream whose last line was seen is
  charged what the whole body reports.
- `RepliesTrue` is about the step in which a command gets its answer: what the answer says holds then.
  It, `OneDaemon` and `AdminReachable` have one exception: a command was started while the child of a killed
  `serve --daemon` had not written its pid yet (`raced`). From then on they promise nothing.
- `AnswersOwnRow` is about command lines, whose connection is their own. On the connection that the handlers of a server
  share it does not hold, see Findings.
- `ServedAsConfigured` is the end of a chain of steps: layers, options of the command line, two readings, conversion from
  floating-point dollars, seeding in two statements per budget, after starts that were cut short. Its settings are
  those of the file as it was read the second time; its database is the one that the file named the
  first time. A configured budget is in the table unless an operator has set, reset or posted one of its key since the
  server looked for it.
- `CostWithinRounding` computes costs from the provider's report, without the code's classes of
  tokens and without rounding, and bounds the difference.

## 4. Fairness

`pipeline_live` assumes, and the code justifies:

- WF of `Step(r)`: tokio polls every task whose await is ready, and SQLite answers or fails.
- SF of `Admit(r)`: the semaphore of `GlobalConcurrencyLimitLayer` is tokio's, which queues waiters
  first in, first out. Weak fairness would not do, as the permit is taken and given back meanwhile.
- WF of `Elapse(r)`: `upstream_timeout` bounds the wait for an answer (proxy:516). WF of
  `StreamBreaks(r)`: reqwest's client timeout bounds a response including its body, and the client
  reads on or leaves; `StreamRelay` has the detail.

Nothing is assumed of providers (`Answered`, `Rejected`, `StreamStarts`, `StreamEnds`) or clients
(`Arrive`, `Disconnect`).

`relay`: tokio runs the two tasks of a stream; `BodyEnds` comes by the adapter client's timeout
at the latest; a client reads or leaves. Nothing is assumed of the body (`ReceiveChunk`).

`daemon`: a daemon's steps are scheduled (WF of `Daemon(d)`), and clients of a draining daemon
go some day (WF of `Detach(d)`); without the second, a `tail` that stays attached keeps the shutdown
waiting for ever. Nothing is assumed of commands, which may be killed.

## 5. Proofs

`CostLedgerProofs` proves, for every set of requests and budgets, all lists of distinct budgets,
every limit, cost and width of Money:

| theorem | statement |
|---|---|
| `Invariance` | `Spec => []IInv` |
| `TypeCorrect` | `Spec => []TypeOK` |
| `ChainCorrect` | `Spec => []TotalsChain` |
| `SettlementCorrect` | `Spec => []SettledWhole` |
| `LimitCorrect` | `Spec => []ReservesWithinLimit` |
| `AnswerCorrect` | `Spec => []AnswerMatchesTable` |

The assumptions are those of `CostLedger`: `MoneyAssumption` (the width is a natural number, `NoLimit`
is not an integer), `LimitAssumption` (a limit per budget), `ListAssumption` (a caller's list
has no budget twice: `list_applicable_for_request` returns distinct rows) and `CostAssumption`
(a cost is a Money value, so within its width). TLC evaluates them in the `ledger` runs.

The inductive invariant `IInv` is that the reply is typed and tells what the rows tell (`ReplyOf`), and
`TableInv(rows)`, a conjunction of

- the type of the rows;
- `HasLatest`: a budget that has rows has a last one. `LatestTotal` is defined by the maximum of a
  set of ids; a maximum exists because the set is finite, which would take an induction at each use.
  Each commit exhibits the new last row instead;
- `Carries` for each row: its total is that of the previous row of its budget plus its amount;
- `WholeParts` for each request: `Whole` in the parts that a commit disturbs one by one;
- `LimitKept`: with enforcing callers only, no reserve row is above its limit.

The argument: every call leaves the table as it is, or appends the rows of one commit
(`NextChanges`: `ReserveStep` or `SettleStep`). `PostsIds` says which queries a commit
changes; from it follow `PostsLatest`, `PostsCarry`, and `WholeOther`, `WholeReserve`, `WholeSettle` for the
request that calls and for the others. `SettledWhole` needs the whole of `WholeParts`:
that a settlement covers all reserved budgets follows only if no budget was reserved twice, and
that its amounts are equal only if those of the reserve were.

It also proves `LedgerImplementsHolds`: `Spec => ImplementsHolds`, the refinement, from the
same assumptions and the same invariant. `Moves(t, u, r, S, next, c)` says that between two tables the
account of `r` alone moves. `ReserveMoves` and `SettleMoves` show it of the two commits,
`MovesRecharge` turns it into a step of `BudgetHolds`, and `StepHolds` covers `Next` and stuttering.
With the account of every request known, the sums follow:

| theorem | statement |
|---|---|
| `AccountInvariance` | `Spec => []AccountInv` |
| `TotalsCorrect` | `Spec => []TotalsAreCharges` |
| `NeverBelowZero` | `Spec => []NeverNegative` |
| `OverspendBounded` | `Spec => []OverspendIsOverrun` |

`AccountInv` adds to `IInv` that finitely many requests have rows of a budget, that its last total is the sum
of what it is charged for them (`Accounted`), and that no total is negative. `OverrunBounds` is the bound on the
overspending together with the finiteness of the rows summed. A commit either misses a budget, and
nothing of it changes, or adds one row to it, and both sides move by the amount of that row.

`FiniteSums` has what these need of sums over finite sets: that a sum exists and has one value (`SumDef`: the
fold of the library, which is a CHOOSE of a function), that it is an integer, takes one more
element, and is bounded by the sum over a larger set. Its inductions are over the subsets of a
finite set, by the smallest counterexample (`SubsetInduction`), as the library's induction theorems take an operator.

`DetectEngineProofs` proves, for any sessions and digests in any order of their timestamps, every
threshold, retention and size, from `ConfigAssumption` of `DetectEngine`:

| theorem | statement |
|---|---|
| `AlertsPaused` | `Spec => []LoopAlertMeansPaused` |
| `AlertsStayCurrent` | `Spec => []AlertsCurrent` |
| `ResumesFollowPauses` | `Spec => []ResumesAlternate` |
| `MemoryIsBounded` | `Spec => []MemoryBounded` |

Its inductive invariant adds to the properties: `Agree`, that the pause and the loop alert of a session are of
the same age, so that pruning takes both or neither; `Sized`, that at most one session has a pause or an alert without a window;
and `Logged`, that every paused session was paused after its last resume in the log, which is what a
further resume needs, also after the log dropped its oldest entries.

The module proves of the planes, from the same assumption and `LagAssumption` (the lag is a natural number):

| theorem | statement |
|---|---|
| `PausesOutlastDigests` | `PlanesSpec => PausesLast` |
| `DataPlaneDetects` | `PlanesSpec => [](LoopAlertMeansPaused /\ AlertsCurrent /\ ResumesAlternate /\ MemoryBounded)` |

The second composes: the data plane feeds its detector with digests of requests in flight, and a restart
begins with an unused one (`Unused`), so what the detector promises alone it promises in a process.

`PausesLast` is about processes with room for all their sessions. There nothing is evicted (`RoomKeeps`), so a paused
session keeps its window, and the invariant `PausesInv` is that the last digest of that window is at most `MaxLag`
older than the pause. The detector drops a pause when the pause, or that last digest, is older than the retention at the
time of the digest it is fed; `JobsInv` says that this time is not ahead of the clock, and the bound follows. The pause alone
does not say enough, since a late digest may set its window's last time back.

`OperatorSetupProofs` proves, for any commands, contents of files and environments, pricebooks, presets and
answers, every width of Money and every `Mtok` > 0:

| theorem | statement |
|---|---|
| `UpdatesAreWhole` | `Spec => UpdateIsWhole` |
| `ConfiguredIsServed` | `Spec => []ServedAsConfigured` |
| `BilledToRounding` | `Spec => []CostWithinRounding` |
| `ProrateRounds` | a prorated cost is a nearest whole number of micros to the exact one if Money has that number, and `Overflow` if it does not |
| `CostRounds` | a cost is within half a micro for each of its four parts, for rates of any sign |

The assumptions: a server is not a command (`ServerAssumption`), and its command line is one of `serve` (`ServeArgsAssumption`); a file states at most one list of budgets, with
limits that are amounts, absent or no numbers, and a database among those of the model (`FilesAssumption`); variables
are those that the program reads, and a command line names such a database too (`EnvironmentsAssumption`); pricebooks are lists (`BooksAssumption`) of rates that are
not negative, as in the embedded ones (`RatesAssumption`); reports have the fields of their provider, with counts that
are not negative, and OpenAI's cached tokens are among the prompt's (`AnswersAssumption`); the cap of estimated
tokens is a natural number, and the marks of an overflow and of a missing price are no integers (`CapAssumption`,
`MarksAssumption`). TLC evaluates them in `setup` and `prices`.

The invariant (`SetupHolds`) has three parts. `IInv`: an update that was validated stays valid while other updates
import (`UpdateValid`), and prices are of models that the catalog has (`PricesKnown`). `ServeInv`: a server has
opened the database that its first reading names (`Opened`); one that
seeds or serves has read a layer that loads and whose provider starts, and has the addresses of that or of its command line (`Loads`);
a first part of its list is in the table, where no later budget has the key, but for keys that operators touched since; and
between the two statements of an upsert the row that was found still has its key, or its old and its new key are both
touched (`Seeding`, `Sought`). `OperatorChanges` is the argument about other processes: what they write to the table they note. `PresetsNamed`: an `init` that
is about to write has a preset that there is, so the file stays one that the assumptions speak of.

From there `ServedAsConfigured` is a matter of the operators. `LoadedSetting` follows a setting through the three
merges (`MergedKey`, `EnvKey`). `LoadedBudgets` says which list is the one in force. `LimitRounds` and `RowRounds` bound
what the conversion to micros loses, and show that it keeps the order of the soft and the hard limit. For
`CostWithinRounding`, `PriceHolds` shows that `GetPrice` gives a price that holds, or that none does;
`BilledExactly` takes each form of report through `UsageOf` to its exact cost; `CostIs` adds the
roundings of the four parts, with the width (`RoundedPart`, `CappedAdds`, `SlackIs`); and `EstimateCovers` compares
the cost with the estimate that the budgets were asked for.

`RequestPipelineProofs` proves, for any requests, budgets, scopes, faults, both modes, any number of permits and
edits, from `AmountAssumption` (costs are integers, and not the -1 that stands for no cost yet), and for the last
one also `ScopeAssumption` and `LimitsAssumption` (limits are integers, absent, or none):

| theorem | statement |
|---|---|
| `SentIsHeld` | `Spec => []FailClosed` |
| `LeftoverIsFailure` | `Spec => []NoStrandedHold` |
| `BilledCharged` | `Spec => []BilledIsCharged` |
| `RefusedFree` | `Spec => []RefusedIsFree` |
| `UsageCharged` | `Spec => []UsageMatchesCharge` |
| `GrantsChecked` | `Spec => []GrantsWithinSeen` |

`Reserves`, `Settles` and `Answers` say what a call of the ledger does to the rows of its request: from no row of a
type to a row per budget, or nothing. They assume nothing of the ledger's constants, so they hold whatever
overflows or is refused. The inductive invariant `Inv` is a conjunction over requests of `JobInv`, which relates
where the handler stands, what it remembers and the rows of its request alone: no rows before
the reserve and no settlement before the answer (`Early`), rows on all the budgets found when guard mode goes on
(`Covered`), rows with the estimate and with the cost less the estimate (`Priced`), the confirmation or its failure
(`Confirmed`), the reconcile or its failure before the books (`Reconciled`, `Billed`), and which failures end a
request with its rows (`Refused`, `Stranded`). The properties are about the end of a request; each needs what was
remembered on the way, so none is inductive without the others. `TurnKeeps` is the argument about
interleavings: a step of one request adds no row of another (`Only`), so the invariant of the others stays. Each
action is then a `Turn` of its request, and a crash and the edits of budgets are the rest of `NextInv`.

`GrantsWithinSeen` takes a second invariant, `GrantInv`: running totals are integers, the limits a handler
remembers are limits, and a reserve row of a request that enforces is within what that request saw. The last part
needs that the handler does not look its limits up again after it reserved, which is where `Inv` has it stand.

`StoreStatementsProofs` proves, for any number of tasks and any programs, paths, keys and windows, from
`TaskAssumption` (a session that a client names is not one that a task is yet to make), `WindowAssumption` and
`ProgramAssumption` (costs, limits and windows are numbers):

| theorem | statement | invariant |
|---|---|---|
| `ControlInvariance` | `Spec => []Control` | the statements that each program consists of |
| `RefusedForSlug` | `Spec => []RefusedOnlyOnSlug` | `PathInv`: the row of a path stays, so a refused path never becomes that of its slug |
| `RowsUnique` | `Spec => []OneRowPerBudget` | `RowInv` |
| `OwnRowsTold` | `Spec => []AnswersOwnRow` | `ConnInv`: on a connection of its own, a task's last row is the one it wrote |
| `SessionsUnique` | `Spec => []OneSessionPerWindow` | `SessionInv` |
| `FeedInOrder` | `Spec => []FeedComplete` | `FeedInv`: a stream has delivered a run of ids without a gap from where it began |
| `EstimatesForetell` | `Spec => EstimateForetells` | `EstimateInv`: the status says what the listed limits and totals say |
| `TotalsCovered` | `Spec => []TotalsCoverPage` | `TotalsInv`: rows of usage only come, so a first query shows no more than a later one |

`RowInv` and `SessionInv` are of one form. A task between its SELECT and its INSERT found nothing. So
either nothing is there still (`FreeKeys`, `NoneYoung`) and no other task stands at the same place for
the same key (`Rivals`, `Makers`), or the key was raced for. An update by id that moves a row to another key is the one
step that disturbs the former without an INSERT, and it counts as a race.

`ServeDaemonProofs` proves, for any number of daemons in the life of the system, from `NamesAssumption` and
for one command at a time (`Singly`):

| theorem | statement |
|---|---|
| `FilesAgree` | `Singly => (Spec => []IInv)` |
| `OneDaemonRuns` | `Singly => (Spec => []OneDaemon)` |
| `AdminStays` | `Singly => (Spec => []AdminReachable)` |
| `RepliesAreTrue` | `Singly => (Spec => RepliesTrue)` |

The hypothesis is needed: with two commands TLC finds the invariants violated (see Findings). `IInv` says what it says
only until `raced`, with the properties; the step that sets it is a start of a command, and no step takes it back. The argument:
a daemon that owns the pid file has it at the path, has locked it, and is named in it (`Owners`); a lock is of
who has that file open (`Locks`), and a removed file never comes back to the path (`Inodes`), so there is one
owner. That this survives commands, which remove files they take for stale, is in `Starts` and `Readings`: a daemon
that has not written its pid yet is alone, all others being past the file, and its command waits for it or was killed;
a command comes to remove the file or to spawn a daemon only when all are past it; and
what a command read of the file still holds while it probes and when it replies. `Planes` ties the port and the socket to
where the daemons stand, so the daemon that binds the socket is the only one that may unlink it.

`StreamRelayProofs` proves, for any number of streams, threads and answers, bodies of any length, all sizes of the
channels and of the map, with and without the stripping of ANSI sequences, from `PendingAssumption` and `AnswersAssumption`:

| theorem | statement | invariant |
|---|---|---|
| `ChannelsFound` | `Spec => []OpenedIsFound` | `MapInv` |
| `SentInOrder` | `Spec => []RelayedInOrder` | `RelayInv` |
| `CompleteStreamsCharged` | `Spec => []CompleteIsCharged` | `RelayInv` |

`MapInv`: the map has exactly the streams that are opened and not taken, no more than there are threads, and none of them
older than a thread can be held up. So pruning takes nothing: what is there is fresh (`FreshKeeps`), and the map is never
too large (`SmallStays`).

`RelayInv` is `StreamOk` of every stream, a statement about bytes and lines on their way. There is a number k of events such
that the buffer is what was received of the body behind its first k events (`Taken`), and the lines at the client, in the channel
and at the producer are, in one sequence and cleaned, the lines that those k events become (`Sent`, `Waiting`). The last part holds until the
stream is settled, as the proxy's task may leave lines in the channel; that no receiver is dropped before needs `MapInv`.
The properties compare the client's lines with the whole body; they are not inductive, as they do
not know what is in the buffer, in the channel and at the producer. TLC found the invariant to hold in the states of the `relay` run
before it was proved. The steps of the argument:

- `FlattenSeq` is a recursive function of the library that is a CHOOSE, of which the proofs need one
  equation at a time. `FlattenExists` and `FlattenChosen` show that the function exists and that it is the chosen one;
  `CountUp` goes from n parts to n + 1 by the library's well-founded order of the naturals, without its induction theorems.
- The first separator in a buffer that starts at an event is the one of that event, whatever is behind it
  (`FirstDelimiter`), and there is none where a cut leaves half a separator (`NoDelimiter`); so `Before` and `Behind` take exactly one
  event (`NextEvent`).
- One lemma per action says which piece moves: `ReceiveOk` appends to the buffer, `TakeEventOk` raises k by one and puts the
  lines of that event behind the others, `SendOk` and `RelayOk` move one line on, `RestOk` may add the event that is cut off.
- The events taken determine the state of `Translate` (whether a role was sent, which count was the last), so
  what it makes of event k + 1 is the same as for a reader of the whole body (`EmitIs`, `RenderedIs`).
- For the charge: a terminal line is the last of the sequence (`TerminalIsLast`), so all lines were forwarded; the first, or the last, count
  among them is the provider's final one (`NativeCharged`, `TranslatedCharged`), which is where `AnswersAssumption` comes in.

Only model-checked is liveness (`Concludes`, `HoldsConclude`, `StreamsSettle`, `ToldEnds`), which is out of the prover's
reach. Every invariant and every action property of a passing run is stated by a theorem.

## 6. Findings

One is a run that TLC must find violated; `PROJECT.json` quotes the sentence.

1. `resume_finds` (cli:1817). The admin plane gets a detector of its own, so `detect resume` finds no
   pause, and the proxy keeps it. docs/ARCHITECTURE.md:96 says a pause can be resumed by operator command or API.

Further differences between the code and its documentation, which the modules keep as the code
has them and which properties name as their exceptions or leave out:

2. proxy:1446. In guard mode, when the SELECT that confirms a reservation fails,
   `unwrap_or(false)` reads this as "not reserved". The request is sent and answered, its
   reservation is never reconciled (`NoStrandedHold`, slip `confirm`). docs/GITHUB_BACKLOG.md:37
   and docs/ARCHITECTURE.md:93 say that guard mode fails closed.
3. proxy:332. The permit of the concurrency limit ends with the handler's
   response; a stream goes on in a task without one (proxy:1636). docs/CONFIG-REFERENCE.md:42 calls
   `max_inflight_requests` the maximum of requests processed concurrently.
4. detect:394. The feed of any session drops pauses older than the retention
   (an hour), without a resume and without an event. README.md:156 says a pause blocks the session until
   `pennyprompt detect resume`. `PausesLast` states what does hold.
5. The ANSI sequences of native Anthropic streams stay: the proxy cleans lines that are one `data:` field
   (`Cleaned`), and Anthropic's name their event first. docs/CONFIG-REFERENCE.md:110 does not say so.
6. admin:428. A second `serve` removes the socket of the one that runs before it fails or
   binds elsewhere. docs/CONFIG-REFERENCE.md:56-58 speaks of several instances. `AdminReachable` holds for daemons,
   which the lock keeps apart.

What modelling the rest brought to light, without a sentence of the documentation against it:

- Daemon: a `serve --daemon` that is killed leaves its child starting. The next command finds no pid file, one of
  an earlier daemon, or one that is truncated and that it then removes (cli:2078). Then a second daemon may start beside the first, take
  its socket, and `--status` and `--stop` answer that none runs: TLC finds `OneDaemon`, `AdminReachable` and
  `RepliesTrue` violated when the exception of `raced` is left out.
- Daemon: with two commands at a time TLC finds `OneDaemon` and `AdminReachable` violated. A
  command that reads the pid file between its truncation and its writing takes it for unreadable and removes it (cli:2078), and
  a third process may then start a daemon with a new file. `wait_for_daemon_ready` takes whoever listens at
  the port for its child. Where there is no flock the lock is always granted. An attached `tail` keeps a
  shutdown waiting, beyond the five seconds of `--stop`.
- Store: the foreign key of `cost_ledger` makes `budget reset` fail for every budget that was
  ever used. The UPDATE of a row that was deleted meanwhile changes nothing and reports success. An
  update by id may give two rows one key. Handlers share `last_insert_rowid`, so the admin API may
  answer with another handler's id. Two paths with one slug refuse each other for ever. A session id
  of a header is taken as it is, also when the session belongs to another project. No caller closes a session.
- Streams: an incomplete native Anthropic answer is billed the counts of its start; an
  Anthropic client of an OpenAI provider is always billed the estimate, and never gets a terminal line the proxy recognises; what is left in
  the buffer at the end is flushed for OpenAI and dropped for Anthropic; a malformed data line stops
  the search for usage.
- Usage: the translation to OpenAI's form drops the counts of the cache. An absent usage is billed 0
  there and the estimate elsewhere.
- Setup: `serve` reads the file once for its database (cli:3728) and again for all else (cli:1804). An edit of
  `database_path` in between gives a server with the new settings and the budgets of the new file on the old database. A
  `budget reset` or a post beside a start deletes or changes budgets that were just seeded, or makes the UPDATE of the
  seeding change nothing, and the server serves without them: `ServedAsConfigured` excepts their keys.
- Setup: every command reads the configuration when it opens its store, unless its command line names the
  database, so `init --force` cannot repair a file that does not load. An `init` that is killed
  leaves an empty file, which means the defaults. `budget set` accepts a soft limit above the
  hard one. A start overwrites the operator's rows with those of the file; budgets removed from the
  file stay. Positive limits may round to 0; NaN and infinity pass validation and fail at the
  start. Each `prices update` appends all its rows again. Two servers on one database overwrite each
  other's budgets (the module has one).
- Budgets: no code reads the window of a budget when it adds to its total (ledger:324): a day's budget is
  never reset.

## 7. Abstractions, and what is not modelled

- A transaction of the ledger is one step. `BEGIN IMMEDIATE` takes the write lock before the
  first read, and SQLite has one writer.
- Costs, contents and tools are members of small sets. The soft limit's comparison and warning are left out;
  that its query may fail after the reservation is kept.
- A provider that bills after `upstream_timeout` elapsed is not modelled: the code cannot know of it.
- A graceful shutdown that aborts detached stream tasks is the same as `Crash` for them.
- Events are best effort in the pipeline and left out there; `StoreStatements` has their insertion and their stream.
- `Accept` in `ServePlanes` makes the timestamp and the pause check one step; the wait between
  them (attribution) only adds to the lag.
- In `StreamRelay` an event is one symbol of the wire: a cut inside an event is as one before
  or after it, since only separators are looked for. In `StoreStatements` an estimate's
  status of a soft limit is left out.
- Text of amounts, TOML, JSON and HTTP are what was parsed of them.
- Named bounds: `MaxEdits`, `MaxNow`, `MaxAbove`, `MaxLag`, `MaxRestarts`, `MaxRuns`, `MaxRows`. They restrict how often the
  environment acts, never a guard of the code.
- Not modelled: the parsing and printing of amounts as text, `window_reset_at` (only reported), `doctor`
  and health, the launch plans of agents, the decoder behind `tail`, printing, the normalisation of requests and the
  hashing of their content, the cleanup of JSON bodies, redaction, migrations, and repositories without a
  caller (`close`, `update_status`). This is sequential code or formatting, which unit tests reach.

## 8. Plan

Done: the ledger with its abstract specification, invariant and refinement proof; the pipeline;
the detector; the planes; the statements of the store; the streams; the daemon; the set-up, prices and
usage. Proofs of the ledger, its sums, the pipeline, the detector, the store, the daemon, the
set-up, the planes' pauses and the streams.

Left: `LedgerTx`, two processes running the statements of ledger transactions on one file (lock,
busy, read, insert, commit, rollback, crash), with `CostLedger` as its abstract specification.
