# QuantAgent: a TLA+ model of the durable trading core

QuantAgent is a research and paper-trading system for A-shares. Most of its
code is numerical: data preparation, factors, training, back-tests, and the
commands and pages around them. The part whose correctness depends on *order,
concurrency and crashes* is small and is what this project specifies:

* the durable paper account (`src/src/quantagent/paper/`, `domain/`): every
  trading day one process decides a target portfolio and freezes it, another
  trades it on the following session, an operator repairs what a crash left
  unknown, and the files are the only memory of the account;
* the order path of the API (`services/quant_api/services/paper_orders.py` with
  `execution/order_manager.py` and `domain/idempotency.py`): requests are claimed,
  drained by concurrent workers, and must reach the venue once;
* the job manager of the API (`services/quant_api/services/jobs.py`): long
  trainings run in processes that survive the API that started them;
* the event-driven engine (`src/src/quantagent/streaming/`): one total order of
  events, from which every order, execution and position must be reproducible.

## 1. Inventory

| Component | State it keeps | Operations | Talks to |
|---|---|---|---|
| Account lock (`paper/account_lock.py`) | an advisory `flock` on a file derived from the canonical ledger | `paper_account_lock` | taken by all three entry points |
| Daily loop (`paper/daily_loop.py`) | per date: artifacts, `daily_loop_summary.json` | `run_once` | pending store, journal, canonical ledger (read) |
| Pending store (`paper/pending_signal.py`) | one JSON artifact per signal date | `record`, `read`, `discard_staged` | written by the daily loop, read by the executor |
| Executor (`paper/continuous_execution.py`) | locals inside the lock | `execute_pending_for_session` | all stores, order manager, paper broker |
| Reconciler (`paper/continuous_execution.py`) | locals inside the lock | `reconcile_indeterminate_account` | journal, canonical ledger (read) |
| Execution journal (`paper/execution_journal.py`) | append-only hash chain of decisions, starts, terminals, reconciliations | `append`, queries | commit point of the daily decision; freeze of the account |
| Canonical ledger (`domain/ledger.py`) | append-only hash chain of order events; cache; failure latch | `append`, `_load`, `verify`, `replay_book`, `mirror_event` | order manager, broker, API paper orders, streaming |
| Receipts (`paper/canonical_receipt.py`) | none (pure over the ledger) | build, verify | stored in journal terminals |
| Recovery (`paper/recovery.py`, `paper/account_target_state.py`) | none | `recover_from_canonical`, `recover_paper_account_target_state` | canonical ledger |
| Order lifecycle (`domain/orders.py`) | in-memory `OrderBook` | `open`, `apply` | mirrored on the canonical ledger |
| Order manager, paper broker (`execution/order_manager.py`, `paper/broker.py`) | states sent (`_wire`), daily counts, intent claims, portfolio | `submit_orders`, `cancel_all_open` | canonical ledger, idempotency store |
| Idempotency store (`domain/idempotency.py`) | append-only file of claims; per store a cache and a read offset | `claim`, `resolve`, `_load` | order manager, API paper orders |
| Paper-order service (`services/quant_api/services/paper_orders.py`) | request claims; the writer lock with its heartbeat record | `submit`, `drain`, `recover`, `cancel`, `close` | idempotency store, order manager, the same canonical ledger |
| Job manager, supervisor (`services/jobs.py`, `services/process_supervisor.py`, `scripts/job_supervisor.py`) | `jobs.json`; a thread, two processes, a status file and an output per job; sets of cancelled and purged ids | `submit`, `retry`, `cancel`, `pause`, `resume`, `purge`, `_run`, `_supervise`, `_finalize`, `_load` | the operating system, the jobs' own commands |
| Event bus (`streaming/bus.py`, `domain/timeline.py`) | heap, ids seen, last event, digest, frontier | `publish`, `drain`, `checkpoint`, `resume_from` | every streaming consumer |
| Streaming lifecycle and venue (`streaming/lifecycle.py`, `streaming/matching.py`) | order book on the canonical record, sessions of orders | handlers of orders, bars, callbacks, fills, cancels, expiries | bus, canonical ledger, accounting |
| Accounting (`domain/accounting.py`) | none (a replay): cash, dated lots | `apply_fill`, `replay` | recovery, streaming |
| Risk and kill switch (`risk/`, `paper/risk.py`) | latches and limits | arm, trigger, clear, evaluate | order manager, broker |
| Parent/child, QMT gateway, live session (`execution/`) | working orders, callbacks | slice, submit, reconcile | brokers outside the repository |
| Research, models, data, UI, scripts | files and frames | batch computation | not modelled |

`PROJECT.json` lists each of them with its status, and 40 hazards at their lines.

What is hard here, and what the properties are aimed at:

* **Snapshots outside the lock.** `run_once` reads the account and computes for
  a long time before it takes the lock; an executor may trade in between.
* **Several durable writes per decision.** Pending signal, summary and freeze
  marker are three writes; a crash can fall between any two of them.
* **An execution is many appends.** A crash after `execution_started` leaves an
  unknown part of the orders on the ledger, and the next process must notice.
* **Repair is two appends** (indeterminate, reconciled), and may crash as well.
* **Dates come from callers.** Dates may be run out of order, repeated, or late.
* **Appends are not atomic.** A write may leave nothing, a fragment, a record
  without its newline, or the whole line while raising an error.
* **The lock's own name depends on the file system**, which the holder changes.
* **Evidence and action are two steps.** A claim is durable before its order
  exists, an order before it is sent; a crash, or another worker, comes between.
* **Drains overlap**, and every step of one may fall between two of another.
* **A heartbeat stands for a process** that another host cannot see.
* **Jobs outlive the API.** A cancel, a purge, a restart or the death of the
  supervisor may come between any two steps of the thread that follows a job, and
  the signals that stop a job take seconds and may each fail.
* **A cache is re-read without its lock** while another thread resolves.
* **Reactions re-enter the bus** while it is drained, and a resumed bus knows
  the position of its predecessor but not what it has seen, nor how far its
  predecessor went after the checkpoint.
* **Several bars may share an instant**, and an order's answers are booked only
  after all of them.

## 2. Modules

| Module | Models | Extends |
|---|---|---|
| `AccountMutex` | what the account lock promises: one owner, hand-over through nobody | |
| `AccountLock` | `account_lock.py`, plus the append that creates the ledger file | instance of `AccountMutex` |
| `PaperAccount` | the three entry points over the four stores | |
| `AppendOnlyLedger` | what the canonical ledger promises its readers | |
| `CanonicalLedger` | the ledger file, its cache and latch, the mirrored order book | instance of `AppendOnlyLedger` |
| `PaperOrders` | requests, drains and the order manager over claims and ledger | |
| `WriterLock` | the single-writer lock and its heartbeat record | |
| `ClaimOnce` | what the idempotency store promises | |
| `IdempotencyStore` | `idempotency.py` with several stores, threads and processes | instance of `ClaimOnce` |
| `JobManager` | job records, threads, processes and recovery | |
| `EventBus` | `bus.py` with re-entrant consumers and resumption | |
| `StreamingVenue` | lifecycle, matching, order state machine and accounting | |
| `LockProofs` | the proofs about `AccountLock` and `WriterLock` | `AccountLock`, `WriterLock` |
| `*Proofs` | the proofs of section 4, one module for each of `PaperAccount`, `CanonicalLedger`, `PaperOrders`, `IdempotencyStore`, `JobManager`, `EventBus` and `StreamingVenue` | the module of that name |
| `MC*` | constants of the instances for TLC | the module of that name |

Four abstractions join the modules. `PaperAccount` takes the lock as the mutex that
`AccountLock` implements, and the ledger as an append-only sequence with a torn flag:
that is `AppendOnlyLedger`, which `CanonicalLedger` implements. Of its steps `PaperAccount`
takes `Record` and `Cut`; it appends nothing to a torn ledger (`Lost`), since its callers
refuse one, and it leaves out `Glue`, the loss of an unterminated record. `PaperOrders` takes a claim as one atomic step, which
`IdempotencyStore` refines to `ClaimOnce`. `StreamingVenue` takes events in their
total order, which `EventBus` establishes from any order of arrival. Operators whose
comment starts with "(mutant)" are never used: they are wrong variants of the
definition that follows, which the properties are tested against.

### AccountLock

`OpenLockFile` derives the path once (`LockPath`) and opens it; `Grant` and
`TimeOut` are the two ends of the poll; `Release` is the `finally` clause. `Die`
is the operating system dropping the flock of a dead process. `AppendLedger` is
a canonical append made inside a critical section: the first one changes the
answer of `LockPath` for later callers. The Windows branch polls the same way.
Deadlines are abstract: `TimeOut` may happen at any failed poll.

### PaperAccount

State: `pending` and `summary` per date, `journal` and `canonical` as sequences,
`torn` for ledgers whose last line a crash cut, `lock`, and per process a program
counter and the decision it computed (`draft`). `work` holds the locals of the
process inside the lock. Each action is one durable write, or one block of checks
between two writes:

* `DailyBuild` (no lock), `DailyLock`, `DailyDropSummary`, `DailyDropPending`,
  `DailyAdmit`, `DailyStage`, `DailySummarise`, `DailyFreeze`; the exception
  handler is `DailyFreezeFails` then `DailyUnstage`.
* `ExecLock`, then per pending signal `ExecMissed` or `ExecStart`, `ExecOpen`,
  `ExecVenue` or `ExecRest`, `ExecCancel`, `ExecSeal`; finally `ExecDone`.
  `Turn(d)` says which signal the loop has come to: earlier ones have a terminal,
  or are committed and not due, which the loop passes over with `continue`.
* `ReconLock`, `ReconSeal`, `ReconClear`, `ReconDone`.
* `Refuse` is a call that one of the code's checks ends: the date is frozen
  (`DateRefused`), the prior state unresolved or not the one the draft was computed from
  (`DraftRefused`), the next signal not the frozen one or not over this account
  (`SignalRefused`), no receipt to be had of a torn ledger (`ReceiptRefused`; every
  entry point also verifies the receipts of earlier terminals, `ReceiptsVerify`).
  `Stop` is every other exception and the death of the process, `Tear` death in the
  middle of an append.

Abstractions. A hash stands for the content it digests, so a pending payload and
its digest are the signal itself, and the head of a ledger prefix is the length of
the prefix (nothing edits a ledger in place). `created_at` is not part of a
signal's identity in the model: two identical recomputations of one date are the
same signal. A canonical record stands for the run of lifecycle events that leave
the order in the same economic state; a cancel has no trade date, as in the code.
Market data, prices, sizes and the operational ledger only decide whether a call
raises, which is `Stop`. `ExecSeal` judges "blocked" on the states `submit_orders`
returned, before the cancels, as the code does.

### CanonicalLedger

The file is a sequence of lines and `tail` says how the last one ends: with its
newline (`line`), as an unparsable fragment (`cut`), or as a complete record
without newline (`whole`). `Put` is a write in append mode; after an unterminated
line the text continues that line. `LoadLength` is how far a load gets, stated by
what it ends after (`LoadsTo`). `MirrorOk`, `MirrorDuplicate`, `MirrorFails`,
`MirrorRefused` are the outcomes of `mirror_event`; `Dies` is a kill inside the
append. `acked` and `reported` are history variables: what `append` returned for
since ever, and what `mirror_event` returned for since the ledger was opened.
Events are executions, the only kind a venue re-delivers; `mirror_open` and
`append_corporate_action` go through the same `append`.

### PaperOrders

A request is a record of its key, signal, quantity and price; its *intent* is what
the order manager hashes, signal and quantity here. Durable are `queue`, `req`
(claims of requests and their resolution), `owner` (claims of intents) and `ord`
(the order's status on the canonical ledger); `wire`, `counts` and `worker` are
memory of the process and go with `Crash`. A worker runs `drain` or `recover`:
`Visit` goes to the next entry of the list that was read once at the start.
`ExecuteStarts` to `VenueAnswers` follow `_execute` into `_submit_all`, one action
per durable write or look at shared state; a price conflict ends the whole call
(`ClaimConflict`), a duplicate is answered from `_wire` or from the ledger. An
exception may end the call at any step (`Raises`): an append, a claim or a resolution
that fails. `_submit_all` catches `VenueRefusal` alone, so one may also come between the
submission and the count (`VenueRaises`: out of `broker.submit`, out of the recording of
its answer, or an `IdempotencyStoreCorruption` out of `claims.resolve`). It leaves an
order that was submitted, perhaps answered, and never counted in this process; the
history variable `missed` remembers it. Reading
the ledger (`ReadLedger`) and settling by it (`SettleFromLedger`) are two steps,
because another worker may act between them. `drain`'s `limit` argument is left
out: a caller without it visits every entry, and with it a prefix of them.

### WriterLock

`phase` walks the steps of `_acquire_writer_lock`: the existence test and the mode it
chooses, the open (which truncates in mode `w+`), the non-blocking flock, the look at
the record (`Inspect`), and `_write_occupancy`, which truncates the file (`Truncate`) and
then writes the record (`Publish`). `BeginWrite` and `Heartbeat` are the same two halves
in `_require_writer`, the only place that refreshes the heartbeat; between them another
host finds no record. `record` is the content of `writer.lock` with the age of its
heartbeat, which `Tick` raises up to `Stale`, the staleness period: beyond it nothing
changes. `_write_occupancy` is called without a lock of the process, so two calls of one
instance may write one record behind the other; the next reader cannot parse the pair
and takes it for no record, hence the choice in `Heartbeat`. The lock is asked for once,
by the constructor: an instance that was refused stays read-only until it is started
again.

### IdempotencyStore

The file is a sequence of complete lines plus a flag for an unterminated tail, which
`_load` refuses. `Open` is the constructor with its first load, `Call` takes the lock
file, `LoadRead` reads behind the offset, `LoadFold` folds in one line and moves the
offset by it, `Loaded` goes on, `Declined` and `Accepted` decide from the cache,
`AppendOk` and `AppendFails` write. `Die` ends the process of a store, which may be
opened again; its callers die with it, so a win may be durable and unreported.

`Refresh` is `PaperOrderService.pending`, which calls `_load` without the lock file, on
the store with which `submit` claims and `drain` resolves. `pending` and `submit` hold the
service's own lock, so no two refreshes and no refresh and claim overlap; a resolution,
made outside that lock, does overlap them, and the two loads then count the same lines
twice into one offset (`raced` remembers the store). `ClaimsOf` says which keys are claimed
through which store: request keys through the service's, of which the writer lock leaves
one, and keys of intents through the order managers', one per call. A store that is
refreshed therefore has its keys to itself (`RefreshedKeysAssumption`). A record has
length one, `_read_offset += len(line)` is one step (the interpreter could separate its
read from its write), the outcome a claim is resolved to is left out, and an unlocked
read that sees the middle of a write, and reports a torn tail that is none, is left out
too: it raises without changing anything.

### JobManager

The jobs are the attempts at one experiment, which is what makes them share an output.
Per job there is a record, a thread of the API (`pc` from `check` to `finish`), and a
pair of processes: the supervisor, which reports the worker in a status file, and the
worker, which may write the output. `Cancel` and `Purge` change the record under the
lock and leave a call in `calls` that sends the signals later, as the code does;
`_run` sends them too, for a cancel that came before `Popen`. `terminate_tree` is two
steps: SIGTERM to the group (`SignalGroup`), after SIGCONT when the job was paused, and up
to five seconds later SIGKILL to what is left of the processes psutil collected
(`KillFamily`). Neither need work: a worker may survive SIGTERM; the SIGKILL may miss any
process of the family, because psutil is missing (it is an optional import, though
`pyproject.toml:26` requires it) or raises at any call, because the target ended before
its descendants were collected, or because the kill is refused. `spared` remembers the jobs
whose worker ran on when a call was over, or when the API died after the first half. `Crash` drops threads, calls and the
sets in memory, `Load` is `_recover` for every active record: which half of the pair it
follows, and what it concludes without one. `job.pid` and the start ticks are facts
rather than numbers: process ids are not reused.

### EventBus

An event is its rank in the total order `sort_key`; several ranks may share an instant.
`Publish` may come from outside, or from a consumer while `draining`, when market data
is refused. `Emit` pops the first event, moves digest and frontier and hands it over;
`EmitRaises` is the frontier refusing it. `Checkpoint` may be taken at any time, also by
a consumer, and replaces the one before. `Resume` is the end of the process at any
distance behind its last checkpoint, and a fresh bus that adopts it; the source then
publishes again whatever it likes, the events that were emitted after the checkpoint
included, or events from before it (`Rewound`). `delivered` is what the consumers of the
present bus got, `base` the digest it adopted.

### StreamingVenue

`now` is the key of the last event (instant, priority of its kind, sequence) and
`pending` holds the reactions on the bus; `Due` admits an outside event behind `now` and
before every reaction. An instant may have several bars of the symbol, told apart by
their sequence: neither bus nor venue refuses an intraday and a daily bar at the close.
What such bars answer is on the bus, not in the book, so each may promise an order's
leaves again; `twice` remembers the orders two bars of one instant have answered. `order` is the order book, each order with the quantity it counts
as filled; `fills` holds the executions on the ledger and `executions` is the matcher's
number of the last one it made. The account is a replay of `fills` (`AccountAfter`, a
recursive function of `ApplyFill`: cash, dated lots, first in first out, the T+1 refusal);
the code drops a lot that is sold out, the model keeps it with quantity 0, which no sum
tells apart, so the lots keep their places. Handlers are actions: `OnOrder` with its acknowledgement, `OnBar` with
`_match_against`, `OnCallback`, `OnFill`, `OnCancel`, `OnExpiry`, the last two also of an order that was
never opened; `Redeliver` is a venue repeating an execution, as it was or with another
quantity. An exception ends the run, and `raised` keeps it with the order it is about.
An order event that repeats a client order id is left out.

## 3. Runs

| Run | Question | Result |
|---|---|---|
| `lock_existing` | On an existing account, is the section exclusive, is the lock a mutex, does every wait end? | holds |
| `lock_first_run_mutex` | Is the section exclusive on a first run? | **violated** |
| `account` | Do the stores stay consistent through crashes, stale snapshots, out-of-order dates and repair? | holds |
| `account_liveness` | With competing targets and several orders, what trades, and does every critical section end? | holds |
| `ledger` | Do the chain, single booking and loss detection survive failed appends and restarts, and is the file an append-only log? | holds |
| `ledger_torn_tail` | Does an acknowledged record survive an append after a torn tail? | **violated** |
| `jobs` | Do verdicts, outputs and processes agree through cancels, purges, retries, failing signals and deaths, and do jobs end? | holds |
| `orders` | Do requests reach the venue once, within the limit, and get a true answer, through deaths, exceptions and overlapping calls? Does the queue drain? | holds |
| `claims` | Is the idempotency store a claim-once registry while threads refresh it without its lock, and when is its read offset right? | holds |
| `writer` | Is there one writer per host, and is an account whose writer is gone taken over? | holds |
| `bus` | Are events emitted in order and once, over re-entrant drains and resumptions from any checkpoint? | holds |
| `streaming` | Are executions booked once, funded and replayable, and does a run get through? | holds |

### Account and ledger

* `MutualExclusion`, `RefinesMutex`, `BoundedAcquisition`: the lock, and every wait
  ends in the section or in a timeout.
* `TradesTheAccountItWasSizedOn`: the records of a target form one block that
  starts right after the prefix its decision saw; a frozen target that has not
  started is still bound to the whole ledger, so drift can never wedge it.
* `ReceiptCoversExecution`: a terminal's receipt covers exactly its signal's
  records, nothing is appended for it later, none of its orders is left working.
* `Chronological`: decisions in date order, sessions in date order, trades
  strictly after the signal date.
* `StagedDateCanBeRerun`: what a crash staged never blocks the account.
* `UncertainAccountIsFrozen`: while an attempt's economics are unknown, only the
  records that seal or reconcile it are accepted.
* `CommittedEvidenceIsKept`: frozen artifacts are never overwritten or deleted.
* `TradesCommittedTarget`: everything on the canonical ledger was frozen, then
  started; one target per date at most. `CallsTerminate`: the loops over signals,
  orders and unresolved attempts end and give the lock back.
* `ChainVerifies`, `BookedOnce`, `CertifiedIsComplete` (no torn tail means no
  acknowledged execution is missing: what receipts rely on) and
  `TerminatedRecordsStay` (append-only, except for a record without its newline).
* `RefinesAppendOnlyLedger`: what a restart would read is at any time the content of an
  abstract log. It takes new executions one by one; a writer cut off in it leaves it torn,
  which a reader sees, and frozen; an acknowledgement without a record is only ever given
  behind a torn tail; and the one event that may vanish was last, unterminated and
  unacknowledged, and its loss tears the file.

### Orders and claims

* `OneOrderPerIntent`: an intent reaches the venue once, through retries under new
  keys, concurrent drains and restarts. `EvidenceFirst`: nothing is sent before its
  submission is on the ledger, nothing is opened without the claim of its request.
* `WithinDailyLimit`: a restart does not refund the limit, and concurrent calls
  overshoot it by one order each at most. Orders whose call raised between submission and
  count come on top (`missed`), one for each such exception, and those only.
* `ReportsItsOrder`: an answer names an order of the request's own intent unless another
  intent shares its signal id, and "interrupted" means nothing was sent. `SettledStays`: a settled request stays so.
* `QueueDrains`: every queued request is settled, also behind exceptions, unless a price
  conflict at or before it blocks the queue.
* `RefinesClaimOnce`: a key is won once, for ever, whichever reads of a store overlap.
  `NoFalseAlarm`: a truncation is reported only of a file that was truncated, as long as
  no two reads of the store overlap.
* `SingleWriter`: one writer per host, whatever the lock file and its record hold.
  `AccountIsTakenOver`: whatever record the other instances left and wherever they died, once
  they are gone an instance that is started again and again, and dies no more, is the writer
  again and again. Nothing is claimed of two hosts at once: the code's heartbeat does not
  keep them apart (below).

### Jobs

* `EndedMeansStopped`: a registered job reported cancelled, failed or purged has no
  running worker, unless its signals are under way or missed the worker. `SucceededWrote`: success rests on the job's own output, not on that
  of an earlier attempt. `FinishedIsFinal`: verdicts survive late threads, calls
  and restarts, and the evidence of a success is not overwritten.
* `JobsEnd`, `CancellationEnds`: no job stays active unless a pause holds it, and no
  cancellation of a living API hangs, even of a paused job, and even when no SIGKILL
  arrives.

### Streaming

* `EmittedInOrder`: the consumers of a bus get its events in the total order and once, and
  a resumed bus extends its checkpoint's digest by exactly what it hands out, in order,
  unless the source rewound. `FrontierCovers`: nothing is handed out from an instant before
  one that was decided at when the checkpoint was taken, even when the source rewinds.
  `AdmittedIsEmitted`: what a bus admits reaches its consumers unless the bus is given up.
* `ExecutionsCount`: no execution is counted twice or erased; FILLED means exactly filled.
  `FillsAreFunded`: no instant trades on credit from the one before. `ChainReplays`: a chain
  replays, and sells only what an earlier session settled. `TradesAreBooked`: only a cancel of
  its instant, or a second bar of it, can overtake an execution. `RunNeverRaises`: an
  exception names the order that met its cause, and what causes there are.

### Bounds

* `lock_existing`: three processes, one of them inside, one polling, one arriving.
* `account`: two processes, one target plus "no target", three dates, one order. Two
  processes give every overlap, because at most one is inside the lock and one more
  outside it is enough to hold a stale snapshot. Three dates are the smallest number
  that lets a session be missed, a later decision follow, and an older date be attempted
  afterwards. `account_liveness` trades a process and a date for a second target and
  three orders, where competing re-runs of one date, partial fills next to rejections,
  and crashes between orders appear.
* `ledger`: three executions, five lines: a record, a torn one, a glued one and two more.
* `jobs`: two attempts and four disturbances (calls and deaths), two once a retry is among
  them: every pair of races around one job, and a retry with one more event beside it. A
  third attempt puts the liveness properties out of reach and adds one behaviour, a second
  retry of the same job (`again`); the theorems of section 4 hold for any number.
* `orders`: three requests, two of them of one intent at different prices, the third maybe
  without a quote; two workers, a limit of one, two faults of any kind (deaths, calls that
  overlap, exceptions). Every entry has something before or after it to be blocked by, and
  a fault may fall between any two steps of either call.
* `claims`: a service's store with a thread that claims and refreshes and one that
  resolves, the stores of two order managers, a key for each of the two groups, three
  lines, one death: a refresh beside a resolution, a race between stores, a torn write and
  its recovery.
* `writer`: two processes on one host, one on another, a staleness of two ticks, so that a
  heartbeat is fresh, less fresh and stale. Time is not bounded.
* `bus`: five events, market data at each of three instants and a reaction at the first
  two, two resumptions, checkpoints at any time.
* `streaming`: two orders of up to two lots, prices of one and two, a session of two
  instants and one of four, two bars an instant, cash for one lot at the higher price and one
  settled lot: an order may be filled in part, run out of cash or lots, be carried into the
  next session, be sold in the session it was bought, be promised by two bars at once, and
  compete with another on one bar.

Processes of the account runs are interchangeable, and so are targets, so `account`
uses symmetry; the liveness runs use none.

### Fairness and deadlock

* `AccountLock`: weak fairness of the poll only; a process that opened the lock file
  keeps polling against a finite deadline.
* `PaperAccount`: weak fairness of the next step of a process inside the lock, which is
  sequential code. Nothing is assumed about new calls or about crashes.
* `PaperOrders`: `drain` is called again and again (the endpoint and its background
  drain) and a running call goes on. `recover` is an operator's decision: no fairness.
* `JobManager`: threads and processes are scheduled, signals of a call are sent, an
  unpaused worker ends, with or without a signal, a dead API is started again. Nothing is assumed of the operator.
* `WriterLock`: a constructor that runs comes to its end, a read-only instance is closed
  in the end, and time passes. That the surviving instance is started again and again is
  a premise of the property, not fairness.
* `EventBus`: a drain goes on while there is something to emit (`run`).

Deadlock is checked in `lock_existing`, `ledger` and `writer`. Elsewhere the system may
really stop: a torn journal is refused by every entry point, an order left open by a crash
is refused by recovery in all three; jobs, requests, events and orders have all ended; a
torn claim file is refused by every call.

### Disagreements between the code and its documentation

Two are carried as runs:

1. *First run of an account* (`lock_first_run_mutex`). The lock file is a sibling
   of the ledger while the ledger does not exist, and is named after the inode once
   it does. The holder's first append creates the ledger, and the next caller locks
   a different file. "Lock identity follows filesystem identity" is what makes the
   identity change. Once the file exists the lock is a mutex (proved).
2. *Append after a torn tail* (`ledger_torn_tail`). "A restart re-reads the file
   honestly, skips a torn tail, and continues from what is actually there": the
   cache continues, but the bytes are glued to the fragment, and the next load ends
   before them. The paper-account executor is protected, because receipts refuse a
   torn tail (`CertifiedIsComplete`); `services/quant_api/services/paper_orders.py`
   opens the ledger and appends without that check.

The others appear when the condition that keeps them out of a property is dropped or
weakened, or one constant is changed; each line says which, and TLC then finds the
behaviour within the bounds of the property's run.

* *Retry after a failed append* (`domain/ledger.py:558`; drop `~failed` in
  `BookedOnce`): "routing both writes through one function makes book and ledger unable
  to disagree", but the book takes the event first, and absorbs the retry.
* *Cancel before registration* (`jobs.py:1225`; drop `job[j].pid` in
  `EndedMeansStopped`): a job without a pid is cancelled at once although its thread is past
  the check at line 1398; the process is started, registered, and only then terminated.
* *Death between start and registration* (`jobs.py:1514`; the same): the restarted
  API has no pid and no start ticks and declares a running worker failed.
* *Supervisor killed* (`jobs.py:1576`; drop `Intact`): `_supervise` records the job failed
  while its worker goes on; only recovery follows the worker.
* *Signals that fail* (`process_supervisor.py:214`; drop `j \notin spared`): a worker that
  SIGTERM does not end, and that psutil does not reach, runs on behind a record that says
  cancelled or purged, against "Stop a job process and every worker it spawned".
* *Reported before it is stopped* (`jobs.py:1236`; drop `~Signalled(j)`): the supervisor
  ends at once and the thread finishes the record, while the worker has up to five seconds.
* *Two attempts at once* (`jobs.py:1091`; drop `used.cancel = 0` in `OneByOne`, or drop
  `used.again = 0` and set `MaxJobs = 3`): `retry` never looks for an active attempt; a
  cancelled one may still be running, and a failed one may be retried a second time while
  its first retry runs. One attempt then succeeds on what the other wrote.
* *Purge before registration* (`jobs.py:1312`; drop `job[j].pid` and `j \notin spared`): only
  the supervisor is killed.
* *Purge of a cancelled job* (`jobs.py:1320`; drop `OneByOne` and `used.purge = 0` in
  `FinishedIsFinal` and ask only for `out' # 0`): the outputs it owned are by now those of
  its retry.
* *Cancellation lost by a restart* (`jobs.py:1232`; drop `used.restart` in
  `CancellationEnds`): a paused job stays in `cancelling`, which `resume` refuses.
* *Overlapping drains* (`paper_orders.py:702`; drop `overlaps = 0` in `ReportsItsOrder`):
  "Safe to run concurrently", but a worker that finds the claim of another in flight and
  nothing on the ledger settles the request as interrupted, and the order is sent.
* *Daily limit* (`order_manager.py:268`; drop the `overlaps` term of `WithinDailyLimit`):
  the count is read at the risk decision and raised after the venue's answer.
* *Uncounted order* (`order_manager.py:543`; drop `\ missed`): an exception between
  submission and count leaves an order that the process never counts; the next one of the
  symbol passes the limit.
* *Order of another request* (`paper_orders.py:735`; drop `OwnSignal` in `ReportsItsOrder`
  and give the third request of `MCPaperOrders` signal `"s1"` and quantity 200): the ledger is searched by the signal id
  alone, which two requests of one signal share.
* *Conflict blocks the queue* (`paper_orders.py:697`; drop `Blocked` in `QueueDrains`): the
  exception leaves the drain without settling the request, which is first again next time.
* *Heartbeat of a writer that is alive* (`paper_orders.py:408`; ask that no
  process is at `truncate` while `record` is not empty and a process of another host is a
  `Writer`): it is refreshed when an economic call starts and at no other time, so
  that of an idle writer, or of one inside a long call, goes stale and another host takes
  over beside it, against "Long enough that a busy writer is never mistaken for a dead
  one" (`paper_orders.py:107`).
* *Record that is being written* (`paper_orders.py:446`; drop the condition on hosts in
  `SingleWriter`): between the truncation and the write, and behind an open in mode `w+`, the
  record of a writer is not in the file, and another host enters.
* *Refresh without the lock* (`paper_orders.py:636`; drop `\ raced` in `NoFalseAlarm`): a
  refresh beside the load of a resolution adds the same lines to the offset a second time,
  and every later call of the store finds the file "truncated after it was read", or reads
  from the middle of a line. No key is granted twice, because nobody else claims the keys
  of that store.
* *Resumed bus* (`bus.py:249`; drop `~Rewound` in `EmittedInOrder`): neither the events seen
  nor the last one are restored, so a redelivered or earlier event is emitted again, once
  more behind the digest that has it already.
* *Two bars of one instant* (`matching.py:275`; drop `twice` in `RunNeverRaises` and in
  `TradesAreBooked`): both promise the leaves of an order, which the book counts only when
  the first answer is booked; the second meets a filled order, or overfills one.
* *Two buys or two sales on one bar* (`matching.py:238`; ask `Account.cash >= 0` in
  `FillsAreFunded`, drop the first half of `Regular`): each is funded by a ledger that does not have the other
  yet, and a chain that sold too much raises at every later replay.
* *Refusal of a partly filled order* (`matching.py:179`; drop
  `"PARTIALLY_FILLED"` in `RunNeverRaises`): REJECTED is answered to an order that has traded, which the state
  machine refuses.
* *Cancel beside a trade* (`lifecycle.py:208`; drop `"CANCELLED"` in `TradesAreBooked`): a
  cancel of the same instant sorts first and is granted at once.
* *Carried order* (`lifecycle.py:229`; drop the second half of `Regular`): an execution is dated by the
  session its order was opened in, so a lot may be sold in the session it was bought.

## 4. Proofs

TLAPS checks, for every value of the constants:

* `LockMutualExclusion`, `LockRefinesMutex` (`LockProofs`), for an account
  whose ledger exists when the model starts. `MutualExclusion` alone is not
  inductive: the invariant adds that the ledger still exists, that every process
  past `idle` opened the inode file (`OneLockFile`), and that a process inside
  holds the flock of the file it opened (`HoldsItsFlock`).
* `TypeCorrect` (`PaperAccountProofs`). `TypeOK` needs the local facts `LocalInv`:
  what a process holds at each program counter (a draft from `built` on, a real
  target at `stage`, a job while trading, a session date in the executor and the
  reconciler, and the lock at every step inside it).
* `OnlyCommittedTargetsTrade`. The inductive invariant `CommitInv` adds to the
  type invariant: the job being traded is frozen and then started
  (`JobCommitted`), so is every record on the ledger (`LedgerCommitted`), a date
  has one frozen decision (`OneDecision`), and a process between the checks and
  the freeze works on an undecided date (`StagesUndecided`). Without the last one
  a process could freeze a second decision for its date; without `OneDecision`
  two targets of a date could both be committed.
* `FrozenEvidenceImmutable`, an action property, from the same invariant: the
  steps that write or delete a pending signal or a summary are all taken by a
  process in the staging section, whose date is undecided by `StagesUndecided`.
  One lemma (`StepsHaveShape`) lists what each kind of step may change; the
  preservation proofs then go by cases of that shape instead of by all actions.
* `TimeRunsForward`, `TerminalsAreClosed`, `SizedOnWhatItTrades`, `StagedNeverWedges` and
  the action property `UncertaintyFreezes` (also `PaperAccountProofs`), from one invariant,
  `HistoryInv`, over `CommitInv`. Its core is `Clean(j, c, d)`: nothing in journal `j` and
  ledger `c` is later than date `d`, no outcome is uncertain, no order is open, and every
  older pending signal has come to its end. A date that is staged but not decided is always
  clean (`StagedIsClean`), so nothing can be executed or reconciled while one is; decisions
  are frozen in order (`DecidedInOrder`); a frozen signal that waits is bound to the whole
  ledger (`AwaitingIsBound`); the records behind a start's prefix are its own until it is
  sealed (`StartedFromPrefix`). The process inside the lock relies on more (`HolderInv`): a
  daily run past its admission on a clean date and an unmoved ledger, the executor on a
  certain journal while it scans and on being the only unsettled job while it trades, the
  operator on a ledger without open orders. The steps fall into five kinds of write
  (`StoresAfterDiscard`, `...Stage`, `...Freeze`, `...Record`, `...Trade`), one lemma for
  each, and nobody else's step touches what the holder relies on (`OthersWait`).
* `LoadedChainVerifies`, `ExecutionsBookedOnce`, `CertifiedLedgerIsComplete`,
  `TerminatedRecordsAreKept`, `LedgerRefinesAppendOnlyLedger` (`CanonicalLedgerProofs`). `LoadLength` is the one number
  of lines a load can end after (`LoadUnique`), which turns reading into arithmetic. The
  invariant adds that a load ends somewhere (`Readable`), and that the open ledger's cache
  is a chain without duplicates of which the readable part of the file is a prefix until
  an append fails, and all of it while the file is not torn (`Cached`). For the refinement
  it also says that an unterminated last record was never acknowledged
  (`UnfinishedIsUnacknowledged`); `WriteIsALogStep` then finds for every end of an append
  the abstract step it takes: recorded, cut off, glued to an unfinished record, acknowledged
  behind a torn tail, or nothing.
* `EvidencePrecedesAction`, `IntentReachesVenueOnce` (`PaperOrdersProofs`), for any number
  of overlapping calls and restarts. The claim of an intent names one request for ever
  and every worker in flight is at the request that owns its intent (`OneOwner`), two
  workers in flight are at different requests (`OneInFlight`), and the order's status
  says how far its worker is (`OrderFollowsWorker`); so a send happens once (`SentOnce`).
* `RequestsAreToldTheTruth` and the action property `SettledRequestsStay`
  (`PaperOrdersProofs`). Over the invariant above, `Settled` says what holds until calls
  overlap: one worker runs (`OneRunning`), its entries are the rest of a queue in which each
  request stands once (`QueuedOnce`, `RunIsQueued`), so the entry it is at was not settled
  by anybody; what it found on the ledger is of its own signal (`FoundIsOwn`) and is still
  what the ledger says; and a request it is about to call interrupted was never sent
  (`Unopened`).
* `LimitIsKept` (`PaperOrdersProofs`). The count is raised after the venue's answer, so
  `WithinDailyLimit` is not inductive: `Counted` relates the count to the submissions that
  are neither missed nor counted yet, and adds the workers that passed the risk decision and have not
  submitted (`Approved`) to what may come. Nobody can be approved beyond the limit except by
  a count that another worker has still to raise, which is one order for each other worker.
* `OneWriterPerHost` (`LockProofs`): a process past flock holds it (`HoldsFlock`), and a
  host grants it once (`OnePerHost`). The record is not needed.
* `WonAtMostOnce`, `NeverTruncated`, `StoreRefinesClaimOnce` (`IdempotencyStoreProofs`), for
  any number of refreshing threads. Two arguments are needed. A store of which no reads
  overlapped reads properly: its cache has the key of every line it has read
  (`CacheCovers`), the lines a thread holds unread are those behind the offset
  (`UnreadFollows`), and whoever decides has read the whole file (`CaughtUp`). Of the
  offset of a store whose reads did overlap nothing is known, but such a store is refreshed
  without the lock (`OneReader`), so nobody else writes its keys, and it has known its own
  since it was opened (`KnowsItsOwn`). Either way a key that is on the file is known where
  it is claimed. The refinement maps a complete line to a durable claim, and every other
  step to a stutter.
* `JobsAreTyped`, `EndedJobsAreStopped`, `SuccessRestsOnOwnOutput` and the action property
  `VerdictsAreFinal` (`JobManagerProofs`), for any number of attempts and disturbances. What
  one job relies on (`Local`) is the order in which its processes start and report
  (`ProcessOrder`), what the step its thread has reached says about them (`ThreadOrder`),
  that a call which left the lock knew every process registered then (`CallsKnow`), that a
  SIGTERM waits for stopped groups only (`HeldBack`), and
  `Supervised`: while no supervisor is killed alone, a worker runs under its supervisor, or
  has outlived signals, or is the one a purge before registration left, so a thread that has seen its supervisor end,
  and a restarted API that finds none, may declare the job over. A step of one job leaves the
  others alone (`OthersUntouched`), so each action needs its own job only. Success needs the
  row of attempts (`Attempts`): as long as each is retried once, every attempt before a
  submitted one is over (`InTurn`), so one worker at a time may write (`LoneWorker`; one that outlived its signals belongs to a
  purged job, `SignalledArePurged`), and what
  differs from the baseline is the job's own (`Evidence`). A model of two attempts hides the
  condition on second retries; the attempt to prove the step of `InTurn` showed it.
* `EmissionIsOrdered`, `FrontierCoversTheRun` (`EventBusProofs`), for resumptions from any
  checkpoint, however far the run had gone beyond it: digest and frontier of the bus and of
  its checkpoint fit each other (`DigestFits`), what a bus adopted lies behind its frontier
  and behind all it hands out (`BaseIsBehind`), the heap is ahead of the last event
  (`HeapIsAhead`), and until the source rewinds the digest is the adopted one followed by
  the deliveries (`RunInOrder`). Nothing relates a bus to what its predecessor did after the
  checkpoint, because nothing in the code does.
* `ExecutionsAreCounted`, `ExecutionsAreFunded`, `RegularChainsReplay`,
  `PromisesFindTheirOrder`, `RunsRaiseOnlyFor` (`StreamingVenueProofs`), which are all the
  invariants of that module, for any number of orders, lots, instants and executions. The
  invariant says what an execution on its way to the ledger may rely on: it was measured by
  the account as it stood before its instant (`PromiseIsFunded`), and unless two bars of the
  instant have answered its order, that order still has room for it and is working or
  cancelled (`PromiseFits`), and nothing else waits for it (`OneAnswer`). The total order of events makes this stable: reactions belong to the
  instant that is being emitted (`InTime`), and of the events that can end an order only a
  cancel sorts between the bars of an instant and their executions; an expiry sorts after them. The
  rest relates the three counts of an execution: its number, the quantity the book has and
  the quantity on the ledger (`Numbered`, `BookedAsOrdered`, `CountsWhatIsBooked`,
  `StatusFollowsCount`). `ChainReplays` holds of a chain with one sale an instant because a bar
  then sees every earlier sale, and lots bought in the instant are not settled in its session;
  that the replay itself never refuses is an induction over the chain, and the bound on
  what is sold up to a session another one, over a sum of all lots the account ever had.

*Induction over data.* The library's induction theorems take an operator as a parameter,
which the provers cannot instantiate. `StreamingVenueProofs` uses the form they can:
`NumbersByInduction` says of a *set* of natural numbers that it is all of them when it
contains 0 and the successor of each of its members; it follows from `WFMin`, the least
element principle. The same lemma shows that the recursive functions of the model exist and
satisfy their equations, so sums and replays are proved about for every length.

*Assumptions.* The proofs rest on the named assumptions of the modules alone. Two of them are
about the world rather than about bounds: `IdempotencyStore` assumes that the keys of a store
that is refreshed without the lock are claimed through no other (`RefreshedKeysAssumption`,
section 2), which two paper-order services on two hosts would break, and `StreamingVenue` assumes that prices are
natural numbers and that sessions do not run backwards, which dates of event times give.

*Only model-checked:* liveness, which is out of the prover's reach: `BoundedAcquisition`,
`CallsTerminate`, `QueueDrains`, `JobsEnd`, `CancellationEnds`, `AccountIsTakenOver`, `AdmittedIsEmitted`. Every
other property of a passing run is stated by a theorem. The theorems about the account lock
have the hypothesis named above; the counterexample without it is in section 3.

## 5. Not modelled

* Most of the repository by size. It has some 210,000 lines of implementation, of which
  factor research, model training, back-tests, data acquisition, command lines and the
  web UI are the bulk: numerical or presentational batch code, sequential, without a
  protocol between actors, and without states a model checker could tell apart. The
  share of lines this project maps is small for that reason.
* A journal record that is complete but lost its newline: the next append glues
  to it. `PaperAccount` tears its two files into an unparsable fragment only; for the
  canonical ledger `CanonicalLedger` has the other case (`Glue` of the abstract log).
* The idempotent re-append of an identical journal record: no caller of the model
  reaches it, since every entry point checks for the record first.
* Legacy terminal bindings, account identity, edits of files by hand.
* Cash, T+1, price limits and costs inside the paper account; fees, cost basis and
  corporate actions in the streaming account; risk decisions other than the daily count,
  and the kill switch.
* Reuse of process ids by the kernel (`process_supervisor.py:196`); metrics, logs and
  command specifications of jobs.
* `drain`'s `limit`, several symbols or sessions in `PaperOrders`; several symbols and
  availability stamps in the streaming modules.
* Parent and child orders, the QMT gateway and live sessions (they answer to a vendor
  terminal that is not in the repository), broker reconciliation, operating modes, the
  portfolio state machine, the API's event fan-out and the governance audit.

## 6. Plan

1. `ExecutionJournal` on its own: lines and missing newlines as in
   `CanonicalLedger`, idempotent append, legacy binding; `PaperAccount`'s journal
   as its abstraction.
2. Kill switch and operating mode: the latch, who may clear it, and orders in flight.
3. Parent and child orders: slicing, roll-up of child states, cancels against fills.
4. The QMT gateway: callbacks of the terminal against commands and reconciliation.
5. Account identity: two first callers under its own lock file.
6. A record without its newline in `PaperAccount`, so that its ledger takes every step of
   `AppendOnlyLedger`; then `EventBus` as an implementation of the total order of events
   that `StreamingVenue` takes for granted.
