# A TLA+ verification of `async_pipelines`

The modules here model the package `async_pipelines` (bounded-concurrency
helpers over asyncio) and the way its benchmark scripts write their reports.
`python 3.11/3.12` below means the branch of `_TaskGroup` that those two
interpreters take; from 3.13 on its `__aexit__` is asyncio's own.

Check a run with `tlc -workers 2 -config <cfg> <module>`, the proofs with
`tlapm <module>_proofs.tla`. `PROJECT.json` lists the runs, for every property a
mutant (a plausible bug that the property catches), for every definition the
source lines it models, and the hazards the properties are for.

## 1. Inventory

| Component | State | Operations | What is hard |
|---|---|---|---|
| `process` (core.py) | result slots, `failed` latch, semaphore counter and waiters, one task per item, the TaskGroup's flags | guards, spawn, acquire / call / settle / release per item, the per-item deadline, TaskGroup reap / abort / wait / exit | a failing item releases its slot before its siblings are cancelled; a CancelledError may be the teardown's, the caller's, the deadline's or `fn`'s own; `fn` may swallow the one cancellation it gets |
| `stream` (core.py) | bounded queue, producer's and consumers' positions, `failed`, results, metrics | pull, put (may block), start a consumer, sentinels, get, settle, `task_done` | a blocked put with an item in hand while consumers fail; tasks that park on the queue after having absorbed their cancellation; sentinels through the same bounded queue |
| `StreamMetrics` | five counters | updated by producer and consumers around awaits | sampled on the wrong side of an await |
| `_TaskGroup`, `_CallerCancelProbe`, `_rearm_pending_cancel` | the caller's `cancelling()` count and `_must_cancel`, `_REARMS`, a probe per call | entry, exit with errors, a callback one loop step later | who owns which part of one integer: the group, an enclosing `asyncio.timeout`, an external `cancel()`, a leak of 3.11/3.12 |
| `dispatch_tool_calls` (tool_dispatch.py) | as `process`, with named tools | lookup, stub for an unknown tool, run, turn the exception group into one exception | order of the exceptions in the group; a nested dispatch's timeout; `BaseException` |
| `ToolRegistry`, `ToolCall`, `ToolResult` | a dictionary, records | register, get | nothing concurrent |
| `atomic_write_text`, `check_writable`, `same_file` (io_utils.py) | a directory | create temporary, write, fsync, chmod, rename, unlink; probe | any call may fail, the process may die between two calls, another run works in the same directory |
| bench scripts | two output paths, the rows, exit code | preflight, benchmark, two writes; what the report concludes from its rows | two files, no transaction; a sentence that its own table contradicts |
| benchmark pipelines and report (benchmark.py) | documents, outputs per batch, rows | `run_pipeline` of the serial, async and batched pipelines, `_check_batch_len`, `attach_speedup` | short batches, a batch endpoint that drops, adds or sends no list, documents that can be read once, runs of no measurable time |

How they interact: `dispatch_tool_calls` repeats `process`'s machinery clause by
clause and shares its helpers (`_TaskGroup`, `_CallerCancelProbe`,
`_stray_cancellation_as_error`, `_deadline_escaped`,
`_require_timeout_seconds`). Every entry point opens one `_TaskGroup`, which
cancels the calling task to wake itself when a child fails; `_CallerCancelProbe`
reads the same count to tell a teardown from a stray `CancelledError`. So two
consecutive pipeline calls interact through the caller's task: through its
count and through the callback the first leaves behind. The bench scripts call
`benchmark.py` (whose async pipelines call `process`) or `stream`, and then
`io_utils.py`.

What makes each part correct, in short: every item's outcome is kept, and in its
place, or the call raises (`process`, `stream`, `dispatch_tool_calls`,
benchmark); never more than `concurrency` at once, and nothing begun after a
failure; the failure shown is the one that happened; a cancellation that
somebody asked for reaches the caller and no other does; a reader of the report's
path finds an old or a new report; and the report says what its rows say.

## 2. Modules

| Module | Models | Extends / instance |
|---|---|---|
| `FnOutcome` | what an `await fn(item)` that ended becomes: `asyncio.timeout`'s conversion, `_deadline_escaped`, `_stray_cancellation_as_error`, the except clauses | |
| `BoundedFanOut` | the abstract promise of a fan-out: each item at most once, within the limit, none begun after the call is doomed, a return only with every result kept and nothing running; what follows from it (`Promises`) | |
| `Process` | one call of `process` | FnOutcome; INSTANCE BoundedFanOut |
| `Stream` | one call of `stream` | FnOutcome; INSTANCE BoundedFanOut |
| `DemoRow` | what a row of bench_backpressure.py may report | |
| `DemoStream` | `stream` on a source that has every item ready, which is what bench_backpressure.py measures | Stream, DemoRow |
| `Dispatch` | one call of `dispatch_tool_calls` | Process |
| `CallerCancel` | the caller's cancellations over several calls | |
| `ReportPair` | a bench script's preflight and writes, several runs on one directory | |
| `Benchmark` | a session of `run_pipeline` calls, `attach_speedup` and the ceiling sentence of bench_1000_doc.py | INSTANCE BoundedFanOut |
| `BackpressureReport` | the cells, rows and conclusion of bench_backpressure.py | DemoRow |
| `BoundedFanOut_proofs`, `Process_proofs`, `Stream_proofs`, `Dispatch_proofs`, `CallerCancel_proofs`, `ReportPair_proofs`, `Benchmark_proofs`, `BackpressureReport_proofs` | the theorems of section 4 | the module each is named after, the library's theorems, TLAPS; `Dispatch_proofs` also `Process_proofs`; `Stream_proofs` is about `DemoStream` too; `Process_proofs` and `Stream_proofs` INSTANCE `BoundedFanOut_proofs` |
| `MCProcess`, `MCStream`, `MCDispatch`, `MCReportPair`, `MCBenchmark` | instances for TLC | `MCStream` extends `DemoStream`, `MCBenchmark` both `Benchmark` and `BackpressureReport` |

### Process

A task is a position `pc[i]`: `created`, `queued` (in the semaphore), `granted`
(woken, slot reserved), `calling` (inside `fn`), `ended` (the task is done),
`reaped` (the TaskGroup's done-callback ran). An action is what one task runs
between two awaits, or one callback of the loop; so what the code does without
suspending (settle an item, set the latch, release the slot, wake the next
waiter) is one action, `Settle`. `throw[i]` is a CancelledError due at the
task's next step and `cancelling[i]` its count; `value` is `sem._value`. The
loop's ready queue is left in any order except that tasks take their first step
in creation order, as `call_soon` gives it; every theorem and property so holds
for more schedules than the loop has.

`fn` is the environment. It ends with a value, an Exception, a `TimeoutError`
of its own, a CancelledError or another BaseException (`Outcomes`), it may
absorb one cancellation (`FnAbsorbsCancel`), and a TaskGroup inside it may
leave its task's count raised (`FnLeaksCancelCount`, #196, once per call).
KeyboardInterrupt and SystemExit are not modelled: they leave the event loop.

### Stream

Task 0 is the producer, tasks 1..concurrency the consumers. The source may
yield, end, raise anything, and absorb a cancellation. A put suspends only if
the queue is full; the item in hand is then kept with the task. The metrics
are part of the actions that update them, except `producer_pause_seconds`, a
sum of wall-clock time.

Calls with a concurrency or queue_size of 0 or less are among the inputs:
`Refused` turns them away, and what is said of the queue (`Backpressure`) is said
of calls that are not refused.

`create_task` refuses to start a consumer in a TaskGroup that has aborted. That
branch of `SourceYields` is kept though it is never taken: while the group
aborts the code's own check for a stopping pipeline comes first
(`AbortIsVisible`).

`DemoStream` is the same stream, and if its `producer` is "ready" the source has
every item at hand, as `_fast_producer` of bench_backpressure.py has: a request
to it is answered before any other task runs. With any other producer its
steps are `Stream`'s. `RunOneRow` says what such a stream reports: a depth
of min(n, queue_size), and pauses if and only if there are more items than the
queue holds, at most one for each item beyond that.

### Dispatch

`Dispatch` extends `Process`: a tool call takes an item's steps. What it adds is
the lookup before anything runs (fail-fast) or the stub (collecting), the
results with unset slots dropped, the order in which tasks end, which is the
order of the exceptions in the group, and the `except*` clause that raises one
exception. `concurrency=None` takes no semaphore; a semaphore with a slot for
each call suspends nobody either, so the runs use `concurrency = n` for it.

The arguments are kept as a number: how often a tool has written to what the
ToolCall holds. The calls repeat one ToolCall object, which callers may do and
which is the case with most to share; a tool reads its arguments when it begins
and writes to them before it ends. With a deep copy per invocation the number
stays 0 and every answer is to the arguments the call was made with
(`ResultPerCall`); handed the ToolCall's own dict, the second tool of a batch
already reads another one's writes.

### CallerCancel

`Process` and `Stream` take one call and let the signal be "the caller was
cancelled, before or during the call, or the group requested it". Here it is
computed as the code computes it, from `count` (`task.cancelling()`), `due`
(`_must_cancel`, or a cancelled future of the task) and `rearms`
(`_REARMS[task]`); the invariant `SignalIsTrue` is what justifies the
abstraction of the other two modules. A pipeline is only its TaskGroup: children
end well or with an error. The caller handles failures, awaits other things or
does not, cancels itself, and runs inside an `asyncio.timeout` of its own or
not. The callback a call leaves behind is in the loop's ready queue before
anything the next call creates, so no child of the next call ends before it;
timers and cancellations by others may come first.

A part of two of its properties is meant for every caller, whatever it awaits
between its calls: while its TaskGroup aborts, the probe says so (`TeardownSeen`
of `SignalIsTrue`), and a call takes back no request but its own and leaves at
most one counted that nobody made (`CountWithinOne` of `CountRestored`).

### Benchmark

A session is the list of pipelines to run; the script's is serial, async,
async+batched, and other callers repeat or omit some. `BeginRun` reads the
documents once, as `list(docs)` does, so that an iterator is empty for the next
run. A unit of work is a document or, with batching, a chunk; `work[u]` is its
state in the fan-out, and the actions on it are conjunctions with
`BoundedFanOut`'s: `process` stands here as the abstract specification that
`FanOutImplemented` proves it to implement, so that batches interleave, fail and
are torn down in every way `process` allows, without its tasks. The serial loop
is a fan-out of width one that takes documents in turn.

A text is a record of its document and the calls made on it, so that a lost,
doubled or misplaced output is visible and the wording is not. A batch endpoint
may answer with a list or iterator of the right, a smaller or a larger length, a
set, a mapping, a string as long as the batch, nothing iterable, or an error.
An endpoint that permutes a list of the right length breaks its contract in a way
no client can see; it is the one answer left out, and what `BatchesStayAligned`
and `BatchesAlwaysAligned` say holds of every answer but that one.

Durations are integers, rates fractions, `None` where the code says `None`;
`Printed` rounds as `:.2f` does. `landing = None` means the report's sentence
"5-20x"; else it is the ceiling printed.

### BackpressureReport

`run_one`'s stream stands as its metrics, which are those `DemoRow` allows;
`DemoStream` shows that a stream reports no others. The constant `Pauses` bounds
the counts of pauses that TLC tries. `Conclusion` is what the report says of the
rows; its `unfilled` are the rows of which it says "no producer pauses", whether
it names them or says it of all ("No row filled the queue").

### ReportPair

One action per system call of `check_writable`, `same_file` and
`atomic_write_text`; every call that can fail may fail, every run may be killed
between two calls. `os.close` and `os.unlink` of a file just created do not
fail; the stat and chmod of `_copy_existing_mode` are one step. A path is one of
two names, distinct files, or a link, or two spellings of one name; a file is
who wrote it, what is in it and its permission class.

Beside the runs there is a user, whose `chmod` may make a whole report read-only
at any moment (`Protect`), in particular during the benchmark, between the
preflight's look and the write's. The one moment left out (`Busy`) is between a
live run's look at that very report and its rename, or inside its probe of it:
the code says of itself that it is "a check at open time, not a lock: a `chmod`
racing the write is not covered" (io_utils.py:302-304). A killed run holds nobody up.

`PairFromOneRun` says two things of a run that had the directory for itself: if
it exits 0, each output is its own; and wherever it stops, its raw results are
never beside another run's report. The scripts write the report first, so what a
failure between the two writes (exit 2) can leave is a new report beside earlier
results, which the code accepts, and never the reverse.

## 3. Runs

| Run | Bounds | Shows |
|---|---|---|
| `process` | <= 3 items, concurrency 1..2, one ill-formed call per guard; 1.07M states | result, attribution, slots, fail-fast, refinement of `BoundedFanOut`, termination |
| `stream` | <= 3 items, concurrency 1..2, queue 1..2, a source of either kind (`SourcesSpec`); 6.3M states | safety: parked tasks, `task_done`, backpressure, metrics, clean return; the metrics of a row of bench_backpressure.py |
| `stream_promise` | <= 2 items, same otherwise, `fn` without the bare BaseException | refinement of `BoundedFanOut`, termination |
| `dispatch` | <= 3 calls, one at a time or unbounded, any subset unknown; 7.1M states | results and their arguments, deadline's owner, the exception raised, refinement of `BoundedFanOut` |
| `caller_cancel` | 3 calls, 2 cancellations, 1 leaked count, 2 children; 5.4K states | what reaches the caller and what its count is |
| `report_pair` | 2 runs, 2 temporary names, 2 attempts; 254K states up to symmetry | what a reader of the directory finds, and that a report protected during the benchmark stays as it is |
| `bench_scripts` | one script or the other: <= 4 documents, concurrency and batches 1..3, three durations, other callers' sessions; `--n` 0..90, queue 0..2; 116K states | batches aligned, every document answered, rows ranked as they ran, both reports' sentences |
| `stream_ahead`, `stream_produced`, `dispatch_wrapped`, `report_probe`, `caller_retry` | small | the findings of section 5 |

Why the bounds are enough for the interesting cases. Three items at concurrency
1 and 2 are the least with one item failing, one in flight and one waiting for
a slot, for either kind of waiting. A queue of one with two consumers and three
items has a producer blocked with an item in hand, an item queued, and both
consumers busy or failed; a queue of two lets sentinels and items mix. `stream_promise` stops at two items,
where the consumer that a failure races with can only be one waiting for an item;
that a consumer which ends a call beside the failure takes no third item is
`StreamIsFanOut`'s to show, for every length. A
deadline may fire and need not, so calls with a deadline cover the behaviours
of calls without one, and `timeout=None` appears only in ill-formed calls. In
`Process` and `Stream` the caller is cancelled at most once per call, since
the second request changes neither the signal nor the group's flags; two of
them are `CallerCancel`'s subject. Counts leaked by `fn` are capped at one per
call of `fn`: the code compares only whether the count is back. With three
calls `CallerCancel` has a retry whose baseline was lowered by a re-arm and one
call after that; two runs with two names are the least in which a draw collides
with a live run and with a killed run's leftover.

For the benchmark three documents at batch size 2 are the least that make two
batches with a short last one, four at size 3 leave a remainder of one; the
durations 0, 250 and 4999 make the ratios 19.996, which prints as 20.00, its
inverse, 1, 0 and none. `--n` runs to where a tenth of it exceeds four times the
largest queue, the point at which advice on `--n` that named the wrong queue
would turn out wrong. `Pauses` is {0, 1, 4}: none, the least, and as many as the
items a queue of 2 lacks room for when there are six; the conclusion asks only
whether there were any.

`CallerCancel`'s constant `RetryAtOnce` says whether the caller may call again,
inside a timeout of its own, with no await after a failure. `caller_cancel` has
it FALSE; `caller_retry` has it TRUE (section 5). With it TRUE `TypeOK`,
`TeardownSeen` and `CountWithinOne` hold as well, as the theorems say; TLC
confirms it with `RetryAtOnce = TRUE` in `MCCallerCancel.cfg` and these three as
its invariants (9.8K states). Outside a timeout, retrying at once is in both.

Deadlock is checked in every run; the final states stutter explicitly.

### Fairness

`Process`, `Stream` and `Dispatch` assume weak fairness of the calling task's
step, of every task's step that is ready, of every done-callback, and of `fn`
ending; in `Stream` of the source answering each pull. The event loop runs its
ready queue in FIFO order, so whatever is ready does run; that `fn` and the
source end is the precondition under which the code can promise to end at all.
There is no fairness for the caller being cancelled, for a deadline firing, or
for `fn` or the source absorbing a cancellation: termination holds with all or
none of them. `Termination` is checked by `process` and `stream_promise`.
`ReportPair`, `CallerCancel`, `Benchmark` and `BackpressureReport` state safety
only: a run may be killed, a caller need not ever await again, and that a fan-out
ends is `Process`'s to show.

## 4. Proofs

Every safety property of the passing runs, every action property and every
refinement is proved of its module's specification, for every value of the
constants: any number of items, calls, runs and documents, any concurrency,
queue_size, batch size and duration. Only liveness is left to TLC.

| Module | Theorems (property) | Assumes |
|---|---|---|
| `BoundedFanOut_proofs` | `LimitAlwaysHolds`, `EveryEndIsWhole`, `EveryItemOnlyOnce`; `PromisesKept` (the three as one) | nothing |
| `Process_proofs` | `TypeCorrect` (`TypeOK`), `CleanReturnHolds`, `CollectKeepsBatchHolds`, `AbortIsVisibleHolds`, `FailFastHolds`, `HonestAttributionHolds`, `SlotAccountingHolds`, `FanOutImplemented` (`ImplementsFanOut`), `ProcessPromises` | `CallsAssumption` |
| `Stream_proofs` | `StreamTyped` (`TypeOK`), `AbortAlwaysVisible` (`AbortIsVisible`), `NobodyLeftParked` (`NoneLeftParked`), `EveryGetIsMarkedDone` (`TaskDoneMatchesGet`), `BackpressureHolds`, `CollectingKeepsBatch` (`CollectKeepsBatch`), `MetricsAlwaysTell` (`MetricsTell`), `EveryReturnIsClean` (`CleanReturn`), `StreamIsFanOut` (`ImplementsFanOut`), `StreamPromises`; of `DemoStream`, `DemoRowsAreStreams` (`ReportTells`: `MetricsTell` and `RunOneRow`) | `CallsAssumption`, `OutcomesAssumption` |
| `Dispatch_proofs` | `DispatchTyped` (`DispatchTypeOK`), `ResultPerCallHolds`, `DeadlineIsOwnHolds`, `SurfacesCauseHolds`, `DispatchSlots` (`SlotAccounting`), `DispatchFailFast` (`FailFast`), `DispatchIsFanOut` (`ImplementsFanOut`), `DispatchPromises` | `CallsAssumption` |
| `CallerCancel_proofs` | `Typed` (`TypeOK`), `TeardownAlwaysSeen` (`TeardownSeen`), `CountAlwaysWithinOne` (`CountWithinOne`); with the hypothesis `~RetryAtOnce`, `NoCancellationInvented` (`NoneInvented`), `NoCancellationLost` (`NoneLost`), `CountAlwaysRestored` (`CountRestored`), `SignalAlwaysTrue` (`SignalIsTrue`) | `BoundsAssumption` |
| `ReportPair_proofs` | `PairTyped` (`TypeOK`), `DestinationAlwaysWhole` (`DestinationWhole`), `NoTempEverLeft` (`NoTempLeft`), `PermissionsAlwaysKept` (`PermissionsKept`), `PairAlwaysFromOneRun` (`PairFromOneRun`) | `AttemptsAssumption`, `NamesAssumption`, `RunsAssumption`, `NoneAssumption` |
| `Benchmark_proofs` | `BenchmarkTyped` (`TypeOK`), `BatchesAlwaysAligned` (`BatchesStayAligned`), `EveryDocAlwaysAnswered` (`EveryDocAnswered`), `FasterNeverBelow` (`FasterNeverRanksLower`), `LandingAlwaysMatches` (`LandingMatchesTable`) | `JobsAssumption`, `DurationsAssumption`, `NoneAssumption` |
| `BackpressureReport_proofs` | `ReportAlwaysTrue` (`ReportIsTrue`) | `CommandLinesAssumption`, `RetriesAssumption`, `PausesAssumption`, `NothingAssumption` |

The assumptions on constants say that the arguments have the types the code's
signatures give them, that a counter's bound is a number, and that the stand-ins
for Python's `None` and for "nothing yet" differ from numbers, quotients, texts,
files and names, as in Python they do. TLC evaluates each of them.

Each proof is of one shape: an inductive invariant, one lemma per action that
keeps it (with one step per conjunct the action disturbs), and the properties
from it. What the runs check is seldom inductive, as it speaks of the end of a
call; the invariants say what holds on the way there.

`Process`: `IInv` is the conjunction of

- `TypeOK`;
- `PhaseInv`: the tasks exist exactly while the call waits for them, and
  after its end all are reaped;
- `GroupInv`: the TaskGroup's errors are those of the reaped items that
  failed; it aborts for one of them or for the caller's cancellation, and while
  the call waits the latter is not forgotten;
- `ItemInv`, per item: a stored result or a raised verdict belongs to a task
  that ended; a task that ended with neither found the latch set; one that
  ended cancelled did so under the latch or the group's abort; an abort
  reaches every task that has not begun its `fn`;
- `LatchInv`: the latch stands for an item that failed or a caller that was
  cancelled, and `CollectKeepsBatch`;
- `CleanReturn`.

Actions that admit, release and settle share frame lemmas about the semaphore's
functions (`EnterSlotFrame`, `WakeNextFrame`, `ReleaseFrame`). `SlotAccounting`
is inductive beside `TypeOK`; its proof is arithmetic on the cardinality of
`Holding`, through `HeldMove`. The refinement takes each step of `Process` to
`Begin`, `Keep`, `Lose`, `Drop`, `Doom`, `Return`, `Raise` or a stutter; that
`Begin` finds room (`BeginHasRoom`) is where `SlotAccounting` is needed, and
that it is not doomed is fail-fast.

`Stream`: `PhaseInv`, `GroupInv`, `TaskInv` and `LatchInv` do for its tasks what
the above do for `Process`'s; `NobodyLeftParked` is a conjunct of `TaskInv` that
every absorbed cancellation has to keep. The data's way through the queue takes
four more:

- `SourceInv`: how far the producer is, by its position, and the one item that
  may be pulled and not put;
- `QueueInv`: the queue holds exactly the items from the first not yet taken, in
  order, and then the sentinels. With `Gets`, the number of entries taken out,
  this fixes every entry's value, so that no item is doubled or overtaken;
- `ItemInv`: an item is taken once, by one consumer, and is then in its hand,
  kept, or, only after a failure, lost;
- `CountInv`: `TaskDoneMatchesGet`, and, without a failure, what was consumed
  plus what is unfinished is what was put, while the consumers that ended are
  those that took a sentinel.

`CleanReturn` follows at the return: all sentinels are put, every consumer took
one, so nothing is left before them. The refinement maps an item to "running"
while a consumer holds it; a consumer that keeps a result and takes the next
item without suspending is `BoundedFanOut`'s `Relay`.

`BoundedFanOut`'s own theorems are stated of the three implementations as well:
`Promises` says of a fan-out that no more than its limit run at once, that a
return has every item kept and none running, and that an item begins once.
`Process_proofs` instantiates `BoundedFanOut_proofs` with its refinement mapping,
so that `PromisesKept` with `FanOutImplemented` gives `ProcessPromises`; a lemma
says that the mapping's initial state and steps are those of that instance.
`Stream` and `Dispatch` do the same.

`DemoStream`'s `RunOneRow` follows from `FillInv`, which for a ready source is
inductive beside `Stream`'s invariants: until the producer has waited once, it
has put all that it pulled and no consumer has taken any of it; after that, its
pauses and the queue's size together are at most what it has pulled. `FillStays`
is for the steps that leave the producer and the metrics alone, `FillByYield` for
an answer of the source.

`Dispatch`: `StepOfProcess` shows that a step of it is a step of `Process` or the
refusal of an unknown name, so that `Process`'s lemmas do for most of it.
`OrderInv` adds that the ended tasks are in the order of the group's exceptions,
once each; `CauseInv`, that without the caller's cancellation a task which ended
cancelled ended after a failure; `ToolInv`, what a call's tool can have done.

`CallerCancel`: `CountInv` says what the task's one integer is the sum of: what
the caller brought in, each request, the caller's timeout's, and the group's.
`BlockInv` and `OwedInv` say where a fired timeout and a request are while they
are on their way: due, held by the group, or sent again by the callback.
`QuietInv`, `ProbeInv` and `GroupInv` say what the probe's baseline is worth.
The hypothesis `~RetryAtOnce` is the one under which the properties hold: with an
immediate retry inside the caller's own timeout they do not (`caller_retry`,
section 5). Of every caller, `AnyInv` is inductive: `CountWithinOne`, that there
is at most one re-arm per call that ended (`RearmsInv`), and that the
probe's baseline is never above the count it is compared with (`SeenInv`), from
which `TeardownSeen` follows.

`ReportPair`: `TempInv` ties every temporary file to the one run that is at work
on it (or was killed at it), `TextInv` says that what is about to be renamed is
the whole text of its destination, `ModeInv` that its permissions are its
predecessor's, and that no report a live run has looked at and is writing is
read-only; of a killed run it says nothing, since a user's chmod does not wait
for one. `PairFromOneRun` has invariants of its own beside these. `AloneInv`:
where the run that has the directory for itself is, what it has seen of the two
names and what it has already put in place. `LastInv`: a run whose results are in
place has nothing left to write, so its report is in place as well.

`Benchmark`: `PlanInv` (what was run and what is left is what was asked for),
`WorkInv` (what each unit of the current run was answered), `RateInv` (every
column is divided by the row's own duration, all speedups share one baseline).
`CheckedIsOwn` is about the batch endpoint: of all that it may answer only the
unit's own outputs pass `_check_batch_len`. `FlatIsTwice` is about the chunks:
joined, their outputs are the outputs of the list. The code's loop is a recursive
function there, and induction over it is out of the prover's reach as the
library states it; instead the least index at which the two sides would differ is
taken (`LeastOf`, from the well-foundedness of `<`), and there is none.
`PrintedGrows` is the arithmetic of `:.2f`: of two quotients of one baseline the
larger never prints as the smaller.

`BackpressureReport`: `DemoInv` says that the k-th row was measured by the k-th
cell; `EvidenceText` then computes the conclusion from the flags alone, for the
table at hand and for the retry alike.

Only model-checked: `Termination` of `process` and `stream`, which is liveness
under fairness and so out of this prover's reach.

## 5. Findings

Where a text of the repository and its code disagree; each has a run that ends
in a counterexample.

- `stream_ahead`. README.md:28-29: the producer "never runs more than
  `queue_size` items ahead of the consumers". It holds one more in hand while
  its put waits. `Backpressure` states, the run `stream` shows and
  `BackpressureHolds` proves the bound that holds.
- `stream_produced`. core.py:90: `produced` is the "number of items pulled from
  the producer". The code counts an item when its put is done (core.py:765). In
  the trace, with three items and concurrency and queue_size 1, item 1 is in `fn`,
  item 2 is queued, item 3 is pulled and its put waits; `fn` raises, nobody having
  cancelled the caller; the teardown cancels the put (core.py:761), and the call
  ends with three items pulled and `produced` 2. The property looks at exactly
  such a step: a put that waits for room and is cancelled. An item that the stop
  check drops after it was pulled (core.py:750) is not counted either.
- `dispatch_wrapped`. tool_dispatch.py:199-201: a tool that raises "propagates
  wrapped in `PipelineError`". The `except*` clause takes Exceptions only; a
  tool's other BaseException stays in a group, which also hides the
  PipelineError of a tool beside it.
- `report_probe`. io_utils.py:160: `same_file` creates a file exclusively
  "and *a* is removed". It removes by name; another run whose rename
  lands between creation and removal loses its finished report.
- `caller_retry`. core.py:353-355: an owner that unwound "has already uncancelled
  its request and nothing is left to re-arm". A caller that handles a failed
  call and calls again at once inside its own `asyncio.timeout`: the timeout
  fires when the second call has entered, the first call's callback counts that
  request and notes a re-arm, the second call fails as well and its baseline is
  lowered for that re-arm; the timeout unwinds and takes its request back, and
  the second callback still cancels the caller. Nobody asked for it. With real
  cancellations in addition, `NoneLost` and `CountRestored` fail in the same
  setting: the one unit the baseline drops by cannot stand for two requests. The
harm has a bound: also then no teardown is taken for a stray cancellation, and
the count is off by one at most (`TeardownAlwaysSeen`, `CountAlwaysWithinOne`).

## 6. Not modelled

- `FakeLLM` and the fake batch endpoint are calls that answer; their sleeps are
  the durations' business.
- `RunResult.extra` and `to_dict`'s copies, `ToolResult.value` (the tool's own
  object, #106), the copy a ToolCall makes of its arguments when it is built:
  aliasing of Python objects between a caller and a record, with no step of this
  program in between.
- `ToolRegistry.register`: a dictionary that refuses duplicates.
- A batch endpoint that permutes a list of the right length (see `Benchmark`).
- A `chmod` between a write's look at its report and its rename (see `ReportPair`).
- `producer_pause_seconds`, `elapsed_ms`: wall-clock time.
- `_resolve_out_paths`, `display_path`, the capping of file names: pure
  functions on strings, which the tests enumerate. `sibling_path` is one too but
  for a suffix in another case (`.MD`), where it asks `same_file` before the
  preflight and reads any error as "no alias" (#244, #248); the probe itself is
  `ReportPair`'s, this use of it is not modelled. `capture_demo.sh`
  records a terminal session. Argument parsing, and the reports' text but for the
  sentences that conclude something from the rows.
- A hard-linked report, and a file system that fails after `rename` returned.

## 7. Plan

Done: `FnOutcome`, `BoundedFanOut`, `Process`, `Stream`, `Dispatch`,
`ReportPair`, `CallerCancel`, `Benchmark`, `BackpressureReport`, `DemoStream`, in that
order, the most used first, and the proofs of section 4. What is left of the code is under
section 6.

What the runs check and a theorem can state is proved. Next: shorter proofs. The
invariants of the tasks and of the TaskGroup are repeated between
`Process_proofs` and `Stream_proofs`, and the lemmas for `~RetryAtOnce` in
`CallerCancel_proofs` prove again what `AnyInv` has for every caller.
