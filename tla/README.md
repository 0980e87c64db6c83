# TLA+ models of the ML hardware benchmark framework

The framework measures models on CPUs, GPUs and NPUs. A command line program
(`framework/src/main.py`) assembles a loader, a runtime, an evaluator and
monitors, runs them synchronously or through an asynchronous engine, and saves
a row and side files; a FastAPI server (`backend/app`) queues benchmarks and
runs the command line program as a child process; a React front end shows
results. Paths below are relative to the repository.

This directory specifies the parts whose correctness depends on threads,
callbacks, time-outs, crashes, failing file operations and orders of events,
checks them with TLC on small instances, and proves their safety properties
with TLAPS for all instances.

## 1. Inventory

| Component | State it keeps | Operations | Hard behaviour | Here |
|---|---|---|---|---|
| `core/runtime_executor.py` | permits, dispatch table, closed flag, counters | `execute`, SDK callback, `acknowledge`, `shutdown` | callback / deadline / submit failure race; late and repeated callbacks; buffers after a time-out | `NativeExecutor` |
| `core/async_inference/completion.py` | reservations, outstanding requests, terminal records, handoffs, bounded queue, state | `reserve/commit/abort_registration`, `submit`, `_run`, `_finalize`, `stop`, handoff waits | exactly-once terminals under crash and stop, full queue, retried submission | `CompletionCoordinator` |
| `core/async_inference/engine.py` | slot pool, request queue with hidden entries, submission transactions, drain and cancellation operations | `start`, `submit`, `_worker`, `flush`, `cancel_queued`, `shutdown` | submit against close, cancel against dequeue, shutdown from one time budget | `AsyncEngine` |
| `core/async_inference/producers.py` | schedules, open-loop backlog | issue requests | drops, failing producers | callers in `AsyncEngine` |
| `core/async_inference/runner.py` | callback lane, diagnostics | run a pass; bounded waits for callbacks | callbacks given up go on beside the run | `MonitoredRun` (lane, waits), `AsyncEngine` (order of closing) |
| `monitors/base.py`, `core/power_trace.py` | collectors, polling thread, power attempt lock, trace file | `start`, `stop`, polling, defer, finalize, abandon | hanging collectors, a trace given up while two threads may write it | `MonitoredRun` |
| `core/result_store.py`, `core/artifact_reservation.py` | result CSV, marker, pending, consumed and detail files | reserve, save, inspect, delete, publish side files | crash or failure between any two files, retry, deletion | `ResultStore` |
| `main.py`, `tools/rngd_server_benchmark.py` | the run in progress | finish a run, save it, pick up after a failing save | order of details, row, failure record; time-outs of callees | callers in `ResultStore`, `MonitoredRun`, `AsyncEngine` |
| `core/async_inference/metrics.py`, `trace.py` | counters, request traces | `record_*` | a call that counts and then raises | one step each in `CompletionCoordinator`, `AsyncEngine` |
| `backend/.../job_manager.py`, `job_store.py` | SQLite jobs, lock file, two events, active id, one thread | `start`, `stop`, `enqueue`, `cancel`, `_work` | cancel races, store errors, server crash, shutdown | `WebJobs` |
| `backend/.../process_runner.py` | child process | `run_process`, `terminate_group` | cancel / deadline / exit race, orphans | `WebJobs` |
| `web_job_service.py`, `main.py` (backend) | the manager singleton | `get_manager`, `shutdown_all_jobs`, lifespan | shutdown order | `WebJobs` |
| runtimes, collectors, compilers, decoders, evaluators, loaders | vendor handles, arrays | load, infer, sample | vendor I/O, numerics | not modelled |
| synchronous pipeline, registry, tools, views, front end | none that outlives a call | | sequential | not modelled |

How they interact. Producers call `engine.submit()`, which takes a slot,
registers the request with the coordinator and queues it. A worker dequeues a
batch, calls `executor.execute()` and hands the outcome to
`coordinator.submit()` under an operation key, the *handoff*. The completion
thread evaluates the batch, records one terminal per request, acknowledges the
handoff, and gives the execution back with `executor.acknowledge()`, directly
through a retirement lease or through the worker that waits. The executor frees
the permit and the buffers when the answer is acknowledged *and* the device is
known to be done. The runner wraps this pass into `start()` and `stop()` of the
monitor, which it calls through a lane of its own because a collector may
hang. `main.py` decides from the outcome whether the runtime may be unloaded
and the power trace published, and saves details and row under a reservation.
The web server knows of none of this: it runs the command line program as a
child, watches its exit, and deletes rows for its users.

What makes each component correct:

* executor: one terminal per dispatch, no permit lost, no buffer freed while
  the device works, safe unloading after `shutdown()`;
* coordinator: each registered request counted and settled exactly once
  whatever raises or stops, no execution given back before its batch is
  recorded, `stop()` true only if all is settled;
* engine: an accepted request gets one terminal and gives back one slot, is run
  or dropped and never both; `shutdown()` returns, and true only if all is
  settled;
* runner and monitor: the saved status of the trace is what is on disk, a
  published trace is sealed, nothing is left running, or open but in one
  schedule (section 4);
* result store: a run has at most one row, the one it reserved and committed
  to, and the row points to its own details, after any crash or failure;
* job queue: one benchmark at a time, no row left running, finished rows final,
  cancellation takes effect and the queue moves.

`PROJECT.json` lists the hazards at their lines with the properties that cover
them.

## 2. Modules

| Module | Content |
|---|---|
| `NativeExecutor`, `NativeContract` | the executor with its caller threads, the SDK and its callback thread; what it promises |
| `CompletionCoordinator`, `CompletionContract` | coordinator, engine workers as submitters, one `stop()` caller; what the coordinator promises the engine |
| `AsyncEngine`, `EngineContract` | submitters, queue, slots, workers, cancellation, flush, shutdown, unloading; what the engine promises |
| `MonitoredRun`, `TraceContract` | runner, callback lane, polling thread, power trace, its publication by `main.py`; what the readers of a result may rely on |
| `ResultStore`, `ResultContract` | all files of a results root, the processes that write them, the web API; what the reservation protocol promises |
| `WebJobs`, `JobContract` | ledger, worker thread, API threads, child process, server life; what the queue promises its users |
| `NativeExecutorProofs`, `CompletionProofs`, `AsyncEngineProofs`, `ResultStoreProofs`, `ResultStoreFaultProofs`, `MonitoredRunProofs`, `WebJobsProofs` | inductive invariants, safety theorems, refinement proofs |
| `MC...` | symmetry sets for TLC |

In front of some definitions stands a faulty variant (`RegisterUnchecked`
before `Register`). No specification uses it, except where a definition is its
variant with a guard added. Each variant is a bug that one property must detect
when it replaces the definition behind it; `PROJECT.json`, "mutants", pairs
them.

The contracts. Six of the components have an abstract specification, a module
without threads, locks, queues and files whose steps are the events a neighbour
or a user relies on, and each is shown to implement it (`ImplementsContract`),
by a run and by a proof.

* `CompletionContract`: a request goes from `reserved` to `open` only while the
  coordinator runs; it is counted at most once, and is over only once it is
  counted, unless a call has raised (`degraded`: `record_terminal` may have
  raised before or after it counted); a batch is handed in once, and its
  execution goes back to the executor only when every member is over; the
  thread ends, and `stop()` says True, only when nobody waits for a terminal. A
  request that `unregister_rejected()` takes out while its terminal is already
  claimed is `withdrawn`: nobody waits for it, its terminal may still come.
* `JobContract`: jobs are taken one at a time, the oldest first, and only when
  no row is running and no supervised benchmark is on the device; a row is
  settled when the device is free, by whoever is in charge of that job, with how
  the benchmark ended, with `cancelled` if no benchmark has ended and a user
  asked for it, or with `failed`; a finished row is never settled again, except with
  `failed` by the attempt to record it; rows nobody is in charge of become
  `interrupted`. A crash takes the supervision away, not the benchmark (the
  orphan of finding 2 and of the hazard list is free in this sense).
* `TraceContract`: a power trace is opened once, and not after the run gave it
  up or reported; samples are taken one at a time, into an open trace, and
  nobody closes it under one; it is sealed when no thread can sample any more,
  published only from there and by a run that still wants it; the result says
  `complete` for exactly the published trace, and afterwards nothing happens to
  that file, nor is one published that was reported otherwise. A trace may still
  be open when the result is saved as `failed`: a callback that hangs holds it.

How the modules compose. Each component is checked with its neighbours in the
form of what they guarantee. `AsyncEngine` uses the coordinator as
`CompletionCoordinator` shows it: it takes handoffs while it runs, gives each
request one terminal, acknowledges, and settles what is outstanding when it
fails or stops. `CompletionCoordinator` has the engine's workers as submitters
with the engine's own retry and defer rules. `ResultStore` has the failure
paths of `main.py` as processes; `MonitoredRun` joins four files of the
repository that share the power trace. The composed state spaces are out of
reach: the coordinator and the engine have about a million states each.

### NativeExecutor

An action is a critical section of `self._condition`, one operation on the
semaphore, or a step of the SDK. `pc[w]` is the place of a worker in
`execute()`: `permit` (503), `register` (510), `gate` (572), `submit` (580),
`raised` / `returned` (584 / 607), `wait` (616), `expire` (617), `read` (620).
`dispatch[t]` is the `_NativeDispatch` object; it outlives its entry in
`dispatches` because callbacks hold a reference. `expired[t]` abstracts time:
the deadline of `t` has passed. `observed[w]` is the time stamp taken right
after `submit_async`, which is compared with the deadline only later, under the
lock. The two critical sections of the callback are `Callback` and
`CallbackCommit`, whose alternatives are the returns of the code.

The SDK is external: it accepts or refuses a job, finishes it, and calls back up
to `Call` times for a job that is finished or was refused. That is more than a
good SDK does (one call, none after a refusal) and what the code defends
against. Assumed of it: it does not begin work after `submit_async` has raised,
and does not call back before its work on the buffers is over. The docstring
(425-435) states the first as the contract of `submit_async`.

### CompletionCoordinator

An action is a critical section of `self.condition`, one operation on the queue,
or one call to the metrics. `asleep` is the set of threads waiting on the
condition, and only `notify_all()` empties it: lost wake-ups are visible.
`handoff[h]` follows `_CompletionHandoff.state`, with `none` before and
`retired` after its life in the table. `thread` is the place in `_run()`:
`dequeue`, `member` .. `pop` (`_handle`), `ack`, `lease`, `notify`, `crash`,
`drain` .. `farewell` (`_finalize`, `_fail_outstanding`), `dead`. Any call that
leaves the coordinator may raise, up to `MaxFault` times; `record_terminal` may
have counted before it raises. Submitters go through `Turn` (625-653), `Put`
(656, outside the condition), `Full` / `Placed`, and then deal with the handoff
as `engine.py` does (3168-3373).

There `_handoff_retirement_lock` matters. `lock` is who has it across steps; a
region that takes and releases it without a wait is one action that needs it
free. `pending[p]` are the handoffs a worker has handed in and not yet seen
retired. Before the next batch it retires those that are acknowledged and keeps
the rest or defers it (`RetirePending`). A worker that stops or has failed waits
for all of them, one behind the other, and does not release the lock in between
(`WaitForPending`, `AwaitAck`, `Retire`, `Release`; 3201-3232). The completion
thread needs the lock to give an execution back (`RetireLease`, 3240) and for
what workers have deferred (`Notify`, 3355), so it may be stuck behind one
handoff while the worker waits for the next one. `WaitTimeout` and `WaitGivesUp`
are the deadline of that wait: the worker raises, its handler waits again, at
most twice, and then defers what is left. A worker that waits outside the lock
for the acknowledgement of its own submission (3187-3193) is in `await`.

Wider than the code: the worker may hand in its keys and wait for them in any
order, defer what it keeps without a native executor, and go on submitting
after a wait for its pending handoffs.

Left out: the inline coordinator without queue or thread, a coordinator never
started, submissions without a key, `producer_active` (the engine never has two
threads submit one key at a time), attempt-token mismatches (a token is part of
the request), `wait_for_all` and `wait_for_requests`, which only read, and the
failure of an acknowledgement made by a worker (that of the lease is modelled).

### AsyncEngine

An action is a critical section of the state lock, the queue's or the slot
pool's, or one call to the executor or the coordinator. `pc[r]` is the place of
a `submit()`, `worker[w]` that of a worker with the batch it owns and the
request it holds back for the next one, `ctl` that of the controlling thread in
the order the runner calls the engine: start, produce, close, snapshot, flush,
cancel, stop, join, ask the coordinator. `hidden` are the queue entries whose
visibility state is not `None` (published, dequeued or drained but not yet
finished); a worker that meets a hidden head sleeps although the queue is not
empty. `leases` is what the slot pool holds, `tx` the submission transactions,
`box` the handoffs with the acknowledgement still to come, `drainOp` and
`cancelOp` the operations that another party may have to resume.

`Release` wakes as many sleeping submitters as slots came back, chosen by TLC,
as `notify()` does; `asleep` holds the workers in `not_empty.wait()`. Deadlines
may pass in any wait of the controller. When a thread cannot
be started, `Start` leaves only some workers. A drain resumed without a reason
of its own (`Resume`) is nondeterministic in the outcome it reports. `execute()`
may hang for ever. A fault is an executor that raises, a worker that dies, a
submission step that raises, a thread that cannot start, or a coordinator that
fails.

Left out: queue-depth transitions and unfinished-task counts (metrics), plain
`get()` and `put()` (the engine uses the operations with a token), a coordinator
or watcher thread that fails to start, deferred handoffs and leases (in
`CompletionCoordinator`).

### MonitoredRun

Three threads. `run` is the runner and then `main.py`; `jobs`, `lane` and
`finished` are the callback lane, which runs `start`, `stop`, `summary` and
`close` of the monitor one after the other; `poll` is the polling thread.
`timedOut` are the jobs the runner gave up waiting for: they still run. `lock`
is `_power_attempt_lock`, held across a collector's read (two actions) and free
otherwise. `files` are the kinds of trace files on disk. `files`, `artifact` and
`report` are compared by the properties. `late` is history: the flag was set when
the polling thread had already looked at it for the last time.

One assumption on atomicity is taken from the code's times: the lane's last look
at the abandoned flag (673) and its release of the lock are one step,
because `abandon_power_trace()` sets the flag and then waits 0.1 s for that lock
before it reads on. It is not made of `finalize_power_trace()`, which waits first
and sets the flag afterwards, without the lock (200, 201): these are two actions,
`FinalizeTimesOut` and `FinalizeGivesUp`, between which the polling thread may
write, look at the flag and end. A publication that fails leaves no final file, unless its removal fails too,
which is a second fault on a file that has just been linked and is left out.

Left out: summaries with their locks, missed deadlines (samples without a
reading), preload sessions, and publication inside `stop()`, which the
asynchronous path always defers.

### ResultStore

One action is one durable change of a file, or a read and the decision taken
from it under the lock. Each change is followed by an `fsync` before the next,
so a power loss leaves what a crash between two actions leaves. `run[p]` is a
process: an asynchronous benchmark, a synchronous one with a power trace, a
server benchmark, or a plain one without reservation; `pc` is its place in
`save_result()` or in the caller's failure path, `row` the row it proposes,
`detailsOk`, `csvOk`, `recover` the local flags of `_persist_async_failure()`.
A fault is a file operation that raises, with or without effect. A row is
abstracted to its kind, its time stamp (by the call that made it) and what side
files it points to: a retry proposes the row with the first time stamp
(`Restamped`) and is then compared as a whole.

Left out: directory and inode identity checks (they succeed or are a fault),
the explicit recovery tool, columns and normalisation, reading views.

### WebJobs

An action is a SQLite transaction, one operation on an Event or an attribute,
or a step of the child. `worker` is the place in `_work()` and, between `spawn`
and `judge`, in `run_process()`. A store call that raises may have had its
effect (the change is committed before the row is read back), hence two
outcomes in `StoreFails`. Outside the `try` block an exception kills the thread,
inside it leads to `fail`. `Crash` ends the server process at any point: its
lock goes with it, its child becomes an orphan, `Start` of the next server
recovers. `StopBegin`, `StopCancelsActive`, `StopJoined` / `StopTimeout`, `Exit`
are the statements of `stop()` and the end of the lifespan.

Left out: the wake-up Event (the worker polls with a time-out, so it changes
only how soon it looks), logs, the result CSV look-up, a change of
`WEB_STATE_DIR` while the server runs.

## 3. What is checked

| Run | Instance | Properties |
|---|---|---|
| `native` | 2 workers, 1 permit, 2 dispatches, 2 callback invocations each | `TypeOK`, `PermitsAccounted`, `BuffersHeld`, `AnswerIsTheTerminal`, `ImplementsContract`, `ExecuteReturns`, `DispatchRetires` |
| `web` | 2 clients, 2 jobs, 1 fault, 1 crash, 1 stop | `TypeOK`, `ChildIsRunning`, `QueueNotBlocked`, `ImplementsContract`, `CancelReaches`, `QueueMoves` |
| `completion_safety` | 2 requests, 2 handoffs, 2 workers, queue of 1, 1 fault, 2 stops | `RecordedOnce`, `ReleasedAfterHandling`, `StopTrueIsClean`, `ImplementsContract` |
| `completion_liveness` | 1 request, 2 handoffs, 2 workers, queue of 1, 1 fault, 1 stop | `StopSettles`, `EnqueuedIsAcknowledged` |
| `async_engine` | 2 requests, 2 workers, queue of 1, batches of 2, 1 fault | `TypeOK`, `LeaseHasOwner`, `NeverRunAndDropped`, `TrueMeansSettled`, `UnloadedOnlyWhenIdle`, `NoSleepOnWork`, `ImplementsContract` |
| `async_liveness` | 1 request, 2 workers, 1 fault | `ShutdownReturns`, `EveryAcceptedEnds`, `WorkersLeave` |
| `monitored_run` | 2 collectors, 3 faults | `PublishedIsSealed`, `BaselineIsQuiet`, `NothingLeftOpen`, `CollectorsReleased`, `ImplementsContract`, `MonitorEnds` |
| `result_store` | one process of each kind, 2 run ids, 2 faults | `RowIsVouchedFor`, `RowTellsTheTruth`, `OneFaultLosesNothing`, `DetailsArePermanent`, `ImplementsContract` |
| four violation runs | the smallest instance that shows it | the findings of section 4 |

The runs have from 54,000 to 2.4 million distinct states.

Why the bounds are enough.

* Executor: with one permit and two workers there is contention, a worker in
  the permit wait while another times out, and a shutdown around it; two
  callback invocations give every pair of late, repeated and overlapping
  callbacks. The theorems cover the larger instances.
* Web: cancellation of one job interferes with at most the next one, so two
  jobs and two clients. One fault and one crash cover every place where either
  can fall.
* Coordinator: two batches that may share requests give a full queue of one, a
  batch settled by another one, and a retry, and let a worker wait for the
  second with the lock while the thread needs it behind the first; a second
  `stop()` sees every state the first can leave.
* Engine: two requests and one place give a full queue, a sleeping submitter,
  a batch of two and a request held back; two workers give one that sleeps
  while the other takes the head; the code's limit of three failed batches in a
  row is 1, so that it is reached. Liveness needs one request, with two workers
  waiting for it and for the stop token.
* Monitor: with two collectors one can fail after the other has started; three
  faults let the start, its undo path and the stop fail in one run.
* Result store: four processes over two ids give a collision of each kind with
  each other one; the second fault lets a recovery fail. `OneFaultLosesNothing`
  speaks of at most one.

Deadlock is checked in the run of the executor; its owner can always call
`shutdown()` again. In all others the system really stops (a run is over, the
bounds on jobs, crashes and stops are used up, the thread has ended), so those
configurations say `CHECK_DEADLOCK FALSE`; that nobody waits for ever is said by
their liveness properties. Symmetry is used only in runs without liveness.

Fairness. Where a step may fail, fairness is required of the step that does not
(`/\ UNCHANGED faults`), so that no exception *has* to happen.

* `NativeExecutor`: threads run, `submit_async` returns ("must publish work and
  return promptly", runtime_executor.py:427), time passes. `ExecuteReturns`
  assumes nothing of the device. `DispatchRetires` assumes in addition, as the
  antecedent `CompletionFairness`, that the device finishes what it accepted
  and calls back, and that the framework acknowledges. No callback is assumed
  for a refused job.
* `WebJobs`: threads run and a server is started again. Nothing is assumed of
  users, of benchmarks, or of the deadline, which is hours. `CancelReaches` and
  `QueueMoves` are about servers that are not shut down and whose ledger works
  (`Undisturbed`); they may crash.
* `CompletionCoordinator`: threads run, and the deadlines of waits with
  `_handoff_retirement_lock` held do pass (`flush_timeout`; 3702, 3716, 3954,
  3969, 4077). A worker waits for one handoff at most three times, at its stop, in
  its handler and once more before it defers it, so one that times out again and
  again gives up: `SF_vars(WaitGivesUp(p))`. No other deadline has to pass.
  Without it `EnqueuedIsAcknowledged` fails: a worker that waits with the lock
  again and again keeps the thread from going on. `StopSettles` holds at the
  checked instance without it, by the weak fairness of the worker's steps alone,
  a wait that times out among them.
* `AsyncEngine`: threads run, and the deadlines of the controller pass.
  `execute()` may hang: nothing is assumed of it, and `WorkersLeave` excepts a
  worker it keeps.
* `MonitoredRun`: the runner's waits have deadlines. For `MonitorEnds` the
  collectors return. The lane has strong fairness, because it competes for the
  lock with the polling thread, which sleeps between two reads and leaves it
  free each time.

## 4. Findings

Each is a run that TLC ends with a counterexample to a statement of the
repository.

1. `web_late_cancel`: `JobManager.cancel()` compares `_active_id` and sets
   `_active_cancel` in two unlocked steps (job_manager.py:101-102). If the
   worker moves to the next job in between, that job is terminated and recorded
   as cancelled, against the test that jobs "can be cancelled independently"
   (backend/tests/test_job_manager.py:78).
2. `web_shutdown`: `stop()` sets `_active_cancel` (64); a worker between the test
   of `_stop` and `clear()` (126-132) erases it and starts a benchmark. The join
   times out and the benchmark survives the server, against the comment in
   backend/app/main.py:24.
3. `completion_wakeup`: `submit()` meets `queue.Full` outside the condition and
   then waits under it without a second look at the queue
   (completion.py:656-661); all notifications may have been given by then. With
   a deadline, as the engine calls it, the batch fails by time-out; without one,
   as tests/test_async_completion.py:825-847 calls it (through the unkeyed
   variant of the same loop, 693-697), the thread sleeps for ever.
4. `completion_late_put`: `submit()` tests the state under the condition (648) and
   puts outside it (656); `stop()` can complete in between, return True, and
   leave the batch in a queue nobody reads. tests/test_async_completion.py:1798-1804
   expects the submission to be rejected and the queue to be empty.

Two more schedules contradict no statement of the repository and have no run of
their own; the properties are stated so that they allow for them.

* A worker that stops with two pending handoffs sees the first acknowledged and
  waits for the second with `_handoff_retirement_lock` held (engine.py:3201-3215).
  The completion thread is then blocked on that lock behind the first (3240 or
  3355), and can acknowledge the second only when the worker's `flush_timeout`
  has passed and it has raised `TimeoutError`. `EnqueuedIsAcknowledged` and
  `StopSettles` say that the stall ends, not how soon.
* `finalize_power_trace()` times out at the lock (base.py:200) because a polling
  thread that a failed `stop()` left behind is in a read. Before the flag is set
  (201) that thread can write its sample, see the stop event, find the flag unset
  (445) and end. The result says failed, but nobody closes the writer: the
  temporary file stays, and its reservation is locked until the process ends.
  `NothingLeftOpen` names this as its only exception (`late`, with a diagnostic
  of `stop()`).

## 5. What is proved

Seven modules of theorems, each about every value of the constants that the
assumption of its module allows.

| Module | Theorem | Property |
|---|---|---|
| `NativeExecutorProofs` | `TypeCorrect` | `TypeOK` |
| | `PermitsSafe` | `PermitsAccounted` |
| | `BuffersSafe` | `BuffersHeld` |
| | `NeverStranded` | `NoStrandedDispatch` |
| | `AnswersSound` | `AnswerIsTheTerminal` |
| | `ShutdownSafe` | `UnloadSafe` |
| | `TerminalsFinal` | `TerminalIsFinal` |
| | `ContractImplemented` | `ImplementsContract` |
| `CompletionProofs` | `TypeCorrect` | `TypeOK` |
| | `CompletionIsCountedOnce` | `RecordedOnce` |
| | `ThreadLeavesNobody` | `NoneLeftBehind` |
| | `BuffersReturnLast` | `ReleasedAfterHandling` |
| | `StopTellsTheTruth` | `StopTrueIsClean` |
| | `TerminalsAreFinal` | `TerminalIsForGood` |
| | `ContractImplemented` | `ImplementsContract` |
| `AsyncEngineProofs` | `TypeCorrect` | `TypeOK` |
| | `SlotsHaveOwners` | `LeaseHasOwner` |
| | `RunOrDropped` | `NeverRunAndDropped` |
| | `TrueIsSettled` | `TrueMeansSettled` |
| | `UnloadIsSafe` | `UnloadedOnlyWhenIdle` |
| | `NobodyOversleeps` | `NoSleepOnWork` |
| | `Implements` | `ImplementsContract` |
| `ResultStoreProofs` | `TypeCorrect` | `TypeOK` |
| | `RowsAreVouchedFor` | `RowIsVouchedFor` |
| | `ConsumedRowsStay` | `ConsumedHasRow` |
| | `RowsTellTheTruth` | `RowTellsTheTruth` |
| | `DetailsStay` | `DetailsArePermanent` |
| | `ContractImplemented` | `ImplementsContract` |
| `ResultStoreFaultProofs` | `NothingIsLost` | `OneFaultLosesNothing` |
| `MonitoredRunProofs` | `ReportsMatch` | `ReportMatchesFile` |
| | `PublishedSealed` | `PublishedIsSealed` |
| | `BaselinesQuiet` | `BaselineIsQuiet` |
| | `AllClosed` | `NothingLeftOpen` |
| | `AllReleased` | `CollectorsReleased` |
| | `ContractImplemented` | `ImplementsContract` |
| `WebJobsProofs` | `TypeCorrect` | `TypeOK` |
| | `ChildSupervised` | `ChildIsRunning` |
| | `QueueFree` | `QueueNotBlocked` |
| | `TerminalsFinal` | `TerminalIsFinal` |
| | `ContractImplemented` | `ImplementsContract` |

Each module also states `Invariance` (`FaultInvariance`), the inductive
invariant `IInv` (`FaultInv`), from which the others follow. In no run are
`NoStrandedDispatch`, `UnloadSafe` and `TerminalIsFinal` of the executor,
`TypeOK`, `NoneLeftBehind` and `TerminalIsForGood` of the coordinator, `TypeOK`
and `ConsumedHasRow` of the store, `ReportMatchesFile` of the monitored run, and
`TerminalIsFinal` of the job queue; the contracts say as much in the runs where
they are checked.

**Executor.** `ExecutorAssumption`: workers are finite in number, the bounds are
naturals, `MaxInflight` is positive (the constructor enforces it), and a
callback outcome is not one of the executor's own markers. None of the
properties is inductive alone. `BuffersHeld`, for instance, is preserved by
retirement only if a dispatch counted as physically complete is not running,
which holds because the flag is set by exactly three parties: the gate before
anything was submitted, a submit failure before any callback began, and a
callback, which the SDK makes only for a finished job. `IInv` says this step by
step: a worker past registration owns one dispatch and no two share one
(`OwnDispatch`, `OneOwner`, `Numbered`); a dispatch that left the table was
acknowledged and physically complete (`RetiredProperly`); how flags, place of
the worker and state of the SDK's job fit together (`FlagsSound`,
`PhaseSound`); terminal and outcome agree until retirement drops the outcome,
which is after the caller has read it (`OutcomeSound`); after a drained shutdown
no worker is past registration (`ClosingSound`). `PermitsAccounted` needs facts
about cardinalities and has lemmas of its own. In the refinement `Register` maps
to `Admit`, `SdkAccept` to `Begin`, `SdkFinish` to `Finish`, `Return` to
`Answer`, a retiring `Acknowledge` or `CallbackCommit` to `Release`, the first
`Shutdown` to `Close`, every other step to a stutter.

**Completion coordinator.** `CoordinatorAssumption`: requests and keys are
finite in number, the sentinel is no key, `stop()` is not called by a worker,
the queue has a place. The hard part of `ReleasedAfterHandling` is that three
parties acknowledge a handoff, and each decides from what it sees of the ledger.
`IInv` says what they see: the batch in the thread's hands is made up of members
still pending, the one at work and members that are over (`ThreadInv`), so an
acknowledgement by the thread means all are over; an acknowledged, retired or
released handoff has a batch that is done (`BatchInv`), and so has a worker past
its wait, between the ledger and the lease as well (`WorkerInv`). The lock plays no
part in it: the ledger alone decides. A claimed record belongs to the thread's current request
or was left by a crash with a fault on the books (`LedgerInv`), which is why the
clean-up may commit it without counting it again. The sentinel is in the queue
only after `stop()` has closed registration (`QueueInv`), so the snapshot of the
clean-up holds everything that will ever be outstanding, and once `stop()` has
said True nothing is (`EndingInv`). One lemma per action; `TerminalIsForGood`
follows from the same invariant. In the refinement the phase of a request is
read from the reservations, the outstanding requests and the ledger (`Phase`);
the ledger decides only for a request that is in neither of the first two. The
lemmas `IsReserved` .. `SaysTrue` say once for each promise what a step must
have changed to keep it, and `Silent` what one must leave alone; each action is
then shown to be one of them. `Reserve`, `Commit`, `Abort` and `Unregister` map
to `Reserve`, `Accept`, `GiveUp` and `Withdraw` (to `End`, if the terminal is
committed already), `Submit` to `HandIn`, `RecordTerminal` to `Count`,
`CommitTerminal`, `Pop` and the commits of the clean-up to `End` when they take
a request from `outstanding` or end a withdrawn one, `Release`, `RetireLease`,
`Notify` and a worker that retires or defers its pending handoffs to `Return`, the first `stop()` and a
crash to `Close`, a call that raises, for the first time, to `Degrade`.

**Engine.** `EngineAssumption`: requests and workers are finite in number, the
capacity, the batch size and the limit of failures are positive, no request is
the stop token. `IInv` has one part per question that the threads answer for
each other. Where is a request? In the queue, in the open drain, with one
worker, run or dropped, and in one of these only (`PlaceInv`); what is hidden
is queued (`QueueInv`), so a drain cannot take a request that is still being
published. What has been said of it? `SubmitInv` relates the place of its
submitter to the metrics' journal, the coordinator's registration and ledger;
a submission cut off by `shutdown()` meets an engine that is not running
(`CutInv`), which is why it cannot be accepted after it was recorded as
rejected. Who returns a slot? `LeaseInv`. What has the controller seen while
it may still answer True? First that no submitter is left, later that no worker
is, and that the coordinator has stopped, in the order that depends on `flushed`
(`EndInv`, with `ControlInv` and `ClosedInv`). Who takes the head of the queue?
An awake worker at `take()` or waiting for a candidate (`SleepInv`): the wake-up
of one is enough because whoever takes the head wakes all when another visible
one follows. The lemma `Frame` says which variables each part depends on, so
that each action's lemma treats only the parts it can disturb; a drain, which
five actions do, has lemmas of its own. In the refinement `Publish` and an
acceptance that raises map to `Accept`, the ways of being refused to `Reject`,
what `submit()` returns to `Answer`, the coordinator's records to `End`,
`Finish` to `Shutdown`, failures and `CloseSubmission` to `Close`.

**Result store.** `ResultStoreAssumption`: a process has one mode, only
asynchronous and power runs preload, `None` is no id, process or row. That a row
is the vouched-for one is not inductive: the step that writes the row must know
that the pending file holds it and that there is no row yet, which was read
earlier, under the lock. So `IInv` says what a process in the middle of a save
knows (`SaveSound`) and that it holds the lock (`LockSound`); that a marker is
owned by the one run that has the id, so that nobody else touches its files
(`OwnerSound`); that an id without a marker has no state files or details
(`FilesSound`). For `RowTellsTheTruth` the proposed rows and the state files
must agree with the details on disk (`RowTruth`, `FileTruth`), details must be
unpublished before the measurement ends (`DetailsTruth`), and an asynchronous
run that retries or inspects its normal save has its normal details out
(`AsyncTruth`). Lemma `Frame` carries every other run over a step, one lemma per
action does the rest. In the refinement `PublishPending` maps to `Intend`,
`WriteRow` to `Record`, `PublishConsumed` to `Close`, `Delete` to `Delete`,
each also in its failing form, every other step to a stutter.

**One failure loses nothing.** `OneFaultLosesNothing` looks at the end of a run
and back at the number of failures. `FaultInv` says what holds on the way: a run
that is measured, has no row and has met at most one failure is at one of seven
places (`AtRisk`), and at each of them the row can still be had without luck. A
first save has its normal row at hand and an empty pending file; where the
failure path stands a failure has been counted, so the next operation works;
what it finds in the pending file is nothing, or the normal row, which it then
repeats as it was; and it replaces a row only if none was begun. The final
failure is written only after a second failure or a row. Lemma `Elsewhere`
carries the other runs and the deletions of the web API over a step, `Itself`
says what is left to show of the run that moves, one lemma per action shows it,
from `IInv` of `ResultStoreProofs`.

**Monitored run.** `MonitorAssumption`: the collectors are finite in number. The
properties compare what the runner decides at the end with what callbacks given
up earlier may still do. `IInv` therefore says, at each point of the runner,
which jobs of the lane have been asked for (`AskedSoFar`, `StopFollows`), in
which order they run (`Queue`, `Order`), that a time-out has marked the result
(`TimeoutsNoted`), who holds the lock (`LockSound`), what start and stop have
left behind (`StartSound`, `StopSound`), how writer, files and status fit
(`TraceSound`), and that an open trace of an ended run is left to a thread that
will close it, unless the flag came too late (`LeftToSomebody`). Which it can
only behind a `stop()` that failed (`Yielded`): when no job was given up, the
lock that keeps `finalize_power_trace()` waiting is held by the polling thread,
which a `stop()` that has ended without a diagnostic would have joined. The
refinement reads the state of the trace
from writer, files and `_power_stop_ready`; without a writer or a published file
the place of `start()` decides between none yet and none any more. It needs one
fact more, `Untouched`: a start that did not get to the trace leaves the status
`unavailable`, which is what the run then reports. `PrepareTrace` maps to `Open`,
or to `Lose` when there will be no trace; `LaneReads` and `PollRead` map to
`BeginSample`, the action that writes to `EndSample`; `FlushTrace` maps to `Seal`
or `Lose`, `Finalize` to `Publish` or `Lose`, `Abandon` and `FinalizeGivesUp` to
`GiveUp`; whoever closes the writer, to `Lose`, and holds the lock then, so that
no sample is being taken.

**Job queue.** `WebJobsAssumption`: the bounds are naturals and the clients finite
in number. The invariant couples the worker's place with the ledger: a claimed row is running
(`ClaimedIsRunning`), no other row is while the worker lives
(`OnlyClaimedRuns`), a live child has its supervisor and a supervisor its child
(`LiveIsSupervised`), a result is there once judged (`Judged`). In the
refinement the job in charge is that of a worker between `claim_next()` and the
`finally` block, the device is seen through the child processes of this server,
and the verdict is the result of `run_process()` between `judge` and `record`.
`OnTheDevice` then says that a supervised benchmark is that of the job in
charge, which makes every settlement come behind it. `Claim` maps to `Take`,
`Spawn` to `Launch`, `PollExited`, `WatchCancelled`, `DeadlinePassed` and a
failing `StorePid` to `Reap`, `Judge` to `Interrupt`, `RecordResult`,
`RecordFailed` and `Recheck` to `Settle`, each of them without effect on the
ledger and every other way out of a job to `Drop`, `Start` and `StopJoined` to
`Recover`, `Crash` and `Exit` to `Crash`.

Only model-checked: the liveness properties (`ExecuteReturns`,
`DispatchRetires`, `CancelReaches`, `QueueMoves`, `StopSettles`,
`EnqueuedIsAcknowledged`, `ShutdownReturns`, `EveryAcceptedEnds`,
`WorkersLeave`, `MonitorEnds`), since fairness and `ENABLED` are beyond the
prover. Every invariant, action property and refinement that a passing run
checks is proved.

## 6. What is left

1. The coordinator and the executor composed through `acknowledge()`, to show
   that `CompletionFairness` of the executor is what the coordinator provides.
2. `core/preload_power_session.py`: its phases around the model load, and
   publication inside `stop()` on the synchronous path.
3. Producers: schedules and the open-loop backlog, with drops.

## 7. Not modelled

The models cover the protocol code, about a ninth of the implementation. The
rest has no states or interleavings to check:

* vendor runtimes, adapters and collectors: calls into SDKs, which appear as
  external steps that may take any time, fail, or call back late;
* compilers, decoders, evaluators, loaders, preprocessors, time-series models,
  power arithmetic, percentiles and windows of `metrics.py`: numeric and
  data-format code. Sequential; its inputs are arrays, not events;
* option parsing, assembly, registries, schemas, views, preflight, front end:
  stateless;
* the synchronous pipeline: one loop, no concurrency and no state of its own;
* preload power sessions beyond their early reservation and exit callback,
  metrics and request traces beyond one step that may fail, trace replay;
* time beyond "the deadline has passed": no bound on a duration is checked;
* liveness, `ENABLED` and what a recursive definition computes for every input
  are out of the prover's reach and left to TLC.

## 8. Running

    tlc -workers 2 -config Native.cfg MCNativeExecutor.tla
    tlapm NativeExecutorProofs.tla

and likewise `Web*.cfg` with `MCWebJobs`, `Completion*.cfg` with
`MCCompletionCoordinator`, `AsyncEngine*.cfg` with `MCAsyncEngine`,
`ResultStore.cfg` with `MCResultStore`, `MonitoredRun.cfg` with
`MCMonitoredRun`. Each run takes at most a few minutes, each module of proofs
as well.
