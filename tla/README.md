# A TLA+ model of zapret's coordination logic

zapret is a Windows GUI (PyQt) around two packet engines, `winws.exe` and
`winws2.exe`. The program's own core is not the packet engine but what surrounds
it: who starts, stops, restarts and replaces the engine process, on which thread,
in which order, and what the window says about it; beside it the settings every
thread edits, the write queue of a preset page, the Telegram proxy with its
choice of upstream servers, and the updater's choice of its own. That is what these modules model. Paths below are relative to the repository.

## 1. The system

### Components

| Component | State it keeps | Operations | Hard behaviour | What makes it correct |
|---|---|---|---|---|
| **Launch state service** `winws_runtime/state/launch_runtime_service.py` | phase, busy, expected executable, pid, consecutive misses | `begin_*`, `mark_*`, `bootstrap_probe`, `observe_process_details` | observations race with starts and stops; three misses before a process is gone | a transition phase has a worker behind it; a dead process is noticed |
| **Launch coordinator** `winws_runtime/runtime/` | request and completion generations of restarts and preset switches, three worker threads, retry timers | start, stop, restart, complete restart, preset switch, and the finished slots of the workers | handlers run between steps of three workers; a thread is still `isRunning()` in its own finished slot | newest request is served, once; no worker is overwritten; busy is taken off |
| **Selected preset coordinator** `core/runtime/preset_runtime_coordinator.py`, `winws_runtime/flow/preset_switch_policy.py` | selected preset, apply timer, debounce timer, file watcher | preset switched, content changed, apply | timers fire after the state they were set for has changed | the preset that runs is the selected one |
| **Strategy runners** `winws_runtime/runners/` | state machine, running process, lock, retry counters | start, stop, fast switch, exit watcher, restore of the previous preset | spawn and stop under one lock, watcher threads outside of it | at most one engine, no orphan, one failure report |
| **Process monitor** `winws_runtime/monitoring/` | last emitted details | poll every 2 s, replaced when the method changes | emits on change only, queued to the GUI thread | each death reaches the service |
| **Unexpected exit handling** `app/feature_facades/runtime_parts.py`, `winws_runtime/health/post_mortem.py` | auto-restart stamps of ten minutes | queued exit event, diagnosis, auto-restart | event arrives after the phase has changed | bounded restarts |
| **Method change, stop and exit, conflict dialogs, scan guard** `method_switch_flow.py`, `stop_flow.py`, `conflict_flow.py`, `scan_guard.py` | polling deadlines, numbered requests | change winws1/winws2/orchestra, quit, answer a dialog | polls state others change, answers late | no launch of the old method after a change |
| **Settings store** `settings/store.py`, `utils/atomic_text.py` | cache, file signature, file | read, update, reset, backup of a corrupt file | crash between writes, other writers, cache against file | no update is lost, user data is never overwritten without a copy |
| **State store** `app/state_store.py` | snapshot, subscribers | set, subscribe | reentrant notifications | subscribers converge to the last snapshot |
| **Updater servers** `updater/server_pool.py`, `updater/release_manager.py` | selected server, failures, blocks and average of each, cache of all versions | fetch, record success or failure, switch | fetches of several threads without a lock, statistics of earlier sessions | a healthy server is found again and again |
| **Update checks** `core/runtime/update_check_coordinator.py`, `updater/` | token and phase of a check, rate limits | begin, finish, record | two initiators, persisted records | one check at a time, results only of the current token |
| **Telegram proxy upstream** `telegram_proxy/proxy/upstream_controller.py`, `upstream_runtime.py` | active SOCKS endpoint, health, probe, generation, connection slots and queue | connect, verdicts, probe, change of configuration, close | asyncio tasks interleave at every await, cancellations get lost | verdicts of old generations change nothing, one probe at a time, each slot given back once |
| **Telegram proxy lifecycle** `telegram_proxy/manager.py`, `telegram_proxy/__init__.py`, `wss_proxy.py` | current runtime, its loop thread, listening socket | start, stop, stop of the runtime only | threads of page, tray and autostart; clients that stay connected | no proxy out of reach, the port is free after a stop |
| **Orchestra** `orchestra/` | learnt, locked and blocked strategies | lock, unlock, block, learn from the log | log lines and user decisions interleave | a blocked strategy is never locked |
| **Presets and profiles** `presets/`, `profile/` | files, indices, write queues | edit, select, import, reorder | file watchers, queued writes of one preset | the last write of an item wins |
| **UI worker queues** `ui/one_shot_worker_runtime.py`, `ui/queued_worker_state.py`, `ui/latest_value_worker_state.py`, `profile/ui/preset_write_queue.py` | running worker, pending items, scheduled start | request, finish, scheduled start, cleanup | a request between a finish and the scheduled start | one worker at a time, nothing pending is forgotten |
| **Start-up and single instance** `startup/`, `main/` | mutex, show event, start-up stages | acquire, signal, stages | second instance during start-up | the window is shown |
| DNS, hosts, lists, blockcheck, diagnostics, donations, Discord, log, autostart, Windows features | files and system settings | I/O | little coordination | not modelled, see section 7 |

### How they interact

The window and the tray call the coordinator on the GUI thread. It creates a worker
object, moves it to a new `QThread` and returns; the worker calls the runner, whose
lock is held through a spawn and through a stop; the worker's `finished` signal
brings a slot of the coordinator back, which changes the launch state service and
requests what is still open through zero-delay timers. A daemon thread per spawned
process waits for its exit and queues an event; the process monitor thread polls
the process list and emits changes. The launch state service is what the pages
show and what the next request looks at.

The pages save through the settings store, which any thread may enter, and through
queues that give each write a thread of its own. The Telegram proxy has an event loop in
another thread, which the manager starts and stops from whatever thread calls it; in the
loop each connection of a client is a task that asks the upstream controller for a server
and reports back what it saw. Update checks run in threads of their own, at start-up and from
the settings page, and share one pool of servers.

## 2. Plan

1. `RuntimeService`, `LaunchRuntime`: the service, the coordinator with its three
   kinds of workers, the selection, the exits. **Done**, see below.
2. `LatestRequest`: what a generation counter promises. **Done**; the restart and the
   switch counters are shown to implement it.
3. `PresetRunner`: the runner's state machine, `start`, `stop`, fast switch with
   hand-over and restore, spawn retries, exit watchers of replaced processes. **Done** for
   `Winws2StrategyRunner`, with the theorems that no process is lost and that a switch
   replaces before it takes away. Left: `Zapret1StrategyRunner`, and an abstract runner
   (one outcome per operation) that both the runner implements and the coordinator uses.
4. `UpstreamController`, `UpstreamRuntime`: fail-over among SOCKS servers with the
   connection executor. **Done**, with proofs.
5. `SettingsStore` with failures, crashes and other writers. **Done**, with proofs.
6. `SerialWriter`, `WriteQueue`: what a queue of one-shot workers promises, and the queue of
   a preset page that refines it. **Done**, with the refinement and the kept latest state
   proved.
7. `ProxyLifecycle`: starting and stopping the Telegram proxy. **Done**, with proofs for
   calls that do not overlap.
8. `ServerPool`: how the updater fails over among its servers. **Done**, its types proved.
9. Left: `ProcessObservation` (queued observations, monitor replacement), `MethodSwitch`,
   `StopAndExit` and conflict dialogs composed with the coordinator, `SocketPool`, `UpdateChecks`,
   `RateLimit`, `SingleInstance`, `LockedStrategies`, the queues of the other pages
   as further refinements of `SerialWriter`.

## 3. Modules

**`RuntimeService`** has no variables. A service state is a record and each method of
`LaunchRuntimeService` is an operator from record to record, named after the method
(`BeginStart` is `begin_start`). `launch_running` is not a field since all writers set it
to `phase = "running"`. `Observe` is `observe_process_details`; `details` is a
function from executables to the sets of their processes, `alive` the processes that
answer the direct liveness check.

**`LaunchRuntime`** is the coordinator with everything it starts.

| Variable | Code |
|---|---|
| `choice` | selected preset, pending apply timer of the coordinator, debounce timer; `skipped` remembers that the policy dropped the selection because DPI was not running |
| `switch`, `restart` | `_presets_switch_*_generation`, `_restart_*_generation`; `wait` (restarts only) is the 200 ms retry timer, `calls` the queued `singleShot(0, ...)` calls |
| `svc` | the service record |
| `startThread`, `stopThread`, `switchThread` | the three worker threads: program counter and the worker's locals; `lost` says that the runner instance the worker holds is no longer the factory's |
| `runner`, `tracked`, `winws` | state of the factory's runner instance (`"none"` without one, or with one that is idle), what it knows about its process, the preset of the engine that really runs |
| `reported`, `exitEvents`, `autoRestarts` | last emission of the monitor, queued exit events, stamps of the auto-restart window |
| `events` | user requests and deaths so far |

Every handler of the GUI thread is one action with everything it calls:
`ProcessPendingRestart` contains the `stop_dpi_async` or `start_dpi_async` at its end,
`StopFinished` the start it continues with, `StartFinished` both requeued calls. A
worker's `run()` is cut at the points where it reads or changes what others see: the
generation check, the read of the selection, taking the runner's lock, the spawn, the
report, the finished slot, and the end of the thread. `LockHeld` is the
`_state_lock` of the factory's runner. A handler that asks the runner for a snapshot
has to take the lock: `SnapshotFree` guards it, so the GUI thread waits for the spawn or
the stop that holds the lock. A worker that waits for the lock of an instance which
a stop drops meanwhile goes on with that instance, whose lock excludes nobody
(`MayLose`, `OnRunner`). A finished worker's thread remains `isRunning()` in its own slot
because `quit()` is only a request (`Quit`), and it remains so until the thread ends in a step of
its own, `StartExits` (`StopExits`, `SwitchExits`): requests, timers and the slots of the other workers
come before that step or after it.

Decisions that depend on data are choices: whether a spawn succeeds, whether a preset
compiles, whether an exit has a transient cause. `StopMayFail` and `PrepareMayFail`
name two choices that some runs switch off. The start worker stops the previous process in one step
(`StartPrepares`: `shutdown_runtime_sync`, the wait of up to five seconds and the last resort), which
may fail; the worker goes on in either case, and the spawn stops what is left under the lock.

**`LatestRequest`** is the abstract specification of a generation counter: requests are
numbered, serving raises the served number to some later request, and with fairness the
newest is served in the end. `LatestRestart` and `LatestSwitch` in `LaunchRuntime` are
its instances with `requested` and `served` mapped to the counters of the code.

**`PresetRunner`** is one instance of `Winws2StrategyRunner`, which the coordinator model
treats as two steps under a lock: what happens in between.

| Variable | Code |
|---|---|
| `state` | `PresetRunnerStateMachine`; `Allowed` is its table |
| `tracked` | `running_process` |
| `alive` | the engine processes that run |
| `abandoned` | processes the runner dropped without having seen them exit |
| `watcher`, `notified` | the exit watcher thread of each process, and the processes it reported |
| `lock` | holder of `_state_lock` |
| `call` | the operation each calling thread is in: point of the code, old process of a switch, attempts made, what the last exit code allows, whether `is_current()` is false by now |

An operation is cut where another thread can see or change something: the entry before
the lock, each change of the state or of `running_process` (watchers look without the
lock), each spawn and kill, and each question to `is_current()`. `StartEnters` and its like reject a transition the way the table does. Exit
codes are three: final, retried by both operations or by the one without an old process
(`"retry"`: conflicts, transient service errors, auto-fix), and the DLL initialisation
failure that a switch with an old process retries too (`"dll"`).

The coordinator model and this one meet in the lock, the order of spawn and hand-over and
the exits; that the coordinator's worker steps are a refinement of these operations is
planned.

**`UpstreamController`** is `UpstreamStateController`. Its methods never wait, so each is one
predicate on the controller's variables (`endpoints`, `active`, `generation`, `probe`,
`unavailable`, `connFails`, `zeroRecv`), named after the method. `Offered` is what
`select_attempt` may return. The clock is abstracted: a server is in `unavailable` until a
step of time ends its retry delay, and which of the recorded failures fall out of the
window of observation is a choice. The lengths of the delays, which grow with each failure, are left out.

**`UpstreamRuntime`** is `UpstreamConnectionExecutor`, with the controller below it and the
tasks of the proxy above it. One event loop runs all tasks; a step goes from one await to
the next and includes every controller call and callback it makes.

| Variable | Code |
|---|---|
| `pc` | await a task is in: handshake semaphore, dial, close of a stale connection, relay |
| `attempt`, `verdict` | `UpstreamAttempt` and `verdict_recorded` of its connection |
| `registered` | the generation under which `_tasks` holds it |
| `cancelled` | a cancellation is under way; `CancelCanBeLost` lets a finished wait win over it |
| `free`, `queued` | value of the semaphore, `_queued` |
| `bad` | history only: bad verdicts on each server while it was the active one |

`FirstResponse`, `RelayEnds` and `RelayBreaks` are the reports of the relays in `wss_proxy.py`.
`CancelledAfter` is `_handle_transition`: after a change of the active server the tasks of the
former generation are cancelled, except the one that reports.

**`WriteQueue`** is `PresetWriteQueue` with its `QueuedWorkerState` and five
`OneShotWorkerRuntime`s. `Request` is any of the `_request_*` methods: it starts a worker, or
queues the operation where it may replace one that waits (`Supersedes`, `Queued`).
`ThreadEnds` is the end of `run()`, from which on `isRunning()` is false; `FinishHandled` the slot
of `finished`, which takes the next operation out of the queue and schedules it;
`RunScheduled` the single shot. A page looks at the button that adds a user profile (`addEnabled`) only when it opens the
dialog, so a request to add one may come whatever the button is by then. `Cleanup` closes the page. `asked`, `lastAsked`, `lastWritten` and
`overtook` are history.

**`SerialWriter`** is what such a queue promises: each operation is performed once, one at a
time, unless one that replaces it waits or the page is closed. `WriteQueue` implements it
with `phase` computed from threads and queue.

**`SettingsStore`** is `settings/store.py`. The settings are two sections: `locked`, edited by a
function that runs under the lock, and `profiles`, which `user_profiles/service.py` reads, changes and
writes back with the lock released in between; each thread edits its own entry of each.
A file is missing, corrupt, raw (an older schema, not normalised) or normal. An operation
is cut at every step another process can see and every step that can fail: look at the cache,
read, backup, replace, signature, fill. `Crash` may come between any two of them, `External`
is another writer of the file. `intended` and `raced` are history: the `locked` section
according to the completed writes, and that the file was changed from outside during an operation.

**`ProxyLifecycle`** is `TelegramProxyManager`, the `TelegramProxyRuntime`s it creates and
`TelegramWSProxy.start` and `stop`. `current` is `_runtime`; `refs` the runtimes whose `_loop` and
`_proxy` are set; `loop`, `running`, `stopping`, `halted` the loop thread, `_running`, the stop coroutine and
`loop.stop()` of each runtime; `port` who listens; `clients` who has a client connected; `pc`, `target`, `kind` the calling threads.
`Overlap` says whether calls of different threads may overlap.

**`ServerPool`** is `ServerPool` and `ReleaseManager._try_server_pool`, from the point where GitHub and
Telegram gave no release. Nothing of it is locked, so the calls of the pool are separate steps and each
call is cut where it reads or assigns what other threads change: `record_failure` counts
(`CountFailure`), looks at the count again (`Judge`), blocks (`Block`), and leaves the selected server as
`_switch_to_next_server` does, which lists the servers that are available (`List`), chooses among
them (`Pick`) and assigns the choice (`Assign`). `force_switch_server` goes the same way after
`SkipBlocked`, and `record_success` after `CountSuccess` compares averages (`Compare`) before it
assigns. A server may thus be blocked between being listed and being selected, and succeed between
being found failing and being blocked; fetches of other threads do anything in between. What stays
whole: each counter is changed by one statement, and `Compare` takes its averages and the list at one
moment, a loop that reads values other threads replace one at a time. A request is `Ask`
and one of the answers.

| Variable | Code |
|---|---|
| `selected` | `selected_server` |
| `failures`, `pace` | `consecutive_failures`, counted up to the limit since nothing tells higher counts apart, and `avg_response_time`, one of a few times: the moving average lies between the old one and the new time |
| `blocked`, `vpsBlocked` | `blocked_until`, `_vps_block_until` lie ahead |
| `cache` | all versions of the last thirty seconds: none, with the channel asked for, or without it |
| `fetch` | what each thread is doing, with its locals: the server it looked up (`at`), the protocol, the servers tried, the attempts, what a switch chooses from (`options`) and where the thread goes on after it (`onward`) |
| `result` | what the last fetch of each thread returned |

The numbers of the servers are their order in `VPS_SERVERS`, `Known` those with an entry in the
persisted statistics. Weights are left out, a random choice is any choice. The status worker of
the settings page is created without `update_pool_stats` and only fills the cache (`CacheFilled`).

**`MCLaunchRuntime`**, **`MCUpstream`**, **`MCWriteQueue`**, **`MCSettingsStore`** and **`MCServerPool`** define the
values of constants and symmetries; `MCSpec` of the first fixes the preset that is selected at first,
which loses nothing since presets are only compared. The modules named `*_proofs` hold the proofs.

What is abstracted in the coordinator: at most one engine process; the second generation check of the switch worker is merged with the one the
runner makes through `is_current`; `verify_dpi_process_running` always confirms at once
(it marks the launch running before it asks, and one miss does not take that back), so
its retries are not modelled; the failure event of a launch is part of its finished
slot; the branch of `process_pending_presets_switch` for methods without presets is
unreachable from `switch_presets_async`. Two branches wait for a runner in transition (the deferral at the
head of `process_pending_restart_request` and `_schedule_pending_preset_switch_retry`).
`TransitionUnderLock` shows that no snapshot finds one, hence they are left out; the
exception would be a `terminate()` that raises and leaves the runner in STOPPING.

Abstracted in `PresetRunner`: `terminate()` and `kill()` end a process and do not raise;
engines that the runner did not spawn are left out; preset paths, labels and arguments
are left out, and so are error texts and their publication; the five retry counters of
`runner_base.py` and its callers are one bound (`RetryLeft`), hence that they allow no third attempt
together is assumed; a process object is used again once nothing refers to it, so that `Procs`
bounds the processes that exist together and not the spawns; the pauses and the driver
cleanup have an outcome and no duration.

**Assumption on signals.** `PresetLaunchRuntime` is not a `QObject` and
`start_worker_thread` connects its finished slots after `worker.moveToThread`. The model
has slots run on the GUI thread one after the other, as the comments of the code say.

## 4. Properties and runs

| Run | Checks | Bounds | Result |
|---|---|---|---|
| `launch_holds` | `TypeOK`, `TransitionUnderLock`, `TransitionHasWorker`, `BusyHasWorker`, `RequestsKept`, `NoWorkerReplaced`, `NeverRestartsServed`, `SuccessIsCurrent`, `RestartsLatest`, `SwitchesLatest`, `RequestsEnd` | 2 presets, 3 events of all six kinds, all outcomes | holds |
| `restart_lost` | `RestartsServed` | 2 restarts of 1 preset, no launch refused, no stop fails | violated |
| `death` | `DeathIsNoticed` | 1 death | violated |
| `runner_holds` | `TypeOK`, `NoneLost`, `RestsConsistent`, `RunningDeathReported`, `ReplacedFirst`, `LockReleased` | 2 callers, 3 processes, any number of calls and deaths | holds |
| `upstream_safety` | `TypeOK`, `ProbeHasOwner`, `ActiveIsUsable`, `RelaysUseActive`, `SlotsAccounted`, `SwitchNeedsEvidence` | 3 tasks, 2 servers in both orders or none, limits of 2, 1 slot, 1 place in the queue, 5 generations, lost cancellations | holds |
| `upstream_progress` | `HandshakeEnds`, `NotRefusedForever` | 2 tasks, 3 servers or none, 4 generations | holds |
| `queue_holds` | `TypeOK`, `OneWriter`, `AddingIsBlocked`, `LatestUnlessOvertaken`, `WaitingEnds`, `ImplementsSerialWriter` | 6 operations on 5 workers, each once, in any order | holds |
| `queue_latest` | `LatestStateKept` | the same | violated |
| `settings_safety` | `TypeOK`, `MaterializedCacheIsFile`, `LockedEditsSurvive`, `OperationsReturn` | 2 threads, any number of operations, 4 versions of the file | holds |
| `lifecycle_serial` | `NoOrphan`, `StopFreesPort`, `CallsReturn` | 2 callers, 3 starts, calls one after the other | holds |
| `lifecycle_overlap` | `NoOrphan` | 2 callers, 3 starts, calls overlap | violated |
| `pool_finds` | `TypeOK`, `KeepsFinding` | 2 servers, both with statistics, the last by priority healthy, the other may lack the channel, 2 threads | holds |

For the coordinator, three events are enough for the interesting overlaps: a restart or a stop inside a
switch inside another request, a death inside each of them, and a repeated request while
the first is at any point. Two presets are enough to tell the selected preset from
another one. `launch_holds` uses no symmetry, since it checks liveness; it starts with one of the two
selected. One automatic restart reaches
the limit of the budget. The runner needs no bound on calls since its state is finite: two callers are
one that holds the lock and one that enters or becomes stale meanwhile; three
processes are the old one of a switch, its replacement, and one that hung or whose
watcher is still at work. `runner_holds` uses no symmetry, which would not be sound for its
liveness property.

Three tasks of the upstream are one that holds the slot, one that waits and one that is
refused or relays; two servers make every fail-over a decision between the other one and none.
The failure counts of a server survive its tenure, so it takes five generations for a
late count to complete a limit. Three servers in `upstream_progress` make the next server a
choice. A generation that would pass `MaxGeneration` is not taken, which cuts behaviours
short but adds none: no fairness rests on such a step. The queue has two requests that
replace each other, one that does not, one of each other worker, and two of user profiles;
every operation is asked for at most once, and a second page is not modelled. Four
versions of the settings file allow a read, a foreign change, a write and another
change. Three starts are two runtimes that are still ending and a third one.

Two servers and two threads make one thread fail
with a server the other has left, and every switch a decision between the other one and none. All
failure counts and blocks are initial states, as an earlier session may have left them. One response
time above the threshold makes every success look for a faster server, and one that was never measured
counts as faster. A block ends only between fetches
(`Outlasting`): it lasts an hour and a fetch a minute.

What the coordinator's run shows of requests. A handler that finds a worker running returns, and
relies on that worker's slot or on a timer to call it again. `RequestsKept` says so of every step: an
open restart or switch has somebody who comes back to it (`RestartAwaited`, `SwitchAwaited`), and
loses them in three ways only, each named in the formula. The request is looked at while a thread
has run its slot and not ended (`RestartMeetsExiting`, `SwitchMeetsExiting`), the start it calls is refused
(`StartRefused`), or the stop it waits for fails or finds the engine running again (`StopInVain`). `BusyHasWorker`
says the same of the busy indicator: a busy service has a worker at work or a queued call for an open
switch, and comes to have neither only when the handler of a switch meets such a thread. `RequestsEnd` says
that what has somebody who comes back is served in the end. That the newest request is always served is more
than the code keeps: `restart_lost`.

What the pool's run shows. That no blocked server is ever selected is false in the code (a second thread
blocks it between `List` and `Assign`), and harmless as such: the next attempt skips it.
What matters is that a fetch finds a healthy server, and `KeepsFinding` holds under assumptions its
definition names (`Assumed`): every server has an entry in the statistics, at most one
answers without the channel, and nobody else caches such an answer; and threads must all be idle now and then.
Each of the first three is needed: without it TLC finds a behaviour in which no fetch ever succeeds again,
described below among what was seen.

What the violations mean:

* `restart_lost`: the slot of the start worker asks its thread to quit and returns. A restart that is requested
  before the thread has ended finds it `isRunning()`, `process_pending_restart_request` returns (lines
  158-164) and schedules no retry; nobody calls it again until another worker ends or the user asks. The trace has a click in this
  window; the zero-delay call which the slot itself queues for a restart that came during the start may
  fall into it as well. The same holds for the newest switch (lines 40-41), which leaves the busy indicator on besides.
* `death`: an engine found at start-up was not spawned by this program, so only the
  monitor sees it die. It emits the change once; the service needs three misses.
* `queue_latest`: "off" of a profile waits behind a write; the write's thread ends, and before
  its finish is handled the user asks for "on", which finds every worker idle and starts at
  once. The finish then starts "off", which is written last. `LatestUnlessOvertaken` shows that
  this is the only way.
* `lifecycle_overlap`: `stop_proxy` waits up to three seconds for the loop, during which
  `is_running` is already false; a start creates a new runtime, and the end of the stop sets
  `_runtime` to `None`. `_stop_runtime_only` has the check that `stop_proxy` lacks. Two starts that
  both pass the check lose the first runtime the same way.

Seen while modelling, in traces of the models or in the code beside them, and kept out of the runs:

* `stop_dpi_async` neither raises the switch generation nor waits for the switch worker. One past its
  checks spawns the engine again behind a service that says stopped; the slot of a stop that ends later
  reports that the process still runs and resets the restart that waited for it
  (`StopInVain`);
* the slot of a finished start asks the runner for the pid of its process and waits on
  the GUI thread for the lock of a stop, which is held through `terminate()`;
* a switch without an old process retries after a cleanup that kills every engine, and
  does not ask whether it is still wanted; the retry with an old process does;
* a switch that fails puts FAILED beside the old process, which is alive. `stop()` may not go
  from FAILED to STOPPING and raises before it stops anything (one level up the
  coordinator catches it and kills by name);
* the exit watcher compares the process without the lock and reads the state when the lock
  is free again: a process that was stopped in between is reported as an unexpected
  exit when the next operation leaves a state other than idle;
* a change of the settings file from outside between the replacement and the signature
  that `_write_settings_file_locked` takes after it is not seen until the next change
  (`raced` excepts it); a failed read with `materialize=False` caches defaults;
* `set_orchestra_locked_map` (`store.py:1215`), which `save()` and `clear()` of
  `locked_strategies_manager.py` call, replaces a whole section by what its caller had read before; it is not among
  the modelled edits, and `LockedEditsSurvive` is about those that change the section under the lock;
* user profiles are read and written back with the lock released in between, and
  one of two concurrent edits is lost; `_backup_corrupt_settings_locked` may fail, and the defaults are
  written over the unreadable file all the same;
* the button that adds a profile stays disabled when the last user-profile operation ends with
  another kind of operation next in the queue (`preset_write_queue.py:566-571`, `_on_user_profile_create_worker_finished`
  returns with `scheduled`, and the other finish does not enable it); `AddingIsBlocked` is the other
  direction, the button is never enabled too early;
* `zero_recv_count` of a server survives its tenure and does not expire, hence one bad
  connection of a later tenure may complete the limit;
* a probe through a server that accepts and stays silent holds the only probe slot as
  long as its relay lasts;
* in the updater's pool, two servers that answer without the channel keep fetches from a healthy third one when
  fetches are an hour apart: the answer stays in the cache for the rest of the fetch, nothing
  is recorded of the other, and the block of the first is over by the next fetch
  (two servers in `Lacking`); a lacking answer that the status worker caches
  (`server_status_workers.py:253-256`) has the same effect with one (`"partial"` in `Filled`);
* the docstring of `_try_server_pool` (`release_manager.py:244`) says that it goes through all available servers.
  It asks the selected one twice, a block takes three failures, so the server stays selected, is found
  among those tried, and the fetch gives up without asking the others (`GiveUp`). `KeepsFinding` is therefore
  about fetches again and again and not about one: the next one goes on from there;
* `e.response` of an error status is false for Python, so the status is never known in `_try_vps_url` and
  a server error never blocks all servers (`Truth`);
* a server that joined the list after the statistics were written has no entry there (`Known`): its
  failures are not counted, and once selected it is never left while it is down;
* a failure of a server that is not selected any more switches away from the selected
  one; a server whose block is over is blocked again by its first failure;
* `TelegramWSProxy.stop` waits for the clients to leave before it closes its pools; with a client
  connected the two seconds of the caller end first and the loop is halted without.

And matters of intent, where no text of the repository promises otherwise:

* a refused launch preparation and a failed stop each drop the restart they belong to (an
  error is shown); a start pressed while a stop runs can supersede a restart; a selection
  made while the engine is starting is dropped by the policy;
* the old process of a switch that dies while its replacement is tracked is not reported by
  its watcher, and is tracked again when the replacement fails (the switch reports its own
  failure);
* a process that is alive but not ready at the end of the start window is dropped through a
  `TypeError` and goes on running (`abandoned`, which `NoneLost` excepts);
* `last_error` is reset before the lock is taken and published after it is released.

### Fairness

`FairSpec` asks weak fairness of every timer, queued signal and finished slot, and of each of the three
threads, its end included: Qt's event loop delivers what is queued and the operating
system schedules threads. `FairSpec` of the runner asks it of the thread that holds the lock
(`HolderWorks`): nothing in a locked operation waits for another thread, its waits for a
process and for the driver have time limits. Threads that wait for the lock have no
fairness, a lock of Python promises none. Users, deaths and the expiry of stamps have none.

For the server pool requests have time limits and blocks and cached answers end by the clock, whether or not
somebody fetches just then (strong fairness, as the model lets a block end between
fetches only); servers owe nothing. For the upstream, both waits of a handshake have time limits, the loop delivers
cancellations and the clock goes on; clients, servers and the user owe nothing. For the
queue a write ends and the GUI thread gets to its slots and single shots. For the settings
the holder of the lock goes on (file operations end, with or without an error). For the
lifecycle threads run and each wait of a caller has its time limit; a client may stay
connected for ever.

### Deadlock

For the coordinator deadlock checking is off: an idle system with its events used up is a
proper end. So it is for the queue, whose page may be closed with every write done, and for
the lifecycle, whose starts are used up. The runner, the upstream, the settings store and the server pool
are checked for deadlock.

## 5. Proofs

`LaunchRuntime_proofs` proves for every set of presets, every bound and every choice of
the flags:

* `TypeCorrect`: `Spec => []TypeOK`. Inductive as it stands, given the closure lemmas
  for the operators on the service record, which come first in the module.
* `TransitionsLocked`: `Spec => []TransitionUnderLock`. One spawn or stop at a time holds the
  lock, and the runner is starting or stopping only meanwhile. The invariant is inductive
  with `TypeOK` since each worker takes the lock under `~LockHeld` and a dropped
  instance sets `lost` for whoever waits.
* `Ordered`: `Spec => []GenerationsOrdered`. The pending stop, the active start, the complete stop
  and a switch worker's generation are copies of the request counter at some earlier
  moment, and the counter never decreases.
* `ServedOnce`: `Spec => NeverRestartsServed`, from the guards of the two places that set the active
  start, and from the completed counter, which only the finished slot raises.
* `RestartsImplement`, `SwitchesImplement`: each step of the coordinator is a step of
  `LatestRequest` or leaves both counters unchanged.

`PresetRunner_proofs` proves for any sets of callers and processes:

* `TypeCorrect`: `Spec => []TypeOK`; in particular `attempts` never exceeds two.
* `NothingIsLost`: `Spec => []NoneLost`; `RestIsConsistent`: `Spec => []RestsConsistent`;
  `RunningDeathIsReported`: `Spec => []RunningDeathReported`.
* `ReplacementComesFirst`: `Spec => ReplacedFirst`.

These speak of moments when the lock is free, or of one step, and are not inductive: the
strengthened invariant `IInv` says at each point of an operation what may be alive and
which state goes with it. `Mutual` says that exactly the caller past the lock holds it
(one that comes back to start over holds it already), `CallsOK` that only a switch under way
has an old process and that whoever may spawn has an attempt left, `Accounted` what is
alive at each point (`Before`, `Stopping`, `Spawning`, `Pausing`, `Starting`, and `Free` when nobody
holds the lock), `Watched` that a process behind a running state is watched or reported.
Two lemmas carry the steps: `HolderSteps` for those of the lock holder, `OutsideKeeps` for
those of everybody else. `ReplacementComesFirst` adds that the hand-over is the only
step in which the holder takes the old process away.

`LaunchWorkers_proofs` proves of the coordinator `TransitionsEnd` (`[]TransitionHasWorker`),
`BusyEnds` (`BusyHasWorker`), `RequestsAreKept` (`RequestsKept`), `NoneReplaced` (`NoWorkerReplaced`) and
`SuccessRunsSelection` (`SuccessIsCurrent`). The second needs `SwitchInv`: a stale switch
leaves the busy flag on when it ends, so a newer switch must still be open then, and its slot queues the call. A
working switch has not been completed yet, and a stale one is not the newest, so its finished slot
raises the completed counter to a generation below the requested one. `RequestsAreKept` looks at each
place that returns with a request open (`PendingRestartIsKept`, `PendingSwitchIsKept`) and at each slot that takes a
worker away (`StopFinishedKeepsRestart`, `RequeueIsKept`). No worker is replaced
because each of the three methods that start one asks for its slot first (`StartDpiKeeps` and
the lemmas beside it), on every path that leads there from a finished slot, a timer or the user. For
`SuccessRunsSelection` the invariant `ReadIsSelected` says that what a current switch has read is
still the selection, unless a timer or a dropped selection accounts for the difference: a
newer selection whose timer has been spent has raised the generation, so that the older switch is
stale (with `Ordered`).

`UpstreamRuntime_proofs` proves for any servers, limits and tasks:

* `TypeCorrect`, `ProbeSlotOwned` (`[]ProbeHasOwner`), `ActiveUsable` (`[]ActiveIsUsable`),
  `RelaysFollowSwitch` (`[]RelaysUseActive`), `SwitchOnEvidence` (`SwitchNeedsEvidence`),
  `SlotsNeverLost` (`[]SlotsAccounted`).

`IInv` adds what each task knows: its attempt is of a generation that existed, under
which it is registered, or it is being cancelled (`TaskInv`), and who may decide the probe
(`OwnerInv`). A task reports in one of four ways; `ReportStep` states what these have in common for
everybody else, and the tasks' part is proved once from it. `EvidenceInv` bounds the
controller's counters by the evidence: `zeroRecv` and `connFails` of a server never run ahead of `bad`.
The slots are counted with the cardinality of the tasks that hold one. The set of tasks may be infinite: the
invariant says that the two sets that are counted are finite, and each action moves one task into
one of them or out of it (`MoveAccounted`, `LeaveAccounted`) or leaves both (`SlotsKept`).

`SettingsStore_proofs` proves for any number of threads and any outside content
`StoreTypeCorrect`, `MaterializedCacheTrue` (`[]MaterializedCacheIsFile`) and `EditsSurvive`
(`[]LockedEditsSurvive`). The invariant says that exactly the thread that is busy holds the lock, what it
has in its hands at each point (`HolderInv`), and that a materialised cache was filled from an
existing file whose signature it keeps (`CacheInv`).

`ProxyLifecycle_proofs` proves under `Overlap = FALSE`, for any number of callers and
runtimes, `LifecycleTypeCorrect`, `NothingOrphaned` (`[]NoOrphan`) and `PortFreed` (`[]StopFreesPort`): at most
one call is under way (`Serial`), it works on the runtime the manager holds, and every other
runtime was told to halt or has ended (`OnlyCurrent`).

`WriteQueue_proofs` proves for any operations, workers and keys `TypeCorrect`, `OnlyOneWriter`
(`[]OneWriter`), `AddingStaysBlocked` (`[]AddingIsBlocked`), `NothingIsStranded` (`[]NothingStranded`), `LatestIsWritten` (`[]LatestUnlessOvertaken`) and
`WritesAreSerial` (`ImplementsSerialWriter`). For the second, third and fourth, every running thread is known to its runtime
as long as the page is open, and a closed page has nothing left to start (`IInv`). The others need
what `Queued` leaves in a queue: `KeptFilters` shows that the recursive definition of the filter has a
solution, `KeptStays` and `QueuedHolds` what it returns, by induction on the prefixes of the queue
(`Prefixes`, from the well-founded order of the naturals). `QueueInv` says that nothing waits twice or has a
thread already, which makes each step one of the serial writer: a request asks or begins, a
finish is a stutter or drops what the operation it sends back replaces, a single shot begins or is
sent back, a cleanup closes. `LatestInv` says that, without overtaking, at most one operation is at work,
that the last request of a key waits, works or was the last to write, and that an older one of its
key that has still to write has it waiting behind.

`ServerPool_proofs` proves for any servers, priorities, statistics of an earlier session and threads
`TypeCorrect`: a thread that records a failure has failed with a server that has statistics (`Placed`), and a switch
that chooses has something to choose from (`PreferredIsOne`).

No run checks `GenerationsOrdered` and `NothingStranded`, since `Ordered` and `NothingIsStranded` prove
them and the runs check what rests on them (`RestartsLatest`, `WaitingEnds`).

Assumed are only `ServiceAssumption`, `LaunchAssumption`, `RunnerAssumption`,
`ControllerAssumption`, `RuntimeAssumption`, `StoreAssumption`, `LifecycleAssumption`,
`PoolAssumption` and `QueueAssumption`, which TLC evaluates on every run of their modules. Every
invariant and every action property that a passing run checks is stated by a theorem, and so
are the three refinements as far as they are safety. Only model-checked is what rests on fairness, which is out of the
prover's reach: `RequestsEnd`, `LockReleased`, `HandshakeEnds`, `NotRefusedForever`,
`WaitingEnds`, `OperationsReturn`, `CallsReturn` and `KeepsFinding`. `NoOrphan` and `StopFreesPort` are proved for calls that
do not overlap, since `lifecycle_overlap` refutes the first otherwise.

## 6. Running

```
tlc -workers 2 -config LaunchRuntime_holds.cfg MCLaunchRuntime
tlc -workers 2 -config PresetRunner_holds.cfg PresetRunner
tlapm LaunchRuntime_proofs.tla
tlc -workers 2 -config Upstream_safety.cfg MCUpstream
tlc -workers 2 -config Upstream_progress.cfg MCUpstream
tlc -workers 2 -config WriteQueue_holds.cfg MCWriteQueue
tlc -workers 2 -config SettingsStore_safety.cfg MCSettingsStore
tlc -workers 2 -config ProxyLifecycle_serial.cfg ProxyLifecycle
tlc -workers 2 -config ServerPool_finds.cfg MCServerPool
tlapm LaunchWorkers_proofs.tla
tlapm PresetRunner_proofs.tla
tlapm UpstreamRuntime_proofs.tla
tlapm SettingsStore_proofs.tla
tlapm WriteQueue_proofs.tla
tlapm ServerPool_proofs.tla
tlapm ProxyLifecycle_proofs.tla
```

## 7. Not modelled

Not yet: `Zapret1StrategyRunner` and what item 9 of section 2 lists. Of the Telegram proxy
the socket pools and the byte pumps; of the settings the schema and its normalisation; of the
UI queues `LatestValueWorkerState` and the pages that use several queues for one file, which are not
serialised with each other. Not planned: widgets, texts and themes, which are most of
the source lines; packet engines, drivers and Windows services (outside the repository); parsing and
serialising of presets and lists (text processing without coordination); relays and
MTProto framing; network probes, downloads and installers; the integrations with
Discord and the donation service.
