------------------------------ MODULE LaunchRuntime ------------------------------
(* The launch coordinator PresetLaunchRuntime with its start, stop and preset   *)
(* switch workers.  Handlers of the GUI thread are atomic steps; a worker is a  *)
(* QThread whose run() is cut where it reads or changes state shared with the   *)
(* GUI thread or with another worker.  A finished worker's slot runs while the  *)
(* thread still answers isRunning(): quit() is only a request.                  *)
EXTENDS RuntimeService

CONSTANTS
    Presets,            \* source presets the user can select
    NoPreset,
    Kinds,              \* which of EventKinds happen
    MaxEvents,          \* bound on user requests and process deaths together
    MaxAutoRestarts,    \* _AUTO_RESTART_MAX_PER_WINDOW
    StopMayFail,        \* a stop may leave winws running
    PrepareMayFail      \* a launch request may be refused before the worker starts

EventKinds == {"start", "stop", "restart", "force", "select", "death"}

ASSUME LaunchAssumption ==
    /\ Kinds \subseteq EventKinds
    /\ NoPreset \notin Presets
    /\ MaxEvents \in Nat /\ MaxAutoRestarts \in Nat
    /\ {StopMayFail, PrepareMayFail} \subseteq BOOLEAN
    /\ Exes # {} /\ Pids # {}

VARIABLES
    choice,         \* the selected preset and the timers that hand it on
    switch,         \* generations of preset switches
    restart,        \* generations of restarts
    svc,            \* LaunchRuntimeService
    startThread, stopThread, switchThread,
    runner,         \* state of the strategy runner, "none" without an instance
    tracked,        \* the runner's running_process: "none", "alive" or "dead"
    winws,          \* preset of the running winws, NoPreset when none runs
    reported,       \* what the process monitor emitted last
    exitEvents,     \* queued unexpected_process_exit signals
    autoRestarts,   \* stamps in auto_restart_history
    events          \* user requests and process deaths so far

threads == <<startThread, stopThread, switchThread>>
process == <<runner, tracked, winws>>
signals == <<reported, exitEvents, autoRestarts>>
vars == <<choice, switch, restart, svc, threads, process, signals, events>>

Later(g, h) == IF g > h THEN g ELSE h

\* Whether a request is still to be served, and the generation a start serves.
OpenWhenServed(r) == r.requested >= r.completed                       \* mutant
Open(r) == r.requested > r.completed

NewestAndNext(r, g) == Later(g, r.requested) + 1                      \* mutant
Newest(r, g) == Later(g, r.requested)

\* Nothing runs that a switch could be about: all of them count as served.
NothingToSwitchAhead(w) == [w EXCEPT !.completed = w.requested + 1]   \* mutant
NothingToSwitch(w) == [w EXCEPT !.completed = w.requested]

(*------------------------------- worker threads -------------------------------*)

\* `lost': the runner instance the worker holds is not the factory's any more.
NoStart  == [pc |-> "none", preset |-> NoPreset, ok |-> FALSE, lost |-> FALSE]
NoStop   == [pc |-> "none", force |-> FALSE, ok |-> FALSE]
NoSwitch == [pc |-> "none", gen |-> 0, preset |-> NoPreset, old |-> FALSE,
             ok |-> FALSE, stale |-> FALSE, lost |-> FALSE]

IsRunningUntilSlot(t) == t.pc \notin {"none", "done", "exiting"}       \* mutant
IsRunningThread(t) == t.pc # "none"

\* The slot has run and cleanup_worker has called quit(), which only asks: the thread
\* ends in a step of its own, before or after the timers of the slot.
Quit(t) == [t EXCEPT !.pc = "exiting"]

\* The _state_lock of the factory's runner is held through a spawn and through a stop.
SpawnsLockedUntilSlot(t) == t.pc \in {"spawned", "done"} /\ ~t.lost  \* mutant
SpawnsLocked(t) == t.pc = "spawned" /\ ~t.lost
LockHeldBySpawn == SpawnsLocked(startThread) \/ SpawnsLocked(switchThread)   \* mutant
LockHeld == SpawnsLocked(startThread) \/ SpawnsLocked(switchThread) \/ stopThread.pc = "stopping"

\* A worker that waits for the lock may be left with an instance that was dropped.
MayLose(t, at) == IF t.pc = at THEN {t, [t EXCEPT !.lost = TRUE]} ELSE {t}

(*------------------------- what the handlers look at --------------------------*)

TheExe == CHOOSE e \in Exes : TRUE
ThePid == CHOOSE p \in Pids : TRUE

WinwsRunning == winws # NoPreset
AlivePids    == IF WinwsRunning THEN {ThePid} ELSE {}
ObserveNow(s) == Observe(s, [e \in Exes |-> IF e = TheExe THEN AlivePids ELSE {}], AlivePids)

\* get_runner_state_snapshot takes the lock: the handler waits for a spawn or a stop to end.
SnapshotFree == runner = "none" \/ ~LockHeld

RunnerStartPid == IF runner = "running" THEN ThePid ELSE NoPid

\* is_running: the service's word, the runner's, or any canonical winws.
IsRunning == svc.phase = "running" \/ runner = "running" \/ WinwsRunning

(*------------------------------ start and stop --------------------------------*)

\* start_dpi_async from service state s; an autostart leaves the preset to the worker.
StartDpi(s, autostart) ==
    \/ /\ IsRunningThread(startThread)
       /\ svc' = s
       /\ UNCHANGED startThread
    \/ /\ ~IsRunningThread(startThread)
       /\ PrepareMayFail
       /\ svc' = MarkStartFailed(s)
       /\ UNCHANGED startThread
    \/ /\ ~IsRunningThread(startThread)
       /\ svc' = BeginStart(IF autostart THEN s ELSE SetBusy(s, TRUE), TheExe)
       /\ startThread' = [NoStart EXCEPT !.pc = "prepare",
                            !.preset = IF autostart THEN NoPreset ELSE choice.selected]

StopDpiMarksFirst(force) ==                                           \* mutant
    /\ svc' = BeginStop(SetBusy(svc, TRUE))
    /\ stopThread' = IF IsRunningThread(stopThread) THEN stopThread
                     ELSE [NoStop EXCEPT !.pc = "check", !.force = force]

StopDpi(force) ==
    IF IsRunningThread(stopThread)
    THEN UNCHANGED <<svc, stopThread>>
    ELSE /\ svc' = BeginStop(SetBusy(svc, TRUE))
         /\ stopThread' = [NoStop EXCEPT !.pc = "check", !.force = force]

(*---------------------------- restarts and switches ---------------------------*)

\* process_pending_restart_request on restart generations r.  It would defer itself for a
\* runner in transition, which a snapshot never shows (TransitionUnderLock).
ProcessPendingRestart(r) ==
    LET wait == [r EXCEPT !.wait = TRUE]
        full == r.forceStop = r.requested
        leave(next) == restart' = next /\ UNCHANGED <<svc, startThread, stopThread>>
    IN  IF ~Open(r) THEN leave(r)
        ELSE /\ SnapshotFree
             /\ IF IsRunningThread(startThread) THEN leave(r)
                ELSE IF IsRunningThread(stopThread) THEN leave([r EXCEPT !.pendingStop = r.requested])
                ELSE IF IsRunningThread(switchThread) THEN leave(wait)
                ELSE IF IsRunning \/ full
                THEN /\ restart' = [r EXCEPT !.pendingStop = r.requested]
                     /\ StopDpi(full)
                     /\ UNCHANGED startThread
                ELSE /\ restart' = [r EXCEPT !.activeStart = r.requested]
                     /\ StartDpi(svc, FALSE)
                     /\ UNCHANGED stopThread

\* process_pending_presets_switch on switch generations w, from service state s.
ProcessPendingSwitch(w, s) ==
    LET leave(next) == switch' = next /\ svc' = s /\ UNCHANGED switchThread
        blocked == \E t \in {startThread.pc, stopThread.pc, switchThread.pc} : t # "none"
    IN  IF ~Open(w) THEN leave(w)
        ELSE /\ SnapshotFree
             /\ IF blocked THEN leave(w)
                ELSE IF ~IsRunning
                THEN /\ switch' = NothingToSwitch(w)
                     /\ svc' = SetBusy(s, FALSE)
                     /\ UNCHANGED switchThread
                ELSE /\ switch' = w
                     /\ svc' = s
                     /\ switchThread' = [NoSwitch EXCEPT !.pc = "check", !.gen = w.requested]

\* QTimer.singleShot(0, _process_pending_*) where a generation is still open.
RequeueNever(r) == r                                                  \* mutant
Requeue(r) == [r EXCEPT !.calls = IF Open(r) THEN @ + 1 ELSE @]

RestartCall ==
    /\ restart.calls > 0
    /\ ProcessPendingRestart([restart EXCEPT !.calls = @ - 1])
    /\ UNCHANGED <<choice, switch, switchThread, process, signals, events>>

RestartRetry ==
    /\ restart.wait
    /\ ProcessPendingRestart([restart EXCEPT !.wait = FALSE])
    /\ UNCHANGED <<choice, switch, switchThread, process, signals, events>>

SwitchCall ==
    /\ switch.calls > 0
    /\ ProcessPendingSwitch([switch EXCEPT !.calls = @ - 1], svc)
    /\ UNCHANGED <<choice, restart, startThread, stopThread, process, signals, events>>

(*----------------------------- user and environment ---------------------------*)

Event(kind) == kind \in Kinds /\ events < MaxEvents /\ events' = events + 1

RestartDpi(force) ==
    /\ Event(IF force THEN "force" ELSE "restart")
    /\ LET g == restart.requested + 1
       IN  ProcessPendingRestart([restart EXCEPT !.requested = g,
                                                 !.forceStop = IF force THEN g ELSE @])
    /\ UNCHANGED <<choice, switch, switchThread, process, signals>>

UserStart ==
    /\ Event("start")
    /\ StartDpi(svc, FALSE)
    /\ UNCHANGED <<choice, switch, restart, stopThread, switchThread, process, signals>>

UserStop ==
    /\ Event("stop")
    /\ StopDpi(FALSE)
    /\ UNCHANGED <<choice, switch, restart, startThread, switchThread, process, signals>>

\* start_dpi_autostart, from the phase the window is created with.
Autostart ==
    /\ svc.phase = "autostart_pending"
    /\ IF WinwsRunning
       THEN svc' = BootstrapProbe(svc, TRUE, TheExe) /\ UNCHANGED startThread
       ELSE StartDpi(svc, TRUE)
    /\ UNCHANGED <<choice, switch, restart, stopThread, switchThread, process, signals, events>>

\* handle_preset_switched: a repeated selection of the same preset is dropped.
SelectPreset ==
    /\ Event("select")
    /\ \E p \in Presets \ {choice.selected} :
          choice' = [choice EXCEPT !.selected = p, !.timer = TRUE, !.skipped = FALSE]
    /\ UNCHANGED <<switch, restart, svc, threads, process, signals>>

\* _apply_pending_selected_source_preset: hands the selection on only while DPI runs.
ApplyTimerFires ==
    /\ choice.timer
    /\ svc.phase = "running" \/ SnapshotFree
    /\ choice' = [choice EXCEPT !.timer = FALSE, !.debounce = @ \/ IsRunning, !.skipped = ~IsRunning]
    /\ UNCHANGED <<switch, restart, svc, threads, process, signals, events>>

\* _fire_debounced_presets_switch and the switch_presets_async it calls.
DebounceFires ==
    /\ choice.debounce
    /\ choice' = [choice EXCEPT !.debounce = FALSE]
    /\ ProcessPendingSwitch([switch EXCEPT !.requested = @ + 1], SetBusy(svc, TRUE))
    /\ UNCHANGED <<restart, startThread, stopThread, process, signals, events>>

\* The exit watcher reports the death of the process the runner tracks.
ProcessDies ==
    /\ WinwsRunning
    /\ Event("death")
    /\ winws' = NoPreset
    /\ tracked' = IF tracked = "alive" THEN "dead" ELSE tracked
    /\ exitEvents' = IF tracked = "alive" /\ runner # "stopping" THEN exitEvents + 1 ELSE exitEvents
    /\ UNCHANGED <<choice, switch, restart, svc, threads, runner, reported, autoRestarts>>

(*------------------------------ process monitoring ----------------------------*)

\* The monitor thread emits process details only when they differ from the last ones.
MonitorPoll ==
    /\ reported # (IF WinwsRunning THEN "up" ELSE "down")
    /\ reported' = IF WinwsRunning THEN "up" ELSE "down"
    /\ svc' = ObserveNow(svc)
    /\ UNCHANGED <<choice, switch, restart, threads, process, exitEvents, autoRestarts, events>>

\* _try_reserve_auto_restart.
AutoRestartOneMore == autoRestarts <= MaxAutoRestarts                 \* mutant
AutoRestartLeft == autoRestarts < MaxAutoRestarts

\* handle_unexpected_process_exit.
UnexpectedExit ==
    /\ exitEvents > 0
    /\ exitEvents' = exitEvents - 1
    /\ IF svc.phase \in {"starting", "running"} /\ tracked = "dead"
       THEN \/ /\ AutoRestartLeft                     \* a transient cause
               /\ autoRestarts' = autoRestarts + 1
               /\ StartDpi(MarkStartFailed(svc), FALSE)
            \/ /\ svc' = MarkStartFailed(svc)
               /\ UNCHANGED <<autoRestarts, startThread>>
       ELSE UNCHANGED <<svc, autoRestarts, startThread>>
    /\ UNCHANGED <<choice, switch, restart, stopThread, switchThread, process, reported, events>>

\* A stamp leaves the ten minute window.
AutoRestartExpires ==
    /\ autoRestarts > 0
    /\ autoRestarts' = autoRestarts - 1
    /\ UNCHANGED <<choice, switch, restart, svc, threads, process, reported, exitEvents, events>>

(*--------------------------------- start worker -------------------------------*)

\* PresetLaunchService.run up to the launch: an invalid preset is refused while the
\* previous process still runs, otherwise that process is stopped; the launch goes on
\* though it may have survived even that.
StartPrepares ==
    /\ startThread.pc = "prepare" /\ ~LockHeld
    /\ \/ /\ WinwsRunning \/ startThread.preset = NoPreset
          /\ startThread' = [startThread EXCEPT !.pc = "done", !.ok = FALSE]
          /\ UNCHANGED <<process, switchThread>>
       \/ /\ startThread' = [startThread EXCEPT !.pc = "launch",
                               !.preset = IF @ = NoPreset THEN choice.selected ELSE @]
          /\ IF WinwsRunning
             THEN /\ runner' = "none" /\ tracked' = "none"
                  /\ \/ winws' = NoPreset
                     \/ StopMayFail /\ winws' = winws
                  /\ switchThread' \in MayLose(switchThread, "spawn")
             ELSE UNCHANGED <<process, switchThread>>
    /\ UNCHANGED <<choice, switch, restart, svc, stopThread, signals, events>>

\* What a worker does to its runner instance is seen only in the factory's.
OnRunner(t, state, process_) ==
    IF t.lost THEN UNCHANGED <<runner, tracked>> ELSE runner' = state /\ tracked' = process_

\* start_from_preset_file under the lock: what still runs is stopped, then spawn.
StartSpawns ==
    /\ startThread.pc = "launch" /\ (startThread.lost \/ ~LockHeld)
    /\ startThread' = [startThread EXCEPT !.pc = "spawned"]
    /\ OnRunner(startThread, "starting", "none")
    /\ winws' = NoPreset
    /\ UNCHANGED <<choice, switch, restart, svc, stopThread, switchThread, signals, events>>

StartReports ==
    /\ startThread.pc = "spawned"
    /\ \E ok \in BOOLEAN :
         /\ startThread' = [startThread EXCEPT !.pc = "done", !.ok = ok]
         /\ IF ok THEN OnRunner(startThread, "running", "alive")
                  ELSE OnRunner(startThread, "failed", "none")
         /\ winws' = IF ok THEN startThread.preset ELSE NoPreset
    /\ UNCHANGED <<choice, switch, restart, svc, stopThread, switchThread, signals, events>>

\* on_dpi_start_finished.  It marks the launch running before it asks whether the
\* process runs, and one miss is not enough to change that: the check confirms at once.
StartFinished ==
    /\ startThread.pc = "done"
    /\ startThread.ok => SnapshotFree
    /\ startThread' = Quit(startThread)
    /\ LET free == SetBusy(svc, FALSE)
           checked == ObserveNow(MarkRunning(free, RunnerStartPid))
       IN  svc' = IF startThread.ok THEN MarkRunning(checked, RunnerStartPid)
                  ELSE MarkStartFailed(free)
    /\ restart' = Requeue([restart EXCEPT
                     !.completed = IF restart.activeStart # 0 THEN Later(@, restart.activeStart) ELSE @,
                     !.activeStart = 0])
    /\ switch' = Requeue(switch)
    /\ UNCHANGED <<choice, stopThread, switchThread, process, signals, events>>

(*---------------------------------- stop worker -------------------------------*)

StopChecks ==
    /\ stopThread.pc = "check"
    /\ stopThread' = IF WinwsRunning \/ stopThread.force
                     THEN [stopThread EXCEPT !.pc = "stop"]
                     ELSE [stopThread EXCEPT !.pc = "done", !.ok = TRUE]
    /\ UNCHANGED <<choice, switch, restart, svc, startThread, switchThread, process, signals, events>>

\* runner.stop, if there is a runner: STOPPING is entered from RUNNING only.
StopBegins ==
    /\ stopThread.pc = "stop" /\ ~LockHeld
    /\ stopThread' = [stopThread EXCEPT !.pc = IF runner = "none" THEN "sweep" ELSE "stopping"]
    /\ runner' = IF runner = "running" /\ tracked = "alive" THEN "stopping" ELSE runner
    /\ UNCHANGED <<choice, switch, restart, svc, startThread, switchThread, tracked, winws, signals, events>>

\* The runner's process is gone, or refused to go; the instance is dropped either way.
StopDropsRunner ==
    /\ stopThread.pc = "stopping"
    /\ stopThread' = [stopThread EXCEPT !.pc = "sweep"]
    /\ startThread' \in MayLose(startThread, "launch")
    /\ switchThread' \in MayLose(switchThread, "spawn")
    /\ runner' = "none" /\ tracked' = "none"
    /\ \/ winws' = NoPreset
       \/ winws' = winws
    /\ UNCHANGED <<choice, switch, restart, svc, signals, events>>

\* stop_all_processes and the last look for residual processes.
StopSweeps ==
    /\ stopThread.pc = "sweep"
    /\ \/ winws' = NoPreset
       \/ StopMayFail /\ winws' = winws
    /\ tracked' = IF tracked = "alive" /\ winws' = NoPreset THEN "dead" ELSE tracked
    /\ stopThread' = [stopThread EXCEPT !.pc = "done", !.ok = winws' = NoPreset]
    /\ exitEvents' = IF tracked # tracked' THEN exitEvents + 1 ELSE exitEvents
    /\ UNCHANGED <<choice, switch, restart, svc, startThread, switchThread, runner, reported,
                   autoRestarts, events>>

\* on_dpi_stop_finished.
StopFinished ==
    /\ stopThread.pc = "done"
    /\ stopThread' = Quit(stopThread)
    /\ LET g == restart.pendingStop
           free == SetBusy(svc, FALSE)
           settled == [restart EXCEPT !.forceStop = IF g >= @ THEN 0 ELSE @]
           now == IF WinwsRunning THEN MarkRunning(free, NoPid) ELSE MarkStopped(free)
       IN  IF ~stopThread.ok
           THEN /\ restart' = [settled EXCEPT !.pendingStop = 0]
                /\ svc' = now
                /\ UNCHANGED startThread
           ELSE IF WinwsRunning
           THEN /\ restart' = [restart EXCEPT !.pendingStop = 0]
                /\ svc' = now
                /\ UNCHANGED startThread
           ELSE IF g > restart.completed
           THEN /\ restart' = [settled EXCEPT !.pendingStop = 0,
                                              !.activeStart = Newest(restart, g)]
                /\ StartDpi(now, FALSE)
           ELSE /\ restart' = settled
                /\ svc' = now
                /\ UNCHANGED startThread
    /\ switch' = Requeue(switch)
    /\ UNCHANGED <<choice, switchThread, process, signals, events>>

(*--------------------------------- switch worker ------------------------------*)

IsGenerationKnown == switchThread.gen <= switch.requested             \* mutant
IsGenerationCurrent == switchThread.gen = switch.requested

SwitchDone(ok, stale) == [switchThread EXCEPT !.pc = "done", !.ok = ok, !.stale = stale]

SwitchChecks ==
    /\ switchThread.pc = "check"
    /\ switchThread' = IF IsGenerationCurrent THEN [switchThread EXCEPT !.pc = "read"]
                       ELSE SwitchDone(TRUE, TRUE)
    /\ UNCHANGED <<choice, switch, restart, svc, startThread, stopThread, process, signals, events>>

\* get_launch_snapshot reads the selection, or finds it unusable.
SwitchReads ==
    /\ switchThread.pc = "read"
    /\ \/ switchThread' = [switchThread EXCEPT !.pc = "spawn", !.preset = choice.selected]
       \/ switchThread' = SwitchDone(FALSE, FALSE)
    /\ UNCHANGED <<choice, switch, restart, svc, startThread, stopThread, process, signals, events>>

\* switch_preset_file_fast under the lock, up to the spawn: a preset that does not
\* compile leaves the process alone, a stale request is given up.
SwitchSpawns ==
    /\ switchThread.pc = "spawn" /\ (switchThread.lost \/ ~LockHeld)
    /\ \/ /\ ~IsGenerationCurrent
          /\ switchThread' = SwitchDone(TRUE, TRUE)
          /\ UNCHANGED <<runner, tracked>>
       \/ /\ switchThread' = [switchThread EXCEPT !.pc = "report", !.ok = FALSE]
          /\ OnRunner(switchThread, "failed", tracked)
       \/ /\ IsGenerationCurrent
          /\ switchThread' = [switchThread EXCEPT !.pc = "spawned", !.old = tracked = "alive"]
          /\ OnRunner(switchThread, "starting", "none")
    /\ UNCHANGED <<choice, switch, restart, svc, startThread, stopThread, winws, signals, events>>

\* The new process takes over, or the old one is put back.
SwitchHandsOver ==
    /\ switchThread.pc = "spawned"
    /\ \/ /\ switchThread' = [switchThread EXCEPT !.pc = "report", !.ok = TRUE]
          /\ OnRunner(switchThread, "running", "alive")
          /\ winws' = switchThread.preset
       \/ /\ switchThread' = [switchThread EXCEPT !.pc = "report", !.ok = FALSE]
          /\ OnRunner(switchThread, "failed",
                      IF ~switchThread.old THEN "none" ELSE IF WinwsRunning THEN "alive" ELSE "dead")
          /\ UNCHANGED winws
    /\ UNCHANGED <<choice, switch, restart, svc, startThread, stopThread, signals, events>>

SwitchReports ==
    /\ switchThread.pc = "report"
    /\ switchThread' = IF IsGenerationCurrent THEN SwitchDone(switchThread.ok, FALSE)
                       ELSE SwitchDone(TRUE, TRUE)
    /\ UNCHANGED <<choice, switch, restart, svc, startThread, stopThread, process, signals, events>>

StaleOrLast == switchThread.stale \/ switchThread.gen <= switch.requested   \* mutant
StaleFinish == switchThread.stale \/ switchThread.gen < switch.requested

\* handle_presets_switch_finished.
SwitchFinished ==
    /\ switchThread.pc = "done"
    /\ switchThread' = Quit(switchThread)
    /\ switch' = Requeue([switch EXCEPT !.completed = Later(@, switchThread.gen)])
    /\ svc' = IF StaleFinish THEN svc ELSE SetBusy(svc, FALSE)
    /\ UNCHANGED <<choice, restart, startThread, stopThread, process, signals, events>>

(*------------------------------------------------------------------------------*)

\* The event loops of quit threads return.
StartExits ==
    /\ startThread.pc = "exiting"
    /\ startThread' = NoStart
    /\ UNCHANGED <<choice, switch, restart, svc, stopThread, switchThread, process, signals, events>>

StopExits ==
    /\ stopThread.pc = "exiting"
    /\ stopThread' = NoStop
    /\ UNCHANGED <<choice, switch, restart, svc, startThread, switchThread, process, signals, events>>

SwitchExits ==
    /\ switchThread.pc = "exiting"
    /\ switchThread' = NoSwitch
    /\ UNCHANGED <<choice, switch, restart, svc, startThread, stopThread, process, signals, events>>

\* Nothing runs; or a winws of an earlier session does, found by the initial probe;
\* or the window was created to start on its own.
Init ==
    /\ \E p \in Presets : choice = [selected |-> p, timer |-> FALSE, debounce |-> FALSE, skipped |-> FALSE]
    /\ switch = [requested |-> 0, completed |-> 0, calls |-> 0]
    /\ restart = [requested |-> 0, completed |-> 0, pendingStop |-> 0, activeStart |-> 0,
                  forceStop |-> 0, wait |-> FALSE, calls |-> 0]
    /\ startThread = NoStart /\ stopThread = NoStop /\ switchThread = NoSwitch
    /\ runner = "none" /\ tracked = "none"
    /\ winws \in Presets \cup {NoPreset}
    /\ \E autostart \in BOOLEAN :
         svc = SetBusy(BootstrapProbe(InitialService(autostart, TRUE), WinwsRunning, TheExe), FALSE)
    /\ reported = "unknown" /\ exitEvents = 0 /\ autoRestarts = 0 /\ events = 0

Timers  == RestartCall \/ RestartRetry \/ SwitchCall \/ ApplyTimerFires \/ DebounceFires
Signals == Autostart \/ MonitorPoll \/ UnexpectedExit \/ StartFinished \/ StopFinished \/ SwitchFinished
StartWorks  == StartPrepares \/ StartSpawns \/ StartReports \/ StartExits
StopWorks   == StopChecks \/ StopBegins \/ StopDropsRunner \/ StopSweeps \/ StopExits
SwitchWorks == \/ SwitchChecks \/ SwitchReads \/ SwitchSpawns \/ SwitchHandsOver
              \/ SwitchReports \/ SwitchExits
Workers == StartWorks \/ StopWorks \/ SwitchWorks
User    == UserStart \/ UserStop \/ SelectPreset \/ \E force \in BOOLEAN : RestartDpi(force)

Next == Timers \/ Signals \/ Workers \/ User \/ ProcessDies \/ AutoRestartExpires

\* Timers fire, queued signals are delivered and threads are scheduled; nobody
\* has to click, no process has to die.
Fairness ==
    /\ WF_vars(RestartCall) /\ WF_vars(RestartRetry) /\ WF_vars(SwitchCall)
    /\ WF_vars(ApplyTimerFires) /\ WF_vars(DebounceFires)
    /\ WF_vars(Autostart) /\ WF_vars(MonitorPoll) /\ WF_vars(UnexpectedExit)
    /\ WF_vars(StartFinished) /\ WF_vars(StopFinished) /\ WF_vars(SwitchFinished)
    /\ WF_vars(StartWorks) /\ WF_vars(StopWorks) /\ WF_vars(SwitchWorks)

Spec == Init /\ [][Next]_vars
FairSpec == Spec /\ Fairness

(*--------------------------------- properties ---------------------------------*)

Choices == [selected : Presets, timer : BOOLEAN, debounce : BOOLEAN, skipped : BOOLEAN]
SwitchCounters == [requested : Nat, completed : Nat, calls : Nat]
RestartCounters == [requested : Nat, completed : Nat, pendingStop : Nat, activeStart : Nat,
                    forceStop : Nat, wait : BOOLEAN, calls : Nat]
Starts == [pc : {"none", "prepare", "launch", "spawned", "done", "exiting"},
           preset : Presets \cup {NoPreset}, ok : BOOLEAN, lost : BOOLEAN]
Stops == [pc : {"none", "check", "stop", "stopping", "sweep", "done", "exiting"},
          force : BOOLEAN, ok : BOOLEAN]
Switches == [pc : {"none", "check", "read", "spawn", "spawned", "report", "done", "exiting"},
             gen : Nat, preset : Presets \cup {NoPreset}, old : BOOLEAN,
             ok : BOOLEAN, stale : BOOLEAN, lost : BOOLEAN]

\* Type invariant; with it, auto_restart_history never exceeds its budget.
TypeOK ==
    /\ choice \in Choices
    /\ switch \in SwitchCounters
    /\ restart \in RestartCounters
    /\ svc \in Service
    /\ startThread \in Starts
    /\ stopThread \in Stops
    /\ switchThread \in Switches
    /\ runner \in {"none", "starting", "running", "stopping", "failed"}
    /\ tracked \in {"none", "alive", "dead"}
    /\ winws \in Presets \cup {NoPreset}
    /\ reported \in {"unknown", "up", "down"}
    /\ exitEvents \in Nat
    /\ autoRestarts \in 0 .. MaxAutoRestarts
    /\ events \in 0 .. MaxEvents

\* No counter refers to a request that was never made: what is served, waits for
\* a stop, is being started or must be stopped completely is a generation asked for.
GenerationsOrdered ==
    /\ {restart.completed, restart.pendingStop, restart.activeStart, restart.forceStop}
         \subseteq 0 .. restart.requested
    /\ {switch.completed, switchThread.gen} \subseteq 0 .. switch.requested

\* A runner that answers a request for its state is never starting or stopping: whoever
\* asks waits for the lock instead, and no more than one spawn or stop holds it.
TransitionUnderLock ==
    /\ runner \in {"starting", "stopping"} => LockHeld
    /\ ~(SpawnsLocked(startThread) /\ SpawnsLocked(switchThread))
    /\ stopThread.pc = "stopping" => ~SpawnsLocked(startThread) /\ ~SpawnsLocked(switchThread)

Working(t) == t.pc \notin {"none", "exiting"}

\* The launch page never hangs in a transition: while the service says starting
\* (stopping), a start (stop) worker is at work whose finished slot will say otherwise.
TransitionHasWorker ==
    /\ svc.phase = "starting" => Working(startThread)
    /\ svc.phase = "stopping" => Working(stopThread)

(* Who comes back to an open request, and to a busy service: a timer, or a worker whose  *)
(* finished slot does.                                                                   *)
AnyWorking == Working(startThread) \/ Working(stopThread) \/ Working(switchThread)
SwitchAwaited == switch.calls > 0 \/ AnyWorking
RestartAwaited ==
    \/ restart.calls > 0 \/ restart.wait
    \/ Working(startThread)
    \/ /\ Working(stopThread)
       /\ restart.pendingStop > restart.completed
BusyAwaited == AnyWorking \/ (Open(switch) /\ switch.calls > 0)

\* The handler is called while a thread has run its finished slot and not ended.
SwitchMeetsExiting ==
    switch' # switch /\ "exiting" \in {startThread.pc, stopThread.pc, switchThread.pc}
RestartMeetsExiting ==
    restart' # restart /\ "exiting" \in {startThread.pc, stopThread.pc}

StartRefused == startThread.pc = "none" /\ startThread' = startThread /\ svc'.phase = "failed"
StopInVain == stopThread.pc = "done" /\ (~stopThread.ok \/ WinwsRunning)

\* The busy indicator is taken off by whoever comes: a busy service has a worker at work or
\* a queued call for an open switch.  It may lose them in one way only, that
\* process_pending_presets_switch finds a thread that has run its slot and not ended: it
\* returns then, and no retry is scheduled.
BusyHasWorker ==
    [][svc'.busy => BusyAwaited' \/ (svc.busy /\ ~BusyAwaited) \/ SwitchMeetsExiting]_vars

SwitchKept ==
    Open(switch)' =>
       \/ SwitchAwaited'
       \/ Open(switch) /\ ~SwitchAwaited /\ switch'.requested = switch.requested
       \/ SwitchMeetsExiting
RestartKept ==
    Open(restart)' =>
       \/ RestartAwaited'
       \/ Open(restart) /\ ~RestartAwaited /\ restart'.requested = restart.requested
       \/ RestartMeetsExiting \/ StartRefused \/ StopInVain

\* An open request is not lost sight of, except for what the code does without a retry: the
\* request is looked at while a thread has run its slot and not ended, the start it calls is
\* refused, or the stop it waits for fails or finds winws running again.
RequestsKept == [][SwitchKept /\ RestartKept]_vars

\* start_worker_thread overwrites the owner's attributes: it is never called for
\* a kind of worker whose thread has not ended, finished slot included.
NoWorkerReplaced ==
    [][\A t \in {<<startThread.pc, startThread'.pc>>, <<stopThread.pc, stopThread'.pc>>,
                 <<switchThread.pc, switchThread'.pc>>} :
          t[1] \in {"done", "exiting"} => t[2] \in {t[1], "exiting", "none"}]_vars

\* A restart that was served is not started again, whichever stop ends late.
NeverRestartsServed ==
    [][restart'.activeStart \notin {0, restart.activeStart}
         => restart'.activeStart > restart.completed]_vars

\* A switch that reports success runs the selected preset, unless a newer selection
\* still waits for a timer or was dropped because nothing ran.
SuccessIsCurrent ==
    [][switchThread.pc = "report" /\ switchThread'.pc = "done" /\ switchThread'.ok /\ ~switchThread'.stale
         => \/ switchThread.preset = choice.selected
            \/ choice.timer \/ choice.debounce \/ choice.skipped]_vars

LatestRestart == INSTANCE LatestRequest WITH requested <- restart.requested, served <- restart.completed
LatestSwitch  == INSTANCE LatestRequest WITH requested <- switch.requested, served <- switch.completed

\* Restarts (switches) serve numbered requests, each at most once and in order.
RestartsLatest == LatestRestart!Spec
SwitchesLatest == LatestSwitch!Spec

\* The newest restart and the newest switch are served in the end, unless the code has
\* lost sight of them: RequestsKept says in which steps it may.
RequestsEnd ==
    /\ []<>(Open(restart) => ~RestartAwaited)
    /\ []<>(Open(switch) => ~SwitchAwaited)

\* The last request wins (docstring of restart_dpi_async): the newest restart is served.
RestartsServed == LatestRestart!FairSpec

\* Nothing is left to do but for what a user or a dying process begins.
Quiescent ==
    /\ startThread = NoStart /\ stopThread = NoStop /\ switchThread = NoSwitch
    /\ ~choice.timer /\ ~choice.debounce
    /\ switch.calls + restart.calls = 0 /\ ~restart.wait
    /\ exitEvents = 0 /\ svc.phase # "autostart_pending"
    /\ reported = IF WinwsRunning THEN "up" ELSE "down"

\* A winws that died is noticed: the service does not go on saying running.
DeathIsNoticed == Quiescent /\ ~WinwsRunning => svc.phase # "running"
=================================================================================
