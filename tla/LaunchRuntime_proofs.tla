-------------------------- MODULE LaunchRuntime_proofs ---------------------------
(* Type correctness of LaunchRuntime, the order of its generation counters, and *)
(* that restarts and preset switches implement LatestRequest.                   *)
EXTENDS LaunchRuntime, TLAPS

(*------------------------ methods of LaunchRuntimeService ---------------------*)
(* Every one keeps the service state well typed.                                *)

\* The values the methods write; it keeps Phases folded in the proofs below.
LEMMA Written ==
    /\ {"stopped", "autostart_pending", "starting", "running", "stopping", "failed"} \subseteq Phases
    /\ 0 \in 0 .. MissLimit
BY DEF Phases, MissLimit

LEMMA InitialServiceType ==
    ASSUME NEW autostart \in BOOLEAN, NEW supported \in BOOLEAN
    PROVE  InitialService(autostart, supported) \in Service
BY Written DEF InitialService, Service

LEMMA TransitionsType ==
    ASSUME NEW s \in Service, NEW exe \in Exes
    PROVE  /\ \A b \in BOOLEAN : SetBusy(s, b) \in Service
           /\ BeginStart(s, exe) \in Service
           /\ MarkAutostartPending(s, exe) \in Service
           /\ BeginStop(s) \in Service
           /\ MarkStartFailed(s) \in Service
           /\ MarkStopped(s) \in Service
           /\ \A up \in BOOLEAN : BootstrapProbe(s, up, exe) \in Service
<1>1. \A b \in BOOLEAN : SetBusy(s, b) \in Service
    BY DEF SetBusy, Service
<1>2. BeginStart(s, exe) \in Service
    BY Written DEF BeginStart, Service
<1>3. MarkAutostartPending(s, exe) \in Service
    BY Written DEF MarkAutostartPending, Service
<1>4. BeginStop(s) \in Service
    BY Written DEF BeginStop, Service
<1>5. MarkStartFailed(s) \in Service
    BY Written DEF MarkStartFailed, Service
<1>6. MarkStopped(s) \in Service
    BY Written DEF MarkStopped, Service
<1>7. \A up \in BOOLEAN : BootstrapProbe(s, up, exe) \in Service
    BY Written DEF BootstrapProbe, Service
<1> QED BY <1>1, <1>2, <1>3, <1>4, <1>5, <1>6, <1>7

LEMMA MarkRunningType ==
    ASSUME NEW s \in Service, NEW pid \in Pids \cup {NoPid}
    PROVE  MarkRunning(s, pid) \in Service
BY Written DEF MarkRunning, Service

\* What an observation is matched with is a name and a process of the constants.
LEMMA MatchType ==
    ASSUME NEW s \in Service, NEW details \in [Exes -> SUBSET Pids]
    PROVE  /\ MatchedExe(s, details) \in Exes \cup {NoExe}
           /\ MatchedPid(s, details) \in Pids \cup {NoPid}
<1>1. MatchedExe(s, details) \in Exes \cup {NoExe}
    <2>1. CASE s.expected = NoExe /\ \E e \in Exes : details[e] # {}
        BY <2>1 DEF MatchedExe
    <2>2. CASE ~(s.expected = NoExe /\ \E e \in Exes : details[e] # {})
        BY <2>2 DEF MatchedExe, Service
    <2> QED BY <2>1, <2>2
<1>2. MatchedPid(s, details) \in Pids \cup {NoPid}
    <2> DEFINE exe == MatchedExe(s, details)
    <2>1. CASE exe = NoExe \/ details[exe] = {}
        BY <2>1 DEF MatchedPid
    <2>2. CASE ~(exe = NoExe \/ details[exe] = {})
        <3>1. details[exe] # {} /\ details[exe] \subseteq Pids
            BY <1>1, <2>2
        <3>2. \E p \in Pids : p \in details[exe]
            BY <3>1
        <3>3. (CHOOSE p \in Pids : p \in details[exe]) \in Pids
            BY <3>2
        <3> QED BY <3>3, <2>2 DEF MatchedPid
    <2> QED BY <2>1, <2>2
<1> QED BY <1>1, <1>2

LEMMA ObserveType ==
    ASSUME NEW s \in Service, NEW details \in [Exes -> SUBSET Pids], NEW alive
    PROVE  Observe(s, details, alive) \in Service
<1> DEFINE exe == MatchedExe(s, details)
           pid == MatchedPid(s, details)
           adopted == [MarkRunning(s, pid) EXCEPT !.expected = exe]
           missed == [s EXCEPT !.misses = IF @ = MissLimit THEN @ ELSE @ + 1]
<1>1. exe \in Exes \cup {NoExe} /\ pid \in Pids \cup {NoPid}
    BY MatchType
<1>2. adopted \in Service
    BY <1>1, MarkRunningType, Written DEF Service
<1>3. missed \in Service
    <2>1. (IF s.misses = MissLimit THEN s.misses ELSE s.misses + 1) \in 0 .. MissLimit
        BY DEF Service, MissLimit
    <2> QED BY <2>1 DEF Service
<1>4. MarkStartFailed(missed) \in Service
    <2> HIDE DEF missed
    <2> QED BY <1>3, Written DEF MarkStartFailed, Service
<1>5. MarkStopped(s) \in Service
    BY Written DEF MarkStopped, Service
<1>6. [s EXCEPT !.misses = 0] \in Service
    BY Written DEF Service
<1>7. [s EXCEPT !.expected = exe, !.pid = pid] \in Service
    BY <1>1 DEF Service
<1> HIDE DEF exe, pid, adopted, missed
<1>8. Observe(s, details, alive) \in
         {s, adopted, [s EXCEPT !.misses = 0], MarkStartFailed(missed), missed,
          MarkStopped(s), [s EXCEPT !.expected = exe, !.pid = pid]}
    BY DEF Observe, exe, pid, adopted, missed
<1> QED BY <1>2, <1>3, <1>4, <1>5, <1>6, <1>7, <1>8

(*------------------------------ operators of the model ------------------------*)

LEMMA SoleProcess == TheExe \in Exes /\ ThePid \in Pids
<1>1. (\E e \in Exes : TRUE) /\ (\E p \in Pids : TRUE)
    BY LaunchAssumption DEF LaunchAssumption
<1> QED BY <1>1 DEF TheExe, ThePid

LEMMA ObserveNowType ==
    ASSUME NEW s \in Service
    PROVE  ObserveNow(s) \in Service
<1>1. [e \in Exes |-> IF e = TheExe THEN AlivePids ELSE {}] \in [Exes -> SUBSET Pids]
    BY SoleProcess DEF AlivePids
<1> QED BY <1>1, ObserveType DEF ObserveNow

LEMMA RunnerStartPidType == RunnerStartPid \in Pids \cup {NoPid}
BY SoleProcess DEF RunnerStartPid

LEMMA IdleTypes == NoStart \in Starts /\ NoStop \in Stops /\ NoSwitch \in Switches
BY DEF NoStart, NoStop, NoSwitch, Starts, Stops, Switches

LEMMA QuitTypes ==
    ASSUME TypeOK
    PROVE  /\ Quit(startThread) \in Starts
           /\ Quit(stopThread) \in Stops
           /\ Quit(switchThread) \in Switches
<1>1. Quit(startThread) \in Starts
    BY IdleTypes DEF Quit, TypeOK, Starts
<1>2. Quit(stopThread) \in Stops
    BY IdleTypes DEF Quit, TypeOK, Stops
<1>3. Quit(switchThread) \in Switches
    BY IdleTypes DEF Quit, TypeOK, Switches
<1> QED BY <1>1, <1>2, <1>3

LEMMA StartDpiType ==
    ASSUME TypeOK, NEW s \in Service, NEW autostart \in BOOLEAN, StartDpi(s, autostart)
    PROVE  svc' \in Service /\ startThread' \in Starts
<1>1. CASE svc' = s /\ UNCHANGED startThread
    BY <1>1 DEF TypeOK
<1>2. CASE svc' = MarkStartFailed(s) /\ UNCHANGED startThread
    BY <1>2, TransitionsType, SoleProcess DEF TypeOK
<1>3. CASE /\ svc' = BeginStart(IF autostart THEN s ELSE SetBusy(s, TRUE), TheExe)
           /\ startThread' = [NoStart EXCEPT !.pc = "prepare",
                                !.preset = IF autostart THEN NoPreset ELSE choice.selected]
    <2>1. (IF autostart THEN s ELSE SetBusy(s, TRUE)) \in Service
        BY TransitionsType, SoleProcess
    <2>2. svc' \in Service
        BY <1>3, <2>1, TransitionsType, SoleProcess
    <2>3. (IF autostart THEN NoPreset ELSE choice.selected) \in Presets \cup {NoPreset}
        BY DEF TypeOK, Choices
    <2>4. startThread' \in Starts
        BY <1>3, <2>3 DEF NoStart, Starts
    <2> QED BY <2>2, <2>4
<1> QED BY <1>1, <1>2, <1>3 DEF StartDpi

LEMMA StopDpiType ==
    ASSUME TypeOK, NEW force \in BOOLEAN, StopDpi(force)
    PROVE  svc' \in Service /\ stopThread' \in Stops
<1>1. CASE UNCHANGED <<svc, stopThread>>
    BY <1>1 DEF TypeOK
<1>2. CASE /\ svc' = BeginStop(SetBusy(svc, TRUE))
           /\ stopThread' = [NoStop EXCEPT !.pc = "check", !.force = force]
    <2>1. SetBusy(svc, TRUE) \in Service
        BY TransitionsType, SoleProcess DEF TypeOK
    <2>2. svc' \in Service
        BY <1>2, <2>1, TransitionsType, SoleProcess
    <2>3. stopThread' \in Stops
        BY <1>2 DEF NoStop, Stops
    <2> QED BY <2>2, <2>3
<1> QED BY <1>1, <1>2 DEF StopDpi

LEMMA RequeueType ==
    /\ \A r \in RestartCounters : Requeue(r) \in RestartCounters
    /\ \A w \in SwitchCounters : Requeue(w) \in SwitchCounters
BY DEF Requeue, RestartCounters, SwitchCounters

LEMMA ProcessPendingRestartType ==
    ASSUME TypeOK, NEW r \in RestartCounters, ProcessPendingRestart(r)
    PROVE  /\ restart' \in RestartCounters
           /\ svc' \in Service
           /\ startThread' \in Starts
           /\ stopThread' \in Stops
<1> DEFINE full == r.forceStop = r.requested
<1>1. CASE /\ restart' \in {r, [r EXCEPT !.wait = TRUE], [r EXCEPT !.pendingStop = r.requested]}
           /\ UNCHANGED <<svc, startThread, stopThread>>
    BY <1>1 DEF TypeOK, RestartCounters
<1>2. CASE /\ restart' = [r EXCEPT !.pendingStop = r.requested]
           /\ StopDpi(full)
           /\ UNCHANGED startThread
    BY <1>2, StopDpiType DEF TypeOK, RestartCounters
<1>3. CASE /\ restart' = [r EXCEPT !.activeStart = r.requested]
           /\ StartDpi(svc, FALSE)
           /\ UNCHANGED stopThread
    BY <1>3, StartDpiType DEF TypeOK, RestartCounters
<1> QED BY <1>1, <1>2, <1>3 DEF ProcessPendingRestart

LEMMA ProcessPendingSwitchType ==
    ASSUME TypeOK, NEW w \in SwitchCounters, NEW s \in Service, ProcessPendingSwitch(w, s)
    PROVE  switch' \in SwitchCounters /\ svc' \in Service /\ switchThread' \in Switches
<1>1. CASE switch' = w /\ svc' = s /\ UNCHANGED switchThread
    BY <1>1 DEF TypeOK, SwitchCounters
<1>2. CASE switch' = NothingToSwitch(w) /\ svc' = SetBusy(s, FALSE) /\ UNCHANGED switchThread
    BY <1>2, TransitionsType, SoleProcess DEF TypeOK, SwitchCounters, NothingToSwitch
<1>3. CASE /\ switch' = w
           /\ svc' = s
           /\ switchThread' = [NoSwitch EXCEPT !.pc = "check", !.gen = w.requested]
    BY <1>3 DEF SwitchCounters, NoSwitch, Switches
<1> QED BY <1>1, <1>2, <1>3 DEF ProcessPendingSwitch

(*------------------------------ type correctness ------------------------------*)

LEMMA InitType == Init => TypeOK
<1> SUFFICES ASSUME Init PROVE TypeOK
    OBVIOUS
<1>1. choice \in Choices
    BY DEF Init, Choices
<1>2. switch \in SwitchCounters /\ restart \in RestartCounters
    BY DEF Init, SwitchCounters, RestartCounters
<1>3. svc \in Service
    <2>1. PICK autostart \in BOOLEAN :
             svc = SetBusy(BootstrapProbe(InitialService(autostart, TRUE), WinwsRunning, TheExe), FALSE)
        BY DEF Init
    <2>2. WinwsRunning \in BOOLEAN
        BY DEF WinwsRunning
    <2>3. BootstrapProbe(InitialService(autostart, TRUE), WinwsRunning, TheExe) \in Service
        BY <2>2, InitialServiceType, TransitionsType, SoleProcess
    <2> QED BY <2>1, <2>3, TransitionsType, SoleProcess
<1>4. startThread \in Starts /\ stopThread \in Stops /\ switchThread \in Switches
    BY IdleTypes DEF Init
<1>5. /\ winws \in Presets \cup {NoPreset}
      /\ runner = "none" /\ tracked = "none" /\ reported = "unknown"
      /\ exitEvents = 0 /\ autoRestarts = 0 /\ events = 0
    BY DEF Init
<1>6. autoRestarts \in 0 .. MaxAutoRestarts /\ events \in 0 .. MaxEvents
    BY <1>5, LaunchAssumption DEF LaunchAssumption
<1> QED BY <1>1, <1>2, <1>3, <1>4, <1>5, <1>6 DEF TypeOK

\* Timers, the user and the processes.
LEMMA TimersType == TypeOK /\ Timers => TypeOK'
<1> SUFFICES ASSUME TypeOK, Timers PROVE TypeOK'
    OBVIOUS
<1>1. CASE RestartCall
    <2>1. [restart EXCEPT !.calls = @ - 1] \in RestartCounters
        BY <1>1 DEF RestartCall, TypeOK, RestartCounters
    <2> QED BY <1>1, <2>1, ProcessPendingRestartType DEF RestartCall, TypeOK, process, signals
<1>2. CASE RestartRetry
    <2>1. [restart EXCEPT !.wait = FALSE] \in RestartCounters
        BY DEF TypeOK, RestartCounters
    <2> QED BY <1>2, <2>1, ProcessPendingRestartType DEF RestartRetry, TypeOK, process, signals
<1>3. CASE SwitchCall
    <2>1. [switch EXCEPT !.calls = @ - 1] \in SwitchCounters
        BY <1>3 DEF SwitchCall, TypeOK, SwitchCounters
    <2> QED BY <1>3, <2>1, ProcessPendingSwitchType DEF SwitchCall, TypeOK, process, signals
<1>5. CASE ApplyTimerFires
    <2>1. IsRunning \in BOOLEAN
        BY DEF IsRunning, WinwsRunning
    <2>2. choice' \in Choices
        BY <1>5, <2>1 DEF ApplyTimerFires, TypeOK, Choices
    <2> QED BY <1>5, <2>2 DEF ApplyTimerFires, TypeOK, threads, process, signals
<1>6. CASE DebounceFires
    <2>1. [switch EXCEPT !.requested = @ + 1] \in SwitchCounters
        BY DEF TypeOK, SwitchCounters
    <2>2. SetBusy(svc, TRUE) \in Service
        BY TransitionsType, SoleProcess DEF TypeOK
    <2>3. choice' \in Choices
        BY <1>6 DEF DebounceFires, TypeOK, Choices
    <2> QED BY <1>6, <2>1, <2>2, <2>3, ProcessPendingSwitchType
            DEF DebounceFires, TypeOK, process, signals
<1> QED BY <1>1, <1>2, <1>3, <1>5, <1>6 DEF Timers

LEMMA EventType ==
    ASSUME TypeOK, NEW kind, Event(kind)
    PROVE  events' \in 0 .. MaxEvents
BY LaunchAssumption DEF Event, TypeOK, LaunchAssumption

LEMMA UserType == TypeOK /\ User => TypeOK'
<1> SUFFICES ASSUME TypeOK, User PROVE TypeOK'
    OBVIOUS
<1>0. svc \in Service
    BY DEF TypeOK
<1>1. CASE UserStart
    <2>1. svc' \in Service /\ startThread' \in Starts /\ events' \in 0 .. MaxEvents
        BY <1>0, <1>1, StartDpiType, EventType DEF UserStart
    <2> QED BY <1>1, <2>1 DEF UserStart, TypeOK, process, signals
<1>2. CASE UserStop
    <2>1. svc' \in Service /\ stopThread' \in Stops /\ events' \in 0 .. MaxEvents
        BY <1>2, StopDpiType, EventType DEF UserStop
    <2> QED BY <1>2, <2>1 DEF UserStop, TypeOK, process, signals
<1>3. CASE SelectPreset
    <2>1. choice' \in Choices /\ events' \in 0 .. MaxEvents
        BY <1>3, EventType DEF SelectPreset, TypeOK, Choices
    <2> QED BY <1>3, <2>1 DEF SelectPreset, TypeOK, threads, process, signals
<1>4. ASSUME NEW force \in BOOLEAN, RestartDpi(force) PROVE TypeOK'
    <2> DEFINE g == restart.requested + 1
               r == [restart EXCEPT !.requested = g, !.forceStop = IF force THEN g ELSE @]
    <2>1. r \in RestartCounters
        <3>1. g \in Nat /\ (IF force THEN g ELSE restart.forceStop) \in Nat
            BY DEF TypeOK, RestartCounters
        <3> QED BY <3>1 DEF TypeOK, RestartCounters
    <2>2. ProcessPendingRestart(r) /\ events' \in 0 .. MaxEvents
        BY <1>4, EventType DEF RestartDpi
    <2> HIDE DEF r
    <2>3. /\ restart' \in RestartCounters /\ svc' \in Service
          /\ startThread' \in Starts /\ stopThread' \in Stops
        BY <2>1, <2>2, ProcessPendingRestartType
    <2> QED BY <1>4, <2>2, <2>3 DEF RestartDpi, TypeOK, process, signals
<1> QED BY <1>1, <1>2, <1>3, <1>4 DEF User

LEMMA ProcessType == TypeOK /\ (ProcessDies \/ AutoRestartExpires) => TypeOK'
<1> SUFFICES ASSUME TypeOK, ProcessDies \/ AutoRestartExpires PROVE TypeOK'
    OBVIOUS
<1>1. CASE ProcessDies
    <2>1. events' \in 0 .. MaxEvents
        BY <1>1, EventType DEF ProcessDies
    <2> QED BY <1>1, <2>1 DEF ProcessDies, TypeOK, threads
<1>2. CASE AutoRestartExpires
    BY <1>2, LaunchAssumption DEF AutoRestartExpires, TypeOK, threads, process, LaunchAssumption
<1> QED BY <1>1, <1>2

\* Signals delivered to the GUI thread, the finished slots among them.
LEMMA SignalsType == TypeOK /\ Signals => TypeOK'
<1> SUFFICES ASSUME TypeOK, Signals PROVE TypeOK'
    OBVIOUS
<1>0. svc \in Service /\ SetBusy(svc, FALSE) \in Service
    BY TransitionsType, SoleProcess DEF TypeOK
<1>1. CASE Autostart
    <2>1. svc' \in Service /\ startThread' \in Starts
        <3>1. CASE WinwsRunning
            <4>1. svc' = BootstrapProbe(svc, TRUE, TheExe) /\ startThread' = startThread
                BY <1>1, <3>1 DEF Autostart
            <4> QED BY <4>1, <1>0, TransitionsType, SoleProcess DEF TypeOK
        <3>2. CASE ~WinwsRunning
            BY <1>0, <1>1, <3>2, StartDpiType DEF Autostart
        <3> QED BY <3>1, <3>2
    <2> QED BY <1>1, <2>1 DEF Autostart, TypeOK, process, signals
<1>2. CASE MonitorPoll
    <2>1. svc' \in Service
        BY <1>0, <1>2, ObserveNowType DEF MonitorPoll
    <2> QED BY <1>2, <2>1 DEF MonitorPoll, TypeOK, threads, process
<1>3. CASE UnexpectedExit
    <2>1. MarkStartFailed(svc) \in Service
        BY <1>0, TransitionsType, SoleProcess
    <2>2. /\ svc' \in Service /\ startThread' \in Starts
          /\ autoRestarts' \in 0 .. MaxAutoRestarts
        <3>1. CASE /\ AutoRestartLeft
                   /\ autoRestarts' = autoRestarts + 1
                   /\ StartDpi(MarkStartFailed(svc), FALSE)
            <4>1. svc' \in Service /\ startThread' \in Starts
                BY <2>1, <3>1, StartDpiType
            <4>2. autoRestarts' \in 0 .. MaxAutoRestarts
                BY <3>1, LaunchAssumption DEF AutoRestartLeft, TypeOK, LaunchAssumption
            <4> QED BY <4>1, <4>2
        <3>2. CASE /\ svc' = MarkStartFailed(svc)
                   /\ UNCHANGED <<autoRestarts, startThread>>
            BY <2>1, <3>2 DEF TypeOK
        <3>3. CASE UNCHANGED <<svc, autoRestarts, startThread>>
            BY <3>3 DEF TypeOK
        <3> QED BY <1>3, <3>1, <3>2, <3>3 DEF UnexpectedExit
    <2>3. exitEvents' \in Nat
        BY <1>3 DEF UnexpectedExit, TypeOK
    <2> QED BY <1>3, <2>2, <2>3 DEF UnexpectedExit, TypeOK, process
<1>4. CASE StartFinished
    <2>1. startThread' \in Starts
        BY <1>4, QuitTypes DEF StartFinished
    <2> DEFINE free == SetBusy(svc, FALSE)
               checked == ObserveNow(MarkRunning(free, RunnerStartPid))
    <2>2. svc' \in Service
        <3>1. checked \in Service
            BY <1>0, MarkRunningType, ObserveNowType, RunnerStartPidType
        <3>2. MarkRunning(checked, RunnerStartPid) \in Service /\ MarkStartFailed(free) \in Service
            BY <3>1, <1>0, MarkRunningType, RunnerStartPidType, TransitionsType, SoleProcess
        <3> QED BY <1>4, <3>2 DEF StartFinished
    <2>3. restart' \in RestartCounters /\ switch' \in SwitchCounters
        <3>1. [restart EXCEPT
                 !.completed = IF restart.activeStart # 0 THEN Later(@, restart.activeStart) ELSE @,
                 !.activeStart = 0] \in RestartCounters
            BY DEF TypeOK, RestartCounters, Later
        <3> QED BY <1>4, <3>1, RequeueType DEF StartFinished, TypeOK
    <2> QED BY <1>4, <2>1, <2>2, <2>3 DEF StartFinished, TypeOK, process, signals
<1>5. CASE StopFinished
    <2> DEFINE g == restart.pendingStop
               free == SetBusy(svc, FALSE)
               settled == [restart EXCEPT !.forceStop = IF g >= @ THEN 0 ELSE @]
               now == IF WinwsRunning THEN MarkRunning(free, NoPid) ELSE MarkStopped(free)
    <2>1. stopThread' \in Stops /\ switch' \in SwitchCounters
        BY <1>5, QuitTypes, RequeueType DEF StopFinished, TypeOK
    <2>2. now \in Service
        BY <1>0, MarkRunningType, TransitionsType, SoleProcess
    <2>3. settled \in RestartCounters
        BY DEF TypeOK, RestartCounters
    <2>4. /\ [settled EXCEPT !.pendingStop = 0] \in RestartCounters
          /\ [restart EXCEPT !.pendingStop = 0] \in RestartCounters
        BY <2>3 DEF TypeOK, RestartCounters
    <2>5. [settled EXCEPT !.pendingStop = 0, !.activeStart = Newest(restart, g)] \in RestartCounters
        BY <2>3 DEF TypeOK, RestartCounters, Newest, Later
    <2>6. CASE /\ restart' \in {settled, [settled EXCEPT !.pendingStop = 0],
                                [restart EXCEPT !.pendingStop = 0]}
               /\ svc' = now
               /\ UNCHANGED startThread
        BY <1>5, <2>1, <2>2, <2>3, <2>4, <2>6 DEF StopFinished, TypeOK, process, signals
    <2>7. CASE /\ restart' = [settled EXCEPT !.pendingStop = 0, !.activeStart = Newest(restart, g)]
               /\ StartDpi(now, FALSE)
        <3>1. svc' \in Service /\ startThread' \in Starts
            BY <2>2, <2>7, StartDpiType
        <3> QED BY <1>5, <2>1, <2>5, <2>7, <3>1 DEF StopFinished, TypeOK, process, signals
    <2> HIDE DEF settled, now
    <2> QED BY <1>5, <2>6, <2>7 DEF StopFinished, settled, now
<1>6. CASE SwitchFinished
    <2>1. switchThread' \in Switches
        BY <1>6, QuitTypes DEF SwitchFinished
    <2>2. [switch EXCEPT !.completed = Later(@, switchThread.gen)] \in SwitchCounters
        BY DEF TypeOK, SwitchCounters, Switches, Later
    <2>3. switch' \in SwitchCounters
        BY <1>6, <2>2, RequeueType DEF SwitchFinished
    <2>4. svc' \in Service
        BY <1>0, <1>6 DEF SwitchFinished
    <2> QED BY <1>6, <2>1, <2>3, <2>4 DEF SwitchFinished, TypeOK, process, signals
<1> QED BY <1>1, <1>2, <1>3, <1>4, <1>5, <1>6 DEF Signals

RunnerStates == {"none", "starting", "running", "stopping", "failed"}

LEMMA OnRunnerType ==
    ASSUME TypeOK, NEW t, NEW state \in RunnerStates, NEW new \in {"none", "alive", "dead"},
           OnRunner(t, state, new)
    PROVE  runner' \in RunnerStates /\ tracked' \in {"none", "alive", "dead"}
BY DEF OnRunner, TypeOK, RunnerStates

LEMMA MayLoseType ==
    /\ \A t \in Starts : MayLose(t, "launch") \subseteq Starts
    /\ \A t \in Switches : MayLose(t, "spawn") \subseteq Switches
BY DEF MayLose, Starts, Switches

\* The workers.
LEMMA StartWorkerType == TypeOK /\ (StartPrepares \/ StartSpawns \/ StartReports \/ StartExits) => TypeOK'
<1> SUFFICES ASSUME TypeOK, StartPrepares \/ StartSpawns \/ StartReports \/ StartExits PROVE TypeOK'
    OBVIOUS
<1>1. CASE StartPrepares
    <2>1. startThread' \in Starts
        BY <1>1 DEF StartPrepares, TypeOK, Starts, Choices
    <2>2. switchThread' \in Switches
        <3>1. switchThread' = switchThread \/ switchThread' \in MayLose(switchThread, "spawn")
            BY <1>1 DEF StartPrepares
        <3> QED BY <3>1, MayLoseType DEF TypeOK
    <2>3. CASE UNCHANGED process
        BY <1>1, <2>1, <2>2, <2>3 DEF StartPrepares, TypeOK, process, signals
    <2>4. CASE runner' = "none" /\ tracked' = "none" /\ winws' \in {NoPreset, winws}
        BY <1>1, <2>1, <2>2, <2>4 DEF StartPrepares, TypeOK, process, signals
    <2> QED BY <1>1, <2>3, <2>4 DEF StartPrepares
<1>2. CASE StartSpawns
    <2>1. startThread' \in Starts
        BY <1>2 DEF StartSpawns, TypeOK, Starts
    <2>2. runner' \in RunnerStates /\ tracked' \in {"none", "alive", "dead"}
        BY <1>2, OnRunnerType DEF StartSpawns, RunnerStates
    <2> QED BY <1>2, <2>1, <2>2 DEF StartSpawns, TypeOK, signals, RunnerStates
<1>3. CASE StartReports
    <2>1. PICK ok \in BOOLEAN :
            /\ startThread' = [startThread EXCEPT !.pc = "done", !.ok = ok]
            /\ IF ok THEN OnRunner(startThread, "running", "alive")
                     ELSE OnRunner(startThread, "failed", "none")
            /\ winws' = IF ok THEN startThread.preset ELSE NoPreset
        BY <1>3 DEF StartReports
    <2>2. startThread' \in Starts /\ winws' \in Presets \cup {NoPreset}
        BY <2>1 DEF TypeOK, Starts
    <2>3. runner' \in RunnerStates /\ tracked' \in {"none", "alive", "dead"}
        BY <2>1, OnRunnerType DEF RunnerStates
    <2> QED BY <1>3, <2>1, <2>2, <2>3 DEF StartReports, TypeOK, signals, RunnerStates
<1>4. CASE StartExits
    BY <1>4, IdleTypes DEF StartExits, TypeOK, process, signals
<1> QED BY <1>1, <1>2, <1>3, <1>4

LEMMA StopWorkerType ==
    TypeOK /\ (StopChecks \/ StopBegins \/ StopDropsRunner \/ StopSweeps \/ StopExits) => TypeOK'
<1> SUFFICES ASSUME TypeOK, StopChecks \/ StopBegins \/ StopDropsRunner \/ StopSweeps \/ StopExits
             PROVE  TypeOK'
    OBVIOUS
<1>1. CASE StopChecks
    <2>1. stopThread' \in Stops
        BY <1>1 DEF StopChecks, TypeOK, Stops
    <2> QED BY <1>1, <2>1 DEF StopChecks, TypeOK, process, signals
<1>2. CASE StopBegins
    <2>1. stopThread' \in Stops
        BY <1>2 DEF StopBegins, TypeOK, Stops
    <2> QED BY <1>2, <2>1 DEF StopBegins, TypeOK, signals
<1>3. CASE StopDropsRunner
    <2>1. stopThread' \in Stops
        BY <1>3 DEF StopDropsRunner, TypeOK, Stops
    <2>2. startThread' \in Starts /\ switchThread' \in Switches
        BY <1>3, MayLoseType DEF StopDropsRunner, TypeOK
    <2> QED BY <1>3, <2>1, <2>2 DEF StopDropsRunner, TypeOK, signals
<1>4. CASE StopSweeps
    <2>1. stopThread' \in Stops
        BY <1>4 DEF StopSweeps, TypeOK, Stops
    <2>2. winws' \in Presets \cup {NoPreset} /\ exitEvents' \in Nat /\ tracked' \in {"none", "alive", "dead"}
        BY <1>4 DEF StopSweeps, TypeOK
    <2> QED BY <1>4, <2>1, <2>2 DEF StopSweeps, TypeOK
<1>5. CASE StopExits
    BY <1>5, IdleTypes DEF StopExits, TypeOK, process, signals
<1> QED BY <1>1, <1>2, <1>3, <1>4, <1>5

LEMMA SwitchWorkerType ==
    TypeOK /\ (SwitchChecks \/ SwitchReads \/ SwitchSpawns \/ SwitchHandsOver \/ SwitchReports \/ SwitchExits)
      => TypeOK'
<1> SUFFICES ASSUME TypeOK,
                    \/ SwitchChecks \/ SwitchReads \/ SwitchSpawns \/ SwitchHandsOver
                    \/ SwitchReports \/ SwitchExits
             PROVE  TypeOK'
    OBVIOUS
<1>0. \A ok, stale \in BOOLEAN : SwitchDone(ok, stale) \in Switches
    BY DEF SwitchDone, TypeOK, Switches
<1>1. CASE SwitchChecks
    <2>1. switchThread' \in Switches
        BY <1>0, <1>1 DEF SwitchChecks, TypeOK, Switches
    <2> QED BY <1>1, <2>1 DEF SwitchChecks, TypeOK, process, signals
<1>2. CASE SwitchReads
    <2>1. switchThread' \in Switches
        <3>1. [switchThread EXCEPT !.pc = "spawn", !.preset = choice.selected] \in Switches
            BY DEF TypeOK, Switches, Choices
        <3> QED BY <1>0, <1>2, <3>1 DEF SwitchReads
    <2> QED BY <1>2, <2>1 DEF SwitchReads, TypeOK, process, signals
<1>3. CASE SwitchSpawns
    <2>1. /\ [switchThread EXCEPT !.pc = "report", !.ok = FALSE] \in Switches
          /\ \A old \in BOOLEAN : [switchThread EXCEPT !.pc = "spawned", !.old = old] \in Switches
        BY DEF TypeOK, Switches
    <2>2. switchThread' \in Switches
        BY <1>0, <1>3, <2>1 DEF SwitchSpawns
    <2>3. runner' \in RunnerStates /\ tracked' \in {"none", "alive", "dead"}
        BY <1>3, OnRunnerType DEF SwitchSpawns, RunnerStates, TypeOK
    <2> QED BY <1>3, <2>2, <2>3 DEF SwitchSpawns, TypeOK, signals, RunnerStates
<1>4. CASE SwitchHandsOver
    <2>1. switchThread' \in Switches /\ winws' \in Presets \cup {NoPreset}
        BY <1>4 DEF SwitchHandsOver, TypeOK, Switches
    <2>2. runner' \in RunnerStates /\ tracked' \in {"none", "alive", "dead"}
        BY <1>4, OnRunnerType DEF SwitchHandsOver, RunnerStates
    <2> QED BY <1>4, <2>1, <2>2 DEF SwitchHandsOver, TypeOK, signals, RunnerStates
<1>5. CASE SwitchReports
    <2>1. switchThread.ok \in BOOLEAN
        BY DEF TypeOK, Switches
    <2>2. switchThread' \in Switches
        BY <1>0, <1>5, <2>1 DEF SwitchReports
    <2> QED BY <1>5, <2>2 DEF SwitchReports, TypeOK, process, signals
<1>6. CASE SwitchExits
    BY <1>6, IdleTypes DEF SwitchExits, TypeOK, process, signals
<1> QED BY <1>1, <1>2, <1>3, <1>4, <1>5, <1>6

\* Every variable keeps its type: the launch coordinator's state is always one
\* the code can interpret, and the restart budget is kept.
THEOREM TypeCorrect == Spec => []TypeOK
<1>1. TypeOK /\ [Next]_vars => TypeOK'
    <2> SUFFICES ASSUME TypeOK, [Next]_vars PROVE TypeOK'
        OBVIOUS
    <2>1. CASE UNCHANGED vars
        BY <2>1 DEF vars, TypeOK, threads, process, signals
    <2> QED BY <2>1, TimersType, SignalsType, UserType, ProcessType, StartWorkerType, StopWorkerType,
               SwitchWorkerType DEF Next, Workers, StartWorks, StopWorks, SwitchWorks
<1> QED BY InitType, <1>1, PTL DEF Spec

(*-------------------------------- the runner's lock ---------------------------*)

\* The three places that can hold the lock, and the runner, are left alone.
LocksStay ==
    /\ SpawnsLocked(startThread)' = SpawnsLocked(startThread)
    /\ SpawnsLocked(switchThread)' = SpawnsLocked(switchThread)
    /\ (stopThread'.pc = "stopping") = (stopThread.pc = "stopping")

LEMMA LocksKeep ==
    ASSUME TransitionUnderLock, LocksStay, UNCHANGED runner
    PROVE  TransitionUnderLock'
BY DEF TransitionUnderLock, LocksStay, LockHeld

\* A thread that is created or that has quit holds nothing before and after.
LEMMA StartDpiLocks ==
    ASSUME TypeOK, NEW s, NEW autostart, StartDpi(s, autostart)
    PROVE  SpawnsLocked(startThread)' = SpawnsLocked(startThread)
<1>1. \/ startThread' = startThread
      \/ startThread.pc = "none" /\ startThread'.pc = "prepare"
    BY DEF StartDpi, IsRunningThread, NoStart
<1> QED BY <1>1 DEF SpawnsLocked

LEMMA StopDpiLocks ==
    ASSUME TypeOK, NEW force, StopDpi(force)
    PROVE  (stopThread'.pc = "stopping") = (stopThread.pc = "stopping")
<1>1. \/ stopThread' = stopThread
      \/ stopThread.pc = "none" /\ stopThread'.pc = "check"
    BY DEF StopDpi, IsRunningThread, NoStop
<1> QED BY <1>1

LEMMA PendingLocks ==
    ASSUME TypeOK
    PROVE  /\ \A r : ProcessPendingRestart(r) =>
                  /\ SpawnsLocked(startThread)' = SpawnsLocked(startThread)
                  /\ (stopThread'.pc = "stopping") = (stopThread.pc = "stopping")
           /\ \A w, s : ProcessPendingSwitch(w, s) =>
                  SpawnsLocked(switchThread)' = SpawnsLocked(switchThread)
<1>1. ASSUME NEW r, ProcessPendingRestart(r)
      PROVE  /\ SpawnsLocked(startThread)' = SpawnsLocked(startThread)
             /\ (stopThread'.pc = "stopping") = (stopThread.pc = "stopping")
    <2>1. CASE UNCHANGED <<startThread, stopThread>>
        BY <2>1 DEF SpawnsLocked
    <2>2. CASE StopDpi(r.forceStop = r.requested) /\ UNCHANGED startThread
        BY <2>2, StopDpiLocks DEF SpawnsLocked
    <2>3. CASE StartDpi(svc, FALSE) /\ UNCHANGED stopThread
        BY <2>3, StartDpiLocks
    <2> QED BY <1>1, <2>1, <2>2, <2>3 DEF ProcessPendingRestart
<1>2. ASSUME NEW w, NEW s, ProcessPendingSwitch(w, s)
      PROVE  SpawnsLocked(switchThread)' = SpawnsLocked(switchThread)
    <2>1. \/ UNCHANGED switchThread
          \/ switchThread.pc = "none" /\ switchThread'.pc = "check"
        BY <1>2 DEF ProcessPendingSwitch, NoSwitch
    <2> QED BY <2>1 DEF SpawnsLocked
<1> QED BY <1>1, <1>2

LEMMA HandlersLock ==
    TypeOK /\ TransitionUnderLock /\ (Timers \/ Signals \/ User \/ ProcessDies \/ AutoRestartExpires)
      => TransitionUnderLock'
<1> SUFFICES ASSUME TypeOK, TransitionUnderLock,
                    Timers \/ Signals \/ User \/ ProcessDies \/ AutoRestartExpires
             PROVE  TransitionUnderLock'
    OBVIOUS
<1>1. CASE \/ SelectPreset \/ ApplyTimerFires \/ MonitorPoll \/ ProcessDies \/ AutoRestartExpires
    BY <1>1, LocksKeep
       DEF SelectPreset, ApplyTimerFires, MonitorPoll, ProcessDies, AutoRestartExpires,
           LocksStay, SpawnsLocked, threads, process
<1>2. CASE RestartCall \/ RestartRetry \/ \E force \in BOOLEAN : RestartDpi(force)
    <2>1. (\E r : ProcessPendingRestart(r)) /\ UNCHANGED <<switchThread, runner>>
        BY <1>2 DEF RestartCall, RestartRetry, RestartDpi, process
    <2> QED BY <2>1, PendingLocks, LocksKeep DEF LocksStay, SpawnsLocked
<1>3. CASE SwitchCall \/ DebounceFires
    <2>1. (\E w, s : ProcessPendingSwitch(w, s)) /\ UNCHANGED <<startThread, stopThread, runner>>
        BY <1>3 DEF SwitchCall, DebounceFires, process
    <2> QED BY <2>1, PendingLocks, LocksKeep DEF LocksStay, SpawnsLocked
<1>4. CASE UserStart \/ Autostart \/ UnexpectedExit
    <2>1. /\ (\E s, autostart : StartDpi(s, autostart)) \/ UNCHANGED startThread
          /\ UNCHANGED <<stopThread, switchThread, runner>>
        BY <1>4 DEF UserStart, Autostart, UnexpectedExit, process
    <2> QED BY <2>1, StartDpiLocks, LocksKeep DEF LocksStay, SpawnsLocked
<1>5. CASE UserStop
    <2>1. StopDpi(FALSE) /\ UNCHANGED <<startThread, switchThread, runner>>
        BY <1>5 DEF UserStop, process
    <2> QED BY <2>1, StopDpiLocks, LocksKeep DEF LocksStay, SpawnsLocked
<1>6. CASE StartFinished
    <2>1. /\ startThread.pc = "done" /\ startThread'.pc \in {"exiting", "none"}
          /\ UNCHANGED <<stopThread, switchThread, runner>>
        BY <1>6 DEF StartFinished, Quit, NoStart, process, TypeOK, Starts
    <2> QED BY <2>1, LocksKeep DEF LocksStay, SpawnsLocked
<1>7. CASE StopFinished
    <2>1. /\ stopThread.pc = "done" /\ stopThread'.pc \in {"exiting", "none"}
          /\ UNCHANGED <<switchThread, runner>>
        BY <1>7 DEF StopFinished, Quit, NoStop, process, TypeOK, Stops
    <2>2. (\E s, autostart : StartDpi(s, autostart)) \/ UNCHANGED startThread
        BY <1>7 DEF StopFinished
    <2> QED BY <2>1, <2>2, StartDpiLocks, LocksKeep DEF LocksStay, SpawnsLocked
<1>8. CASE SwitchFinished
    <2>1. /\ switchThread.pc = "done" /\ switchThread'.pc \in {"exiting", "none"}
          /\ UNCHANGED <<startThread, stopThread, runner>>
        BY <1>8 DEF SwitchFinished, Quit, NoSwitch, process, TypeOK, Switches
    <2> QED BY <2>1, LocksKeep DEF LocksStay, SpawnsLocked
<1> QED BY <1>1, <1>2, <1>3, <1>4, <1>5, <1>6, <1>7, <1>8 DEF Timers, Signals, User

LEMMA WorkersLock == TypeOK /\ TransitionUnderLock /\ Workers => TransitionUnderLock'
<1> SUFFICES ASSUME TypeOK, TransitionUnderLock, Workers PROVE TransitionUnderLock'
    OBVIOUS
<1>0. startThread \in Starts /\ stopThread \in Stops /\ switchThread \in Switches
    BY DEF TypeOK
<1>1. CASE StartPrepares
    <2>1. /\ startThread.pc = "prepare" /\ startThread'.pc \in {"done", "launch"}
          /\ switchThread' = switchThread \/ switchThread' \in MayLose(switchThread, "spawn")
          /\ runner' \in {runner, "none"} /\ UNCHANGED stopThread
        BY <1>0, <1>1 DEF StartPrepares, Starts, process
    <2>2. /\ SpawnsLocked(switchThread)' = SpawnsLocked(switchThread)
          /\ SpawnsLocked(startThread)' = SpawnsLocked(startThread)
        BY <1>0, <2>1 DEF SpawnsLocked, MayLose, Switches
    <2> QED BY <2>1, <2>2 DEF TransitionUnderLock, LockHeld
<1>2. CASE StartSpawns
    <2>1. /\ startThread'.pc = "spawned" /\ startThread'.lost = startThread.lost
          /\ startThread.pc = "launch"
          /\ startThread.lost \/ ~LockHeld
          /\ UNCHANGED <<stopThread, switchThread>>
        BY <1>0, <1>2 DEF StartSpawns, Starts
    <2>2. CASE startThread.lost
        <3>1. UNCHANGED runner
            BY <1>2, <2>2 DEF StartSpawns, OnRunner
        <3> QED BY <2>1, <2>2, <3>1, LocksKeep DEF LocksStay, SpawnsLocked
    <2>3. CASE ~startThread.lost
        BY <2>1, <2>3 DEF TransitionUnderLock, LockHeld, SpawnsLocked
    <2> QED BY <2>2, <2>3
<1>3. CASE StartReports
    <2>1. /\ startThread.pc = "spawned" /\ startThread'.pc = "done"
          /\ IF startThread.lost THEN UNCHANGED runner ELSE runner' \in {"running", "failed"}
          /\ UNCHANGED <<stopThread, switchThread>>
        BY <1>0, <1>3 DEF StartReports, Starts, OnRunner
    <2> QED BY <1>0, <2>1 DEF TransitionUnderLock, LockHeld, SpawnsLocked, Starts
<1>4. CASE StartExits \/ StopExits \/ SwitchExits
    BY <1>4, LocksKeep
       DEF StartExits, StopExits, SwitchExits, LocksStay, SpawnsLocked, NoStart, NoStop, NoSwitch, process
<1>5. CASE StopChecks \/ StopSweeps
    <2>1. /\ stopThread.pc \in {"check", "sweep"} /\ stopThread'.pc \in {"stop", "done"}
          /\ UNCHANGED <<startThread, switchThread, runner>>
        BY <1>0, <1>5 DEF StopChecks, StopSweeps, Stops, process
    <2> QED BY <2>1, LocksKeep DEF LocksStay, SpawnsLocked
<1>6. CASE StopBegins
    <2>1. /\ ~LockHeld /\ UNCHANGED <<startThread, switchThread>>
          /\ \/ stopThread'.pc = "stopping"
             \/ stopThread'.pc = "sweep" /\ runner = "none" /\ runner' = "none"
        BY <1>0, <1>6 DEF StopBegins, Stops
    <2> QED BY <2>1 DEF TransitionUnderLock, LockHeld, SpawnsLocked
<1>7. CASE StopDropsRunner
    <2>1. /\ stopThread.pc = "stopping" /\ stopThread'.pc = "sweep" /\ runner' = "none"
          /\ startThread' \in MayLose(startThread, "launch")
          /\ switchThread' \in MayLose(switchThread, "spawn")
        BY <1>0, <1>7 DEF StopDropsRunner, Stops
    <2>2. /\ SpawnsLocked(startThread)' = SpawnsLocked(startThread)
          /\ SpawnsLocked(switchThread)' = SpawnsLocked(switchThread)
        BY <1>0, <2>1 DEF SpawnsLocked, MayLose, Starts, Switches
    <2> QED BY <2>1, <2>2 DEF TransitionUnderLock, LockHeld
<1>8. CASE SwitchChecks \/ SwitchReads \/ SwitchReports
    <2>1. /\ switchThread.pc \in {"check", "read", "report"}
          /\ switchThread'.pc \in {"read", "spawn", "done"}
          /\ UNCHANGED <<startThread, stopThread, runner>>
        BY <1>0, <1>8 DEF SwitchChecks, SwitchReads, SwitchReports, SwitchDone, Switches, process
    <2> QED BY <2>1, LocksKeep DEF LocksStay, SpawnsLocked
<1>9. CASE SwitchSpawns
    <2>1. /\ switchThread.pc = "spawn" /\ switchThread'.lost = switchThread.lost
          /\ switchThread.lost \/ ~LockHeld
          /\ UNCHANGED <<startThread, stopThread>>
          /\ switchThread.lost => UNCHANGED runner
          /\ \/ switchThread'.pc = "spawned"
             \/ switchThread'.pc \in {"done", "report"} /\ runner' \in {runner, "failed"}
        BY <1>0, <1>9 DEF SwitchSpawns, SwitchDone, OnRunner, Switches
    <2> QED BY <2>1 DEF TransitionUnderLock, LockHeld, SpawnsLocked
<1>10. CASE SwitchHandsOver
    <2>1. /\ switchThread.pc = "spawned" /\ switchThread'.pc = "report"
          /\ IF switchThread.lost THEN UNCHANGED runner ELSE runner' \in {"running", "failed"}
          /\ UNCHANGED <<startThread, stopThread>>
        BY <1>0, <1>10 DEF SwitchHandsOver, Switches, OnRunner
    <2> QED BY <1>0, <2>1 DEF TransitionUnderLock, LockHeld, SpawnsLocked, Switches
<1> QED BY <1>1, <1>2, <1>3, <1>4, <1>5, <1>6, <1>7, <1>8, <1>9, <1>10 DEF Workers, StartWorks, StopWorks, SwitchWorks

\* One spawn or stop at a time holds the lock of the factory's runner, and that runner
\* is starting or stopping only meanwhile: a snapshot never shows a transition.
THEOREM TransitionsLocked == Spec => []TransitionUnderLock
<1>1. Init => TransitionUnderLock
    BY DEF Init, TransitionUnderLock, SpawnsLocked, NoStart, NoStop, NoSwitch
<1>2. TypeOK /\ TransitionUnderLock /\ [Next]_vars => TransitionUnderLock'
    <2> SUFFICES ASSUME TypeOK, TransitionUnderLock, [Next]_vars PROVE TransitionUnderLock'
        OBVIOUS
    <2>1. CASE UNCHANGED vars
        BY <2>1, LocksKeep DEF vars, LocksStay, SpawnsLocked, threads, process
    <2> QED BY <2>1, HandlersLock, WorkersLock DEF Next
<1> QED BY <1>1, <1>2, TypeCorrect, PTL DEF Spec

(*------------------------------ generation counters ---------------------------*)

RestartOrdered(r) == {r.completed, r.pendingStop, r.activeStart, r.forceStop} \subseteq 0 .. r.requested

\* What one step may do to the restart counters, and to the switch counters.
RestartStep ==
    /\ RestartOrdered(restart')
    /\ \/ restart'.activeStart \in {0, restart.activeStart}
       \/ restart'.activeStart > restart.completed
    /\ LatestRestart!Next \/ UNCHANGED LatestRestart!latest

SwitchStep ==
    /\ {switch'.completed, switchThread'.gen} \subseteq 0 .. switch'.requested
    /\ LatestSwitch!Next \/ UNCHANGED LatestSwitch!latest

\* Requeueing and retrying touch no generation.
LEMMA RequeueKeeps ==
    /\ \A r \in RestartCounters :
          /\ Requeue(r).requested = r.requested /\ Requeue(r).completed = r.completed
          /\ Requeue(r).pendingStop = r.pendingStop /\ Requeue(r).activeStart = r.activeStart
          /\ Requeue(r).forceStop = r.forceStop
    /\ \A w \in SwitchCounters :
          Requeue(w).requested = w.requested /\ Requeue(w).completed = w.completed
BY DEF Requeue, RestartCounters, SwitchCounters

\* process_pending_restart_request serves nothing itself, and starts or stops for
\* the newest generation only while that is open.
LEMMA ProcessPendingRestartOrder ==
    ASSUME NEW r \in RestartCounters, RestartOrdered(r), ProcessPendingRestart(r)
    PROVE  /\ restart' \in RestartCounters
           /\ RestartOrdered(restart')
           /\ restart'.requested = r.requested /\ restart'.completed = r.completed
           /\ \/ restart'.activeStart = r.activeStart
              \/ restart'.activeStart > r.completed
<1>1. CASE restart' \in {r, [r EXCEPT !.wait = TRUE], [r EXCEPT !.pendingStop = r.requested]}
    <2>1. /\ restart' \in RestartCounters
          /\ restart'.requested = r.requested /\ restart'.completed = r.completed
          /\ restart'.activeStart = r.activeStart /\ restart'.forceStop = r.forceStop
          /\ restart'.pendingStop \in {r.pendingStop, r.requested}
        BY <1>1 DEF RestartCounters
    <2>2. r.requested \in 0 .. r.requested
        BY DEF RestartCounters
    <2> QED BY <2>1, <2>2 DEF RestartOrdered
<1>2. CASE Open(r) /\ restart' = [r EXCEPT !.activeStart = r.requested]
    BY <1>2 DEF RestartCounters, RestartOrdered, Open
<1> QED BY <1>1, <1>2 DEF ProcessPendingRestart

LEMMA ProcessPendingSwitchOrder ==
    ASSUME NEW w \in SwitchCounters, NEW s, ProcessPendingSwitch(w, s),
           switchThread \in Switches,
           {w.completed, switchThread.gen} \subseteq 0 .. w.requested
    PROVE  /\ {switch'.completed, switchThread'.gen} \subseteq 0 .. switch'.requested
           /\ switch'.requested = w.requested
           /\ switch'.completed \in {w.completed, w.requested}
<1>1. CASE switch' = w /\ UNCHANGED switchThread
    BY <1>1 DEF SwitchCounters
<1>2. CASE switch' = NothingToSwitch(w) /\ UNCHANGED switchThread
    BY <1>2 DEF SwitchCounters, NothingToSwitch
<1>3. CASE switch' = w /\ switchThread' = [NoSwitch EXCEPT !.pc = "check", !.gen = w.requested]
    BY <1>3 DEF SwitchCounters, NoSwitch
<1> QED BY <1>1, <1>2, <1>3 DEF ProcessPendingSwitch

LEMMA RestartStays ==
    ASSUME TypeOK, GenerationsOrdered, UNCHANGED restart
    PROVE  RestartStep
BY DEF RestartStep, GenerationsOrdered, RestartOrdered, LatestRestart!latest

LEMMA RestartCallSteps == TypeOK /\ GenerationsOrdered /\ (RestartCall \/ RestartRetry) => RestartStep
<1> SUFFICES ASSUME TypeOK, GenerationsOrdered, RestartCall \/ RestartRetry PROVE RestartStep
    OBVIOUS
<1>1. restart \in RestartCounters /\ RestartOrdered(restart)
    BY DEF TypeOK, GenerationsOrdered, RestartOrdered
<1>2. ASSUME NEW r \in RestartCounters, ProcessPendingRestart(r), RestartOrdered(r),
             r.requested = restart.requested, r.completed = restart.completed,
             r.activeStart = restart.activeStart
      PROVE  RestartStep
    <2>1. /\ RestartOrdered(restart')
          /\ restart'.requested = r.requested /\ restart'.completed = r.completed
          /\ \/ restart'.activeStart = r.activeStart
             \/ restart'.activeStart > r.completed
        BY <1>2, ProcessPendingRestartOrder
    <2> QED BY <1>2, <2>1 DEF RestartStep, LatestRestart!latest
<1>3. CASE RestartCall
    <2> DEFINE r == [restart EXCEPT !.calls = @ - 1]
    <2>1. /\ r \in RestartCounters /\ ProcessPendingRestart(r) /\ RestartOrdered(r)
          /\ r.requested = restart.requested /\ r.completed = restart.completed
          /\ r.activeStart = restart.activeStart
        BY <1>1, <1>3 DEF RestartCall, RestartCounters, RestartOrdered
    <2> QED BY <1>2, <2>1
<1>4. CASE RestartRetry
    <2> DEFINE r == [restart EXCEPT !.wait = FALSE]
    <2>1. /\ r \in RestartCounters /\ ProcessPendingRestart(r) /\ RestartOrdered(r)
          /\ r.requested = restart.requested /\ r.completed = restart.completed
          /\ r.activeStart = restart.activeStart
        BY <1>1, <1>4 DEF RestartRetry, RestartCounters, RestartOrdered
    <2> QED BY <1>2, <2>1
<1> QED BY <1>3, <1>4

LEMMA RestartDpiSteps ==
    ASSUME TypeOK, GenerationsOrdered, NEW force \in BOOLEAN, RestartDpi(force)
    PROVE  RestartStep
<1> DEFINE g == restart.requested + 1
           r == [restart EXCEPT !.requested = g, !.forceStop = IF force THEN g ELSE @]
<1>1. restart \in RestartCounters /\ RestartOrdered(restart) /\ g \in Nat
    BY DEF TypeOK, GenerationsOrdered, RestartOrdered, RestartCounters
<1>2. (IF force THEN g ELSE restart.forceStop) \in 0 .. g
    BY <1>1 DEF RestartOrdered, RestartCounters
<1>3. r \in RestartCounters
    BY <1>1, <1>2 DEF RestartCounters
<1>4. /\ r.requested = g /\ r.completed = restart.completed
      /\ r.activeStart = restart.activeStart /\ r.pendingStop = restart.pendingStop
      /\ r.forceStop \in 0 .. g
    BY <1>1, <1>2 DEF RestartCounters
<1>5. ProcessPendingRestart(r)
    BY DEF RestartDpi
<1> HIDE DEF r
<1>6. RestartOrdered(r)
    BY <1>1, <1>4 DEF RestartOrdered, RestartCounters
<1>7. /\ RestartOrdered(restart')
      /\ restart'.requested = r.requested /\ restart'.completed = r.completed
      /\ \/ restart'.activeStart = r.activeStart
         \/ restart'.activeStart > r.completed
    BY <1>3, <1>5, <1>6, ProcessPendingRestartOrder
<1>8. LatestRestart!Next
    BY <1>4, <1>7 DEF LatestRestart!Next, LatestRestart!Request
<1> QED BY <1>4, <1>7, <1>8 DEF RestartStep

LEMMA StartFinishedSteps == TypeOK /\ GenerationsOrdered /\ StartFinished => RestartStep
<1> SUFFICES ASSUME TypeOK, GenerationsOrdered, StartFinished PROVE RestartStep
    OBVIOUS
<1> DEFINE c == IF restart.activeStart # 0 THEN Later(restart.completed, restart.activeStart)
                ELSE restart.completed
           r == [restart EXCEPT !.completed = c, !.activeStart = 0]
<1>1. restart \in RestartCounters /\ RestartOrdered(restart)
    BY DEF TypeOK, GenerationsOrdered, RestartOrdered
<1>2. c = restart.completed \/ c \in restart.completed + 1 .. restart.requested
    BY <1>1 DEF Later, RestartCounters, RestartOrdered
<1>3. c \in 0 .. restart.requested
    BY <1>1, <1>2 DEF RestartCounters, RestartOrdered
<1> HIDE DEF c
<1>4. /\ r \in RestartCounters
      /\ r.requested = restart.requested /\ r.completed = c /\ r.activeStart = 0
      /\ r.pendingStop = restart.pendingStop /\ r.forceStop = restart.forceStop
    <2>1. c \in Nat
        BY <1>1, <1>3 DEF RestartCounters
    <2> QED BY <1>1, <2>1 DEF RestartCounters
<1>5. restart' = Requeue(r)
    BY DEF StartFinished, c
<1> HIDE DEF r
<1>6. /\ restart'.requested = restart.requested /\ restart'.completed = c /\ restart'.activeStart = 0
      /\ restart'.pendingStop = restart.pendingStop /\ restart'.forceStop = restart.forceStop
    BY <1>4, <1>5, RequeueKeeps
<1>7. RestartOrdered(restart')
    BY <1>1, <1>3, <1>6 DEF RestartOrdered, RestartCounters
<1>8. LatestRestart!Next \/ UNCHANGED LatestRestart!latest
    BY <1>2, <1>6 DEF LatestRestart!Next, LatestRestart!Serve, LatestRestart!latest
<1> QED BY <1>6, <1>7, <1>8 DEF RestartStep

LEMMA StopFinishedSteps == TypeOK /\ GenerationsOrdered /\ StopFinished => RestartStep
<1> SUFFICES ASSUME TypeOK, GenerationsOrdered, StopFinished PROVE RestartStep
    OBVIOUS
<1> DEFINE g == restart.pendingStop
           settled == [restart EXCEPT !.forceStop = IF g >= @ THEN 0 ELSE @]
<1>1. restart \in RestartCounters /\ RestartOrdered(restart)
    BY DEF TypeOK, GenerationsOrdered, RestartOrdered
<1>2. \/ restart' \in {settled, [settled EXCEPT !.pendingStop = 0], [restart EXCEPT !.pendingStop = 0]}
      \/ /\ g > restart.completed
         /\ restart' = [settled EXCEPT !.pendingStop = 0, !.activeStart = Newest(restart, g)]
    BY DEF StopFinished
<1>3. Newest(restart, g) = restart.requested
    BY <1>1 DEF Newest, Later, RestartCounters, RestartOrdered
<1>4. /\ settled \in RestartCounters
      /\ settled.requested = restart.requested /\ settled.completed = restart.completed
      /\ settled.activeStart = restart.activeStart /\ settled.pendingStop = restart.pendingStop
      /\ settled.forceStop \in {0, restart.forceStop}
    BY <1>1 DEF RestartCounters
<1> HIDE DEF settled
<1>5. /\ restart'.requested = restart.requested /\ restart'.completed = restart.completed
      /\ restart'.pendingStop \in {0, restart.pendingStop}
      /\ restart'.forceStop \in {0, restart.forceStop}
      /\ \/ restart'.activeStart = restart.activeStart
         \/ g > restart.completed /\ restart'.activeStart = restart.requested
    BY <1>1, <1>2, <1>3, <1>4 DEF RestartCounters
<1>6. RestartOrdered(restart')
    BY <1>1, <1>5 DEF RestartOrdered, RestartCounters
<1>7. \/ restart'.activeStart = restart.activeStart
      \/ restart'.activeStart > restart.completed
    BY <1>1, <1>5 DEF RestartOrdered, RestartCounters
<1> QED BY <1>5, <1>6, <1>7 DEF RestartStep, LatestRestart!latest

LEMMA RestartSteps == TypeOK /\ GenerationsOrdered /\ [Next]_vars => RestartStep
<1> SUFFICES ASSUME TypeOK, GenerationsOrdered, [Next]_vars PROVE RestartStep
    OBVIOUS
<1>1. CASE Timers
    <2>1. CASE RestartCall \/ RestartRetry
        BY <2>1, RestartCallSteps
    <2>2. CASE SwitchCall \/ ApplyTimerFires \/ DebounceFires
        BY <2>2, RestartStays DEF SwitchCall, ApplyTimerFires, DebounceFires
    <2> QED BY <1>1, <2>1, <2>2 DEF Timers
<1>2. CASE Signals
    <2>1. CASE StartFinished
        BY <2>1, StartFinishedSteps
    <2>2. CASE StopFinished
        BY <2>2, StopFinishedSteps
    <2>3. CASE Autostart \/ MonitorPoll \/ UnexpectedExit \/ SwitchFinished
        BY <2>3, RestartStays DEF Autostart, MonitorPoll, UnexpectedExit, SwitchFinished
    <2> QED BY <1>2, <2>1, <2>2, <2>3 DEF Signals
<1>3. CASE User
    <2>1. ASSUME NEW force \in BOOLEAN, RestartDpi(force) PROVE RestartStep
        BY <2>1, RestartDpiSteps
    <2>2. CASE UserStart \/ UserStop \/ SelectPreset
        BY <2>2, RestartStays DEF UserStart, UserStop, SelectPreset
    <2> QED BY <1>3, <2>1, <2>2 DEF User
<1>4. CASE Workers
    BY <1>4, RestartStays
       DEF Workers, StartWorks, StopWorks, SwitchWorks, StartPrepares, StartSpawns, StartReports, StartExits, StopChecks, StopBegins,
           StopDropsRunner, StopSweeps, StopExits, SwitchChecks, SwitchReads, SwitchSpawns,
           SwitchHandsOver, SwitchReports, SwitchExits
<1>5. CASE ProcessDies \/ AutoRestartExpires \/ UNCHANGED vars
    BY <1>5, RestartStays DEF ProcessDies, AutoRestartExpires, vars
<1> QED BY <1>1, <1>2, <1>3, <1>4, <1>5 DEF Next

LEMMA SwitchStays ==
    ASSUME TypeOK, GenerationsOrdered, UNCHANGED switch,
           switchThread'.gen \in {0, switchThread.gen}
    PROVE  SwitchStep
<1>1. 0 \in 0 .. switch.requested
    BY DEF TypeOK, SwitchCounters
<1> QED BY <1>1 DEF SwitchStep, GenerationsOrdered, LatestSwitch!latest

LEMMA SwitchCallSteps == TypeOK /\ GenerationsOrdered /\ SwitchCall => SwitchStep
<1> SUFFICES ASSUME TypeOK, GenerationsOrdered, SwitchCall PROVE SwitchStep
    OBVIOUS
<1>1. /\ switch \in SwitchCounters /\ switchThread \in Switches
      /\ {switch.completed, switchThread.gen} \subseteq 0 .. switch.requested
    BY DEF TypeOK, GenerationsOrdered
<1>2. PICK w \in SwitchCounters :
         /\ ProcessPendingSwitch(w, svc)
         /\ w.requested = switch.requested /\ w.completed = switch.completed
    <2> DEFINE w == [switch EXCEPT !.calls = @ - 1]
    <2>1. /\ w \in SwitchCounters /\ ProcessPendingSwitch(w, svc)
          /\ w.requested = switch.requested /\ w.completed = switch.completed
        BY <1>1 DEF SwitchCall, SwitchCounters
    <2> QED BY <2>1
<1>3. /\ {switch'.completed, switchThread'.gen} \subseteq 0 .. switch'.requested
      /\ switch'.requested = switch.requested
      /\ switch'.completed \in {switch.completed, switch.requested}
    BY <1>1, <1>2, ProcessPendingSwitchOrder
<1>4. switch'.completed = switch.completed \/ switch'.completed \in switch.completed + 1 .. switch.requested
    BY <1>1, <1>3 DEF SwitchCounters
<1> QED BY <1>3, <1>4 DEF SwitchStep, LatestSwitch!Next, LatestSwitch!Serve, LatestSwitch!latest

LEMMA DebounceSteps == TypeOK /\ GenerationsOrdered /\ DebounceFires => SwitchStep
<1> SUFFICES ASSUME TypeOK, GenerationsOrdered, DebounceFires PROVE SwitchStep
    OBVIOUS
<1> DEFINE w == [switch EXCEPT !.requested = @ + 1]
<1>1. /\ switch \in SwitchCounters /\ switchThread \in Switches
      /\ {switch.completed, switchThread.gen} \subseteq 0 .. switch.requested
    BY DEF TypeOK, GenerationsOrdered
<1>2. /\ w \in SwitchCounters /\ ProcessPendingSwitch(w, SetBusy(svc, TRUE))
      /\ w.requested = switch.requested + 1 /\ w.completed = switch.completed
    <2>1. w \in SwitchCounters /\ w.requested = switch.requested + 1 /\ w.completed = switch.completed
        BY <1>1 DEF SwitchCounters
    <2>2. ProcessPendingSwitch(w, SetBusy(svc, TRUE))
        BY DEF DebounceFires
    <2> QED BY <2>1, <2>2
<1> HIDE DEF w
<1>3. {w.completed, switchThread.gen} \subseteq 0 .. w.requested
    BY <1>1, <1>2 DEF SwitchCounters
<1>4. /\ {switch'.completed, switchThread'.gen} \subseteq 0 .. switch'.requested
      /\ switch'.requested = switch.requested + 1
      /\ switch'.completed \in {switch.completed, switch'.requested}
    BY <1>1, <1>2, <1>3, ProcessPendingSwitchOrder
<1> QED BY <1>4 DEF SwitchStep, LatestSwitch!Next, LatestSwitch!Request, LatestSwitch!RequestServed

LEMMA SwitchFinishedSteps == TypeOK /\ GenerationsOrdered /\ SwitchFinished => SwitchStep
<1> SUFFICES ASSUME TypeOK, GenerationsOrdered, SwitchFinished PROVE SwitchStep
    OBVIOUS
<1> DEFINE c == Later(switch.completed, switchThread.gen)
           w == [switch EXCEPT !.completed = c]
<1>1. /\ switch \in SwitchCounters /\ switchThread \in Switches
      /\ {switch.completed, switchThread.gen} \subseteq 0 .. switch.requested
    BY DEF TypeOK, GenerationsOrdered
<1>2. /\ c \in 0 .. switch.requested
      /\ c = switch.completed \/ c \in switch.completed + 1 .. switch.requested
    BY <1>1 DEF Later, SwitchCounters, Switches
<1> HIDE DEF c
<1>3. c \in Nat
    BY <1>1, <1>2 DEF SwitchCounters
<1>4. w \in SwitchCounters /\ w.requested = switch.requested /\ w.completed = c
    BY <1>1, <1>3 DEF SwitchCounters
<1>5. switch' = Requeue(w)
    BY DEF SwitchFinished, c
<1> HIDE DEF w
<1>6. switch'.requested = switch.requested /\ switch'.completed = c
    BY <1>4, <1>5, RequeueKeeps
<1>7. switchThread'.gen \in 0 .. switch.requested
    <2>1. switchThread' = [switchThread EXCEPT !.pc = "exiting"] \/ switchThread' = NoSwitch
        BY DEF SwitchFinished, Quit
    <2>2. switchThread'.gen \in {0, switchThread.gen}
        BY <1>1, <2>1 DEF NoSwitch, Switches
    <2> QED BY <1>1, <2>2 DEF SwitchCounters
<1> QED BY <1>2, <1>6, <1>7 DEF SwitchStep, LatestSwitch!Next, LatestSwitch!Serve, LatestSwitch!latest

LEMMA SwitchWorkerGeneration ==
    ASSUME TypeOK,
           \/ SwitchChecks \/ SwitchReads \/ SwitchSpawns \/ SwitchHandsOver
           \/ SwitchReports \/ SwitchExits
    PROVE  UNCHANGED switch /\ switchThread'.gen \in {0, switchThread.gen}
<1>1. switchThread \in Switches
    BY DEF TypeOK
<1>2. CASE SwitchChecks
    BY <1>1, <1>2 DEF SwitchChecks, SwitchDone, Switches
<1>3. CASE SwitchReads
    BY <1>1, <1>3 DEF SwitchReads, SwitchDone, Switches
<1>4. CASE SwitchSpawns
    BY <1>1, <1>4 DEF SwitchSpawns, SwitchDone, Switches
<1>5. CASE SwitchHandsOver
    BY <1>1, <1>5 DEF SwitchHandsOver, Switches
<1>6. CASE SwitchReports
    BY <1>1, <1>6 DEF SwitchReports, SwitchDone, Switches
<1>7. CASE SwitchExits
    BY <1>7 DEF SwitchExits, NoSwitch
<1> QED BY <1>2, <1>3, <1>4, <1>5, <1>6, <1>7

LEMMA SwitchSteps == TypeOK /\ GenerationsOrdered /\ [Next]_vars => SwitchStep
<1> SUFFICES ASSUME TypeOK, GenerationsOrdered, [Next]_vars PROVE SwitchStep
    OBVIOUS
<1>1. CASE Timers
    <2>1. CASE SwitchCall
        BY <2>1, SwitchCallSteps
    <2>2. CASE DebounceFires
        BY <2>2, DebounceSteps
    <2>3. CASE RestartCall \/ RestartRetry \/ ApplyTimerFires
        BY <2>3, SwitchStays DEF RestartCall, RestartRetry, ApplyTimerFires, threads
    <2> QED BY <1>1, <2>1, <2>2, <2>3 DEF Timers
<1>2. CASE Signals
    <2>1. CASE SwitchFinished
        BY <2>1, SwitchFinishedSteps
    <2>2. CASE StartFinished \/ StopFinished
        <3>1. switch' = Requeue(switch) /\ UNCHANGED switchThread
            BY <2>2 DEF StartFinished, StopFinished
        <3>2. switch'.requested = switch.requested /\ switch'.completed = switch.completed
            BY <3>1, RequeueKeeps DEF TypeOK
        <3> QED BY <3>1, <3>2 DEF SwitchStep, GenerationsOrdered, LatestSwitch!latest
    <2>3. CASE Autostart \/ MonitorPoll \/ UnexpectedExit
        BY <2>3, SwitchStays DEF Autostart, MonitorPoll, UnexpectedExit, threads
    <2> QED BY <1>2, <2>1, <2>2, <2>3 DEF Signals
<1>3. CASE User
    BY <1>3, SwitchStays DEF User, RestartDpi, UserStart, UserStop, SelectPreset, threads
<1>4. CASE Workers
    <2>1. CASE \/ SwitchChecks \/ SwitchReads \/ SwitchSpawns \/ SwitchHandsOver
               \/ SwitchReports \/ SwitchExits
        BY <2>1, SwitchWorkerGeneration, SwitchStays
    <2>2. CASE \/ StartSpawns \/ StartReports \/ StartExits
               \/ StopChecks \/ StopBegins \/ StopSweeps \/ StopExits
        BY <2>2, SwitchStays
           DEF StartSpawns, StartReports, StartExits, StopChecks, StopBegins, StopSweeps, StopExits
    <2>3. CASE StartPrepares \/ StopDropsRunner
        <3>1. /\ UNCHANGED switch
              /\ switchThread' = switchThread \/ switchThread' \in MayLose(switchThread, "spawn")
            BY <2>3 DEF StartPrepares, StopDropsRunner
        <3>2. switchThread'.gen = switchThread.gen
            BY <3>1 DEF MayLose, TypeOK, Switches
        <3> QED BY <3>1, <3>2, SwitchStays
    <2> QED BY <1>4, <2>1, <2>2, <2>3 DEF Workers, StartWorks, StopWorks, SwitchWorks
<1>5. CASE ProcessDies \/ AutoRestartExpires \/ UNCHANGED vars
    BY <1>5, SwitchStays DEF ProcessDies, AutoRestartExpires, vars, threads
<1> QED BY <1>1, <1>2, <1>3, <1>4, <1>5 DEF Next

\* Whatever is served, waited for or being started was requested before.
THEOREM Ordered == Spec => []GenerationsOrdered
<1>1. Init => GenerationsOrdered
    BY DEF Init, GenerationsOrdered, NoSwitch
<1>2. TypeOK /\ GenerationsOrdered /\ [Next]_vars => GenerationsOrdered'
    <2> SUFFICES ASSUME TypeOK, GenerationsOrdered, [Next]_vars PROVE GenerationsOrdered'
        OBVIOUS
    <2>1. RestartStep /\ SwitchStep
        BY RestartSteps, SwitchSteps
    <2> QED BY <2>1 DEF RestartStep, SwitchStep, RestartOrdered, GenerationsOrdered
<1> QED BY <1>1, <1>2, TypeCorrect, PTL DEF Spec

\* A restart that was served is never started again.
THEOREM ServedOnce == Spec => NeverRestartsServed
<1>1. TypeOK /\ GenerationsOrdered /\ [Next]_vars
        => [restart'.activeStart \notin {0, restart.activeStart}
              => restart'.activeStart > restart.completed]_vars
    BY RestartSteps DEF RestartStep
<1> QED BY <1>1, TypeCorrect, Ordered, PTL DEF Spec, NeverRestartsServed

\* The restart counters behave as LatestRequest allows.
THEOREM RestartsImplement == Spec => RestartsLatest
<1>1. Init => LatestRestart!Init
    BY DEF Init, LatestRestart!Init
<1>2. TypeOK /\ GenerationsOrdered /\ [Next]_vars => [LatestRestart!Next]_(LatestRestart!latest)
    BY RestartSteps DEF RestartStep
<1> QED BY <1>1, <1>2, TypeCorrect, Ordered, PTL DEF Spec, RestartsLatest, LatestRestart!Spec

\* And so do the counters of preset switches.
THEOREM SwitchesImplement == Spec => SwitchesLatest
<1>1. Init => LatestSwitch!Init
    BY DEF Init, LatestSwitch!Init
<1>2. TypeOK /\ GenerationsOrdered /\ [Next]_vars => [LatestSwitch!Next]_(LatestSwitch!latest)
    BY SwitchSteps DEF SwitchStep
<1> QED BY <1>1, <1>2, TypeCorrect, Ordered, PTL DEF Spec, SwitchesLatest, LatestSwitch!Spec
=================================================================================
