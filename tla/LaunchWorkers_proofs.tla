-------------------------- MODULE LaunchWorkers_proofs ---------------------------
(* What the launch service says has a worker behind it: a transition always its  *)
(* own worker, the busy flag any worker or a queued call for an open switch,     *)
(* until that call meets a thread that has run its slot and not ended.           *)
(*                                                                               *)
(* The busy flag is the hard half.  A stale switch leaves it on when it ends, so *)
(* the proof has to know that a newer switch is open then and called again: a    *)
(* working switch has not been completed, and a stale one is not the newest      *)
(* (SwitchInv).                                                                  *)
(*                                                                               *)
(* And facts about single steps: an open restart or switch is lost sight of only *)
(* where the code returns without a retry (RequestsKept), no worker replaces one *)
(* whose thread has not ended, and a switch reports success of the selection it  *)
(* should (for which ReadIsSelected follows what the worker has read since).     *)
EXTENDS LaunchRuntime_proofs

SwitchInv ==
    /\ Working(switchThread) => switch.completed < switchThread.gen
    /\ switchThread.pc = "done" /\ switchThread.stale => switchThread.gen < switch.requested

\* What a step does to the transition and to the busy flag, as the properties want it.
BusyStep == svc'.busy => BusyAwaited' \/ (svc.busy /\ ~BusyAwaited) \/ SwitchMeetsExiting
Attends == TransitionHasWorker' /\ BusyStep

(*---------------------- what the methods do to phase and busy -----------------*)

LEMMA SetBusySays ==
    ASSUME NEW s \in Service, NEW b \in BOOLEAN
    PROVE  SetBusy(s, b).phase = s.phase /\ SetBusy(s, b).busy = b
BY DEF SetBusy, Service

LEMMA BeginStartSays ==
    ASSUME NEW s \in Service, NEW exe \in Exes
    PROVE  BeginStart(s, exe).phase = "starting"
BY DEF BeginStart, Service

LEMMA MarkRunningSays ==
    ASSUME NEW s \in Service, NEW pid \in Pids \cup {NoPid}
    PROVE  MarkRunning(s, pid).phase = "running" /\ MarkRunning(s, pid).busy = s.busy
BY DEF MarkRunning, Service

LEMMA EndsSay ==
    ASSUME NEW s \in Service
    PROVE  /\ BeginStop(s).phase = "stopping"
           /\ MarkStartFailed(s).phase = "failed" /\ MarkStartFailed(s).busy = s.busy
           /\ MarkStopped(s).phase = "stopped" /\ MarkStopped(s).busy = s.busy
BY DEF BeginStop, MarkStartFailed, MarkStopped, Service

LEMMA ProbeSays ==
    ASSUME NEW s \in Service, NEW exe \in Exes
    PROVE  /\ BootstrapProbe(s, TRUE, exe).phase = "running"
           /\ BootstrapProbe(s, TRUE, exe).busy = s.busy
BY DEF BootstrapProbe, Service

\* An observation begins no transition and leaves the busy flag alone.
LEMMA ObserveSays ==
    ASSUME NEW s \in Service, NEW details \in [Exes -> SUBSET Pids], NEW alive
    PROVE  /\ Observe(s, details, alive).phase \in {s.phase, "running", "failed", "stopped"}
           /\ Observe(s, details, alive).busy = s.busy
<1> DEFINE exe == MatchedExe(s, details)
           pid == MatchedPid(s, details)
           adopted == [MarkRunning(s, pid) EXCEPT !.expected = exe]
           missed == [s EXCEPT !.misses = IF @ = MissLimit THEN @ ELSE @ + 1]
           says(o) == o.phase \in {s.phase, "running", "failed", "stopped"} /\ o.busy = s.busy
<1> HIDE DEF exe, pid
<1>1. says(s) /\ says([s EXCEPT !.misses = 0]) /\ says([s EXCEPT !.expected = exe, !.pid = pid])
  BY DEF Service
<1>2. says(adopted)
  BY DEF MarkRunning, Service
<1>3. missed.phase = s.phase /\ missed.busy = s.busy /\ says(missed)
  BY DEF Service
<1>4. says(MarkStartFailed(missed)) /\ says(MarkStopped(s))
  BY DEF MarkStartFailed, MarkStopped, Service
<1> HIDE DEF adopted, missed, says
<1>5. Observe(s, details, alive) \in
         {s, adopted, [s EXCEPT !.misses = 0], MarkStartFailed(missed), missed,
          MarkStopped(s), [s EXCEPT !.expected = exe, !.pid = pid]}
  BY DEF Observe, exe, pid, adopted, missed
<1>6. says(Observe(s, details, alive))
  BY <1>1, <1>2, <1>3, <1>4, <1>5
<1> QED BY <1>6 DEF says

LEMMA ObserveNowSays ==
    ASSUME NEW s \in Service
    PROVE  /\ ObserveNow(s).phase \in {s.phase, "running", "failed", "stopped"}
           /\ ObserveNow(s).busy = s.busy
<1>1. [e \in Exes |-> IF e = TheExe THEN AlivePids ELSE {}] \in [Exes -> SUBSET Pids]
  BY SoleProcess DEF AlivePids
<1> QED BY <1>1, ObserveSays DEF ObserveNow

(*------------------------------ what a step may do ----------------------------*)

\* A step that begins no transition, does not switch busy on, and ends no work.
LEMMA Unattended ==
    ASSUME TransitionHasWorker,
           svc'.phase = svc.phase \/ svc'.phase \notin {"starting", "stopping"},
           svc'.busy => svc.busy,
           Working(startThread) => Working(startThread)',
           Working(stopThread) => Working(stopThread)',
           Working(switchThread) => Working(switchThread)',
           UNCHANGED switch
    PROVE  Attends
BY DEF Attends, TransitionHasWorker, BusyStep, BusyAwaited, AnyWorking

LEMMA StartDpiSays ==
    ASSUME TypeOK, NEW s \in Service, NEW autostart \in BOOLEAN, StartDpi(s, autostart)
    PROVE  \/ /\ svc'.phase \in {s.phase, "failed"} /\ svc'.busy = s.busy
              /\ UNCHANGED startThread
           \/ svc'.phase = "starting" /\ Working(startThread)'
<1>1. CASE svc' = s /\ UNCHANGED startThread
  BY <1>1
<1>2. CASE svc' = MarkStartFailed(s) /\ UNCHANGED startThread
  BY <1>2, EndsSay
<1>3. CASE /\ svc' = BeginStart(IF autostart THEN s ELSE SetBusy(s, TRUE), TheExe)
           /\ startThread' = [NoStart EXCEPT !.pc = "prepare",
                                !.preset = IF autostart THEN NoPreset ELSE choice.selected]
  <2> DEFINE from == IF autostart THEN s ELSE SetBusy(s, TRUE)
  <2>1. from \in Service
    BY TransitionsType, SoleProcess
  <2> HIDE DEF from
  <2>a. BeginStart(from, TheExe).phase = "starting"
    BY <2>1, SoleProcess, BeginStartSays
  <2>2. svc'.phase = "starting"
    BY <1>3, <2>a DEF from
  <2>3. Working(startThread)'
    BY <1>3 DEF Working, NoStart
  <2> QED BY <2>2, <2>3
<1> QED BY <1>1, <1>2, <1>3 DEF StartDpi

\* StartDpi from a service state that is none the worse.
LEMMA StartDpiAttends ==
    ASSUME TypeOK, TransitionHasWorker, NEW s \in Service, NEW autostart \in BOOLEAN, StartDpi(s, autostart),
           s.phase = svc.phase \/ s.phase \notin {"starting", "stopping"},
           s.busy => svc.busy,
           UNCHANGED <<stopThread, switchThread, switch>>
    PROVE  Attends
<1>1. CASE svc'.phase \in {s.phase, "failed"} /\ svc'.busy = s.busy /\ UNCHANGED startThread
  BY <1>1, Unattended DEF Working
<1>2. CASE svc'.phase = "starting" /\ Working(startThread)'
  BY <1>2 DEF Attends, TransitionHasWorker, BusyStep, BusyAwaited, AnyWorking
<1> QED BY <1>1, <1>2, StartDpiSays

LEMMA StopDpiAttends ==
    ASSUME TypeOK, TransitionHasWorker, NEW force \in BOOLEAN, StopDpi(force),
           UNCHANGED <<startThread, switchThread, switch>>
    PROVE  Attends
<1>1. CASE UNCHANGED <<svc, stopThread>>
  BY <1>1, Unattended DEF Working
<1>2. CASE /\ svc' = BeginStop(SetBusy(svc, TRUE))
           /\ stopThread' = [NoStop EXCEPT !.pc = "check", !.force = force]
  <2>1. SetBusy(svc, TRUE) \in Service
    BY TransitionsType, SoleProcess DEF TypeOK
  <2>2. svc'.phase = "stopping" /\ Working(stopThread)'
    BY <1>2, <2>1, EndsSay DEF Working, NoStop
  <2> QED BY <2>2 DEF Attends, TransitionHasWorker, BusyStep, BusyAwaited, AnyWorking
<1> QED BY <1>1, <1>2 DEF StopDpi

LEMMA PendingRestartAttends ==
    ASSUME TypeOK, TransitionHasWorker, NEW r, ProcessPendingRestart(r), UNCHANGED <<switchThread, switch>>
    PROVE  Attends
<1>1. CASE UNCHANGED <<svc, startThread, stopThread>>
  BY <1>1, Unattended DEF Working
<1>2. CASE StopDpi(r.forceStop = r.requested) /\ UNCHANGED startThread
  BY <1>2, StopDpiAttends
<1>3. CASE StartDpi(svc, FALSE) /\ UNCHANGED stopThread
  BY <1>3, StartDpiAttends DEF TypeOK
<1> QED BY <1>1, <1>2, <1>3 DEF ProcessPendingRestart

\* A pending switch is left open, has nothing to do and takes busy off, or begins.
LEMMA PendingSwitchAttends ==
    ASSUME TypeOK, TransitionHasWorker, NEW w \in SwitchCounters, NEW s \in Service,
           ProcessPendingSwitch(w, s),
           s.phase = svc.phase,
           w # switch, Open(w) \/ (s = svc /\ ~Open(switch)),
           UNCHANGED <<startThread, stopThread>>
    PROVE  Attends
<1>1. CASE switch' = w /\ svc' = s /\ UNCHANGED switchThread
  <2>1. TransitionHasWorker'
    BY <1>1 DEF TransitionHasWorker, Working
  <2>2. CASE Open(w)
    <3>1. \/ AnyWorking
          \/ "exiting" \in {startThread.pc, stopThread.pc, switchThread.pc}
      <4>1. switch' # NothingToSwitch(w)
        BY <1>1, <2>2 DEF NothingToSwitch, Open, SwitchCounters
      <4>2. \/ \E t \in {startThread.pc, stopThread.pc, switchThread.pc} : t # "none"
            \/ switchThread' = [NoSwitch EXCEPT !.pc = "check", !.gen = w.requested]
        BY <2>2, <4>1 DEF ProcessPendingSwitch
      <4>3. CASE switchThread' = [NoSwitch EXCEPT !.pc = "check", !.gen = w.requested]
        <5>1. switchThread.pc = "check"
          BY <1>1, <4>3 DEF NoSwitch
        <5> QED BY <5>1 DEF AnyWorking, Working
      <4>4. CASE \E t \in {startThread.pc, stopThread.pc, switchThread.pc} : t # "none"
        BY <4>4 DEF AnyWorking, Working
      <4> QED BY <4>2, <4>3, <4>4
    <3> QED BY <1>1, <2>1, <3>1 DEF Attends, BusyStep, BusyAwaited, AnyWorking, Working, SwitchMeetsExiting
  <2>3. CASE s = svc /\ ~Open(switch)
    BY <1>1, <2>1, <2>3 DEF Attends, BusyStep, BusyAwaited, AnyWorking, Working
  <2> QED BY <2>2, <2>3
<1>2. CASE switch' = NothingToSwitch(w) /\ svc' = SetBusy(s, FALSE) /\ UNCHANGED switchThread
  <2>1. svc'.phase = svc.phase /\ ~svc'.busy
    BY <1>2, SetBusySays
  <2> QED BY <1>2, <2>1 DEF Working, Attends, TransitionHasWorker, BusyStep, BusyAwaited, AnyWorking
<1>3. CASE /\ switch' = w
           /\ svc' = s
           /\ switchThread' = [NoSwitch EXCEPT !.pc = "check", !.gen = w.requested]
  <2>1. Working(switchThread)'
    BY <1>3 DEF Working, NoSwitch
  <2> QED BY <1>3, <2>1 DEF Working, Attends, TransitionHasWorker, BusyStep, BusyAwaited, AnyWorking
<1> QED BY <1>1, <1>2, <1>3 DEF ProcessPendingSwitch

(*----------------------------------- the steps --------------------------------*)

\* What begins a worker ends none.
LEMMA StartDpiGoesOn ==
    ASSUME NEW s, NEW autostart, StartDpi(s, autostart)
    PROVE  Working(startThread) => Working(startThread)'
BY DEF StartDpi, IsRunningThread, Working

LEMMA StopDpiGoesOn ==
    ASSUME NEW force, StopDpi(force)
    PROVE  Working(stopThread) => Working(stopThread)'
BY DEF StopDpi, IsRunningThread, Working

\* Actions of the workers change neither the service nor the requests, and end no work.
LEMMA WorkersGoOn ==
    ASSUME TypeOK, Workers
    PROVE  /\ UNCHANGED <<svc, switch, restart>>
           /\ Working(startThread) => Working(startThread)'
           /\ Working(stopThread) => Working(stopThread)'
           /\ Working(switchThread) => Working(switchThread)'
<1>0. startThread \in Starts /\ stopThread \in Stops /\ switchThread \in Switches
  BY DEF TypeOK
<1>1. UNCHANGED <<svc, switch, restart>>
  BY DEF Workers, StartWorks, StopWorks, SwitchWorks, StartPrepares, StartSpawns, StartReports, StartExits,
         StopChecks, StopBegins, StopDropsRunner, StopSweeps, StopExits,
         SwitchChecks, SwitchReads, SwitchSpawns, SwitchHandsOver, SwitchReports, SwitchExits
<1>2. Working(startThread) => Working(startThread)'
  <2>1. \/ UNCHANGED startThread
        \/ startThread.pc = "exiting"
        \/ startThread' \in MayLose(startThread, "launch")
        \/ startThread'.pc \in {"launch", "spawned", "done"}
    BY <1>0 DEF Workers, StartWorks, StopWorks, SwitchWorks, StartPrepares, StartSpawns, StartReports, StartExits, Starts,
           StopChecks, StopBegins, StopDropsRunner, StopSweeps, StopExits,
           SwitchChecks, SwitchReads, SwitchSpawns, SwitchHandsOver, SwitchReports, SwitchExits
  <2> QED BY <1>0, <2>1 DEF Working, MayLose, Starts
<1>3. Working(stopThread) => Working(stopThread)'
  <2>1. \/ UNCHANGED stopThread
        \/ stopThread.pc = "exiting"
        \/ stopThread'.pc \in {"stop", "stopping", "sweep", "done"}
    BY <1>0 DEF Workers, StartWorks, StopWorks, SwitchWorks, StartPrepares, StartSpawns, StartReports, StartExits, Stops,
           StopChecks, StopBegins, StopDropsRunner, StopSweeps, StopExits,
           SwitchChecks, SwitchReads, SwitchSpawns, SwitchHandsOver, SwitchReports, SwitchExits
  <2> QED BY <2>1 DEF Working
<1>4. Working(switchThread) => Working(switchThread)'
  <2>1. \/ UNCHANGED switchThread
        \/ switchThread.pc = "exiting"
        \/ switchThread' \in MayLose(switchThread, "spawn")
        \/ switchThread'.pc \in {"read", "spawn", "spawned", "report", "done"}
    BY <1>0 DEF Workers, StartWorks, StopWorks, SwitchWorks, StartPrepares, StartSpawns, StartReports, StartExits,
           StopChecks, StopBegins, StopDropsRunner, StopSweeps, StopExits, SwitchDone, Switches,
           SwitchChecks, SwitchReads, SwitchSpawns, SwitchHandsOver, SwitchReports, SwitchExits
  <2> QED BY <1>0, <2>1 DEF Working, MayLose, Switches
<1> QED BY <1>1, <1>2, <1>3, <1>4

LEMMA WorkersAttend == TypeOK /\ TransitionHasWorker /\ Workers => Attends
BY WorkersGoOn, Unattended

LEMMA StartFinishedAttends == TypeOK /\ TransitionHasWorker /\ StartFinished => Attends
<1> SUFFICES ASSUME TypeOK, StartFinished PROVE Attends
  OBVIOUS
<1> DEFINE free == SetBusy(svc, FALSE)
           checked == ObserveNow(MarkRunning(free, RunnerStartPid))
<1>1. free \in Service /\ ~free.busy
  BY TransitionsType, SoleProcess, SetBusySays DEF TypeOK
<1> HIDE DEF free
<1>2. MarkRunning(free, RunnerStartPid) \in Service /\ ~MarkRunning(free, RunnerStartPid).busy
  BY <1>1, MarkRunningType, RunnerStartPidType, MarkRunningSays
<1>3. checked \in Service /\ ~checked.busy
  BY <1>2, ObserveNowType, ObserveNowSays
<1> HIDE DEF checked
<1>4. MarkRunning(checked, RunnerStartPid).phase = "running" /\ ~MarkRunning(checked, RunnerStartPid).busy
  BY <1>3, RunnerStartPidType, MarkRunningSays
<1>5. MarkStartFailed(free).phase = "failed" /\ ~MarkStartFailed(free).busy
  BY <1>1, EndsSay
<1>6. svc'.phase \in {"running", "failed"} /\ ~svc'.busy
  BY <1>4, <1>5 DEF StartFinished, checked, free
<1> QED BY <1>6 DEF Attends, TransitionHasWorker, BusyStep, BusyAwaited, AnyWorking

LEMMA StopFinishedAttends == TypeOK /\ TransitionHasWorker /\ StopFinished => Attends
<1> SUFFICES ASSUME TypeOK, StopFinished PROVE Attends
  OBVIOUS
<1> DEFINE free == SetBusy(svc, FALSE)
           now == IF WinwsRunning THEN MarkRunning(free, NoPid) ELSE MarkStopped(free)
<1>1. free \in Service /\ ~free.busy
  BY TransitionsType, SoleProcess, SetBusySays DEF TypeOK
<1> HIDE DEF free
<1>a. /\ MarkRunning(free, NoPid) \in Service
      /\ MarkRunning(free, NoPid).phase = "running" /\ ~MarkRunning(free, NoPid).busy
  BY <1>1, MarkRunningType, MarkRunningSays
<1>b. /\ MarkStopped(free) \in Service
      /\ MarkStopped(free).phase = "stopped" /\ ~MarkStopped(free).busy
  <2>1. MarkStopped(free) \in Service
    BY <1>1, TransitionsType, SoleProcess
  <2> QED BY <1>1, <2>1, EndsSay
<1>2. now \in Service /\ now.phase \in {"running", "stopped"} /\ ~now.busy
  <2>1. now = MarkRunning(free, NoPid) \/ now = MarkStopped(free)
    OBVIOUS
  <2> HIDE DEF now
  <2> QED BY <1>a, <1>b, <2>1
<1> HIDE DEF now
<1>3. CASE svc' = now
  BY <1>2, <1>3 DEF Attends, TransitionHasWorker, BusyStep, BusyAwaited, AnyWorking
<1>4. CASE StartDpi(now, FALSE)
  <2>1. \/ svc'.phase \in {now.phase, "failed"} /\ svc'.busy = now.busy
        \/ svc'.phase = "starting" /\ Working(startThread)'
    BY <1>2, <1>4, StartDpiSays
  <2> QED BY <1>2, <2>1 DEF Attends, TransitionHasWorker, BusyStep, BusyAwaited, AnyWorking
<1> QED BY <1>3, <1>4 DEF StopFinished, now, free

\* A stale switch leaves the busy flag to the newer one, which is open.
LEMMA SwitchFinishedAttends ==
    TypeOK /\ GenerationsOrdered /\ SwitchInv /\ TransitionHasWorker /\ SwitchFinished => Attends
<1> SUFFICES ASSUME TypeOK, GenerationsOrdered, SwitchInv, TransitionHasWorker, SwitchFinished PROVE Attends
  OBVIOUS
<1>0. svc \in Service /\ switch \in SwitchCounters /\ switchThread \in Switches
  BY DEF TypeOK
<1>1. svc'.phase = svc.phase /\ UNCHANGED <<startThread, stopThread>>
  BY <1>0, SetBusySays DEF SwitchFinished
<1>2. CASE StaleFinish
  <2>1. switchThread.gen < switch.requested
    BY <1>2 DEF StaleFinish, SwitchInv, SwitchFinished
  <2>2. switch.completed < switchThread.gen
    BY DEF SwitchInv, SwitchFinished, Working
  <2>3. switch'.requested = switch.requested /\ switch'.completed = switchThread.gen
    BY <1>0, <2>2 DEF SwitchFinished, Requeue, Later, SwitchCounters, Switches
  <2>4. Open(switch)' /\ switch'.calls > 0
    BY <1>0, <2>1, <2>2, <2>3 DEF Open, SwitchCounters, Switches, SwitchFinished, Requeue, Later
  <2> QED BY <1>1, <2>4 DEF Working, Attends, TransitionHasWorker, BusyStep, BusyAwaited, AnyWorking
<1>3. CASE ~StaleFinish
  <2>1. ~svc'.busy
    BY <1>0, <1>3, SetBusySays DEF SwitchFinished
  <2> QED BY <1>1, <2>1 DEF Working, Attends, TransitionHasWorker, BusyStep, BusyAwaited, AnyWorking
<1> QED BY <1>2, <1>3

LEMMA OthersAttend ==
    TypeOK /\ GenerationsOrdered /\ TransitionHasWorker
      /\ (Timers \/ User \/ ProcessDies \/ AutoRestartExpires \/ Autostart \/ MonitorPoll \/ UnexpectedExit)
      => Attends
<1> SUFFICES ASSUME TypeOK, GenerationsOrdered, TransitionHasWorker,
                    \/ Timers \/ User \/ ProcessDies \/ AutoRestartExpires
                    \/ Autostart \/ MonitorPoll \/ UnexpectedExit
             PROVE  Attends
  OBVIOUS
<1>0. svc \in Service /\ switch \in SwitchCounters
  BY DEF TypeOK
<1>1. CASE SelectPreset \/ ApplyTimerFires \/ ProcessDies \/ AutoRestartExpires
  BY <1>1, Unattended
     DEF SelectPreset, ApplyTimerFires, ProcessDies, AutoRestartExpires, threads, Working, Open
<1>2. CASE RestartCall \/ RestartRetry \/ \E force \in BOOLEAN : RestartDpi(force)
  <2>1. (\E r : ProcessPendingRestart(r)) /\ UNCHANGED <<switchThread, switch>>
    BY <1>2 DEF RestartCall, RestartRetry, RestartDpi
  <2> QED BY <2>1, PendingRestartAttends
<1>3. CASE SwitchCall
  <2> DEFINE w == [switch EXCEPT !.calls = @ - 1]
  <2>1. w \in SwitchCounters /\ w # switch /\ (Open(w) \/ ~Open(switch))
    BY <1>0, <1>3 DEF SwitchCall, SwitchCounters, Open
  <2>2. ProcessPendingSwitch(w, svc) /\ UNCHANGED <<startThread, stopThread>>
    BY <1>3 DEF SwitchCall
  <2> HIDE DEF w
  <2> QED BY <1>0, <2>1, <2>2, PendingSwitchAttends
<1>4. CASE DebounceFires
  <2> DEFINE w == [switch EXCEPT !.requested = @ + 1]
             s == SetBusy(svc, TRUE)
  <2>1. w \in SwitchCounters /\ w # switch /\ Open(w)
    BY <1>0 DEF SwitchCounters, Open, GenerationsOrdered
  <2>2. s \in Service /\ s.phase = svc.phase
    BY <1>0, SetBusySays, TransitionsType, SoleProcess
  <2>3. ProcessPendingSwitch(w, s) /\ UNCHANGED <<startThread, stopThread>>
    BY <1>4 DEF DebounceFires
  <2> HIDE DEF w, s
  <2> QED BY <2>1, <2>2, <2>3, PendingSwitchAttends
<1>5. CASE UserStart
  <2>1. StartDpi(svc, FALSE) /\ UNCHANGED <<stopThread, switchThread, switch>>
    BY <1>5 DEF UserStart
  <2> QED BY <1>0, <2>1, StartDpiAttends
<1>6. CASE UserStop
  <2>1. StopDpi(FALSE) /\ UNCHANGED <<startThread, switchThread, switch>>
    BY <1>6 DEF UserStop
  <2> QED BY <2>1, StopDpiAttends
<1>7. CASE Autostart
  <2>1. UNCHANGED <<stopThread, switchThread, switch>>
    BY <1>7 DEF Autostart
  <2>2. CASE svc' = BootstrapProbe(svc, TRUE, TheExe) /\ UNCHANGED startThread
    <3>1. svc'.phase = "running" /\ svc'.busy = svc.busy
      BY <1>0, <2>2, SoleProcess, ProbeSays
    <3> QED BY <2>1, <2>2, <3>1, Unattended DEF Working
  <2>3. CASE StartDpi(svc, TRUE)
    BY <1>0, <2>1, <2>3, StartDpiAttends
  <2> QED BY <1>7, <2>2, <2>3 DEF Autostart
<1>8. CASE MonitorPoll
  <2>1. svc'.phase \in {svc.phase, "running", "failed", "stopped"} /\ svc'.busy = svc.busy
    BY <1>0, <1>8, ObserveNowSays DEF MonitorPoll
  <2>2. UNCHANGED <<startThread, stopThread, switchThread, switch>>
    BY <1>8 DEF MonitorPoll, threads
  <2> QED BY <2>1, <2>2, Unattended DEF Working
<1>9. CASE UnexpectedExit
  <2>1. UNCHANGED <<stopThread, switchThread, switch>>
    BY <1>9 DEF UnexpectedExit
  <2>2. /\ MarkStartFailed(svc) \in Service
        /\ MarkStartFailed(svc).phase = "failed" /\ MarkStartFailed(svc).busy = svc.busy
    BY <1>0, EndsSay, TransitionsType, SoleProcess
  <2>3. CASE StartDpi(MarkStartFailed(svc), FALSE)
    <3> DEFINE s == MarkStartFailed(svc)
    <3> HIDE DEF s
    <3>1. s \in Service /\ s.phase = "failed" /\ s.busy = svc.busy /\ StartDpi(s, FALSE)
      BY <2>2, <2>3 DEF s
    <3> QED BY <2>1, <3>1, StartDpiAttends
  <2>4. CASE svc' = MarkStartFailed(svc) /\ UNCHANGED startThread
    BY <2>1, <2>2, <2>4, Unattended DEF Working
  <2>5. CASE UNCHANGED <<svc, startThread>>
    BY <2>1, <2>5, Unattended DEF Working
  <2> QED BY <1>9, <2>3, <2>4, <2>5 DEF UnexpectedExit
<1> QED BY <1>1, <1>2, <1>3, <1>4, <1>5, <1>6, <1>7, <1>8, <1>9 DEF Timers, User

(*------------------------------ the working switch ----------------------------*)

LEMMA SwitchInvStays ==
    ASSUME SwitchInv, UNCHANGED switchThread,
           switch'.completed = switch.completed, switch'.requested = switch.requested
    PROVE  SwitchInv'
BY DEF SwitchInv, Working

LEMMA PendingSwitchKeeps ==
    ASSUME TypeOK, SwitchInv, NEW w \in SwitchCounters, NEW s, ProcessPendingSwitch(w, s),
           w.requested >= switch.requested, w.completed = switch.completed
    PROVE  SwitchInv'
<1>0. switch \in SwitchCounters /\ switchThread \in Switches
  BY DEF TypeOK
<1>1. CASE switch' = w /\ UNCHANGED switchThread
  BY <1>0, <1>1 DEF SwitchInv, Working, SwitchCounters, Switches
<1>2. CASE /\ switch' = NothingToSwitch(w) /\ UNCHANGED switchThread
           /\ switchThread.pc = "none"
  BY <1>2 DEF SwitchInv, Working
<1>3. CASE /\ switch' = w /\ Open(w)
           /\ switchThread' = [NoSwitch EXCEPT !.pc = "check", !.gen = w.requested]
  BY <1>3 DEF SwitchInv, Working, Open, NoSwitch, SwitchCounters
<1> QED BY <1>1, <1>2, <1>3 DEF ProcessPendingSwitch

LEMMA SwitchInvKept ==
    TypeOK /\ GenerationsOrdered /\ SwitchInv /\ [Next]_vars => SwitchInv'
<1> SUFFICES ASSUME TypeOK, GenerationsOrdered, SwitchInv, [Next]_vars PROVE SwitchInv'
  OBVIOUS
<1>0. switch \in SwitchCounters /\ switchThread \in Switches
  BY DEF TypeOK
<1>1. CASE SwitchCall
  <2> DEFINE w == [switch EXCEPT !.calls = @ - 1]
  <2>1. /\ w \in SwitchCounters /\ w.requested >= switch.requested
        /\ w.completed = switch.completed
    BY <1>0, <1>1 DEF SwitchCall, SwitchCounters
  <2>2. ProcessPendingSwitch(w, svc)
    BY <1>1 DEF SwitchCall
  <2> HIDE DEF w
  <2> QED BY <2>1, <2>2, PendingSwitchKeeps
<1>2. CASE DebounceFires
  <2> DEFINE w == [switch EXCEPT !.requested = @ + 1]
  <2>1. /\ w \in SwitchCounters /\ w.requested >= switch.requested
        /\ w.completed = switch.completed
    BY <1>0 DEF SwitchCounters
  <2>2. ProcessPendingSwitch(w, SetBusy(svc, TRUE))
    BY <1>2 DEF DebounceFires
  <2> HIDE DEF w
  <2> QED BY <2>1, <2>2, PendingSwitchKeeps
<1>3. CASE SwitchFinished
  <2>1. switchThread'.pc \in {"none", "exiting"}
    BY <1>0, <1>3 DEF SwitchFinished, Quit, NoSwitch, Switches
  <2> QED BY <2>1 DEF SwitchInv, Working
<1>4. CASE SwitchExits
  BY <1>4 DEF SwitchExits, SwitchInv, Working, NoSwitch
<1>5. CASE SwitchChecks \/ SwitchReports
  <2>1. /\ UNCHANGED switch /\ Working(switchThread) /\ switchThread'.gen = switchThread.gen
        /\ switchThread'.stale => switchThread.gen # switch.requested \/ switchThread'.pc # "done"
    BY <1>0, <1>5 DEF SwitchChecks, SwitchReports, SwitchDone, IsGenerationCurrent, Switches, Working
  <2>2. switchThread.gen \in Nat /\ switch.requested \in Nat /\ switchThread.gen <= switch.requested
    BY <1>0 DEF GenerationsOrdered, SwitchCounters, Switches
  <2> QED BY <2>1, <2>2 DEF SwitchInv, Working
<1>6. CASE SwitchReads \/ SwitchSpawns \/ SwitchHandsOver
  <2>1. /\ UNCHANGED switch /\ Working(switchThread) /\ switchThread'.gen = switchThread.gen
        /\ switchThread'.stale => switchThread.gen # switch.requested \/ switchThread'.pc # "done"
    BY <1>0, <1>6 DEF SwitchReads, SwitchSpawns, SwitchHandsOver, SwitchDone, IsGenerationCurrent,
                      Switches, Working
  <2>2. switchThread.gen \in Nat /\ switch.requested \in Nat /\ switchThread.gen <= switch.requested
    BY <1>0 DEF GenerationsOrdered, SwitchCounters, Switches
  <2> QED BY <2>1, <2>2 DEF SwitchInv, Working
<1>7. CASE StartPrepares \/ StopDropsRunner
  <2>1. /\ UNCHANGED switch
        /\ switchThread' = switchThread \/ switchThread' \in MayLose(switchThread, "spawn")
    BY <1>7 DEF StartPrepares, StopDropsRunner
  <2> QED BY <1>0, <2>1 DEF SwitchInv, Working, MayLose, Switches
<1>8. CASE StartFinished \/ StopFinished
  <2>1. UNCHANGED switchThread /\ switch' = Requeue(switch)
    BY <1>8 DEF StartFinished, StopFinished
  <2>2. switch'.completed = switch.completed /\ switch'.requested = switch.requested
    BY <1>0, <2>1 DEF Requeue, SwitchCounters
  <2> QED BY <2>1, <2>2, SwitchInvStays
<1>9. CASE \/ RestartCall \/ RestartRetry \/ ApplyTimerFires \/ Autostart \/ MonitorPoll \/ UnexpectedExit
           \/ User \/ ProcessDies \/ AutoRestartExpires
           \/ StartSpawns \/ StartReports \/ StartExits
           \/ StopChecks \/ StopBegins \/ StopSweeps \/ StopExits \/ UNCHANGED vars
  <2>1. UNCHANGED <<switch, switchThread>>
    BY <1>9 DEF RestartCall, RestartRetry, ApplyTimerFires, Autostart, MonitorPoll, UnexpectedExit,
           User, UserStart, UserStop, SelectPreset, RestartDpi, ProcessDies, AutoRestartExpires,
           StartSpawns, StartReports, StartExits, StopChecks, StopBegins, StopSweeps, StopExits,
           vars, threads
  <2> QED BY <2>1, SwitchInvStays
<1> QED BY <1>1, <1>2, <1>3, <1>4, <1>5, <1>6, <1>7, <1>8, <1>9
        DEF Next, Timers, Signals, Workers, StartWorks, StopWorks, SwitchWorks

(*---------------------------------- theorems ----------------------------------*)

LEMMA InitAttended == Init => SwitchInv /\ TransitionHasWorker
<1> SUFFICES ASSUME Init PROVE SwitchInv /\ TransitionHasWorker
  OBVIOUS
<1>1. SwitchInv
  BY DEF Init, SwitchInv, Working, NoSwitch
<1>2. PICK autostart \in BOOLEAN :
         svc = SetBusy(BootstrapProbe(InitialService(autostart, TRUE), WinwsRunning, TheExe), FALSE)
  BY DEF Init
<1>3. WinwsRunning \in BOOLEAN
  BY DEF WinwsRunning
<1>4. svc.phase \notin {"starting", "stopping"}
  BY <1>2, <1>3 DEF InitialService, BootstrapProbe, SetBusy
<1> QED BY <1>1, <1>4 DEF TransitionHasWorker

LEMMA StepAttended ==
    TypeOK /\ GenerationsOrdered /\ SwitchInv /\ TransitionHasWorker /\ [Next]_vars
      => SwitchInv' /\ Attends
<1> SUFFICES ASSUME TypeOK, GenerationsOrdered, SwitchInv, TransitionHasWorker, [Next]_vars
             PROVE  Attends
  BY SwitchInvKept
<1>1. CASE UNCHANGED vars
  BY <1>1, Unattended DEF vars, threads, Working
<1>2. CASE Next
  BY <1>2, OthersAttend, WorkersAttend, StartFinishedAttends, StopFinishedAttends,
     SwitchFinishedAttends DEF Next, Signals
<1> QED BY <1>1, <1>2

LEMMA AlwaysAttended == Spec => [](SwitchInv /\ TransitionHasWorker)
<1>1. TypeOK /\ GenerationsOrdered /\ (SwitchInv /\ TransitionHasWorker) /\ [Next]_vars
        => (SwitchInv /\ TransitionHasWorker)'
  BY StepAttended DEF Attends
<1> QED BY <1>1, InitAttended, TypeCorrect, Ordered, PTL DEF Spec

\* The launch page never hangs in a transition: a worker that ends it is at work.
THEOREM TransitionsEnd == Spec => []TransitionHasWorker
BY AlwaysAttended, PTL

\* The busy indicator stays on with nobody to take it off in one case only: the handler of
\* preset switches was called while a thread had run its slot and not ended.
THEOREM BusyEnds == Spec => BusyHasWorker
<1>1. TypeOK /\ GenerationsOrdered /\ (SwitchInv /\ TransitionHasWorker) /\ [Next]_vars
        => [BusyStep]_vars
  BY StepAttended DEF Attends
<1>2. Spec => [][BusyStep]_vars
  BY <1>1, AlwaysAttended, TypeCorrect, Ordered, PTL DEF Spec
<1> QED BY <1>2 DEF BusyHasWorker, BusyStep

(*-------------------------- no request is lost sight of -----------------------*)

\* Steps that leave the requests of a kind alone and end no work it may wait for.
LEMMA SwitchAlone ==
    ASSUME UNCHANGED switch,
           Working(startThread) => Working(startThread)',
           Working(stopThread) => Working(stopThread)',
           Working(switchThread) => Working(switchThread)'
    PROVE  SwitchKept
BY DEF SwitchKept, SwitchAwaited, AnyWorking, Open

LEMMA RestartAlone ==
    ASSUME UNCHANGED restart,
           Working(startThread) => Working(startThread)',
           Working(stopThread) => Working(stopThread)'
    PROVE  RestartKept
BY DEF RestartKept, RestartAwaited, Open

\* The handler of switches serves, begins, leaves the switch to a worker, or meets a
\* thread that is ending.
LEMMA PendingSwitchIsKept ==
    ASSUME NEW w \in SwitchCounters, NEW s, ProcessPendingSwitch(w, s), w # switch,
           UNCHANGED <<startThread, stopThread>>
    PROVE  SwitchKept
<1>1. CASE ~Open(w) /\ switch' = w
  BY <1>1 DEF SwitchKept, Open
<1>2. CASE /\ \E t \in {startThread.pc, stopThread.pc, switchThread.pc} : t # "none"
           /\ switch' = w /\ UNCHANGED switchThread
  BY <1>2 DEF SwitchKept, SwitchAwaited, AnyWorking, Working, SwitchMeetsExiting
<1>3. CASE switch' = NothingToSwitch(w)
  BY <1>3 DEF SwitchKept, NothingToSwitch, Open, SwitchCounters
<1>4. CASE switchThread' = [NoSwitch EXCEPT !.pc = "check", !.gen = w.requested]
  BY <1>4 DEF SwitchKept, SwitchAwaited, AnyWorking, Working, NoSwitch
<1> QED BY <1>1, <1>2, <1>3, <1>4 DEF ProcessPendingSwitch

\* Whatever a finished slot leaves open, it calls for again.
LEMMA RequeueIsKept ==
    ASSUME NEW r \in SwitchCounters \cup RestartCounters
    PROVE  Open(Requeue(r)) => Requeue(r).calls > 0
<1>1. CASE r \in SwitchCounters
  BY <1>1 DEF Requeue, Open, SwitchCounters
<1>2. CASE r \in RestartCounters
  BY <1>2 DEF Requeue, Open, RestartCounters
<1> QED BY <1>1, <1>2

LEMMA SwitchesKept == TypeOK /\ [Next]_vars => SwitchKept
<1> SUFFICES ASSUME TypeOK, [Next]_vars PROVE SwitchKept
  OBVIOUS
<1>0. switch \in SwitchCounters /\ switchThread \in Switches
  BY DEF TypeOK
<1>1. CASE SwitchCall
  <2> DEFINE w == [switch EXCEPT !.calls = @ - 1]
  <2>1. w \in SwitchCounters /\ w # switch
    BY <1>0, <1>1 DEF SwitchCall, SwitchCounters
  <2>2. ProcessPendingSwitch(w, svc) /\ UNCHANGED <<startThread, stopThread>>
    BY <1>1 DEF SwitchCall
  <2> HIDE DEF w
  <2> QED BY <2>1, <2>2, PendingSwitchIsKept
<1>2. CASE DebounceFires
  <2> DEFINE w == [switch EXCEPT !.requested = @ + 1]
  <2>1. w \in SwitchCounters /\ w # switch
    BY <1>0 DEF SwitchCounters
  <2>2. ProcessPendingSwitch(w, SetBusy(svc, TRUE)) /\ UNCHANGED <<startThread, stopThread>>
    BY <1>2 DEF DebounceFires
  <2> HIDE DEF w
  <2> QED BY <2>1, <2>2, PendingSwitchIsKept
<1>3. CASE StartFinished \/ StopFinished
  <2>1. switch' = Requeue(switch)
    BY <1>3 DEF StartFinished, StopFinished
  <2> QED BY <1>0, <2>1, RequeueIsKept DEF SwitchKept, SwitchAwaited, Open
<1>4. CASE SwitchFinished
  <2> DEFINE w == [switch EXCEPT !.completed = Later(@, switchThread.gen)]
  <2>1. w \in SwitchCounters
    BY <1>0 DEF SwitchCounters, Switches, Later
  <2>2. switch' = Requeue(w)
    BY <1>4 DEF SwitchFinished
  <2> HIDE DEF w
  <2> QED BY <2>1, <2>2, RequeueIsKept DEF SwitchKept, SwitchAwaited, Open
<1>5. CASE Workers
  BY <1>5, WorkersGoOn, SwitchAlone
<1>6. CASE RestartCall \/ RestartRetry \/ \E force \in BOOLEAN : RestartDpi(force)
  <2>1. PICK r : ProcessPendingRestart(r)
    BY <1>6 DEF RestartCall, RestartRetry, RestartDpi
  <2>2. UNCHANGED <<switchThread, switch>>
    BY <1>6 DEF RestartCall, RestartRetry, RestartDpi
  <2>3. \/ UNCHANGED <<startThread, stopThread>>
        \/ StopDpi(r.forceStop = r.requested) /\ UNCHANGED startThread
        \/ StartDpi(svc, FALSE) /\ UNCHANGED stopThread
    BY <2>1 DEF ProcessPendingRestart
  <2>4. /\ Working(startThread) => Working(startThread)'
        /\ Working(stopThread) => Working(stopThread)'
    BY <2>3, StartDpiGoesOn, StopDpiGoesOn DEF Working
  <2> QED BY <2>2, <2>4, SwitchAlone DEF Working
<1>7. CASE UserStart \/ UserStop \/ Autostart \/ UnexpectedExit
  <2>1. UNCHANGED <<switchThread, switch>>
    BY <1>7 DEF UserStart, UserStop, Autostart, UnexpectedExit
  <2>2. \/ UNCHANGED <<startThread, stopThread>>
        \/ StopDpi(FALSE) /\ UNCHANGED startThread
        \/ (\E s, autostart : StartDpi(s, autostart)) /\ UNCHANGED stopThread
    BY <1>7 DEF UserStart, UserStop, Autostart, UnexpectedExit
  <2>3. /\ Working(startThread) => Working(startThread)'
        /\ Working(stopThread) => Working(stopThread)'
    BY <2>2, StartDpiGoesOn, StopDpiGoesOn DEF Working
  <2> QED BY <2>1, <2>3, SwitchAlone DEF Working
<1>8. CASE \/ SelectPreset \/ ApplyTimerFires \/ MonitorPoll \/ ProcessDies \/ AutoRestartExpires
           \/ UNCHANGED vars
  BY <1>8, SwitchAlone
     DEF SelectPreset, ApplyTimerFires, MonitorPoll, ProcessDies, AutoRestartExpires, vars, threads, Working
<1> QED BY <1>1, <1>2, <1>3, <1>4, <1>5, <1>6, <1>7, <1>8 DEF Next, Timers, Signals, User

\* The handler of restarts serves, begins, leaves the restart to a worker or a retry, meets
\* a thread that is ending, or is refused.
LEMMA PendingRestartIsKept ==
    ASSUME TypeOK, NEW r \in RestartCounters, ProcessPendingRestart(r),
           <<r.requested, r.wait, r.calls>> # <<restart.requested, restart.wait, restart.calls>>
    PROVE  RestartKept
<1>1. CASE ~Open(r) /\ restart' = r
  BY <1>1 DEF RestartKept, Open
<1>2. CASE /\ IsRunningThread(startThread)
           /\ restart' = r /\ UNCHANGED <<svc, startThread, stopThread>>
  <2>1. Working(startThread)' \/ (startThread.pc = "exiting" /\ restart' # restart)
    BY <1>2 DEF IsRunningThread, Working
  <2> QED BY <2>1 DEF RestartKept, RestartAwaited, RestartMeetsExiting
<1>3. CASE /\ Open(r) /\ restart' = [r EXCEPT !.pendingStop = r.requested]
           /\ IsRunningThread(stopThread) \/ StopDpi(r.forceStop = r.requested)
           /\ IsRunningThread(stopThread) => UNCHANGED stopThread
  <2>1. restart' # restart /\ restart'.pendingStop > restart'.completed
    BY <1>3 DEF Open, RestartCounters
  <2>2. Working(stopThread)' \/ stopThread.pc = "exiting"
    BY <1>3 DEF StopDpi, IsRunningThread, Working, NoStop
  <2> QED BY <2>1, <2>2 DEF RestartKept, RestartAwaited, RestartMeetsExiting
<1>4. CASE restart' = [r EXCEPT !.wait = TRUE]
  BY <1>4 DEF RestartKept, RestartAwaited, RestartCounters
<1>5. CASE ~IsRunningThread(startThread) /\ StartDpi(svc, FALSE)
  <2>1. \/ svc' = MarkStartFailed(svc) /\ UNCHANGED startThread
        \/ startThread'.pc = "prepare"
    BY <1>5 DEF StartDpi, NoStart
  <2>2. MarkStartFailed(svc).phase = "failed"
    BY EndsSay DEF TypeOK
  <2> QED BY <1>5, <2>1, <2>2 DEF RestartKept, RestartAwaited, StartRefused, IsRunningThread, Working
<1> QED BY <1>1, <1>2, <1>3, <1>4, <1>5 DEF ProcessPendingRestart

\* A finished stop starts what waited for it, or had nothing waiting.
LEMMA StopFinishedKeepsRestart ==
    ASSUME TypeOK, StopFinished PROVE RestartKept
<1> DEFINE free == SetBusy(svc, FALSE)
           now == IF WinwsRunning THEN MarkRunning(free, NoPid) ELSE MarkStopped(free)
           settled == [restart EXCEPT !.forceStop = IF restart.pendingStop >= @ THEN 0 ELSE @]
<1>0. restart \in RestartCounters
  BY DEF TypeOK
<1>1. CASE StopInVain
  BY <1>1 DEF RestartKept
<1>2. CASE /\ ~WinwsRunning /\ restart.pendingStop > restart.completed
           /\ restart'.pendingStop = 0 /\ StartDpi(now, FALSE)
  <2>1. restart' # restart
    BY <1>0, <1>2 DEF RestartCounters
  <2>2. MarkStartFailed(now).phase = "failed"
    <3>1. now \in Service
      BY <1>2, TransitionsType, SoleProcess DEF TypeOK
    <3> HIDE DEF now
    <3> QED BY <3>1, EndsSay
  <2> HIDE DEF now
  <2>3. \/ IsRunningThread(startThread) /\ UNCHANGED startThread
        \/ startThread.pc = "none" /\ UNCHANGED startThread /\ svc' = MarkStartFailed(now)
        \/ startThread'.pc = "prepare"
    BY <1>2 DEF StartDpi, NoStart, IsRunningThread
  <2> QED BY <2>1, <2>2, <2>3
          DEF RestartKept, RestartAwaited, RestartMeetsExiting, StartRefused, IsRunningThread, Working
<1>3. CASE ~(restart.pendingStop > restart.completed) /\ restart' = settled /\ UNCHANGED startThread
  BY <1>0, <1>3 DEF RestartKept, RestartAwaited, Open, Working, RestartCounters
<1>4. \/ StopInVain
      \/ /\ ~WinwsRunning /\ restart.pendingStop > restart.completed
         /\ restart' = [settled EXCEPT !.pendingStop = 0,
                                      !.activeStart = Newest(restart, restart.pendingStop)]
         /\ StartDpi(now, FALSE)
      \/ /\ ~(restart.pendingStop > restart.completed)
         /\ restart' = settled /\ UNCHANGED startThread
  BY DEF StopFinished, StopInVain
<1>5. settled \in RestartCounters
  BY <1>0 DEF RestartCounters
<1> HIDE DEF settled, now
<1>6. [settled EXCEPT !.pendingStop = 0,
                      !.activeStart = Newest(restart, restart.pendingStop)].pendingStop = 0
  BY <1>5 DEF RestartCounters
<1> QED BY <1>1, <1>2, <1>3, <1>4, <1>6

LEMMA RestartsKept == TypeOK /\ [Next]_vars => RestartKept
<1> SUFFICES ASSUME TypeOK, [Next]_vars PROVE RestartKept
  OBVIOUS
<1>0. restart \in RestartCounters
  BY DEF TypeOK
<1>1. CASE RestartCall
  <2> DEFINE r == [restart EXCEPT !.calls = @ - 1]
  <2>1. r \in RestartCounters /\ r.calls # restart.calls
    BY <1>0, <1>1 DEF RestartCall, RestartCounters
  <2>2. ProcessPendingRestart(r)
    BY <1>1 DEF RestartCall
  <2> HIDE DEF r
  <2> QED BY <2>1, <2>2, PendingRestartIsKept
<1>2. CASE RestartRetry
  <2> DEFINE r == [restart EXCEPT !.wait = FALSE]
  <2>1. r \in RestartCounters /\ r.wait # restart.wait
    BY <1>0, <1>2 DEF RestartRetry, RestartCounters
  <2>2. ProcessPendingRestart(r)
    BY <1>2 DEF RestartRetry
  <2> HIDE DEF r
  <2> QED BY <2>1, <2>2, PendingRestartIsKept
<1>3. ASSUME NEW force \in BOOLEAN, RestartDpi(force) PROVE RestartKept
  <2> DEFINE g == restart.requested + 1
             r == [restart EXCEPT !.requested = g, !.forceStop = IF force THEN g ELSE @]
  <2>1. r \in RestartCounters /\ r.requested # restart.requested
    <3>1. g \in Nat /\ (IF force THEN g ELSE restart.forceStop) \in Nat
      <4>1. g \in Nat /\ restart.forceStop \in Nat
        BY <1>0 DEF RestartCounters
      <4> HIDE DEF g
      <4> QED BY <4>1
    <3>2. g # restart.requested
      BY <1>0 DEF RestartCounters
    <3> HIDE DEF g
    <3> QED BY <1>0, <3>1, <3>2 DEF RestartCounters
  <2>2. ProcessPendingRestart(r)
    BY <1>3 DEF RestartDpi
  <2> HIDE DEF r
  <2> QED BY <2>1, <2>2, PendingRestartIsKept
<1>4. CASE StartFinished
  <2> DEFINE r == [restart EXCEPT
                     !.completed = IF restart.activeStart # 0 THEN Later(@, restart.activeStart) ELSE @,
                     !.activeStart = 0]
  <2>1. r \in RestartCounters
    BY <1>0 DEF RestartCounters, Later
  <2>2. restart' = Requeue(r)
    BY <1>4 DEF StartFinished
  <2> HIDE DEF r
  <2> QED BY <2>1, <2>2, RequeueIsKept DEF RestartKept, RestartAwaited, Open
<1>5. CASE StopFinished
  BY <1>5, StopFinishedKeepsRestart
<1>6. CASE Workers
  BY <1>6, WorkersGoOn, RestartAlone
<1>7. CASE UserStart \/ UserStop \/ Autostart \/ UnexpectedExit
  <2>1. UNCHANGED restart
    BY <1>7 DEF UserStart, UserStop, Autostart, UnexpectedExit
  <2>2. \/ UNCHANGED <<startThread, stopThread>>
        \/ StopDpi(FALSE) /\ UNCHANGED startThread
        \/ (\E s, autostart : StartDpi(s, autostart)) /\ UNCHANGED stopThread
    BY <1>7 DEF UserStart, UserStop, Autostart, UnexpectedExit
  <2>3. /\ Working(startThread) => Working(startThread)'
        /\ Working(stopThread) => Working(stopThread)'
    BY <2>2, StartDpiGoesOn, StopDpiGoesOn DEF Working
  <2> QED BY <2>1, <2>3, RestartAlone
<1>8. CASE \/ SwitchCall \/ DebounceFires \/ SwitchFinished \/ SelectPreset \/ ApplyTimerFires
           \/ MonitorPoll \/ ProcessDies \/ AutoRestartExpires \/ UNCHANGED vars
  <2>1. UNCHANGED <<restart, startThread, stopThread>>
    BY <1>8 DEF SwitchCall, DebounceFires, SwitchFinished, SelectPreset, ApplyTimerFires, MonitorPoll,
                ProcessDies, AutoRestartExpires, vars, threads
  <2> QED BY <2>1, RestartAlone DEF Working
<1> QED BY <1>1, <1>2, <1>3, <1>4, <1>5, <1>6, <1>7, <1>8 DEF Next, Timers, Signals, User

\* No restart and no switch is lost sight of but in the steps the property names, in which
\* the code returns and schedules no retry.
THEOREM RequestsAreKept == Spec => RequestsKept
<1>1. TypeOK /\ [Next]_vars => [SwitchKept /\ RestartKept]_vars
  BY SwitchesKept, RestartsKept
<1>2. Spec => [][SwitchKept /\ RestartKept]_vars
  BY <1>1, TypeCorrect, PTL DEF Spec
<1> QED BY <1>2 DEF RequestsKept

(*------------------------- no worker replaces another -------------------------*)

\* What may become of the place of a worker whose finished slot is due or has run.
Kept(was, is) == was \in {"done", "exiting"} => is \in {was, "exiting", "none"}

KeptAll ==
    /\ Kept(startThread.pc, startThread'.pc)
    /\ Kept(stopThread.pc, stopThread'.pc)
    /\ Kept(switchThread.pc, switchThread'.pc)

LEMMA SameKept ==
    /\ UNCHANGED startThread => Kept(startThread.pc, startThread'.pc)
    /\ UNCHANGED stopThread => Kept(stopThread.pc, stopThread'.pc)
    /\ UNCHANGED switchThread => Kept(switchThread.pc, switchThread'.pc)
BY DEF Kept

\* The three calls that begin a worker leave a thread that has not ended alone.
LEMMA StartDpiKeeps ==
    ASSUME NEW s, NEW autostart, StartDpi(s, autostart)
    PROVE  Kept(startThread.pc, startThread'.pc)
BY DEF StartDpi, IsRunningThread, Kept

LEMMA StopDpiKeeps ==
    ASSUME NEW force, StopDpi(force)
    PROVE  Kept(stopThread.pc, stopThread'.pc)
BY DEF StopDpi, IsRunningThread, Kept

LEMMA PendingRestartKeeps ==
    ASSUME NEW r, ProcessPendingRestart(r)
    PROVE  Kept(startThread.pc, startThread'.pc) /\ Kept(stopThread.pc, stopThread'.pc)
<1>1. CASE UNCHANGED <<startThread, stopThread>>
  BY <1>1, SameKept
<1>2. CASE StopDpi(r.forceStop = r.requested) /\ UNCHANGED startThread
  BY <1>2, SameKept, StopDpiKeeps
<1>3. CASE StartDpi(svc, FALSE) /\ UNCHANGED stopThread
  BY <1>3, SameKept, StartDpiKeeps
<1> QED BY <1>1, <1>2, <1>3 DEF ProcessPendingRestart

LEMMA PendingSwitchWaits ==
    ASSUME NEW w, NEW s, ProcessPendingSwitch(w, s)
    PROVE  Kept(switchThread.pc, switchThread'.pc)
<1>1. CASE UNCHANGED switchThread
  BY <1>1, SameKept
<1>2. CASE switchThread.pc = "none"
  BY <1>2 DEF Kept
<1> QED BY <1>1, <1>2 DEF ProcessPendingSwitch

LEMMA WorkersKeep == TypeOK /\ Workers => KeptAll
<1> SUFFICES ASSUME TypeOK, Workers PROVE KeptAll
  OBVIOUS
<1>0. startThread \in Starts /\ stopThread \in Stops /\ switchThread \in Switches
  BY DEF TypeOK
<1>1. Kept(startThread.pc, startThread'.pc)
  <2>1. CASE UNCHANGED startThread
    BY <2>1, SameKept
  <2>2. CASE StartPrepares \/ StartSpawns \/ StartReports
    BY <2>2 DEF StartPrepares, StartSpawns, StartReports, Kept
  <2>3. CASE StartExits
    BY <2>3 DEF StartExits, NoStart, Kept
  <2>4. CASE StopDropsRunner
    BY <1>0, <2>4 DEF StopDropsRunner, MayLose, Kept, Starts
  <2> QED BY <2>1, <2>2, <2>3, <2>4
          DEF Workers, StartWorks, StopWorks, SwitchWorks, StopChecks, StopBegins, StopSweeps, StopExits,
              SwitchChecks, SwitchReads, SwitchSpawns, SwitchHandsOver, SwitchReports, SwitchExits
<1>2. Kept(stopThread.pc, stopThread'.pc)
  <2>1. CASE UNCHANGED stopThread
    BY <2>1, SameKept
  <2>2. CASE StopChecks \/ StopBegins \/ StopDropsRunner \/ StopSweeps
    BY <2>2 DEF StopChecks, StopBegins, StopDropsRunner, StopSweeps, Kept
  <2>3. CASE StopExits
    BY <2>3 DEF StopExits, NoStop, Kept
  <2> QED BY <2>1, <2>2, <2>3
          DEF Workers, StartWorks, StopWorks, SwitchWorks, StartPrepares, StartSpawns, StartReports, StartExits,
              SwitchChecks, SwitchReads, SwitchSpawns, SwitchHandsOver, SwitchReports, SwitchExits
<1>3. Kept(switchThread.pc, switchThread'.pc)
  <2>1. CASE UNCHANGED switchThread
    BY <2>1, SameKept
  <2>2. CASE SwitchChecks \/ SwitchReads \/ SwitchSpawns \/ SwitchHandsOver \/ SwitchReports
    BY <2>2 DEF SwitchChecks, SwitchReads, SwitchSpawns, SwitchHandsOver, SwitchReports, Kept
  <2>3. CASE SwitchExits
    BY <2>3 DEF SwitchExits, NoSwitch, Kept
  <2>4. CASE StartPrepares \/ StopDropsRunner
    <3>1. switchThread' \in MayLose(switchThread, "spawn") \/ UNCHANGED switchThread
      BY <2>4 DEF StartPrepares, StopDropsRunner
    <3> QED BY <1>0, <3>1 DEF MayLose, Kept, Switches
  <2> QED BY <2>1, <2>2, <2>3, <2>4
          DEF Workers, StartWorks, StopWorks, SwitchWorks, StartSpawns, StartReports, StartExits, StopChecks, StopBegins, StopSweeps, StopExits
<1> QED BY <1>1, <1>2, <1>3 DEF KeptAll

LEMMA OthersKeep == TypeOK /\ [Next]_vars /\ ~Workers => KeptAll
<1> SUFFICES ASSUME TypeOK, [Next]_vars, ~Workers PROVE KeptAll
  OBVIOUS
<1>0. startThread \in Starts /\ stopThread \in Stops /\ switchThread \in Switches
  BY DEF TypeOK
<1>1. CASE RestartCall \/ RestartRetry
  <2>1. UNCHANGED switchThread /\ \E r : ProcessPendingRestart(r)
    BY <1>1 DEF RestartCall, RestartRetry
  <2> QED BY <2>1, SameKept, PendingRestartKeeps DEF KeptAll
<1>2. ASSUME NEW force \in BOOLEAN, RestartDpi(force) PROVE KeptAll
  <2>1. UNCHANGED switchThread /\ \E r : ProcessPendingRestart(r)
    BY <1>2 DEF RestartDpi
  <2> QED BY <2>1, SameKept, PendingRestartKeeps DEF KeptAll
<1>3. CASE SwitchCall \/ DebounceFires
  <2>1. UNCHANGED <<startThread, stopThread>> /\ \E w, s : ProcessPendingSwitch(w, s)
    BY <1>3 DEF SwitchCall, DebounceFires
  <2> QED BY <2>1, SameKept, PendingSwitchWaits DEF KeptAll
<1>4. CASE UserStart \/ Autostart \/ UnexpectedExit
  <2>1. UNCHANGED <<stopThread, switchThread>>
    BY <1>4 DEF UserStart, Autostart, UnexpectedExit
  <2>2. UNCHANGED startThread \/ \E s, autostart : StartDpi(s, autostart)
    BY <1>4 DEF UserStart, Autostart, UnexpectedExit
  <2> QED BY <2>1, <2>2, SameKept, StartDpiKeeps DEF KeptAll
<1>5. CASE UserStop
  BY <1>5, SameKept, StopDpiKeeps DEF KeptAll, UserStop
<1>6. CASE StartFinished
  <2>1. UNCHANGED <<stopThread, switchThread>> /\ startThread'.pc \in {"none", "exiting"}
    BY <1>0, <1>6 DEF StartFinished, Quit, NoStart, Starts
  <2> QED BY <2>1, SameKept DEF KeptAll, Kept
<1>7. CASE StopFinished
  <2>1. UNCHANGED switchThread /\ stopThread'.pc \in {"none", "exiting"}
    BY <1>0, <1>7 DEF StopFinished, Quit, NoStop, Stops
  <2>2. UNCHANGED startThread \/ \E s : StartDpi(s, FALSE)
    BY <1>7 DEF StopFinished
  <2>3. Kept(startThread.pc, startThread'.pc)
    BY <2>2, SameKept, StartDpiKeeps
  <2> QED BY <2>1, <2>3, SameKept DEF KeptAll, Kept
<1>8. CASE SwitchFinished
  <2>1. UNCHANGED <<startThread, stopThread>> /\ switchThread'.pc \in {"none", "exiting"}
    BY <1>0, <1>8 DEF SwitchFinished, Quit, NoSwitch, Switches
  <2> QED BY <2>1, SameKept DEF KeptAll, Kept
<1>9. CASE UNCHANGED threads
  <2>1. UNCHANGED <<startThread, stopThread, switchThread>>
    BY <1>9 DEF threads
  <2> QED BY <2>1, SameKept DEF KeptAll
<1> QED BY <1>1, <1>2, <1>3, <1>4, <1>5, <1>6, <1>7, <1>8, <1>9
        DEF Next, Timers, Signals, User, ApplyTimerFires, MonitorPoll, SelectPreset, ProcessDies,
            AutoRestartExpires, vars

\* A kind of worker whose thread has not ended is never begun again.
THEOREM NoneReplaced == Spec => NoWorkerReplaced
<1>1. TypeOK /\ [Next]_vars =>
        [\A t \in {<<startThread.pc, startThread'.pc>>, <<stopThread.pc, stopThread'.pc>>,
                   <<switchThread.pc, switchThread'.pc>>} :
            t[1] \in {"done", "exiting"} => t[2] \in {t[1], "exiting", "none"}]_vars
  BY WorkersKeep, OthersKeep DEF KeptAll, Kept
<1> QED BY <1>1, TypeCorrect, PTL DEF Spec, NoWorkerReplaced

(*--------------------------- success is of the selection ----------------------*)

\* A switch of the newest generation has read the selection, or one that was
\* changed since by a selection that is on its way to a newer generation or dropped.
ReadIsSelected ==
    switchThread.pc \in {"spawn", "spawned", "report"} /\ IsGenerationCurrent =>
        switchThread.preset = choice.selected \/ choice.timer \/ choice.debounce \/ choice.skipped

LEMMA ReadStays ==
    ASSUME ReadIsSelected,
           switchThread'.pc \in {"spawn", "spawned", "report"} =>
               /\ switchThread.pc \in {"spawn", "spawned", "report"}
               /\ switchThread'.gen = switchThread.gen /\ switchThread'.preset = switchThread.preset,
           switch'.requested = switch.requested,
           UNCHANGED choice
    PROVE  ReadIsSelected'
BY DEF ReadIsSelected, IsGenerationCurrent

LEMMA ReadByWorkers == TypeOK /\ ReadIsSelected /\ Workers => ReadIsSelected'
<1> SUFFICES ASSUME TypeOK, ReadIsSelected, Workers PROVE ReadIsSelected'
  OBVIOUS
<1>0. switchThread \in Switches
  BY DEF TypeOK
<1>1. UNCHANGED <<switch, choice>>
  BY DEF Workers, StartWorks, StopWorks, SwitchWorks, StartPrepares, StartSpawns, StartReports, StartExits,
         StopChecks, StopBegins, StopDropsRunner, StopSweeps, StopExits,
         SwitchChecks, SwitchReads, SwitchSpawns, SwitchHandsOver, SwitchReports, SwitchExits
<1>2. CASE UNCHANGED switchThread
  BY <1>1, <1>2, ReadStays
<1>3. CASE SwitchChecks \/ SwitchReports \/ SwitchExits
  <2>1. \A ok, stale : SwitchDone(ok, stale).pc = "done"
    BY <1>0 DEF SwitchDone, Switches
  <2>2. [switchThread EXCEPT !.pc = "read"].pc = "read" /\ NoSwitch.pc = "none"
    BY <1>0 DEF NoSwitch, Switches
  <2>3. CASE SwitchChecks
    BY <2>1, <2>2, <2>3 DEF SwitchChecks, ReadIsSelected
  <2>4. CASE SwitchReports
    BY <2>1, <2>4 DEF SwitchReports, ReadIsSelected
  <2>5. CASE SwitchExits
    BY <2>2, <2>5 DEF SwitchExits, ReadIsSelected
  <2> QED BY <1>3, <2>3, <2>4, <2>5
<1>4. CASE SwitchReads
  <2>1. \/ switchThread'.pc = "done"
        \/ switchThread'.pc = "spawn" /\ switchThread'.preset = choice'.selected
    BY <1>0, <1>1, <1>4 DEF SwitchReads, SwitchDone, Switches
  <2> QED BY <2>1 DEF ReadIsSelected
<1>5. CASE SwitchSpawns \/ SwitchHandsOver
  <2>1. \/ switchThread'.pc = "done"
        \/ /\ switchThread.pc \in {"spawn", "spawned"}
           /\ switchThread'.gen = switchThread.gen /\ switchThread'.preset = switchThread.preset
    BY <1>0, <1>5 DEF SwitchSpawns, SwitchHandsOver, SwitchDone, Switches
  <2> QED BY <1>1, <2>1, ReadStays
<1>6. CASE StartPrepares \/ StopDropsRunner
  <2>1. switchThread' \in MayLose(switchThread, "spawn") \/ UNCHANGED switchThread
    BY <1>6 DEF StartPrepares, StopDropsRunner
  <2>2. /\ switchThread'.pc = switchThread.pc /\ switchThread'.gen = switchThread.gen
        /\ switchThread'.preset = switchThread.preset
    BY <1>0, <2>1 DEF MayLose, Switches
  <2> QED BY <1>1, <2>2, ReadStays
<1> QED BY <1>2, <1>3, <1>4, <1>5, <1>6
        DEF Workers, StartWorks, StopWorks, SwitchWorks, StartSpawns, StartReports, StartExits, StopChecks, StopBegins, StopSweeps, StopExits

\* A pending switch that is processed begins a worker or leaves the one there is.
LEMMA PendingSwitchReads ==
    ASSUME NEW w \in SwitchCounters, NEW s, ProcessPendingSwitch(w, s)
    PROVE  /\ switch'.requested = w.requested
           /\ UNCHANGED switchThread \/ switchThread'.pc = "check"
<1>1. CASE switch' = w /\ UNCHANGED switchThread
  BY <1>1
<1>2. CASE switch' = NothingToSwitch(w) /\ UNCHANGED switchThread
  BY <1>2 DEF NothingToSwitch, SwitchCounters
<1>3. CASE switch' = w /\ switchThread' = [NoSwitch EXCEPT !.pc = "check", !.gen = w.requested]
  BY <1>3 DEF NoSwitch
<1> QED BY <1>1, <1>2, <1>3 DEF ProcessPendingSwitch

LEMMA ReadByOthers ==
    TypeOK /\ GenerationsOrdered /\ ReadIsSelected /\ [Next]_vars /\ ~Workers => ReadIsSelected'
<1> SUFFICES ASSUME TypeOK, GenerationsOrdered, ReadIsSelected, [Next]_vars, ~Workers
             PROVE  ReadIsSelected'
  OBVIOUS
<1>0. /\ switchThread \in Switches /\ switch \in SwitchCounters /\ choice \in Choices
      /\ switchThread.gen <= switch.requested
  BY DEF TypeOK, GenerationsOrdered, Switches, SwitchCounters
<1>1. CASE SwitchCall
  <2>1. [switch EXCEPT !.calls = @ - 1] \in SwitchCounters
    BY <1>0, <1>1 DEF SwitchCall, SwitchCounters
  <2>2. /\ switch'.requested = switch.requested
        /\ UNCHANGED switchThread \/ switchThread'.pc = "check"
        /\ UNCHANGED choice
    <3> DEFINE w == [switch EXCEPT !.calls = @ - 1]
    <3>1. w.requested = switch.requested
      BY <1>0 DEF SwitchCounters
    <3>2. ProcessPendingSwitch(w, svc) /\ UNCHANGED choice
      BY <1>1 DEF SwitchCall
    <3> HIDE DEF w
    <3> QED BY <2>1, <3>1, <3>2, PendingSwitchReads DEF w
  <2> QED BY <2>2, ReadStays
<1>2. CASE DebounceFires
  <2> DEFINE w == [switch EXCEPT !.requested = @ + 1]
  <2>1. w \in SwitchCounters /\ w.requested = switch.requested + 1
    BY <1>0 DEF SwitchCounters
  <2>2. ProcessPendingSwitch(w, SetBusy(svc, TRUE))
    BY <1>2 DEF DebounceFires
  <2> HIDE DEF w
  <2>3. /\ switch'.requested = switch.requested + 1
        /\ UNCHANGED switchThread \/ switchThread'.pc = "check"
    BY <2>1, <2>2, PendingSwitchReads
  <2>4. UNCHANGED switchThread => ~IsGenerationCurrent'
    BY <1>0, <2>3 DEF IsGenerationCurrent, Switches, SwitchCounters
  <2> QED BY <2>3, <2>4 DEF ReadIsSelected
<1>3. CASE SelectPreset
  <2>1. choice'.timer
    BY <1>0, <1>3 DEF SelectPreset, Choices
  <2> QED BY <2>1 DEF ReadIsSelected
<1>4. CASE ApplyTimerFires
  <2>1. choice'.debounce \/ choice'.skipped
    BY <1>0, <1>4 DEF ApplyTimerFires, Choices
  <2> QED BY <2>1 DEF ReadIsSelected
<1>5. CASE StartFinished \/ StopFinished
  <2>1. /\ switch' = Requeue(switch) /\ UNCHANGED <<choice, switchThread>>
    BY <1>5 DEF StartFinished, StopFinished
  <2>2. switch'.requested = switch.requested
    BY <1>0, <2>1 DEF Requeue, SwitchCounters
  <2> QED BY <2>1, <2>2, ReadStays
<1>6. CASE SwitchFinished
  <2>1. switchThread'.pc \in {"none", "exiting"}
    BY <1>0, <1>6 DEF SwitchFinished, Quit, NoSwitch, Switches
  <2> QED BY <2>1 DEF ReadIsSelected
<1>7. CASE UNCHANGED <<switch, choice, switchThread>>
  BY <1>7, ReadStays
<1> QED BY <1>1, <1>2, <1>3, <1>4, <1>5, <1>6, <1>7
        DEF Next, Timers, Signals, User, RestartCall, RestartRetry, Autostart, MonitorPoll,
            UnexpectedExit, UserStart, UserStop, RestartDpi, ProcessDies, AutoRestartExpires,
            vars, threads

LEMMA AlwaysSelected == Spec => []ReadIsSelected
<1>1. Init => ReadIsSelected
  BY DEF Init, NoSwitch, ReadIsSelected
<1>2. TypeOK /\ GenerationsOrdered /\ ReadIsSelected /\ [Next]_vars => ReadIsSelected'
  BY ReadByWorkers, ReadByOthers
<1> QED BY <1>1, <1>2, TypeCorrect, Ordered, PTL DEF Spec

\* Only SwitchReports ends the worker from its last look at the generation.
LEMMA ReportsCurrent ==
    TypeOK /\ [Next]_vars /\ switchThread.pc = "report" /\ switchThread'.pc = "done"
           /\ ~switchThread'.stale
        => IsGenerationCurrent
<1> SUFFICES ASSUME TypeOK, [Next]_vars, switchThread.pc = "report", switchThread'.pc = "done",
                    ~switchThread'.stale
             PROVE  IsGenerationCurrent
  OBVIOUS
<1>0. switchThread \in Switches /\ switch \in SwitchCounters
  BY DEF TypeOK
<1>1. SwitchReports
  <2>1. ~UNCHANGED switchThread
    OBVIOUS
  <2>2. CASE Workers
    <3>1. CASE StartPrepares \/ StopDropsRunner
      <4>1. switchThread' = switchThread
        BY <3>1 DEF StartPrepares, StopDropsRunner, MayLose
      <4> QED BY <2>1, <4>1
    <3> QED BY <2>1, <2>2, <3>1
            DEF Workers, StartWorks, StopWorks, SwitchWorks, StartSpawns, StartReports, StartExits, StopChecks, StopBegins, StopSweeps,
                StopExits, SwitchChecks, SwitchReads, SwitchSpawns, SwitchHandsOver, SwitchExits
  <2>3. CASE ~Workers
    <3>1. CASE SwitchCall \/ DebounceFires
      <4>1. \E w, s : ProcessPendingSwitch(w, s)
        BY <3>1 DEF SwitchCall, DebounceFires
      <4> QED BY <2>1, <4>1 DEF ProcessPendingSwitch, NoSwitch
    <3> QED BY <2>1, <2>3, <3>1
            DEF Next, Timers, Signals, User, RestartCall, RestartRetry, ApplyTimerFires, Autostart,
                MonitorPoll, UnexpectedExit, UserStart, UserStop, SelectPreset, RestartDpi,
                StartFinished, StopFinished, SwitchFinished, ProcessDies, AutoRestartExpires,
                vars, threads
  <2> QED BY <2>2, <2>3
<1>2. CASE IsGenerationCurrent
  BY <1>2
<1>3. CASE ~IsGenerationCurrent
  BY <1>0, <1>1, <1>3 DEF SwitchReports, SwitchDone, Switches
<1> QED BY <1>2, <1>3

\* A switch that reports success runs the selection.
THEOREM SuccessRunsSelection == Spec => SuccessIsCurrent
<1>1. TypeOK /\ ReadIsSelected /\ [Next]_vars =>
        [switchThread.pc = "report" /\ switchThread'.pc = "done" /\ switchThread'.ok /\ ~switchThread'.stale
           => \/ switchThread.preset = choice.selected
              \/ choice.timer \/ choice.debounce \/ choice.skipped]_vars
  BY ReportsCurrent DEF ReadIsSelected
<1> QED BY <1>1, TypeCorrect, AlwaysSelected, PTL DEF Spec, SuccessIsCurrent
================================================================================
