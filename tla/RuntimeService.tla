----------------------------- MODULE RuntimeService -----------------------------
(* The launch state every other part reads: LaunchRuntimeService.  Its methods *)
(* are operators from service state to service state, so that the modules that *)
(* call them share one translation.  `launch_running' is not a field: every    *)
(* writer sets it to (phase = "running").  `launch_method' and the error text  *)
(* are left out, no guard of the modelled code depends on them.                *)
EXTENDS Naturals

CONSTANTS
    Exes,      \* names of the engine executables (winws.exe, winws2.exe)
    NoExe,     \* the empty expected process name
    Pids,      \* process identifiers
    NoPid      \* pid = None

ASSUME ServiceAssumption == NoExe \notin Exes /\ NoPid \notin Pids

Phases == {"stopped", "autostart_pending", "starting", "running", "stopping", "failed"}

\* Consecutive observations without the process after which it counts as gone.
MissLimit == 3

Service == [phase    : Phases,
            busy     : BOOLEAN,
            expected : Exes \cup {NoExe},
            pid      : Pids \cup {NoPid},
            misses   : 0 .. MissLimit]

InitialService(autostart, supported) ==
    [phase    |-> IF autostart /\ supported THEN "autostart_pending" ELSE "stopped",
     busy     |-> supported /\ ~autostart,
     expected |-> NoExe,
     pid      |-> NoPid,
     misses   |-> 0]

SetBusy(s, b) == [s EXCEPT !.busy = b]

BeginStart(s, exe) ==
    [s EXCEPT !.phase = "starting", !.expected = exe, !.pid = NoPid, !.misses = 0]

MarkAutostartPending(s, exe) ==
    [s EXCEPT !.phase = "autostart_pending", !.expected = exe, !.pid = NoPid, !.misses = 0]

BeginStop(s) == [s EXCEPT !.phase = "stopping"]

\* mark_running(pid, expected_process = None): a pid of None keeps the tracked one.
MarkRunning(s, pid) ==
    [s EXCEPT !.phase = "running", !.pid = IF pid = NoPid THEN @ ELSE pid, !.misses = 0]

MarkStartFailed(s) == [s EXCEPT !.phase = "failed", !.pid = NoPid, !.misses = 0]

MarkStopped(s) ==
    [s EXCEPT !.phase = "stopped", !.expected = NoExe, !.pid = NoPid, !.misses = 0]

BootstrapProbe(s, up, exe) ==
    LET waiting == s.phase = "autostart_pending"
    IN  [s EXCEPT !.phase    = IF up THEN "running" ELSE IF waiting THEN @ ELSE "stopped",
                  !.expected = IF up \/ waiting THEN exe ELSE NoExe,
                  !.pid      = NoPid,
                  !.misses   = 0]

\* The executable an observation is about: the expected one, or any that runs
\* when none is expected.
MatchedExe(s, details) ==
    IF s.expected = NoExe /\ \E e \in Exes : details[e] # {}
    THEN CHOOSE e \in Exes : details[e] # {}
    ELSE s.expected

MatchedPid(s, details) ==
    LET exe == MatchedExe(s, details)
    IN  IF exe = NoExe \/ details[exe] = {} THEN NoPid
        ELSE CHOOSE p \in Pids : p \in details[exe]

\* observe_process_details: `details' is what the monitor saw for each
\* executable, `alive' the processes that answer a direct liveness check now.
Observe(s, details, alive) ==
    LET exe == MatchedExe(s, details)
        pid == MatchedPid(s, details)
        adopted == [MarkRunning(s, pid) EXCEPT !.expected = exe]
        missed == [s EXCEPT !.misses = IF @ = MissLimit THEN @ ELSE @ + 1]
    IN  CASE s.phase \in {"starting", "autostart_pending"} ->
                 IF pid # NoPid THEN adopted ELSE s
          [] s.phase = "running" ->
                 IF pid # NoPid
                 THEN IF pid # s.pid THEN adopted ELSE [s EXCEPT !.misses = 0]
                 ELSE IF s.pid \in alive
                 THEN [s EXCEPT !.misses = 0]
                 ELSE IF missed.misses = MissLimit /\ s.expected # NoExe
                 THEN MarkStartFailed(missed)
                 ELSE missed
          [] s.phase = "stopping" ->
                 IF pid = NoPid THEN MarkStopped(s)
                 ELSE IF pid # s.pid THEN [s EXCEPT !.expected = exe, !.pid = pid]
                 ELSE s
          [] OTHER -> s
=================================================================================
