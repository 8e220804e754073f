------------------------------ MODULE PresetRunner ------------------------------
(* Winws2StrategyRunner: one instance, the threads that call it, the processes  *)
(* it spawns and the daemon thread that watches each of them.  _state_lock is   *)
(* held from the first to the last step of a start, of a fast switch and of a   *)
(* stop; processes die, watchers look at running_process and newer requests     *)
(* make a switch stale without it.  kill() ends a process.                      *)
EXTENDS Integers, FiniteSets

CONSTANTS
    Callers,    \* threads that call the runner, one call at a time each
    Nobody,
    Procs,      \* process objects, used again when nothing refers to them any more
    NoProc

ASSUME RunnerAssumption == Nobody \notin Callers /\ NoProc \notin Procs

VARIABLES
    state,      \* PresetRunnerStateMachine
    tracked,    \* running_process
    alive,      \* processes that run
    abandoned,  \* processes the runner let go of without having seen them exit
    watcher,    \* exit watcher of each process: parked in wait(), asking for the state
    notified,   \* processes whose exit was reported by notify_unexpected_process_exit
    lock,       \* holder of _state_lock
    call        \* the operation of each caller

process == <<tracked, alive, abandoned, watcher, notified>>
vars == <<state, process, lock, call>>

Kinds == {"start", "switch", "stop"}

\* `old': the live process a switch replaces; `attempts': calls of _spawn_process_locked;
\* `code': what the exit code of the last attempt allows; `stale': is_current() is false.
NewCall(pc, kind) ==
    [pc |-> pc, kind |-> kind, old |-> NoProc, attempts |-> 0, code |-> "final", stale |-> FALSE]

NoCall == NewCall("idle", "stop")

TrackedAlive == tracked \in alive

\* PresetRunnerStateMachine._ALLOWED.
Allowed == [idle     |-> {"starting", "failed"},
            stopping |-> {"idle", "starting", "failed"},
            starting |-> {"running", "failed", "idle"},
            running  |-> {"starting", "stopping", "failed", "idle"},
            failed   |-> {"idle", "starting"}]

MayEnter(target) == target = state \/ target \in Allowed[state]

Goes(c, pc) == call' = [call EXCEPT ![c].pc = pc]

\* The operation returns and lets go of the lock.
Returns(c) == call' = [call EXCEPT ![c] = NoCall] /\ lock' = Nobody

(*------------------------------- entering a call ------------------------------*)

\* A preset file that is missing is refused before; the call ends at once.
Begin(c, kind) ==
    /\ call[c].pc = "idle"
    /\ call' = [call EXCEPT ![c] = NewCall("wait", kind)]
    /\ UNCHANGED <<state, process, lock>>

\* A newer preset switch is requested.
Supersede(c) ==
    /\ call[c].kind = "switch" /\ ~call[c].stale
    /\ call' = [call EXCEPT ![c].stale = TRUE]
    /\ UNCHANGED <<state, process, lock>>

\* A preset that does not compile leaves the process alone.
Enters(c, kind) == call[c].pc = "wait" /\ call[c].kind = kind /\ lock \in {Nobody, c}

CompileFails(c) ==
    /\ state' = "failed"
    /\ UNCHANGED process
    /\ Returns(c)

StartEnters(c) ==
    /\ Enters(c, "start")
    /\ \/ CompileFails(c)
       \/ /\ lock' = c
          /\ UNCHANGED <<tracked, abandoned, watcher, notified>>
          /\ IF TrackedAlive /\ MayEnter("stopping")
             THEN state' = "stopping" /\ alive' = alive \ {tracked} /\ Goes(c, "clear")
             ELSE Goes(c, "cleanup") /\ UNCHANGED <<state, alive>>

\* The end of _stop_process_only_locked.
StartClears(c) ==
    /\ call[c].pc = "clear"
    /\ tracked' = NoProc /\ state' = "idle"
    /\ Goes(c, "cleanup")
    /\ UNCHANGED <<alive, abandoned, watcher, notified, lock>>

\* All winws are killed if there is one; then the driver is ready or the start gives up.
StartCleans(c) ==
    /\ call[c].pc = "cleanup"
    /\ alive' = {}
    /\ \/ Goes(c, "spawn") /\ UNCHANGED lock
       \/ Returns(c)
    /\ UNCHANGED <<state, tracked, abandoned, watcher, notified>>

SwitchEnters(c) ==
    /\ Enters(c, "switch")
    /\ \/ CompileFails(c)
       \/ /\ call[c].stale
          /\ Returns(c)
          /\ UNCHANGED <<state, process>>
       \/ /\ ~call[c].stale
          /\ lock' = c
          /\ call' = [call EXCEPT ![c].pc = "spawn",
                                  ![c].old = IF TrackedAlive THEN tracked ELSE NoProc]
          /\ UNCHANGED <<state, process>>

(*---------------------------- _spawn_process_locked ---------------------------*)

\* Nothing refers to these process objects any more.
Fresh == Procs \ (alive \cup {tracked} \cup {call[c].old : c \in Callers}
                        \cup {p \in Procs : watcher[p] # "none"})

AttemptUncounted(c, pc, code) ==                                      \* mutant
    call' = [call EXCEPT ![c].pc = pc, ![c].code = code]
Attempt(c, pc, code) ==
    call' = [call EXCEPT ![c].pc = pc, ![c].attempts = @ + 1, ![c].code = code]

Codes == {"final", "retry", "dll"}

\* The dry run exits with an error, or cannot be run at all.
DryRunFails(c) ==
    /\ call[c].pc = "spawn"
    /\ \/ state' = "failed" /\ \E code \in Codes : Attempt(c, "failed", code)
       \/ UNCHANGED state /\ Attempt(c, "failed", "final")
    /\ UNCHANGED <<process, lock>>

Launches(c) ==
    /\ call[c].pc = "spawn"
    /\ state' = "starting"
    /\ \E p \in Fresh :
         /\ tracked' = p
         /\ alive' = alive \cup {p}
         /\ abandoned' = abandoned \ {p}
         /\ notified' = notified \ {p}
    /\ Attempt(c, "starting", "final")
    /\ UNCHANGED <<watcher, lock>>

\* Popen raises.
LaunchRaises(c) ==
    /\ call[c].pc = "spawn"
    /\ state' = "failed" /\ tracked' = NoProc
    /\ Attempt(c, "failed", "final")
    /\ UNCHANGED <<alive, abandoned, watcher, notified, lock>>

\* The process was ready for the whole stable window; its exit is watched from now on.
WatchesOnlyStarts(c) ==                                               \* mutant
    watcher' = IF call[c].kind = "start" THEN [watcher EXCEPT ![tracked] = "waits"] ELSE watcher
Watches(c) == watcher' = [watcher EXCEPT ![tracked] = "waits"]

IsStable(c) ==
    /\ call[c].pc = "starting" /\ TrackedAlive
    /\ state' = "running"
    /\ Watches(c)
    /\ IF call[c].old = NoProc THEN Returns(c)
       ELSE Goes(c, "handover") /\ UNCHANGED lock
    /\ UNCHANGED <<tracked, alive, abandoned, notified>>

SpawnFails(c, code) ==
    /\ state' = "failed" /\ tracked' = NoProc
    /\ call' = [call EXCEPT ![c].pc = "failed", ![c].code = code]
    /\ UNCHANGED <<alive, watcher, notified, lock>>

ExitsDuringStart(c) ==
    /\ call[c].pc = "starting" /\ ~TrackedAlive
    /\ \E code \in Codes : SpawnFails(c, code)
    /\ UNCHANGED abandoned

\* The start window is over, the process runs but is not ready: int(None) raises and
\* the handler lets go of the process.
HangsDuringStart(c) ==
    /\ call[c].pc = "starting" /\ TrackedAlive
    /\ SpawnFails(c, "final")
    /\ abandoned' = abandoned \cup {tracked}

(*------------------------- after a failed or a good spawn ----------------------*)

RetryAlways(c) == call[c].code # "final"                              \* mutant
RetryLeft(c) == call[c].code # "final" /\ call[c].attempts < 2

\* _maybe_retry_after_failed_spawn_locked: start over under the lock, once.
StartRetries(c) ==
    /\ call[c].pc = "failed" /\ call[c].kind = "start"
    /\ RetryLeft(c)
    /\ Goes(c, "wait")
    /\ UNCHANGED <<state, process, lock>>

\* Stale driver services are cleaned after a first attempt, every winws with them.
StartGivesUp(c) ==
    /\ call[c].pc = "failed" /\ call[c].kind = "start"
    /\ ~RetryLeft(c)
    /\ \/ UNCHANGED alive
       \/ call[c].attempts < 2 /\ alive' = {}
    /\ Returns(c)
    /\ UNCHANGED <<state, tracked, abandoned, watcher, notified>>

HandsOverAlone(c) ==                                                  \* mutant
    /\ call[c].pc = "handover"
    /\ Returns(c)
    /\ UNCHANGED <<state, process>>

\* _stop_previous_process_after_handoff_locked.
HandsOver(c) ==
    /\ call[c].pc = "handover"
    /\ alive' = alive \ {call[c].old}
    /\ Returns(c)
    /\ UNCHANGED <<state, tracked, abandoned, watcher, notified>>

SwitchFailed(c) == call[c].pc = "failed" /\ call[c].kind = "switch"

\* The old process is tracked again; a DLL initialisation failure is tried once more.
SwitchRestores(c) ==
    /\ SwitchFailed(c) /\ call[c].old # NoProc
    /\ tracked' = call[c].old
    /\ IF call[c].code = "dll" /\ RetryLeft(c) /\ ~call[c].stale
       THEN Goes(c, "pause") /\ UNCHANGED lock
       ELSE Returns(c)
    /\ UNCHANGED <<state, alive, abandoned, watcher, notified>>

SwitchPauses(c) ==
    /\ call[c].pc = "pause"
    /\ IF call[c].stale THEN Returns(c) ELSE Goes(c, "spawn") /\ UNCHANGED lock
    /\ UNCHANGED <<state, process>>

RetriesInAnyCase(c) ==                                                \* mutant
    /\ SwitchFailed(c) /\ RetryLeft(c)
    /\ alive' = {}
    /\ \/ Goes(c, "spawn") /\ UNCHANGED lock
       \/ Returns(c)
    /\ UNCHANGED <<state, tracked, abandoned, watcher, notified>>

\* _retry_fast_switch_after_failed_spawn_locked, with nothing to restore: aggressive
\* cleanup kills every winws; is_current() is not asked again.
SwitchRetries(c) ==
    /\ SwitchFailed(c) /\ call[c].old = NoProc /\ RetryLeft(c)
    /\ alive' = {}
    /\ \/ Goes(c, "spawn") /\ UNCHANGED lock
       \/ Returns(c)
    /\ UNCHANGED <<state, tracked, abandoned, watcher, notified>>

SwitchGivesUp(c) ==
    /\ SwitchFailed(c) /\ call[c].old = NoProc /\ ~RetryLeft(c)
    /\ Returns(c)
    /\ UNCHANGED <<state, process>>

(*------------------------------------ stop ------------------------------------*)

\* A process in a state that STOPPING may not follow makes stop() raise.
StopEnters(c) ==
    /\ Enters(c, "stop")
    /\ IF ~TrackedAlive
       THEN lock' = c /\ Goes(c, "stopping") /\ UNCHANGED <<state, alive>>
       ELSE IF MayEnter("stopping")
       THEN /\ lock' = c /\ Goes(c, "stopping")
            /\ state' = "stopping"
            /\ alive' = alive \ {tracked}
       ELSE Returns(c) /\ UNCHANGED <<state, alive>>
    /\ UNCHANGED <<tracked, abandoned, watcher, notified>>

ClearsOnly(c) ==                                                      \* mutant
    /\ call[c].pc = "stopping"
    /\ state' = IF state = "stopping" THEN "idle" ELSE state
    /\ tracked' = NoProc /\ alive' = {}
    /\ Returns(c)
    /\ UNCHANGED <<abandoned, watcher, notified>>

\* Every winws is killed, whether or not services are cleaned too.
StopClears(c) ==
    /\ call[c].pc = "stopping"
    /\ state' = "idle" /\ tracked' = NoProc /\ alive' = {}
    /\ Returns(c)
    /\ UNCHANGED <<abandoned, watcher, notified>>

(*------------------------- deaths and the exit watchers ------------------------*)

ProcessDies ==
    /\ \E p \in alive : alive' = alive \ {p}
    /\ UNCHANGED <<state, tracked, abandoned, watcher, notified, lock, call>>

\* wait() returns; the identity of the process is checked without the lock.
WatcherWakes(p) ==
    /\ watcher[p] = "waits" /\ p \notin alive
    /\ watcher' = [watcher EXCEPT ![p] = IF tracked = p THEN "asks" ELSE "none"]
    /\ UNCHANGED <<state, tracked, alive, abandoned, notified, lock, call>>

\* get_runner_state_snapshot waits for the lock.
WatcherAsks(p) ==
    /\ watcher[p] = "asks" /\ lock = Nobody
    /\ watcher' = [watcher EXCEPT ![p] = "none"]
    /\ notified' = IF state \in {"stopping", "idle"} THEN notified ELSE notified \cup {p}
    /\ UNCHANGED <<state, tracked, alive, abandoned, lock, call>>

Init ==
    /\ state = "idle" /\ tracked = NoProc /\ alive = {} /\ abandoned = {}
    /\ watcher = [p \in Procs |-> "none"] /\ notified = {}
    /\ lock = Nobody /\ call = [c \in Callers |-> NoCall]

\* What a caller does once its operation has the lock.
Works(c) ==
    \/ StartClears(c) \/ StartCleans(c)
    \/ DryRunFails(c) \/ Launches(c) \/ LaunchRaises(c)
    \/ IsStable(c) \/ ExitsDuringStart(c) \/ HangsDuringStart(c)
    \/ StartRetries(c) \/ StartGivesUp(c)
    \/ HandsOver(c) \/ SwitchRestores(c) \/ SwitchPauses(c) \/ SwitchRetries(c) \/ SwitchGivesUp(c)
    \/ StopClears(c)

Next ==
    \/ \E c \in Callers :
         \/ \E kind \in Kinds : Begin(c, kind)
         \/ Supersede(c)
         \/ StartEnters(c) \/ SwitchEnters(c) \/ StopEnters(c)
         \/ Works(c)
    \/ ProcessDies
    \/ \E p \in Procs : WatcherWakes(p) \/ WatcherAsks(p)

Spec == Init /\ [][Next]_vars

\* The thread that holds the lock is scheduled: nothing in its operation waits for others.
HolderWorks(c) == lock = c /\ (StartEnters(c) \/ Works(c))
FairSpec == Spec /\ \A c \in Callers : WF_vars(HolderWorks(c))

(*--------------------------------- properties ---------------------------------*)

Calls == [pc : {"idle", "wait", "clear", "cleanup", "spawn", "starting", "handover",
                "failed", "pause", "stopping"},
          kind : Kinds, old : Procs \cup {NoProc}, attempts : 0 .. 2,
          code : Codes, stale : BOOLEAN]

\* Type invariant; with it, no operation tries to spawn more than twice.
TypeOK ==
    /\ state \in DOMAIN Allowed
    /\ tracked \in Procs \cup {NoProc}
    /\ alive \subseteq Procs /\ abandoned \subseteq Procs /\ notified \subseteq Procs
    /\ watcher \in [Procs -> {"none", "waits", "asks"}]
    /\ lock \in Callers \cup {Nobody}
    /\ call \in [Callers -> Calls]

\* The runner never loses a process it started: outside of an operation every live
\* winws is the one it tracks, or one that hung while it was started.
NoneLost == lock = Nobody => alive \subseteq {tracked} \cup abandoned

\* Outside of an operation the state is a resting one and agrees with running_process.
RestsConsistent ==
    lock = Nobody =>
        /\ state \in {"idle", "running", "failed"}
        /\ state = "idle" => tracked = NoProc
        /\ state = "running" => tracked # NoProc

\* A switch takes the old process away only when its replacement was confirmed.
ReplacedFirst ==
    [][\A c \in Callers :
         lock = c /\ call[c].old \in alive \ alive' /\ call'[c] # call[c]
           => state = "running" /\ tracked # call[c].old]_vars

\* The death of the process behind a running state is reported once its watcher is done.
RunningDeathReported ==
    state = "running" /\ lock = Nobody /\ ~TrackedAlive /\ watcher[tracked] = "none"
      => tracked \in notified

\* The GUI thread waits for this lock: it is released in the end, retries included.
LockReleased == \A c \in Callers : lock = c ~> lock # c

=================================================================================
