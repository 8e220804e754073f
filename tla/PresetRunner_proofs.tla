-------------------------- MODULE PresetRunner_proofs ---------------------------
(* That the runner loses no process, rests in a consistent state, replaces a    *)
(* process before it takes it away and reports the death of what it runs, for   *)
(* any number of callers and processes.                                         *)
EXTENDS PresetRunner, TLAPS

(*---------------------------- the inductive invariant --------------------------*)

\* The operations between their first and their last step under the lock.
Locked == {"clear", "cleanup", "spawn", "starting", "handover", "failed", "pause", "stopping"}

Holds(c) == call[c].pc \in Locked \/ (call[c].pc = "wait" /\ call[c].attempts > 0)

\* Who is past the lock holds it, and nobody else does.
Mutual == \A c \in Callers : Holds(c) <=> lock = c

\* Only a switch that is under way has an old process to go back to, whoever may still
\* spawn has an attempt left, and an attempt was made where its outcome is dealt with.
MaySpawn == {"wait", "clear", "cleanup", "spawn", "pause"}
Attempted == {"starting", "handover", "failed", "pause"}

CallOK(c) ==
    /\ call[c].old # NoProc => /\ call[c].kind = "switch"
                               /\ call[c].pc \in {"spawn", "starting", "handover", "failed", "pause"}
    /\ call[c].pc \in {"handover", "pause"} => call[c].old # NoProc
    /\ call[c].pc \in MaySpawn => call[c].attempts < 2
    /\ call[c].pc \in Attempted => call[c].attempts > 0

CallsOK == \A c \in Callers : CallOK(c)

Resting ==
    /\ state \in {"idle", "running", "failed"}
    /\ state = "idle" => tracked = NoProc
    /\ state = "running" => tracked # NoProc

\* What may be alive, and in which state the runner is, at each point of an operation.
Free == Resting /\ alive \subseteq {tracked} \cup abandoned

Before(c) ==
    call[c].pc \in {"wait", "cleanup"} => Resting /\ alive \subseteq {tracked} \cup abandoned

Stopping(c) ==
    call[c].pc = "clear" => state = "stopping" /\ alive \subseteq abandoned

Spawning(c) ==
    call[c].pc \in {"spawn", "failed"} =>
        /\ Resting
        /\ alive \subseteq {call[c].old} \cup abandoned
        /\ call[c].old # NoProc => /\ state # "idle"
                                   /\ state = "running" \/ call[c].pc = "spawn" => tracked = call[c].old

Pausing(c) ==
    call[c].pc = "pause" =>
        /\ Resting /\ state # "idle"
        /\ tracked = call[c].old
        /\ alive \subseteq {tracked} \cup abandoned

Starting(c) ==
    call[c].pc \in {"starting", "handover"} =>
        /\ state = IF call[c].pc = "starting" THEN "starting" ELSE "running"
        /\ tracked \notin {NoProc, call[c].old}
        /\ alive \subseteq {tracked, call[c].old} \cup abandoned

Held(c) == Before(c) /\ Stopping(c) /\ Spawning(c) /\ Pausing(c) /\ Starting(c)

Accounted == (lock = Nobody => Free) /\ \A c \in Callers : lock = c => Held(c)

\* A process behind a running state has a watcher that will report it, or has reported it.
Watched == state = "running" /\ tracked # NoProc => watcher[tracked] # "none" \/ tracked \in notified

IInv == TypeOK /\ Mutual /\ CallsOK /\ Accounted /\ Watched

(*------------------------------ one call at a time -----------------------------*)

LEMMA Constants == Nobody \notin Callers /\ NoProc \notin Procs
BY RunnerAssumption DEF RunnerAssumption

Others(c) == \A d \in Callers \ {c} : call'[d] = call[d]

Points == {"idle", "wait", "clear", "cleanup", "spawn", "starting", "handover",
           "failed", "pause", "stopping"}

\* A step of caller c to another point of its operation.
LEMMA Moves ==
    ASSUME TypeOK, NEW c \in Callers, NEW pc \in Points, Goes(c, pc)
    PROVE  /\ call' \in [Callers -> Calls] /\ Others(c)
           /\ call'[c].pc = pc
           /\ call'[c].kind = call[c].kind /\ call'[c].old = call[c].old
           /\ call'[c].attempts = call[c].attempts
BY DEF TypeOK, Goes, Others, Calls, Points

\* The end of an operation.
LEMMA Ends ==
    ASSUME TypeOK, NEW c \in Callers, call' = [call EXCEPT ![c] = NoCall]
    PROVE  /\ call' \in [Callers -> Calls] /\ Others(c)
           /\ CallOK(c)' /\ ~Holds(c)'
<1>1. NoCall \in Calls /\ NoCall.pc = "idle" /\ NoCall.old = NoProc
    BY DEF NoCall, NewCall, Calls, Kinds, Codes
<1>2. call' \in [Callers -> Calls] /\ Others(c) /\ call'[c] = NoCall
    BY <1>1 DEF TypeOK, Others
<1> QED BY <1>1, <1>2 DEF CallOK, Holds, Locked, MaySpawn, Attempted

\* What is left to show of a step of the caller that has, takes or gives back the lock.
LEMMA HolderSteps ==
    ASSUME IInv, NEW c \in Callers, Others(c), lock \in {c, Nobody}, lock' \in {c, Nobody},
           Holds(c)' <=> lock' = c, CallOK(c)', TypeOK', Watched',
           lock' = Nobody => Free', lock' = c => Held(c)'
    PROVE  IInv'
<1>1. Mutual'
    <2>1. SUFFICES ASSUME NEW d \in Callers PROVE Holds(d)' <=> lock' = d
        BY DEF Mutual
    <2>2. CASE d = c
        BY <2>2
    <2>3. CASE d # c
        <3>1. ~Holds(d)
            BY <2>3, Constants DEF IInv, Mutual
        <3>2. ~Holds(d)'
            BY <3>1, <2>3 DEF Holds, Others
        <3> QED BY <3>2, <2>3, Constants
    <2> QED BY <2>2, <2>3
<1>2. CallsOK'
    BY DEF IInv, CallsOK, CallOK, Others
<1>3. Accounted'
    BY Constants DEF Accounted
<1> QED BY <1>1, <1>2, <1>3 DEF IInv

\* The operation ends and leaves the runner at rest.
LEMMA LeavesKeep ==
    ASSUME IInv, NEW c \in Callers, lock \in {c, Nobody}, Returns(c), Free', Watched', TypeOK'
    PROVE  IInv'
<1>1. lock' = Nobody /\ Others(c) /\ CallOK(c)' /\ ~Holds(c)'
    BY Ends DEF Returns, IInv
<1> QED BY <1>1, HolderSteps, Constants

\* The call record keeps its type when the operation ends.
LEMMA LeavesType ==
    ASSUME TypeOK, NEW c \in Callers, Returns(c)
    PROVE  call' \in [Callers -> Calls] /\ lock' = Nobody
BY Ends DEF Returns

\* The operation goes on under the lock.
LEMMA GoesOnKeep ==
    ASSUME IInv, NEW c \in Callers, NEW pc \in Locked, Goes(c, pc),
           lock \in {c, Nobody}, lock' = c,
           call[c].old = NoProc \/ pc \in {"spawn", "starting", "handover", "failed", "pause"},
           pc \in {"handover", "pause"} => call[c].old # NoProc,
           pc \in MaySpawn => call[c].attempts < 2,
           pc \in Attempted => call[c].attempts > 0,
           Held(c)', Watched', TypeOK'
    PROVE  IInv'
<1>1. pc \in Points
    BY DEF Locked, Points
<1>2. /\ Others(c)
      /\ call'[c].pc = pc /\ call'[c].kind = call[c].kind
      /\ call'[c].old = call[c].old /\ call'[c].attempts = call[c].attempts
    BY <1>1, Moves DEF IInv
<1>3. CallOK(c)'
    BY <1>2 DEF CallOK, IInv, CallsOK
<1> QED BY <1>2, <1>3, HolderSteps, Constants DEF Holds

(*------------------------------- entering a call -------------------------------*)

\* A caller that enters finds the runner at rest, or came back to start over.
LEMMA EntersFree ==
    ASSUME IInv, NEW c \in Callers, NEW kind \in Kinds, Enters(c, kind)
    PROVE  /\ Free /\ call[c] \in Calls
           /\ call[c].pc = "wait" /\ call[c].kind = kind /\ call[c].old = NoProc
           /\ call[c].attempts < 2
           /\ lock \in {c, Nobody}
<1>1. /\ call[c] \in Calls /\ call[c].pc = "wait" /\ call[c].kind = kind
      /\ call[c].old = NoProc /\ call[c].attempts < 2
    BY DEF Enters, IInv, TypeOK, CallsOK, CallOK, MaySpawn
<1>2. Free
    BY <1>1 DEF Enters, IInv, Accounted, Held, Before, Free
<1> QED BY <1>1, <1>2 DEF Enters

LEMMA CompileFailsKeeps ==
    ASSUME IInv, NEW c \in Callers, Free, lock \in {c, Nobody}, CompileFails(c)
    PROVE  IInv'
<1>1. Returns(c) /\ state' = "failed" /\ UNCHANGED <<tracked, alive, abandoned, watcher, notified>>
    BY DEF CompileFails, process
<1>2. TypeOK'
    BY <1>1, LeavesType DEF IInv, TypeOK, Allowed
<1>3. Free' /\ Watched'
    BY <1>1 DEF Free, Resting, Watched
<1> QED BY <1>1, <1>2, <1>3, LeavesKeep

LEMMA StartEntersKeeps == ASSUME IInv, NEW c \in Callers, StartEnters(c) PROVE IInv'
<1>0. /\ Free /\ call[c] \in Calls /\ call[c].pc = "wait" /\ call[c].old = NoProc
      /\ call[c].attempts < 2 /\ lock \in {c, Nobody}
    BY EntersFree DEF StartEnters, Kinds
<1>1. CASE CompileFails(c)
    BY <1>0, <1>1, CompileFailsKeeps
<1>2. CASE /\ lock' = c
           /\ UNCHANGED <<tracked, abandoned, watcher, notified>>
           /\ \/ state' = "stopping" /\ alive' = alive \ {tracked} /\ Goes(c, "clear")
              \/ Goes(c, "cleanup") /\ UNCHANGED <<state, alive>>
    <2>1. PICK pc \in {"clear", "cleanup"} :
             /\ Goes(c, pc)
             /\ pc = "clear" => state' = "stopping" /\ alive' = alive \ {tracked}
             /\ pc = "cleanup" => UNCHANGED <<state, alive>>
        BY <1>2
    <2>2. pc \in Locked /\ pc \in Points /\ pc \notin Attempted
        BY DEF Locked, Points, Attempted
    <2>3. call' \in [Callers -> Calls] /\ call'[c].pc = pc
        BY <2>1, <2>2, Moves DEF IInv
    <2>4. TypeOK'
        BY <1>2, <2>1, <2>3 DEF IInv, TypeOK, Allowed
    <2>5. Held(c)' /\ Watched'
        BY <1>0, <1>2, <2>1, <2>3
           DEF Free, Resting, Held, Before, Stopping, Spawning, Pausing, Starting, Watched, IInv
    <2> QED BY <1>0, <1>2, <2>1, <2>2, <2>4, <2>5, GoesOnKeep
<1> QED BY <1>1, <1>2 DEF StartEnters

LEMMA StopEntersKeeps == ASSUME IInv, NEW c \in Callers, StopEnters(c) PROVE IInv'
<1>0. /\ Free /\ call[c] \in Calls /\ call[c].pc = "wait" /\ call[c].old = NoProc
      /\ call[c].attempts < 2 /\ lock \in {c, Nobody}
    BY EntersFree DEF StopEnters, Kinds
<1>1. CASE Returns(c) /\ UNCHANGED <<state, alive>>
    <2>1. TypeOK'
        BY <1>1, LeavesType DEF StopEnters, IInv, TypeOK
    <2>2. Free' /\ Watched'
        BY <1>0, <1>1 DEF StopEnters, Free, Resting, Watched, IInv
    <2> QED BY <1>0, <1>1, <2>1, <2>2, LeavesKeep
<1>2. CASE /\ lock' = c /\ Goes(c, "stopping")
           /\ state' \in {state, "stopping"} /\ alive' \in {alive, alive \ {tracked}}
    <2>1. call' \in [Callers -> Calls] /\ call'[c].pc = "stopping"
        BY <1>2, Moves DEF IInv, Points
    <2>2. TypeOK'
        BY <1>2, <2>1 DEF StopEnters, IInv, TypeOK, Allowed
    <2>3. Held(c)'
        BY <2>1 DEF Held, Before, Stopping, Spawning, Pausing, Starting
    <2>4. Watched'
        BY <1>2 DEF StopEnters, Watched, IInv
    <2>5. "stopping" \in Locked \ Attempted
        BY DEF Locked, Attempted
    <2> QED BY <1>0, <1>2, <2>2, <2>3, <2>4, <2>5, GoesOnKeep
<1> QED BY <1>1, <1>2 DEF StopEnters

LEMMA SwitchEntersKeeps == ASSUME IInv, NEW c \in Callers, SwitchEnters(c) PROVE IInv'
<1>0. /\ Free /\ call[c] \in Calls /\ call[c].pc = "wait" /\ call[c].kind = "switch"
      /\ call[c].old = NoProc /\ call[c].attempts < 2 /\ lock \in {c, Nobody}
    BY EntersFree DEF SwitchEnters, Kinds
<1>1. CASE CompileFails(c)
    BY <1>0, <1>1, CompileFailsKeeps
<1>2. CASE Returns(c) /\ UNCHANGED <<state, process>>
    <2>1. TypeOK'
        BY <1>2, LeavesType DEF process, IInv, TypeOK
    <2>2. Free' /\ Watched'
        BY <1>0, <1>2 DEF process, Free, Resting, Watched, IInv
    <2> QED BY <1>0, <1>2, <2>1, <2>2, LeavesKeep
<1>3. CASE /\ lock' = c
           /\ call' = [call EXCEPT ![c].pc = "spawn",
                                   ![c].old = IF TrackedAlive THEN tracked ELSE NoProc]
           /\ UNCHANGED <<state, process>>
    <2>1. /\ call' \in [Callers -> Calls] /\ Others(c)
          /\ call'[c].pc = "spawn" /\ call'[c].kind = "switch" /\ call'[c].attempts = call[c].attempts
          /\ call'[c].old = IF TrackedAlive THEN tracked ELSE NoProc
        BY <1>0, <1>3 DEF IInv, TypeOK, Calls, Others
    <2>2. TypeOK' /\ Watched'
        BY <1>3, <2>1 DEF process, IInv, TypeOK, Watched
    <2>3. Holds(c)' /\ CallOK(c)'
        BY <1>0, <2>1 DEF Holds, Locked, CallOK, MaySpawn, Attempted
    <2>4. alive \subseteq Procs
        BY DEF IInv, TypeOK
    <2>5. Held(c)'
        BY <1>0, <1>3, <2>1, <2>4, Constants
           DEF process, Held, Before, Stopping, Spawning, Pausing, Starting, Free, Resting, TrackedAlive
    <2> QED BY <1>0, <1>3, <2>1, <2>2, <2>3, <2>5, HolderSteps, Constants
<1> QED BY <1>1, <1>2, <1>3 DEF SwitchEnters

(*------------------------------- under the lock --------------------------------*)

LEMMA Holder ==
    ASSUME IInv, NEW c \in Callers, call[c].pc \in Locked
    PROVE  lock = c /\ call[c] \in Calls /\ CallOK(c) /\ Held(c)
BY DEF IInv, TypeOK, Mutual, Holds, CallsOK, Accounted

\* A step from one point under the lock to the next one.
LEMMA UnderLock ==
    ASSUME IInv, NEW c \in Callers, call[c].pc \in Locked, UNCHANGED lock,
           NEW pc \in Locked, Goes(c, pc), call[c].old = NoProc \/ pc \notin {"clear", "cleanup", "stopping"},
           pc = "pause" => call[c].old # NoProc, pc # "handover",
           pc \in MaySpawn => call[c].attempts < 2,
           pc \in Attempted => call[c].attempts > 0,
           Held(c)', Watched', TypeOK'
    PROVE  IInv'
BY Holder, GoesOnKeep DEF Locked

LEMMA StartClearsKeeps == ASSUME IInv, NEW c \in Callers, StartClears(c) PROVE IInv'
<1>1. call[c].pc \in Locked /\ "cleanup" \in Locked \ Attempted /\ "cleanup" \in Points
    BY DEF StartClears, Locked, Points, Attempted
<1>2. /\ lock = c /\ call[c].old = NoProc /\ call[c].attempts < 2
      /\ alive \subseteq abandoned
    BY <1>1, Holder DEF StartClears, CallOK, MaySpawn, Held, Stopping
<1>3. call' \in [Callers -> Calls] /\ call'[c].pc = "cleanup"
    BY <1>1, Moves DEF StartClears, IInv
<1>4. TypeOK'
    BY <1>3 DEF StartClears, IInv, TypeOK, Allowed
<1>5. Held(c)' /\ Watched'
    BY <1>2, <1>3 DEF StartClears, Held, Before, Stopping, Spawning, Pausing, Starting, Resting, Watched
<1> QED BY <1>1, <1>2, <1>4, <1>5, UnderLock DEF StartClears

LEMMA StartCleansKeeps == ASSUME IInv, NEW c \in Callers, StartCleans(c) PROVE IInv'
<1>1. call[c].pc \in Locked /\ "spawn" \in Locked \ Attempted /\ "spawn" \in Points
    BY DEF StartCleans, Locked, Points, Attempted
<1>2. lock = c /\ call[c].old = NoProc /\ call[c].attempts < 2 /\ Resting
    BY <1>1, Holder DEF StartCleans, CallOK, MaySpawn, Held, Before
<1>3. Resting' /\ alive' = {} /\ Watched'
    BY <1>2 DEF StartCleans, Resting, Watched, IInv
<1>4. CASE Goes(c, "spawn") /\ UNCHANGED lock
    <2>1. call' \in [Callers -> Calls] /\ call'[c].pc = "spawn" /\ call'[c].old = NoProc
        BY <1>1, <1>2, <1>4, Moves DEF IInv
    <2>2. TypeOK'
        BY <1>3, <1>4, <2>1 DEF StartCleans, IInv, TypeOK
    <2>3. Held(c)'
        BY <1>3, <2>1 DEF Held, Before, Stopping, Spawning, Pausing, Starting
    <2> QED BY <1>1, <1>2, <1>3, <1>4, <2>2, <2>3, UnderLock
<1>5. CASE Returns(c)
    <2>1. TypeOK'
        BY <1>3, <1>5, LeavesType DEF StartCleans, IInv, TypeOK
    <2>2. Free'
        BY <1>3 DEF Free
    <2> QED BY <1>2, <1>3, <1>5, <2>1, <2>2, LeavesKeep
<1> QED BY <1>4, <1>5 DEF StartCleans

(*---------------------------------- spawning -----------------------------------*)

LEMMA Attempts ==
    ASSUME TypeOK, NEW c \in Callers, NEW pc \in Points, NEW code \in Codes,
           call[c].attempts < 2, Attempt(c, pc, code)
    PROVE  /\ call' \in [Callers -> Calls] /\ Others(c)
           /\ call'[c].pc = pc
           /\ call'[c].kind = call[c].kind /\ call'[c].old = call[c].old
           /\ call'[c].attempts > 0
BY DEF TypeOK, Attempt, Others, Calls, Points

LEMMA Spawner ==
    ASSUME IInv, NEW c \in Callers, call[c].pc = "spawn"
    PROVE  lock = c /\ call[c].attempts < 2 /\ CallOK(c) /\ Spawning(c)
BY Holder DEF Locked, CallOK, MaySpawn, Held

\* An attempt that ended: the call goes on at the point that deals with its failure.
LEMMA FailedKeep ==
    ASSUME IInv, NEW c \in Callers, call[c].pc \in {"spawn", "starting"}, UNCHANGED lock,
           call' \in [Callers -> Calls], Others(c), call'[c].pc = "failed",
           call'[c].kind = call[c].kind, call'[c].old = call[c].old, call'[c].attempts > 0,
           Spawning(c)', Watched', TypeOK'
    PROVE  IInv'
<1>1. lock = c /\ CallOK(c)
    BY Holder DEF Locked
<1>2. Holds(c)' /\ CallOK(c)'
    BY <1>1 DEF Holds, Locked, CallOK, MaySpawn, Attempted
<1>3. Held(c)'
    BY DEF Held, Before, Stopping, Pausing, Starting
<1> QED BY <1>1, <1>2, <1>3, HolderSteps, Constants

LEMMA DryRunFailsKeeps == ASSUME IInv, NEW c \in Callers, DryRunFails(c) PROVE IInv'
<1>1. lock = c /\ call[c].attempts < 2 /\ CallOK(c) /\ Spawning(c) /\ call[c].pc = "spawn"
    BY Spawner DEF DryRunFails
<1>2. PICK code \in Codes : Attempt(c, "failed", code) /\ state' \in {state, "failed"}
    BY DEF DryRunFails, Codes
<1>3. /\ call' \in [Callers -> Calls] /\ Others(c) /\ call'[c].pc = "failed"
      /\ call'[c].kind = call[c].kind /\ call'[c].old = call[c].old
      /\ call'[c].attempts > 0
    BY <1>1, <1>2, Attempts DEF IInv, Points
<1>4. TypeOK' /\ Watched'
    BY <1>2, <1>3 DEF DryRunFails, process, IInv, TypeOK, Allowed, Watched
<1>5. Spawning(c)'
    BY <1>1, <1>2, <1>3 DEF DryRunFails, process, Spawning, Resting
<1> QED BY <1>1, <1>3, <1>4, <1>5, FailedKeep DEF DryRunFails

LEMMA LaunchRaisesKeeps == ASSUME IInv, NEW c \in Callers, LaunchRaises(c) PROVE IInv'
<1>1. lock = c /\ call[c].attempts < 2 /\ CallOK(c) /\ Spawning(c) /\ call[c].pc = "spawn"
    BY Spawner DEF LaunchRaises
<1>2. /\ call' \in [Callers -> Calls] /\ Others(c) /\ call'[c].pc = "failed"
      /\ call'[c].kind = call[c].kind /\ call'[c].old = call[c].old
      /\ call'[c].attempts > 0
    BY <1>1, Attempts DEF LaunchRaises, IInv, Points, Codes
<1>3. TypeOK' /\ Watched'
    BY <1>2 DEF LaunchRaises, IInv, TypeOK, Allowed, Watched
<1>4. Spawning(c)'
    BY <1>1, <1>2 DEF LaunchRaises, Spawning, Resting
<1> QED BY <1>1, <1>2, <1>3, <1>4, FailedKeep DEF LaunchRaises

LEMMA LaunchesKeeps == ASSUME IInv, NEW c \in Callers, Launches(c) PROVE IInv'
<1>1. lock = c /\ call[c].attempts < 2 /\ CallOK(c) /\ Spawning(c) /\ call[c].pc = "spawn"
    BY Spawner DEF Launches
<1>2. /\ call' \in [Callers -> Calls] /\ Others(c) /\ call'[c].pc = "starting"
      /\ call'[c].kind = call[c].kind /\ call'[c].old = call[c].old
      /\ call'[c].attempts > 0
    BY <1>1, Attempts DEF Launches, IInv, Points, Codes
<1>3. PICK p \in Fresh : /\ tracked' = p /\ alive' = alive \cup {p}
                         /\ abandoned' = abandoned \ {p} /\ notified' = notified \ {p}
    BY DEF Launches
<1>4. p \in Procs /\ p \notin alive /\ p # call[c].old
    BY <1>3 DEF Fresh
<1>5. TypeOK' /\ Watched'
    BY <1>2, <1>3, <1>4 DEF Launches, IInv, TypeOK, Allowed, Watched
<1>6. Starting(c)'
    BY <1>1, <1>2, <1>3, <1>4, Constants DEF Launches, Spawning, Starting
<1>7. Held(c)' /\ Holds(c)' /\ CallOK(c)'
    BY <1>1, <1>2, <1>6 DEF Held, Before, Stopping, Spawning, Pausing, Holds, Locked, CallOK, MaySpawn, Attempted
<1> QED BY <1>1, <1>2, <1>5, <1>7, HolderSteps, Constants DEF Launches

LEMMA Starter ==
    ASSUME IInv, NEW c \in Callers, call[c].pc = "starting"
    PROVE  /\ lock = c /\ CallOK(c) /\ call[c] \in Calls /\ call[c].attempts > 0
           /\ state = "starting" /\ tracked \in Procs /\ tracked # call[c].old
           /\ alive \subseteq {tracked, call[c].old} \cup abandoned
BY Holder DEF Locked, Held, Starting, CallOK, Attempted, IInv, TypeOK

LEMMA IsStableKeeps == ASSUME IInv, NEW c \in Callers, IsStable(c) PROVE IInv'
<1>1. /\ lock = c /\ CallOK(c) /\ call[c].pc = "starting" /\ call[c].attempts > 0
      /\ tracked \in Procs /\ tracked # call[c].old
      /\ alive \subseteq {tracked, call[c].old} \cup abandoned
    BY Starter DEF IsStable
<1>2. watcher' \in [Procs -> {"none", "waits", "asks"}] /\ watcher'[tracked] = "waits"
    BY <1>1 DEF IsStable, Watches, IInv, TypeOK
<1>3. Watched'
    BY <1>1, <1>2 DEF IsStable, Watched
<1>4. CASE call[c].old = NoProc
    <2>1. Returns(c)
        BY <1>4 DEF IsStable
    <2>2. TypeOK'
        BY <1>2, <2>1, LeavesType DEF IsStable, IInv, TypeOK, Allowed
    <2>3. alive \subseteq Procs
        BY DEF IInv, TypeOK
    <2>4. Free'
        BY <1>1, <1>4, <2>3, Constants DEF IsStable, Free, Resting
    <2> QED BY <1>1, <1>3, <2>1, <2>2, <2>4, LeavesKeep
<1>5. CASE call[c].old # NoProc
    <2>1. Goes(c, "handover") /\ UNCHANGED lock
        BY <1>5 DEF IsStable
    <2>2. call' \in [Callers -> Calls] /\ call'[c].pc = "handover" /\ call'[c].old = call[c].old
        BY <2>1, Moves DEF IInv, Points
    <2>3. TypeOK'
        BY <1>2, <2>1, <2>2 DEF IsStable, IInv, TypeOK, Allowed
    <2>4. Held(c)'
        BY <1>1, <2>2, Constants DEF IsStable, Held, Before, Stopping, Spawning, Pausing, Starting
    <2>5. "handover" \in Locked /\ "handover" \notin MaySpawn
        BY DEF Locked, MaySpawn
    <2> QED BY <1>1, <1>3, <1>5, <2>1, <2>3, <2>4, <2>5, GoesOnKeep
<1> QED BY <1>4, <1>5

LEMMA SpawnFailsKeeps ==
    ASSUME IInv, NEW c \in Callers, NEW code \in Codes, call[c].pc = "starting", SpawnFails(c, code),
           \/ tracked \notin alive /\ UNCHANGED abandoned
           \/ abandoned' = abandoned \cup {tracked}
    PROVE  IInv'
<1>1. /\ lock = c /\ CallOK(c) /\ call[c] \in Calls /\ call[c].attempts > 0
      /\ tracked \in Procs
      /\ alive \subseteq {tracked, call[c].old} \cup abandoned
    BY Starter
<1>2. /\ call' \in [Callers -> Calls] /\ Others(c) /\ call'[c].pc = "failed"
      /\ call'[c].kind = call[c].kind /\ call'[c].old = call[c].old
      /\ call'[c].attempts > 0
    BY <1>1 DEF SpawnFails, IInv, TypeOK, Calls, Others
<1>3. TypeOK' /\ Watched'
    BY <1>1, <1>2 DEF SpawnFails, IInv, TypeOK, Allowed, Watched
<1>4. Spawning(c)'
    BY <1>1, <1>2 DEF SpawnFails, Spawning, Resting
<1> QED BY <1>2, <1>3, <1>4, FailedKeep DEF SpawnFails

LEMMA FailedStartKeeps ==
    ASSUME IInv, NEW c \in Callers, ExitsDuringStart(c) \/ HangsDuringStart(c)
    PROVE  IInv'
<1>1. CASE ExitsDuringStart(c)
    BY <1>1, SpawnFailsKeeps DEF ExitsDuringStart, TrackedAlive
<1>2. CASE HangsDuringStart(c)
    BY <1>2, SpawnFailsKeeps DEF HangsDuringStart, Codes
<1> QED BY <1>1, <1>2

(*------------------------- after a failed or a good spawn ----------------------*)

LEMMA Failed ==
    ASSUME IInv, NEW c \in Callers, call[c].pc = "failed"
    PROVE  /\ lock = c /\ CallOK(c) /\ call[c] \in Calls /\ Spawning(c) /\ call[c].attempts > 0
           /\ call[c].kind # "switch" => call[c].old = NoProc
           /\ alive \subseteq Procs
BY Holder DEF Locked, Held, CallOK, Attempted, IInv, TypeOK

\* A failure with nothing to go back to leaves the runner at rest.
LEMMA FailedFree ==
    ASSUME IInv, NEW c \in Callers, call[c].pc = "failed", call[c].old = NoProc
    PROVE  Free
BY Failed, Constants DEF Spawning, Free

LEMMA StartRetriesKeeps == ASSUME IInv, NEW c \in Callers, StartRetries(c) PROVE IInv'
<1>1. /\ call[c].pc = "failed" /\ lock = c /\ call[c].old = NoProc /\ call[c] \in Calls
      /\ call[c].attempts \in 1 .. 1 /\ Free
    BY Failed, FailedFree DEF StartRetries, RetryLeft, Calls
<1>2. /\ call' \in [Callers -> Calls] /\ Others(c) /\ call'[c].pc = "wait"
      /\ call'[c].old = NoProc /\ call'[c].attempts = call[c].attempts
    BY <1>1, Moves DEF StartRetries, IInv, Points
<1>3. TypeOK' /\ Watched'
    BY <1>2 DEF StartRetries, process, IInv, TypeOK, Watched
<1>4. Held(c)'
    BY <1>1, <1>2 DEF StartRetries, process, Free, Resting, Held, Before, Stopping, Spawning, Pausing, Starting
<1>5. Holds(c)' /\ CallOK(c)'
    BY <1>1, <1>2 DEF Holds, CallOK, Attempted
<1>6. lock' = c
    BY <1>1 DEF StartRetries
<1> QED BY <1>1, <1>2, <1>3, <1>4, <1>5, <1>6, HolderSteps, Constants

\* A step that ends the operation where everything alive is accounted for.
LEMMA EndsKeep ==
    ASSUME IInv, NEW c \in Callers, lock = c,
           Returns(c),
           UNCHANGED <<state, abandoned, watcher, notified>>,
           alive' \subseteq alive,
           UNCHANGED tracked \/ (tracked' \in Procs \cup {NoProc} /\ state # "running"),
           Resting', alive' \subseteq {tracked'} \cup abandoned
    PROVE  IInv'
<1>1. TypeOK'
    BY LeavesType DEF IInv, TypeOK
<1>2. Free' /\ Watched'
    BY DEF Free, Watched, IInv
<1> QED BY <1>1, <1>2, LeavesKeep

LEMMA StartGivesUpKeeps == ASSUME IInv, NEW c \in Callers, StartGivesUp(c) PROVE IInv'
<1>1. lock = c /\ call[c].old = NoProc /\ Free
    BY Failed, FailedFree DEF StartGivesUp
<1>2. alive' \subseteq alive /\ Returns(c)
      /\ UNCHANGED <<state, tracked, abandoned, watcher, notified>>
    BY DEF StartGivesUp
<1>3. Resting' /\ alive' \subseteq {tracked'} \cup abandoned
    BY <1>1, <1>2 DEF Free, Resting, IInv, TypeOK
<1> QED BY <1>1, <1>2, <1>3, EndsKeep

LEMMA HandsOverKeeps == ASSUME IInv, NEW c \in Callers, HandsOver(c) PROVE IInv'
<1>1. lock = c /\ Starting(c) /\ call[c].pc = "handover"
    BY Holder DEF HandsOver, Locked, Held
<1>2. Resting' /\ alive' \subseteq {tracked'} \cup abandoned /\ alive' \subseteq alive
    BY <1>1 DEF HandsOver, Starting, Resting
<1> QED BY <1>1, <1>2, EndsKeep DEF HandsOver

LEMMA SwitchRestoresKeeps == ASSUME IInv, NEW c \in Callers, SwitchRestores(c) PROVE IInv'
<1>1. /\ lock = c /\ call[c].pc = "failed" /\ call[c] \in Calls
      /\ call[c].old \in Procs /\ call[c].attempts > 0 /\ Spawning(c)
    BY Failed DEF SwitchRestores, SwitchFailed, Calls
<1>2. /\ tracked' = call[c].old
      /\ UNCHANGED <<state, alive, abandoned, watcher, notified>>
    BY DEF SwitchRestores
<1>3. /\ Resting' /\ state # "idle" /\ alive \subseteq {tracked'} \cup abandoned
      /\ state = "running" => tracked = call[c].old
    BY <1>1, <1>2, Constants DEF Spawning, Resting
<1>4. CASE Returns(c)
    BY <1>1, <1>2, <1>3, <1>4, EndsKeep
<1>5. CASE Goes(c, "pause") /\ RetryLeft(c) /\ UNCHANGED lock
    <2>1. "pause" \in Locked /\ "pause" \in Points /\ call[c].attempts < 2
        BY <1>5 DEF Locked, Points, RetryLeft
    <2>2. call' \in [Callers -> Calls] /\ call'[c].pc = "pause" /\ call'[c].old = call[c].old
        BY <1>5, <2>1, Moves DEF IInv
    <2>3. TypeOK'
        BY <1>1, <1>2, <1>5, <2>2 DEF IInv, TypeOK
    <2>4. Watched'
        BY <1>2, <1>3 DEF IInv, Watched
    <2>5. Held(c)'
        BY <1>2, <1>3, <2>2 DEF Held, Before, Stopping, Spawning, Pausing, Starting
    <2>6. call[c].pc \in Locked /\ call[c].old # NoProc
        BY <1>1, Constants DEF Locked
    <2> QED BY <1>1, <1>5, <2>1, <2>3, <2>4, <2>5, <2>6, UnderLock
<1> QED BY <1>4, <1>5 DEF SwitchRestores

LEMMA SwitchPausesKeeps == ASSUME IInv, NEW c \in Callers, SwitchPauses(c) PROVE IInv'
<1>1. /\ lock = c /\ call[c].pc = "pause" /\ CallOK(c) /\ call[c].attempts < 2 /\ Pausing(c)
    BY Holder DEF SwitchPauses, Locked, Held, CallOK, MaySpawn
<1>2. UNCHANGED <<state, tracked, alive, abandoned, watcher, notified>>
    BY DEF SwitchPauses, process
<1>3. /\ Resting' /\ state # "idle" /\ tracked = call[c].old
      /\ alive' \subseteq {tracked'} \cup abandoned
    BY <1>1, <1>2 DEF Pausing, Resting
<1>4. CASE Returns(c)
    BY <1>1, <1>2, <1>3, <1>4, EndsKeep
<1>5. CASE Goes(c, "spawn") /\ UNCHANGED lock
    <2>1. "spawn" \in Locked \ Attempted /\ "spawn" \in Points /\ call[c].pc \in Locked
        BY <1>1 DEF Locked, Points, Attempted
    <2>2. call' \in [Callers -> Calls] /\ call'[c].pc = "spawn" /\ call'[c].old = call[c].old
        BY <1>5, <2>1, Moves DEF IInv
    <2>3. TypeOK' /\ Watched'
        BY <1>1, <1>2, <1>5, <2>2 DEF IInv, TypeOK, Watched
    <2>4. Held(c)'
        BY <1>2, <1>3, <2>2 DEF Held, Before, Stopping, Spawning, Pausing, Starting
    <2> QED BY <1>1, <1>5, <2>1, <2>3, <2>4, UnderLock
<1> QED BY <1>4, <1>5 DEF SwitchPauses

LEMMA SwitchRetriesKeeps == ASSUME IInv, NEW c \in Callers, SwitchRetries(c) PROVE IInv'
<1>1. lock = c /\ call[c].pc = "failed" /\ call[c].old = NoProc /\ call[c].attempts < 2 /\ Free
    BY Failed, FailedFree DEF SwitchRetries, SwitchFailed, RetryLeft
<1>2. alive' = {} /\ UNCHANGED <<state, tracked, abandoned, watcher, notified>>
    BY DEF SwitchRetries
<1>3. Resting' /\ Watched'
    BY <1>1, <1>2 DEF Free, Resting, Watched, IInv
<1>4. CASE Goes(c, "spawn") /\ UNCHANGED lock
    <2>1. "spawn" \in Locked \ Attempted /\ "spawn" \in Points /\ call[c].pc \in Locked
        BY <1>1 DEF Locked, Points, Attempted
    <2>2. call' \in [Callers -> Calls] /\ call'[c].pc = "spawn" /\ call'[c].old = NoProc
        BY <1>1, <1>4, <2>1, Moves DEF IInv
    <2>3. TypeOK'
        BY <1>1, <1>2, <1>4, <2>2 DEF IInv, TypeOK
    <2>4. Held(c)'
        BY <1>2, <1>3, <2>2 DEF Held, Before, Stopping, Spawning, Pausing, Starting
    <2> QED BY <1>1, <1>3, <1>4, <2>1, <2>3, <2>4, UnderLock
<1>5. CASE Returns(c)
    BY <1>1, <1>2, <1>3, <1>5, EndsKeep
<1> QED BY <1>4, <1>5 DEF SwitchRetries

LEMMA SwitchGivesUpKeeps == ASSUME IInv, NEW c \in Callers, SwitchGivesUp(c) PROVE IInv'
<1>1. lock = c /\ Free
    BY Failed, FailedFree DEF SwitchGivesUp, SwitchFailed
<1>2. UNCHANGED <<state, tracked, alive, abandoned, watcher, notified>>
    BY DEF SwitchGivesUp, process
<1>3. Resting' /\ alive' \subseteq {tracked'} \cup abandoned
    BY <1>1, <1>2 DEF Free, Resting, IInv, TypeOK
<1> QED BY <1>1, <1>2, <1>3, EndsKeep DEF SwitchGivesUp

LEMMA StopClearsKeeps == ASSUME IInv, NEW c \in Callers, StopClears(c) PROVE IInv'
<1>1. lock = c
    BY Holder DEF StopClears, Locked
<1>2. TypeOK'
    BY LeavesType DEF StopClears, IInv, TypeOK, Allowed
<1>3. Free' /\ Watched'
    BY DEF StopClears, Free, Resting, Watched
<1> QED BY <1>1, <1>2, <1>3, LeavesKeep DEF StopClears

\* What a caller does under the lock keeps the invariant.
LEMMA WorksKeeps == ASSUME IInv, NEW c \in Callers, Works(c) PROVE IInv'
BY StartClearsKeeps, StartCleansKeeps, DryRunFailsKeeps, LaunchesKeeps, LaunchRaisesKeeps,
   IsStableKeeps, FailedStartKeeps, StartRetriesKeeps, StartGivesUpKeeps, HandsOverKeeps,
   SwitchRestoresKeeps, SwitchPausesKeeps, SwitchRetriesKeeps, SwitchGivesUpKeeps, StopClearsKeeps
   DEF Works

(*------------------------------ without the lock -------------------------------*)

\* A caller that does not hold the lock disturbs nobody who does.
LEMMA OutsideKeeps ==
    ASSUME IInv, NEW c \in Callers, ~Holds(c), ~Holds(c)', CallOK(c)', Others(c),
           UNCHANGED <<state, process, lock>>, call' \in [Callers -> Calls]
    PROVE  IInv'
<1>1. UNCHANGED <<tracked, alive, abandoned, watcher, notified>>
    BY DEF process
<1>2. TypeOK' /\ Watched'
    BY <1>1 DEF IInv, TypeOK, Watched
<1>3. lock # c
    BY DEF IInv, Mutual
<1>4. Mutual' /\ CallsOK'
    BY <1>3 DEF IInv, Mutual, CallsOK, Others, Holds, CallOK
<1>5. ASSUME NEW d \in Callers, lock' = d PROVE Held(d)'
    <2>1. d # c /\ Held(d) /\ call'[d] = call[d]
        BY <1>3, <1>5 DEF IInv, Accounted, Others
    <2> QED BY <1>1, <2>1 DEF Held, Before, Stopping, Spawning, Pausing, Starting, Resting
<1>6. Accounted'
    BY <1>1, <1>5 DEF IInv, Accounted, Free, Resting
<1> QED BY <1>2, <1>4, <1>6 DEF IInv

LEMMA BeginKeeps ==
    ASSUME IInv, NEW c \in Callers, NEW kind \in Kinds, Begin(c, kind)
    PROVE  IInv'
<1>1. call[c].pc = "idle" /\ ~Holds(c) /\ CallOK(c)
    BY DEF Begin, Holds, Locked, IInv, CallsOK
<1>2. NewCall("wait", kind) \in Calls
    BY DEF NewCall, Calls, Codes
<1>3. /\ call' \in [Callers -> Calls] /\ Others(c) /\ call'[c].pc = "wait"
      /\ call'[c].old = NoProc /\ call'[c].attempts = 0
    BY <1>2 DEF Begin, NewCall, IInv, TypeOK, Others
<1>4. CallOK(c)' /\ ~Holds(c)'
    BY <1>3 DEF CallOK, Holds, Locked, MaySpawn, Attempted
<1> QED BY <1>1, <1>3, <1>4, OutsideKeeps DEF Begin

LEMMA SupersedeKeeps == ASSUME IInv, NEW c \in Callers, Supersede(c) PROVE IInv'
<1>1. /\ call' \in [Callers -> Calls]
      /\ \A d \in Callers : /\ call'[d].pc = call[d].pc /\ call'[d].kind = call[d].kind
                            /\ call'[d].old = call[d].old /\ call'[d].attempts = call[d].attempts
    BY DEF Supersede, IInv, TypeOK, Calls
<1>2. UNCHANGED <<state, tracked, alive, abandoned, watcher, notified, lock>>
    BY DEF Supersede, process
<1>3. TypeOK' /\ Watched'
    BY <1>1, <1>2 DEF IInv, TypeOK, Watched
<1>4. Mutual' /\ CallsOK'
    BY <1>1, <1>2 DEF IInv, Mutual, CallsOK, CallOK, Holds
<1>5. ASSUME NEW d \in Callers, Held(d) PROVE Held(d)'
    BY <1>1, <1>2, <1>5 DEF Held, Before, Stopping, Spawning, Pausing, Starting, Resting
<1>6. Accounted'
    BY <1>2, <1>5 DEF IInv, Accounted, Free, Resting
<1> QED BY <1>3, <1>4, <1>6 DEF IInv

\* A death only takes away from what has to be accounted for.
LEMMA ProcessDiesKeeps == ASSUME IInv, ProcessDies PROVE IInv'
<1>1. /\ alive' \subseteq alive
      /\ UNCHANGED <<state, tracked, abandoned, watcher, notified, lock, call>>
    BY DEF ProcessDies
<1>2. TypeOK' /\ Watched' /\ Mutual' /\ CallsOK'
    BY <1>1 DEF IInv, TypeOK, Watched, Mutual, Holds, CallsOK, CallOK
<1>3. ASSUME NEW d \in Callers, Held(d) PROVE Held(d)'
    BY <1>1, <1>3 DEF Held, Before, Stopping, Spawning, Pausing, Starting, Resting
<1>4. Accounted'
    BY <1>1, <1>3 DEF IInv, Accounted, Free, Resting
<1> QED BY <1>2, <1>4 DEF IInv

\* The invariant but for its last conjunct says nothing of watchers and reports.
LEMMA WatcherSteps ==
    ASSUME IInv, UNCHANGED <<state, tracked, alive, abandoned, lock, call>>,
           watcher' \in [Procs -> {"none", "waits", "asks"}], notified' \subseteq Procs, Watched'
    PROVE  IInv'
<1>1. TypeOK' /\ Mutual' /\ CallsOK'
    BY DEF IInv, TypeOK, Mutual, Holds, CallsOK, CallOK
<1>2. Accounted'
    BY DEF IInv, Accounted, Free, Held, Before, Stopping, Spawning, Pausing, Starting, Resting
<1> QED BY <1>1, <1>2 DEF IInv

LEMMA WatcherWakesKeeps == ASSUME IInv, NEW p \in Procs, WatcherWakes(p) PROVE IInv'
<1>1. watcher' \in [Procs -> {"none", "waits", "asks"}] /\ notified' \subseteq Procs
    BY DEF WatcherWakes, IInv, TypeOK
<1>2. Watched'
    BY Constants DEF WatcherWakes, Watched, IInv, TypeOK
<1> QED BY <1>1, <1>2, WatcherSteps DEF WatcherWakes

LEMMA WatcherAsksKeeps == ASSUME IInv, NEW p \in Procs, WatcherAsks(p) PROVE IInv'
<1>1. watcher' \in [Procs -> {"none", "waits", "asks"}] /\ notified' \subseteq Procs
    BY DEF WatcherAsks, IInv, TypeOK
<1>2. Watched'
    BY Constants DEF WatcherAsks, Watched, IInv, TypeOK
<1> QED BY <1>1, <1>2, WatcherSteps DEF WatcherAsks

(*----------------------------------- theorems ----------------------------------*)

LEMMA InitIInv == Init => IInv
<1>1. SUFFICES ASSUME Init PROVE IInv
    OBVIOUS
<1>2. TypeOK
    BY <1>1 DEF Init, TypeOK, Allowed, NoCall, NewCall, Calls, Kinds, Codes
<1>3. Mutual /\ CallsOK
    BY <1>1, Constants DEF Init, NoCall, NewCall, Mutual, Holds, Locked, CallsOK, CallOK, MaySpawn, Attempted
<1>4. Accounted /\ Watched
    BY <1>1, Constants DEF Init, Accounted, Free, Resting, Watched
<1> QED BY <1>2, <1>3, <1>4 DEF IInv

LEMMA NextIInv == IInv /\ [Next]_vars => IInv'
<1>1. SUFFICES ASSUME IInv, [Next]_vars PROVE IInv'
    OBVIOUS
<1>2. CASE Next
    BY <1>1, <1>2, BeginKeeps, SupersedeKeeps, StartEntersKeeps, SwitchEntersKeeps, StopEntersKeeps,
       WorksKeeps, ProcessDiesKeeps, WatcherWakesKeeps, WatcherAsksKeeps DEF Next
<1>3. CASE UNCHANGED vars
    <2>1. UNCHANGED <<state, tracked, alive, abandoned, watcher, notified, lock, call>>
        BY <1>3 DEF vars, process
    <2>2. Watched'
        BY <1>1, <2>1 DEF IInv, Watched
    <2> QED BY <1>1, <2>1, <2>2, WatcherSteps DEF IInv, TypeOK
<1> QED BY <1>1, <1>2, <1>3

\* The strengthened invariant of the runner: one operation at a time has the lock, and at
\* each of its points everything alive is what the runner tracks, means to go back to, or
\* gave up while it started.
THEOREM Inductive == Spec => []IInv
BY InitIInv, NextIInv, PTL DEF Spec

\* Every variable keeps its type; in particular no start and no switch calls
\* _spawn_process_locked more than twice.
THEOREM TypeCorrect == Spec => []TypeOK
<1>1. IInv => TypeOK
    BY DEF IInv
<1> QED BY <1>1, Inductive, PTL

\* Whenever the lock is free, every process that runs is the one the runner tracks or one
\* that hung while it was started: none is lost by a failed or a superseded switch.
THEOREM NothingIsLost == Spec => []NoneLost
<1>1. IInv => NoneLost
    BY DEF IInv, Accounted, Free, NoneLost
<1> QED BY <1>1, Inductive, PTL

\* Whenever the lock is free the runner's state is idle, running or failed, and says of
\* running_process what is true of it.
THEOREM RestIsConsistent == Spec => []RestsConsistent
<1>1. IInv => RestsConsistent
    BY DEF IInv, Accounted, Free, Resting, RestsConsistent
<1> QED BY <1>1, Inductive, PTL

\* The death of the process behind a running state is reported by its watcher.
THEOREM RunningDeathIsReported == Spec => []RunningDeathReported
<1>1. IInv => RunningDeathReported
    BY DEF IInv, Accounted, Free, Resting, Watched, RunningDeathReported
<1> QED BY <1>1, Inductive, PTL

\* The one step in which the holder of the lock takes the old process of its switch away.
LEMMA OnlyHandsOver ==
    ASSUME IInv, Next, NEW c \in Callers, lock = c,
           call[c].old \in alive \ alive', call'[c] # call[c]
    PROVE  HandsOver(c)
<1>1. /\ c # Nobody /\ CallOK(c)
      /\ call[c].kind = "switch"
      /\ call[c].pc \in {"spawn", "starting", "handover", "failed", "pause"}
    <2>1. alive \subseteq Procs
        BY DEF IInv, TypeOK
    <2> QED BY <2>1, Constants DEF IInv, CallsOK, CallOK
<1>2. ASSUME NEW d \in Callers, call[d].pc \in Locked PROVE d = c
    BY <1>2, Holder
<1>3. ASSUME NEW d \in Callers, NEW kind \in Kinds, Enters(d, kind) PROVE FALSE
    BY <1>1, <1>3 DEF Enters
<1>4. ASSUME NEW d \in Callers, Works(d) PROVE HandsOver(c)
    <2>1. CASE StartClears(d) \/ StartCleans(d)
        BY <1>1, <1>2, <2>1 DEF StartClears, StartCleans, Locked
    <2>2. CASE DryRunFails(d) \/ Launches(d) \/ LaunchRaises(d)
        BY <2>2 DEF DryRunFails, Launches, LaunchRaises, process
    <2>3. CASE IsStable(d) \/ ExitsDuringStart(d) \/ HangsDuringStart(d)
        BY <2>3 DEF IsStable, ExitsDuringStart, HangsDuringStart, SpawnFails
    <2>4. CASE StartRetries(d) \/ StartGivesUp(d)
        BY <1>1, <1>2, <2>4 DEF StartRetries, StartGivesUp, Locked
    <2>5. CASE HandsOver(d)
        BY <1>2, <2>5 DEF HandsOver, Locked
    <2>6. CASE SwitchRestores(d) \/ SwitchPauses(d) \/ SwitchGivesUp(d)
        BY <2>6 DEF SwitchRestores, SwitchPauses, SwitchGivesUp, process
    <2>7. CASE SwitchRetries(d)
        <3>1. d = c /\ call[c].old = NoProc /\ alive \subseteq Procs
            BY <1>2, <2>7 DEF SwitchRetries, SwitchFailed, Locked, IInv, TypeOK
        <3> QED BY <3>1, Constants
    <2>8. CASE StopClears(d)
        BY <1>1, <1>2, <2>8 DEF StopClears, Locked
    <2> QED BY <1>4, <2>1, <2>2, <2>3, <2>4, <2>5, <2>6, <2>7, <2>8 DEF Works
<1>5. ASSUME NEW d \in Callers, StartEnters(d) \/ SwitchEnters(d) \/ StopEnters(d) PROVE FALSE
    BY <1>3, <1>5 DEF StartEnters, SwitchEnters, StopEnters, Kinds
<1>6. ASSUME NEW d \in Callers, NEW kind \in Kinds, Begin(d, kind) PROVE FALSE
    BY <1>6 DEF Begin, process
<1>7. ASSUME NEW d \in Callers, Supersede(d) PROVE FALSE
    BY <1>7 DEF Supersede, process
<1>8. ASSUME ProcessDies \/ \E p \in Procs : WatcherWakes(p) \/ WatcherAsks(p) PROVE FALSE
    BY <1>8 DEF ProcessDies, WatcherWakes, WatcherAsks
<1> QED BY <1>4, <1>5, <1>6, <1>7, <1>8 DEF Next

\* A switch takes the old process away only in the handoff, when the runner is in the
\* running state and tracks another process.
THEOREM ReplacementComesFirst == Spec => ReplacedFirst
<1> DEFINE Replaces == \A c \in Callers :
                         lock = c /\ call[c].old \in alive \ alive' /\ call'[c] # call[c]
                           => state = "running" /\ tracked # call[c].old
<1>1. IInv /\ [Next]_vars => Replaces
    <2>1. SUFFICES ASSUME IInv, [Next]_vars, NEW c \in Callers, lock = c,
                          call[c].old \in alive \ alive', call'[c] # call[c]
                   PROVE  state = "running" /\ tracked # call[c].old
        OBVIOUS
    <2>2. Next
        BY <2>1 DEF vars
    <2>3. call[c].pc = "handover" /\ Starting(c)
        BY <2>1, <2>2, OnlyHandsOver, Holder DEF HandsOver, Locked, Held
    <2> QED BY <2>3 DEF Starting
<1>2. IInv /\ [Next]_vars => [Replaces]_vars
    BY <1>1
<1> QED BY <1>2, Inductive, PTL DEF Spec, ReplacedFirst
=================================================================================
