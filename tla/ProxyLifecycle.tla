----------------------------- MODULE ProxyLifecycle -----------------------------
(* Starting and stopping the Telegram proxy: the threads that call the shared   *)
(* TelegramProxyManager, the TelegramProxyRuntime it creates for each start with*)
(* an event loop in a thread of its own, and TelegramWSProxy.start and stop that*)
(* run in this loop.                                                            *)
(*                                                                              *)
(* start_proxy creates the runtime and launches its thread in one step, and the *)
(* five seconds for which it waits are enough: binding gives up after three.    *)
EXTENDS Integers

CONSTANTS
    Callers,     \* autostart thread, start and stop workers of the page and the tray
    MaxRuntimes, \* bound on the starts explored
    Overlap      \* calls of different threads may overlap

ASSUME LifecycleAssumption ==
    /\ MaxRuntimes \in Nat \ {0}
    /\ Overlap \in BOOLEAN

Runtimes == 1 .. MaxRuntimes
None == 0

VARIABLES
    current,   \* TelegramProxyManager._runtime
    made,      \* runtimes created
    refs,      \* runtimes with _loop and _proxy set
    loop,      \* what the thread of each runtime does
    running,   \* runtimes whose proxy has _running
    stopping,  \* the coroutine TelegramWSProxy.stop of each runtime
    halted,    \* loops that loop.stop was called for
    port,      \* the runtime that listens on the port
    clients,   \* runtimes with a client connected
    pc, target, kind  \* of each caller: place, runtime, operation

loopVars == <<loop, running, stopping, port, clients>>
callVars == <<pc, target, kind>>
vars == <<current, made, refs, halted, loopVars, callVars>>

Alive == {"thread", "ready", "binding", "bound", "serving", "empty"}
LoopRuns == {"binding", "bound", "serving", "empty"}
\* _started is set once the proxy serves or the loop has ended.
Started(r) == loop[r] \in {"serving", "empty", "dead"}

\* TelegramProxyManager.is_running
IsRunning == current # None /\ current \in refs /\ current \in running

Init ==
    /\ current = None /\ made = 0
    /\ refs = {} /\ running = {} /\ halted = {} /\ clients = {}
    /\ loop = [r \in Runtimes |-> "none"]
    /\ stopping = [r \in Runtimes |-> "no"]
    /\ port = None
    /\ pc = [c \in Callers |-> "idle"]
    /\ target = [c \in Callers |-> None]
    /\ kind = [c \in Callers |-> "start"]

MayCall(c) == pc[c] = "idle" /\ (Overlap \/ \A d \in Callers : pc[d] = "idle")
Goto(c, place) == pc' = [pc EXCEPT ![c] = place]

\* start_proxy: a second look is not taken before the runtime is created.
CallStart(c) ==
    /\ MayCall(c)
    /\ ~IsRunning
    /\ Goto(c, "create")
    /\ kind' = [kind EXCEPT ![c] = "start"]
    /\ UNCHANGED <<current, made, refs, halted, loopVars, target>>

CreateRuntime(c) ==
    /\ pc[c] = "create"
    /\ made < MaxRuntimes
    /\ made' = made + 1
    /\ current' = made'
    /\ refs' = refs \cup {made'}
    /\ loop' = [loop EXCEPT ![made'] = "thread"]
    /\ target' = [target EXCEPT ![c] = made']
    /\ Goto(c, "starting")
    /\ UNCHANGED <<halted, running, stopping, port, clients, kind>>

StartReturns(c) ==
    /\ pc[c] = "starting"
    /\ Started(target[c])
    /\ Goto(c, "idle")
    /\ target' = [target EXCEPT ![c] = None]
    /\ UNCHANGED <<current, made, refs, halted, loopVars, kind>>

\* stop_proxy, _stop_runtime_only: TelegramProxyRuntime.stop takes the references
\* away first and asks the loop, if it runs, to stop the proxy.
CallStop(c, k) ==
    /\ MayCall(c)
    /\ current # None
    /\ target' = [target EXCEPT ![c] = current]
    /\ kind' = [kind EXCEPT ![c] = k]
    /\ refs' = refs \ {current}
    /\ IF current \in refs /\ loop[current] \in LoopRuns
       THEN Goto(c, "wait") /\ stopping' = [stopping EXCEPT ![current] = "asked"]
       ELSE Goto(c, IF current \in refs THEN "join" ELSE "clear") /\ UNCHANGED stopping
    /\ UNCHANGED <<current, made, halted, loop, running, port, clients>>

FutureEndsQuietly(c) ==                                               \* mutant
    /\ pc[c] = "wait"
    /\ stopping[target[c]] \in {"waiting", "done"} \/ loop[target[c]] \notin LoopRuns
    /\ Goto(c, "join")
    /\ UNCHANGED <<current, made, refs, halted, loopVars, target, kind>>

FutureEndsWhenDone(c) ==                                              \* mutant
    /\ pc[c] = "wait"
    /\ stopping[target[c]] = "done" \/ loop[target[c]] \notin LoopRuns
    /\ halted' = halted \cup {target[c]}
    /\ Goto(c, "join")
    /\ UNCHANGED <<current, made, refs, loopVars, target, kind>>

\* future.result ends, after two seconds at the latest; then loop.stop.
FutureEnds(c) ==
    /\ pc[c] = "wait"
    /\ stopping[target[c]] \in {"waiting", "done"} \/ loop[target[c]] \notin LoopRuns
    /\ halted' = halted \cup {target[c]}
    /\ Goto(c, "join")
    /\ UNCHANGED <<current, made, refs, loopVars, target, kind>>

\* thread.join returns, after one second at the latest.
JoinEnds(c) ==
    /\ pc[c] = "join"
    /\ Goto(c, "clear")
    /\ UNCHANGED <<current, made, refs, halted, loopVars, target, kind>>

\* Only _stop_runtime_only looks whether a new runtime was created meanwhile.
ClearRuntime(c) ==
    /\ pc[c] = "clear"
    /\ current' = IF kind[c] = "stopOnly" /\ current # target[c] THEN current ELSE None
    /\ Goto(c, "idle")
    /\ target' = [target EXCEPT ![c] = None]
    /\ UNCHANGED <<made, refs, halted, loopVars, kind>>

\* _run_loop reads _loop, then _proxy; without the proxy it runs an empty loop.
ThreadReadsLoop(r) ==
    /\ loop[r] = "thread"
    /\ loop' = [loop EXCEPT ![r] = IF r \in refs THEN "ready" ELSE "dead"]
    /\ UNCHANGED <<current, made, refs, halted, running, stopping, port, clients, callVars>>

ThreadEntersLoop(r) ==
    /\ loop[r] = "ready"
    /\ loop' \in {[loop EXCEPT ![r] = "binding"]}
                 \cup (IF r \in refs THEN {} ELSE {[loop EXCEPT ![r] = "empty"]})
    /\ UNCHANGED <<current, made, refs, halted, running, stopping, port, clients, callVars>>

\* TelegramWSProxy.start
Bind(r) ==
    /\ loop[r] = "binding"
    /\ port = None
    /\ port' = r
    /\ loop' = [loop EXCEPT ![r] = "bound"]
    /\ UNCHANGED <<current, made, refs, halted, running, stopping, clients, callVars>>

\* The port stays busy, or another error.
BindFails(r) ==
    /\ loop[r] = "binding"
    /\ loop' = [loop EXCEPT ![r] = "closing"]
    /\ UNCHANGED <<current, made, refs, halted, running, stopping, port, clients, callVars>>

Serve(r) ==
    /\ loop[r] = "bound"
    /\ loop' = [loop EXCEPT ![r] = "serving"]
    /\ running' = running \cup {r}
    /\ UNCHANGED <<current, made, refs, halted, stopping, port, clients, callVars>>

ClientConnects(r) ==
    /\ loop[r] = "serving" /\ port = r
    /\ clients' = clients \cup {r}
    /\ UNCHANGED <<current, made, refs, halted, loop, running, stopping, port, callVars>>

ClientLeaves(r) ==
    /\ r \in clients
    /\ clients' = clients \ {r}
    /\ UNCHANGED <<current, made, refs, halted, loop, running, stopping, port, callVars>>

StopWaitsFirst(r) ==                                                  \* mutant
    /\ stopping[r] = "asked" /\ loop[r] \in LoopRuns
    /\ running' = running \ {r}
    /\ stopping' = [stopping EXCEPT ![r] = IF r \in running THEN "waiting" ELSE "done"]
    /\ UNCHANGED <<current, made, refs, halted, loop, port, clients, callVars>>

\* TelegramWSProxy.stop closes the listening sockets and waits for the clients to
\* leave (asyncio.Server.wait_closed since Python 3.12).
StopListening(r) ==
    /\ stopping[r] = "asked" /\ loop[r] \in LoopRuns
    /\ running' = running \ {r}
    /\ IF r \in running
       THEN stopping' = [stopping EXCEPT ![r] = "waiting"] /\ port' = None
       ELSE stopping' = [stopping EXCEPT ![r] = "done"] /\ UNCHANGED port
    /\ UNCHANGED <<current, made, refs, halted, loop, clients, callVars>>

\* ... and then closes the pools, the upstream relays and its tasks.
StopCompletes(r) ==
    /\ stopping[r] = "waiting" /\ loop[r] \in LoopRuns
    /\ r \notin clients
    /\ stopping' = [stopping EXCEPT ![r] = "done"]
    /\ UNCHANGED <<current, made, refs, halted, loop, running, port, clients, callVars>>

\* The loop ends; the finally of _run_loop cancels what is left and closes it.
LoopHalts(r) ==
    /\ r \in halted /\ loop[r] \in LoopRuns
    /\ loop' = [loop EXCEPT ![r] = "closing"]
    /\ UNCHANGED <<current, made, refs, halted, running, stopping, port, clients, callVars>>

LoopCloses(r) ==
    /\ loop[r] = "closing"
    /\ loop' = [loop EXCEPT ![r] = "dead"]
    /\ clients' = clients \ {r}
    /\ port' = IF port = r THEN None ELSE port
    /\ UNCHANGED <<current, made, refs, halted, running, stopping, callVars>>

CallerSteps(c) ==
    \/ CreateRuntime(c) \/ StartReturns(c)
    \/ FutureEnds(c) \/ JoinEnds(c) \/ ClearRuntime(c)

LoopSteps(r) ==
    \/ ThreadReadsLoop(r) \/ ThreadEntersLoop(r) \/ Bind(r) \/ BindFails(r) \/ Serve(r)
    \/ StopListening(r) \/ StopCompletes(r) \/ LoopHalts(r) \/ LoopCloses(r)

Next ==
    \/ \E c \in Callers :
          \/ CallStart(c) \/ CallStop(c, "stop") \/ CallStop(c, "stopOnly") \/ CallerSteps(c)
    \/ \E r \in Runtimes : LoopSteps(r) \/ ClientConnects(r) \/ ClientLeaves(r)

(* Threads run and every wait has its time limit.  Nobody has to call, and a    *)
(* client may stay connected for ever.                                          *)
Fairness ==
    /\ \A c \in Callers : WF_vars(CallerSteps(c))
    /\ \A r \in Runtimes : WF_vars(LoopSteps(r)) /\ WF_vars(LoopHalts(r))

Spec == Init /\ [][Next]_vars /\ Fairness

--------------------------------------------------------------------------------
\* Type invariant: the runtimes, their loops, the port and the callers hold the values the code gives them.
TypeOK ==
    /\ current \in 0 .. made /\ made \in 0 .. MaxRuntimes
    /\ refs \subseteq Runtimes /\ running \subseteq Runtimes
    /\ halted \subseteq Runtimes /\ clients \subseteq Runtimes
    /\ loop \in [Runtimes -> Alive \cup {"none", "closing", "dead"}]
    /\ stopping \in [Runtimes -> {"no", "asked", "waiting", "done"}]
    /\ port \in Runtimes \cup {None}
    /\ pc \in [Callers -> {"idle", "create", "starting", "wait", "join", "clear"}]
    /\ target \in [Callers -> Runtimes \cup {None}]
    /\ kind \in [Callers -> {"start", "stop", "stopOnly"}]

\* No proxy is left behind: a runtime whose loop goes on can be reached through the
\* manager, or a call that starts or stops it is still under way.
NoOrphan ==
    \A r \in Runtimes :
        loop[r] \in Alive /\ r \notin halted =>
            current = r \/ \E c \in Callers : target[c] = r

\* stop releases the port before it returns, even if a client stays connected.
StopFreesPort == \A c \in Callers : pc[c] = "clear" => port # target[c]

\* Every start and stop returns.
CallsReturn == \A c \in Callers : pc[c] # "idle" ~> (pc[c] = "idle" \/ made = MaxRuntimes)
================================================================================
