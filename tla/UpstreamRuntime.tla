---------------------------- MODULE UpstreamRuntime ----------------------------
(* UpstreamConnectionExecutor: the connection tasks of the Telegram proxy that  *)
(* open a relay through the active SOCKS server.  A task chooses its server,    *)
(* waits for a handshake slot, dials, relays, and reports what it saw to the    *)
(* controller; a switch of server cancels the tasks of the former one.          *)
(*                                                                              *)
(* One event loop runs the tasks: a step reaches from one await to the next.    *)
EXTENDS UpstreamController, FiniteSets

CONSTANTS
    Tasks,            \* tasks that may handle a client connection
    ConnectLimit,     \* value of the handshake semaphore
    MaxQueued,        \* MAX_QUEUED_CONNECTIONS
    CancelCanBeLost   \* asyncio.wait_for may prefer a finished result to a cancel

ASSUME RuntimeAssumption ==
    /\ ConnectLimit \in Nat \ {0}
    /\ MaxQueued \in Nat
    /\ CancelCanBeLost \in BOOLEAN

VARIABLES
    pc,          \* where each task is
    attempt,     \* its attempt
    verdict,     \* verdict_recorded of its connection
    registered,  \* the generation _tasks holds for it, 0 when it is not in _tasks
    cancelled,   \* tasks with a cancellation under way
    free,        \* value of the semaphore
    queued,      \* _queued
    bad          \* history: bad verdicts on each server while it was the active one,
                 \* since its last data or since it was given up

taskVars == <<pc, attempt, verdict, registered, cancelled, free, queued>>
vars == <<ctlVars, taskVars, bad>>

NoAttempt == [ep |-> NoEndpoint, gen |-> 0, probe |-> FALSE, primary |-> FALSE]

Places == {"idle", "queued", "dial", "close", "relay"}
HoldsSlot == {"dial", "close"}
Enough == IF FailLimit < ZeroLimit THEN FailLimit ELSE ZeroLimit

Init ==
    /\ ControllerInit
    /\ pc = [t \in Tasks |-> "idle"]
    /\ attempt = [t \in Tasks |-> NoAttempt]
    /\ verdict = [t \in Tasks |-> FALSE]
    /\ registered = [t \in Tasks |-> 0]
    /\ cancelled = {}
    /\ free = ConnectLimit
    /\ queued = 0
    /\ bad = NoFailures

CancelledNever(spared) == cancelled                                   \* mutant

\* _handle_transition: the tasks of the former generation, except those spared.
CancelledAfter(spared) ==
    IF generation' = generation
    THEN cancelled
    ELSE cancelled \cup {u \in Tasks \ spared : registered[u] = generation /\ generation # 0}

\* The task is done with its connection: popped from _tasks, ready for another.
Leave(t) ==
    /\ pc' = [pc EXCEPT ![t] = "idle"]
    /\ attempt' = [attempt EXCEPT ![t] = NoAttempt]
    /\ verdict' = [verdict EXCEPT ![t] = FALSE]
    /\ registered' = [registered EXCEPT ![t] = 0]
    /\ cancelled' = CancelledAfter({t}) \ {t}

GiveBackSlot(t) ==                                                    \* mutant
    /\ free' = free + IF pc[t] \in HoldsSlot THEN 1 ELSE 0
    /\ UNCHANGED queued

\* The finally of open_connection and of _acquire_slot.
GiveBack(t) ==
    /\ free' = free + IF pc[t] \in HoldsSlot THEN 1 ELSE 0
    /\ queued' = queued - IF pc[t] = "queued" THEN 1 ELSE 0

OnActive(a) == a.gen = generation /\ a.ep = active

\* History only: one more bad verdict of the present generation on the active
\* server, which is forgotten when it is given up for it; or data through a server.
Blame(t) ==
    bad' = IF ~OnActive(attempt[t]) THEN bad
           ELSE [bad EXCEPT ![active] = IF active' # active THEN 0
                                        ELSE IF @ < Enough THEN @ + 1 ELSE @]

Praise(t) ==
    bad' = IF IsCurrent(attempt[t]) THEN [bad EXCEPT ![attempt[t].ep] = 0] ELSE bad

\* A waiter that is being cancelled may or may not count for locked().
Locked == free = 0 \/ \E u \in Tasks : pc[u] = "queued"
MayPass == free > 0 /\ \A u \in Tasks : pc[u] = "queued" => u \in cancelled

\* open_connection up to its first await.  With the queue full it gives its
\* attempt back at once, which changes nothing.
Open(t) ==
    /\ pc[t] = "idle"
    /\ \E a \in Offered :
          /\ SelectAttempt(a)
          /\ attempt' = [attempt EXCEPT ![t] = a]
          /\ registered' = [registered EXCEPT ![t] = a.gen]
    /\ \/ /\ MayPass
          /\ pc' = [pc EXCEPT ![t] = "dial"]
          /\ free' = free - 1
          /\ UNCHANGED queued
       \/ /\ Locked
          /\ queued < MaxQueued
          /\ pc' = [pc EXCEPT ![t] = "queued"]
          /\ queued' = queued + 1
          /\ UNCHANGED free
    /\ UNCHANGED <<verdict, cancelled, bad>>

Uncancelled(t) == t \in cancelled => CancelCanBeLost

AcquireSlot(t) ==
    /\ pc[t] = "queued"
    /\ free > 0
    /\ Uncancelled(t)
    /\ pc' = [pc EXCEPT ![t] = "dial"]
    /\ free' = free - 1
    /\ queued' = queued - 1
    /\ cancelled' = cancelled \ {t}
    /\ UNCHANGED <<ctlVars, attempt, verdict, registered, bad>>

\* No slot within QUEUE_TIMEOUT: UpstreamBusyError.
QueueTimeout(t) ==
    /\ pc[t] = "queued"
    /\ AbandonAttempt(attempt[t])
    /\ Leave(t)
    /\ GiveBack(t)
    /\ UNCHANGED bad

\* The handshake succeeded; a server that was replaced meanwhile is closed again.
DialConnects(t) ==
    /\ pc[t] = "dial"
    /\ Uncancelled(t)
    /\ IF attempt[t].gen = generation
       THEN /\ pc' = [pc EXCEPT ![t] = "relay"]
            /\ free' = free + 1
       ELSE /\ pc' = [pc EXCEPT ![t] = "close"]
            /\ UNCHANGED free
    /\ cancelled' = cancelled \ {t}
    /\ UNCHANGED <<ctlVars, attempt, verdict, registered, queued, bad>>

DialFails(t) ==
    /\ pc[t] = "dial"
    /\ Uncancelled(t)
    /\ RecordConnectFailure(attempt[t])
    /\ Leave(t)
    /\ GiveBack(t)
    /\ Blame(t)

\* The server refused this target by rule, or no time is left: nobody is blamed.
DialRefused(t) ==
    /\ pc[t] = "dial"
    /\ Uncancelled(t)
    /\ AbandonAttempt(attempt[t])
    /\ Leave(t)
    /\ GiveBack(t)
    /\ UNCHANGED bad

\* UpstreamStaleError after the stale connection is closed.
StaleClosed(t) ==
    /\ pc[t] = "close"
    /\ AbandonAttempt(attempt[t])
    /\ Leave(t)
    /\ GiveBack(t)
    /\ UNCHANGED bad

\* The first bytes of the server: record_recv_ok, once per connection.
FirstResponse(t) ==
    /\ pc[t] = "relay"
    /\ ~verdict[t]
    /\ RecordRecvOk(attempt[t])
    /\ verdict' = [verdict EXCEPT ![t] = TRUE]
    /\ cancelled' = CancelledAfter({t})
    /\ registered' = IF generation' = generation THEN registered
                     ELSE [registered EXCEPT ![t] = generation']
    /\ Praise(t)
    /\ UNCHANGED <<pc, attempt, free, queued>>

\* The relay is over: without data that is a bad verdict; then release.  A cancel
\* that arrives while the relay closes its sockets is swallowed there.
RelayEnds(t) ==
    /\ pc[t] = "relay"
    /\ IF verdict[t]
       THEN UNCHANGED <<ctlVars, bad>>
       ELSE RecordZeroRecv(attempt[t]) /\ Blame(t)
    /\ Leave(t)
    /\ UNCHANGED <<free, queued>>

\* The first packet could not be forwarded: release without a verdict.
RelayBreaks(t) ==
    /\ pc[t] = "relay"
    /\ ~verdict[t]
    /\ AbandonAttempt(attempt[t])
    /\ Leave(t)
    /\ UNCHANGED <<free, queued, bad>>

CancelReachesRelays(t) ==                                             \* mutant
    /\ t \in cancelled /\ pc[t] = "relay"
    /\ IF verdict[t] THEN UNCHANGED ctlVars ELSE AbandonAttempt(attempt[t])
    /\ Leave(t)
    /\ GiveBack(t)
    /\ UNCHANGED bad

\* CancelledError reaches the task.
CancelArrives(t) ==
    /\ t \in cancelled
    /\ IF verdict[t] THEN UNCHANGED ctlVars ELSE AbandonAttempt(attempt[t])
    /\ Leave(t)
    /\ GiveBack(t)
    /\ UNCHANGED bad

\* apply_config, called by the loop itself and not by one of the tasks.
ApplyConfig(c) ==
    /\ ReplaceConfig(c)
    /\ generation' <= MaxGeneration
    /\ cancelled' = CancelledAfter({})
    /\ bad' = NoFailures
    /\ UNCHANGED <<pc, attempt, verdict, registered, free, queued>>

\* close: every task it knows is cancelled.
CloseAll ==
    /\ cancelled' = cancelled \cup {t \in Tasks : registered[t] # 0}
    /\ UNCHANGED <<ctlVars, pc, attempt, verdict, registered, free, queued, bad>>

TimePasses ==
    /\ \E e \in Endpoints : RetryDelayElapses(e)
    /\ UNCHANGED <<taskVars, bad>>

EndsHandshake(t) ==
    \/ AcquireSlot(t) \/ QueueTimeout(t) \/ DialConnects(t) \/ DialFails(t)
    \/ DialRefused(t) \/ StaleClosed(t)

Next ==
    \/ \E t \in Tasks :
          \/ Open(t) \/ EndsHandshake(t)
          \/ FirstResponse(t) \/ RelayEnds(t) \/ RelayBreaks(t) \/ CancelArrives(t)
    \/ \E c \in Configs : ApplyConfig(c)
    \/ CloseAll
    \/ TimePasses

(* Fairness: both timeouts end every handshake, the loop delivers a cancel, the *)
(* clock goes on.  Clients, servers and the user owe nothing: no connection     *)
(* needs to be opened, and an open relay may stay silent for ever.              *)
Fairness ==
    /\ \A t \in Tasks : WF_vars(EndsHandshake(t)) /\ WF_vars(CancelArrives(t))
    /\ WF_vars(TimePasses)

Spec == Init /\ [][Next]_vars /\ Fairness

--------------------------------------------------------------------------------
\* Type invariant: the server lists, failure counts, connections and slots hold the values the code gives them.
TypeOK ==
    /\ endpoints \in Seq(Endpoints)
    /\ active \in Endpoints \cup {NoEndpoint}
    /\ probe \in Endpoints \cup {NoEndpoint}
    /\ generation \in Nat
    /\ unavailable \subseteq Endpoints
    /\ connFails \in [Endpoints -> 0 .. FailLimit]
    /\ zeroRecv \in [Endpoints -> 0 .. ZeroLimit]
    /\ pc \in [Tasks -> Places]
    /\ attempt \in [Tasks -> Attempts \cup {NoAttempt}]
    /\ verdict \in [Tasks -> BOOLEAN]
    /\ registered \in [Tasks -> Nat]
    /\ cancelled \subseteq Tasks
    /\ free \in Int
    /\ queued \in Int
    /\ bad \in [Endpoints -> 0 .. Enough]

\* A taken probe slot belongs to exactly one connection that will still report:
\* the slot is never lost with a task, and no second connection can decide it.
ProbeHasOwner ==
    probe # NoEndpoint =>
        \E t \in Tasks :
            /\ pc[t] # "idle" /\ ~verdict[t] /\ attempt[t].probe /\ IsCurrent(attempt[t])
            /\ \A u \in Tasks \ {t} : ~(attempt[u].probe /\ IsCurrent(attempt[u]))

\* The active server is configured and never one that is being kept away for its
\* failures, and no probe is spent on the active server itself.
ActiveIsUsable ==
    active # NoEndpoint =>
        /\ \E i \in DOMAIN endpoints : endpoints[i] = active
        /\ active \notin unavailable
        /\ probe # active

\* After a switch no relay of a former server goes on: one that is not being
\* cancelled is known under the present generation, so that the next switch ends
\* it too, and unless it is a probe it uses the active server.
RelaysUseActive ==
    \A t \in Tasks :
        pc[t] = "relay" /\ t \notin cancelled =>
            /\ registered[t] = generation
            /\ ~attempt[t].probe => attempt[t].ep = active

\* No path through open_connection loses or doubles a slot or a place in the queue.
SlotsAccounted ==
    /\ free + Cardinality({t \in Tasks : pc[t] \in HoldsSlot}) = ConnectLimit
    /\ queued = Cardinality({t \in Tasks : pc[t] = "queued"})
    /\ free >= 0 /\ queued <= MaxQueued

\* A connection moves the proxy to another server only on evidence: real data
\* through that server, or enough bad verdicts on the one given up, each of them
\* made while it was active and none of them answered by data.  Late verdicts of
\* a former choice of server do not count.
SwitchNeedsEvidence ==
    [][ \A t \in Tasks :
          active' # active /\ <<pc[t], verdict[t]>>' # <<pc[t], verdict[t]>> =>
            \/ ~verdict[t] /\ verdict'[t] /\ attempt[t].probe /\ active' = attempt[t].ep
            \/ OnActive(attempt[t]) /\ active # NoEndpoint /\ bad[active] + 1 >= Enough ]_vars

\* Every opening ends, in a relay or in an error, and gives its slot back.
HandshakeEnds ==
    \A t \in Tasks : pc[t] \in {"queued", "dial", "close"} ~> pc[t] \in {"idle", "relay"}

UndecidedProbe(t) ==
    pc[t] = "relay" /\ ~verdict[t] /\ attempt[t].probe /\ IsCurrent(attempt[t])

\* With servers configured the proxy does not refuse connections for ever: some
\* server becomes available for a probe again, unless the one probe that has been
\* let through stays silent.
NotRefusedForever ==
    (Offered = {}) ~> (Offered # {} \/ endpoints = <<>> \/ \E t \in Tasks : UndecidedProbe(t))
================================================================================
