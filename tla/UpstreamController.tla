--------------------------- MODULE UpstreamController ---------------------------
(* UpstreamStateController: the one SOCKS server the Telegram proxy uses now,   *)
(* the health of the configured ones and the single probe slot.  Its methods    *)
(* never wait, so each is one predicate on the controller's variables and the   *)
(* tasks of UpstreamRuntime call them inside their steps.                       *)
(*                                                                              *)
(* The clock is abstracted: an endpoint is `unavailable' until a step of time   *)
(* ends its retry delay, and whether a window of observation has passed is a    *)
(* choice.  The retry delays grow with failure_round, which no guard reads.     *)
EXTENDS Integers, Sequences

CONSTANTS
    Endpoints,     \* keys of the SOCKS servers
    NoEndpoint,    \* None
    Configs,       \* configurations: the primary first, then the fallbacks
    FailLimit,     \* CONNECT_FAILURE_LIMIT
    ZeroLimit,     \* ZERO_RECV_LIMIT
    MaxGeneration  \* bound on the switches explored

ASSUME ControllerAssumption ==
    /\ NoEndpoint \notin Endpoints
    /\ Configs \subseteq Seq(Endpoints)
    /\ \A c \in Configs : \A i, j \in DOMAIN c : c[i] = c[j] => i = j
    /\ FailLimit \in Nat \ {0} /\ ZeroLimit \in Nat \ {0}
    /\ MaxGeneration \in Nat \ {0}

VARIABLES
    endpoints,    \* the configured servers, without duplicates; <<>> when disabled
    active,       \* the server every connection uses, or NoEndpoint
    generation,   \* number of the present choice of active server
    probe,        \* the server being probed, or NoEndpoint
    unavailable,  \* servers whose unavailable_until lies in the future
    connFails,    \* connect_failures of each server
    zeroRecv      \* zero_recv_count of each server

ctlVars == <<endpoints, active, generation, probe, unavailable, connFails, zeroRecv>>

Attempts == [ep : Endpoints, gen : Nat, probe : BOOLEAN, primary : BOOLEAN]

NoFailures == [e \in Endpoints |-> 0]

Primary == IF endpoints = <<>> THEN NoEndpoint ELSE endpoints[1]

FirstOther(excluded) ==                                               \* mutant
    LET other(i) == endpoints[i] # excluded
    IN  {endpoints[i] : i \in {j \in DOMAIN endpoints :
                                  other(j) /\ \A k \in 1 .. (j - 1) : ~other(k)}}

\* The first available server in configured order other than `excluded', as a
\* set that is empty when there is none.
FirstAvailable(excluded) ==
    LET usable(i) == endpoints[i] \notin unavailable \cup {excluded}
    IN  {endpoints[i] : i \in {j \in DOMAIN endpoints :
                                  usable(j) /\ \A k \in 1 .. (j - 1) : ~usable(k)}}

ControllerInit ==
    /\ endpoints \in Configs
    /\ active = Primary
    /\ generation = IF endpoints = <<>> THEN 0 ELSE 1
    /\ probe = NoEndpoint
    /\ unavailable = {}
    /\ connFails = NoFailures
    /\ zeroRecv = NoFailures

ReplaceConfig(c) ==
    /\ endpoints' = c
    /\ active' = Primary'
    /\ generation' = IF active' = active THEN generation ELSE generation + 1
    /\ probe' = NoEndpoint
    /\ unavailable' = {}
    /\ connFails' = NoFailures
    /\ zeroRecv' = NoFailures

PrimaryProbeDue ==
    /\ active # NoEndpoint
    /\ active # Primary
    /\ probe = NoEndpoint
    /\ Primary \notin unavailable

\* What select_attempt may return now: nothing, or one attempt.
Offered ==
    LET offer(e, isProbe, isPrimary) ==
            [ep |-> e, gen |-> generation, probe |-> isProbe, primary |-> isPrimary]
        free == IF probe = NoEndpoint THEN FirstAvailable(NoEndpoint) ELSE {}
    IN  IF endpoints = <<>> THEN {}
        ELSE IF PrimaryProbeDue THEN {offer(Primary, TRUE, TRUE)}
        ELSE IF active # NoEndpoint THEN {offer(active, FALSE, FALSE)}
        ELSE {offer(e, TRUE, e = Primary) : e \in free}

\* select_attempt returning a: a probe takes the slot.
SelectAttempt(a) ==
    /\ a \in Offered
    /\ probe' = IF a.probe THEN a.ep ELSE probe
    /\ UNCHANGED <<endpoints, active, generation, unavailable, connFails, zeroRecv>>

IsCurrentByName(a) == a.ep = IF a.probe THEN probe ELSE active        \* mutant

IsCurrent(a) ==
    /\ a.gen = generation
    /\ a.ep = IF a.probe THEN probe ELSE active

Penalize(e) ==
    /\ unavailable' = unavailable \cup {e}
    /\ connFails' = [connFails EXCEPT ![e] = 0]
    /\ zeroRecv' = [zeroRecv EXCEPT ![e] = 0]

SwitchActive(e) ==
    IF e = active
    THEN UNCHANGED <<active, generation, probe>>
    ELSE /\ generation < MaxGeneration
         /\ generation' = generation + 1
         /\ active' = e
         /\ probe' = NoEndpoint

\* The active server is given up: the next available one replaces it, or none.
FailActive(e) ==
    LET rest == FirstAvailable(e)
    IN  /\ Penalize(e)
        /\ \E r \in IF rest = {} THEN {NoEndpoint} ELSE rest : SwitchActive(r)

\* A probe that failed: the server waits again and the slot is free.
FailProbe(a) ==
    /\ Penalize(a.ep)
    /\ probe' = NoEndpoint
    /\ UNCHANGED <<active, generation>>

\* Failures older than the window are dropped first, which leaves n of them.
RecordConnectFailure(a) ==
    /\ UNCHANGED endpoints
    /\ CASE ~IsCurrent(a) ->
                UNCHANGED <<active, generation, probe, unavailable, connFails, zeroRecv>>
         [] IsCurrent(a) /\ a.probe -> FailProbe(a)
         [] OTHER -> \E n \in 1 .. connFails[a.ep] + 1 :
                \/ /\ connFails' = [connFails EXCEPT ![a.ep] = IF n < FailLimit THEN n ELSE FailLimit]
                   /\ UNCHANGED <<active, generation, probe, unavailable, zeroRecv>>
                \/ n >= FailLimit /\ FailActive(a.ep)

KeepsCounting(a) ==                                                   \* mutant
    /\ UNCHANGED <<endpoints, active, generation, probe, unavailable, connFails>>
    /\ zeroRecv' = IF IsCurrent(a) THEN [zeroRecv EXCEPT ![a.ep] = @ + 1] ELSE zeroRecv

RecordZeroRecv(a) ==
    /\ UNCHANGED endpoints
    /\ CASE ~IsCurrent(a) ->
                UNCHANGED <<active, generation, probe, unavailable, connFails, zeroRecv>>
         [] IsCurrent(a) /\ a.probe -> FailProbe(a)
         [] OTHER -> LET n == zeroRecv[a.ep] + 1 IN
                \/ /\ zeroRecv' = [zeroRecv EXCEPT ![a.ep] = IF n < ZeroLimit THEN n ELSE ZeroLimit]
                   /\ UNCHANGED <<active, generation, probe, unavailable, connFails>>
                \/ n >= ZeroLimit /\ FailActive(a.ep)

\* Data arrived: the server is healthy, a probe decides.
RecordRecvOk(a) ==
    /\ UNCHANGED endpoints
    /\ IF ~IsCurrent(a)
       THEN UNCHANGED <<active, generation, probe, unavailable, connFails, zeroRecv>>
       ELSE /\ unavailable' = unavailable \ {a.ep}
            /\ connFails' = [connFails EXCEPT ![a.ep] = 0]
            /\ zeroRecv' = [zeroRecv EXCEPT ![a.ep] = 0]
            /\ CASE ~a.probe -> UNCHANGED <<active, generation, probe>>
                 [] a.probe /\ (active = NoEndpoint \/ a.primary) /\ a.ep # active
                            -> SwitchActive(a.ep)
                 [] OTHER   -> probe' = NoEndpoint /\ UNCHANGED <<active, generation>>

AbandonKeepsProbe(a) == UNCHANGED ctlVars                            \* mutant

\* A probe given up for a local reason frees the slot without blame.
AbandonAttempt(a) ==
    /\ probe' = IF a.probe /\ IsCurrent(a) THEN NoEndpoint ELSE probe
    /\ UNCHANGED <<endpoints, active, generation, unavailable, connFails, zeroRecv>>

\* Time passes: the retry delay of e is over.
RetryDelayElapses(e) ==
    /\ e \in unavailable
    /\ unavailable' = unavailable \ {e}
    /\ UNCHANGED <<endpoints, active, generation, probe, connFails, zeroRecv>>
================================================================================
