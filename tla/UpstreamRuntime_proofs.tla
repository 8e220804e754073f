--------------------------- MODULE UpstreamRuntime_proofs -------------------------
(* Proofs about UpstreamRuntime, for every set of servers, configurations and    *)
(* tasks and every value of the limits.                                          *)
(*                                                                               *)
(* A task reports to the controller in one of four ways.  ReportStep says what   *)
(* the four have in common for everybody else; the tasks' part of the invariant  *)
(* is preserved by whatever a report of that shape does.                         *)
EXTENDS UpstreamRuntime, FiniteSetTheorems, TLAPS

Configured == {endpoints[i] : i \in DOMAIN endpoints}

CtlType ==
    /\ endpoints \in Seq(Endpoints)
    /\ active \in Endpoints \cup {NoEndpoint}
    /\ probe \in Endpoints \cup {NoEndpoint}
    /\ generation \in Nat
    /\ unavailable \subseteq Endpoints
    /\ connFails \in [Endpoints -> 0 .. FailLimit]
    /\ zeroRecv \in [Endpoints -> 0 .. ZeroLimit]

CtlInv ==
    /\ endpoints # <<>> => generation # 0
    /\ active # NoEndpoint =>
         active \in Configured /\ active \notin unavailable /\ probe # active
    /\ probe # NoEndpoint => probe \in Configured
    /\ active = Primary => probe = NoEndpoint

TaskType ==
    /\ pc \in [Tasks -> Places]
    /\ attempt \in [Tasks -> Attempts \cup {NoAttempt}]
    /\ verdict \in [Tasks -> BOOLEAN]
    /\ registered \in [Tasks -> Nat]
    /\ cancelled \subseteq Tasks
    /\ free \in Int
    /\ queued \in Int

\* What is known of a probe made under the present generation.
ProbeKnown(a) ==
    a.probe /\ a.gen = generation =>
        /\ active = NoEndpoint \/ a.primary
        /\ a.ep # active
        /\ a.ep = probe \/ active = Primary

TaskInv(t) ==
    /\ pc[t] = "idle" => attempt[t] = NoAttempt /\ registered[t] = 0 /\ t \notin cancelled
    /\ pc[t] # "relay" => ~verdict[t]
    /\ pc[t] # "idle" =>
         /\ attempt[t] \in Attempts
         /\ 1 <= attempt[t].gen /\ attempt[t].gen <= generation
         /\ ~attempt[t].probe /\ attempt[t].gen = generation => attempt[t].ep = active
         /\ ProbeKnown(attempt[t])
    /\ pc[t] \in {"queued", "dial", "close"} => registered[t] = attempt[t].gen
    /\ pc[t] = "relay" /\ t \notin cancelled =>
         /\ registered[t] = generation
         /\ ~attempt[t].probe => attempt[t].gen = generation

Owns(t) == attempt[t].probe /\ IsCurrent(attempt[t])

OwnerInv ==
    /\ \A t, u \in Tasks : Owns(t) /\ Owns(u) => t = u
    /\ probe # NoEndpoint => \E t \in Tasks : pc[t] # "idle" /\ ~verdict[t] /\ Owns(t)

IInv == CtlType /\ CtlInv /\ TaskType /\ (\A t \in Tasks : TaskInv(t)) /\ OwnerInv

\* What a report about the attempt a does to the controller, as the others see it.
ReportStep(a) ==
    /\ CtlType' /\ CtlInv'
    /\ endpoints' = endpoints
    /\ \/ generation' = generation /\ active' = active /\ probe' \in {probe, NoEndpoint}
       \/ generation' = generation + 1 /\ probe' = NoEndpoint
    /\ generation' = generation => (probe' = probe \/ (a.probe /\ IsCurrent(a)))
    /\ a.probe /\ IsCurrent(a) => probe' = NoEndpoint

--------------------------------------------------------------------------------
(* The controller. *)

LEMMA Assumed == /\ NoEndpoint \notin Endpoints
                 /\ Configs \subseteq Seq(Endpoints)
                 /\ FailLimit \in Nat \ {0} /\ ZeroLimit \in Nat \ {0}
BY ControllerAssumption DEF ControllerAssumption

\* FirstAvailable(x): a configured server, not kept away and not the excluded x.
LEMMA FirstAvailableSound ==
    ASSUME CtlType, NEW x, NEW r \in FirstAvailable(x)
    PROVE  r \in Endpoints /\ r \in Configured /\ r \notin unavailable /\ r # x
<1>1. PICK i \in DOMAIN endpoints : r = endpoints[i] /\ endpoints[i] \notin unavailable \cup {x}
  BY DEF FirstAvailable
<1>2. endpoints[i] \in Endpoints
  BY <1>1 DEF CtlType
<1> QED BY <1>1, <1>2 DEF Configured

LEMMA PrimaryConfigured ==
    ASSUME CtlType
    PROVE  IF endpoints = <<>> THEN Primary = NoEndpoint
                               ELSE Primary \in Endpoints /\ Primary \in Configured
<1>1. CASE endpoints = <<>>
  BY <1>1 DEF Primary
<1>2. CASE endpoints # <<>>
  <2>1. 1 \in DOMAIN endpoints
    BY <1>2 DEF CtlType
  <2> QED BY <1>2, <2>1 DEF CtlType, Primary, Configured
<1> QED BY <1>1, <1>2

LEMMA ConfiguredKept ==
    ASSUME endpoints' = endpoints
    PROVE  Configured' = Configured /\ Primary' = Primary
BY DEF Configured, Primary

LEMMA AbandonReports ==
    ASSUME CtlType, CtlInv, NEW a, AbandonAttempt(a)
    PROVE  ReportStep(a)
<1>1. Configured' = Configured /\ Primary' = Primary
  BY ConfiguredKept DEF AbandonAttempt
<1> QED BY <1>1, Assumed DEF AbandonAttempt, ReportStep, CtlType, CtlInv

LEMMA FailProbeReports ==
    ASSUME CtlType, CtlInv, NEW a \in Attempts, a.probe, IsCurrent(a), FailProbe(a),
           endpoints' = endpoints
    PROVE  ReportStep(a)
<1>1. Configured' = Configured /\ Primary' = Primary
  BY ConfiguredKept
<1>2. a.ep \in Endpoints /\ a.ep = probe
  BY DEF Attempts, IsCurrent
<1>3. CtlType'
  BY <1>2, Assumed DEF CtlType, FailProbe, Penalize
<1>4. CtlInv'
  BY <1>1, <1>2, Assumed DEF CtlType, CtlInv, FailProbe, Penalize
<1> QED BY <1>3, <1>4 DEF ReportStep, FailProbe

LEMMA FailActiveReports ==
    ASSUME CtlType, CtlInv, NEW a \in Attempts, ~a.probe, IsCurrent(a), FailActive(a.ep),
           endpoints' = endpoints
    PROVE  ReportStep(a) /\ active' # active /\ generation' # generation
<1>1. Configured' = Configured /\ Primary' = Primary
  BY ConfiguredKept
<1>2. a.ep \in Endpoints /\ a.ep = active
  BY DEF Attempts, IsCurrent
<1>3. PICK r \in Endpoints \cup {NoEndpoint} :
         /\ r # NoEndpoint => r \in Configured /\ r \notin unavailable /\ r # a.ep
         /\ SwitchActive(r)
  BY FirstAvailableSound DEF FailActive
<1>4. r # active
  BY <1>2, <1>3, Assumed
<1>5. generation' = generation + 1 /\ active' = r /\ probe' = NoEndpoint
  BY <1>3, <1>4 DEF SwitchActive
<1>6. CtlType'
  BY <1>2, <1>3, <1>5, Assumed DEF CtlType, FailActive, Penalize
<1>7. CtlInv'
  BY <1>1, <1>2, <1>3, <1>5, Assumed DEF CtlType, CtlInv, FailActive, Penalize
<1> QED BY <1>2, <1>4, <1>5, <1>6, <1>7 DEF ReportStep, CtlType

LEMMA SameCtlReports ==
    ASSUME CtlType, CtlInv, NEW a, ~(a.probe /\ IsCurrent(a)), 
           UNCHANGED <<endpoints, active, generation, probe, unavailable>>,
           connFails' \in [Endpoints -> 0 .. FailLimit],
           zeroRecv' \in [Endpoints -> 0 .. ZeroLimit]
    PROVE  ReportStep(a)
<1>1. Configured' = Configured /\ Primary' = Primary
  BY ConfiguredKept
<1> QED BY <1>1 DEF ReportStep, CtlType, CtlInv

LEMMA ConnectFailureReports ==
    ASSUME CtlType, CtlInv, NEW a \in Attempts, RecordConnectFailure(a)
    PROVE  ReportStep(a)
<1>0. endpoints' = endpoints
  BY DEF RecordConnectFailure
<1>1. CASE ~IsCurrent(a)
  BY <1>0, <1>1, SameCtlReports DEF RecordConnectFailure, CtlType
<1>2. CASE IsCurrent(a) /\ a.probe
  BY <1>0, <1>2, FailProbeReports DEF RecordConnectFailure
<1>3. CASE IsCurrent(a) /\ ~a.probe
  <2>1. PICK n \in 1 .. connFails[a.ep] + 1 :
         \/ /\ connFails' = [connFails EXCEPT ![a.ep] = IF n < FailLimit THEN n ELSE FailLimit]
            /\ UNCHANGED <<active, generation, probe, unavailable, zeroRecv>>
         \/ n >= FailLimit /\ FailActive(a.ep)
    BY <1>3 DEF RecordConnectFailure
  <2>2. CASE FailActive(a.ep)
    BY <1>0, <1>3, <2>2, FailActiveReports
  <2>3. CASE /\ connFails' = [connFails EXCEPT ![a.ep] = IF n < FailLimit THEN n ELSE FailLimit]
             /\ UNCHANGED <<active, generation, probe, unavailable, zeroRecv>>
    <3>0. connFails[a.ep] \in Nat
      BY Assumed DEF CtlType, Attempts
    <3>1. n \in Nat
      BY <3>0
    <3>2. connFails' \in [Endpoints -> 0 .. FailLimit]
      BY <2>3, <3>1, Assumed DEF CtlType, Attempts
    <3> QED BY <1>0, <1>3, <2>3, <3>2, SameCtlReports DEF CtlType
  <2> QED BY <2>1, <2>2, <2>3
<1> QED BY <1>1, <1>2, <1>3 DEF Attempts

LEMMA ZeroRecvReports ==
    ASSUME CtlType, CtlInv, NEW a \in Attempts, RecordZeroRecv(a)
    PROVE  ReportStep(a)
<1>0. endpoints' = endpoints
  BY DEF RecordZeroRecv
<1>1. CASE ~IsCurrent(a)
  BY <1>0, <1>1, SameCtlReports DEF RecordZeroRecv, CtlType
<1>2. CASE IsCurrent(a) /\ a.probe
  BY <1>0, <1>2, FailProbeReports DEF RecordZeroRecv
<1>3. CASE IsCurrent(a) /\ ~a.probe
  <2> DEFINE n == zeroRecv[a.ep] + 1
  <2>1. \/ /\ zeroRecv' = [zeroRecv EXCEPT ![a.ep] = IF n < ZeroLimit THEN n ELSE ZeroLimit]
           /\ UNCHANGED <<active, generation, probe, unavailable, connFails>>
        \/ FailActive(a.ep)
    BY <1>3 DEF RecordZeroRecv
  <2>2. CASE FailActive(a.ep)
    BY <1>0, <1>3, <2>2, FailActiveReports
  <2>3. CASE /\ zeroRecv' = [zeroRecv EXCEPT ![a.ep] = IF n < ZeroLimit THEN n ELSE ZeroLimit]
             /\ UNCHANGED <<active, generation, probe, unavailable, connFails>>
    <3>1. n \in Nat
      BY Assumed DEF CtlType, Attempts
    <3>2. zeroRecv' \in [Endpoints -> 0 .. ZeroLimit]
      BY <2>3, <3>1, Assumed DEF CtlType, Attempts
    <3> QED BY <1>0, <1>3, <2>3, <3>2, SameCtlReports DEF CtlType
  <2> QED BY <2>1, <2>2, <2>3
<1> QED BY <1>1, <1>2, <1>3 DEF Attempts

\* A server answered: only a probe can make this a switch.
LEMMA RecvOkReports ==
    ASSUME CtlType, CtlInv, NEW a \in Attempts, ProbeKnown(a), RecordRecvOk(a)
    PROVE  /\ ReportStep(a)
           /\ generation' # generation => a.probe /\ a.gen = generation
           /\ active' # active => a.probe /\ active' = a.ep
           /\ a.probe /\ IsCurrent(a) => generation' # generation
<1>0. endpoints' = endpoints /\ Configured' = Configured /\ Primary' = Primary
  BY ConfiguredKept DEF RecordRecvOk
<1>1. CASE ~IsCurrent(a)
  BY <1>0, <1>1, SameCtlReports DEF RecordRecvOk, CtlType
<1>2. CASE IsCurrent(a)
  <2>1. /\ unavailable' = unavailable \ {a.ep}
        /\ connFails' = [connFails EXCEPT ![a.ep] = 0]
        /\ zeroRecv' = [zeroRecv EXCEPT ![a.ep] = 0]
    BY <1>2 DEF RecordRecvOk
  <2>2. /\ unavailable' \subseteq Endpoints
        /\ connFails' \in [Endpoints -> 0 .. FailLimit]
        /\ zeroRecv' \in [Endpoints -> 0 .. ZeroLimit]
    BY <2>1, Assumed DEF CtlType, Attempts
  <2>3. CASE ~a.probe
    <3>1. UNCHANGED <<active, generation, probe>>
      BY <1>2, <2>3 DEF RecordRecvOk
    <3>2. CtlType' /\ CtlInv'
      BY <1>0, <2>1, <2>2, <3>1 DEF CtlType, CtlInv
    <3> QED BY <1>0, <2>3, <3>1, <3>2 DEF ReportStep
  <2>4. CASE a.probe
    <3>1. a.ep \in Endpoints /\ a.ep = probe /\ a.ep # active /\ (active = NoEndpoint \/ a.primary)
          /\ a.gen = generation
      BY <1>2, <2>4 DEF Attempts, ProbeKnown, IsCurrent
    <3>2. SwitchActive(a.ep)
      BY <1>2, <2>4, <3>1 DEF RecordRecvOk
    <3>3. generation' = generation + 1 /\ active' = a.ep /\ probe' = NoEndpoint
      BY <3>1, <3>2 DEF SwitchActive
    <3>4. a.ep \in Configured
      BY <3>1, Assumed DEF CtlInv
    <3>5. CtlType'
      BY <1>0, <2>2, <3>1, <3>3 DEF CtlType
    <3>6. CtlInv'
      BY <1>0, <2>1, <3>1, <3>3, <3>4, Assumed DEF CtlType, CtlInv
    <3> QED BY <1>0, <2>4, <3>1, <3>3, <3>5, <3>6 DEF ReportStep, CtlType
  <2> QED BY <2>3, <2>4 DEF Attempts
<1> QED BY <1>1, <1>2

\* An attempt offered now: a probe only while the slot is free and the active
\* server is not the primary one.
LEMMA OfferedSound ==
    ASSUME CtlType, CtlInv, NEW a \in Offered
    PROVE  /\ a \in Attempts /\ a.gen = generation /\ generation >= 1
           /\ a.ep \in Configured
           /\ ~a.probe => a.ep = active
           /\ a.probe => /\ probe = NoEndpoint /\ active # Primary /\ a.ep # active
                         /\ active = NoEndpoint \/ a.primary
<1>0. endpoints # <<>>
  BY DEF Offered
<1>1. generation \in Nat /\ generation >= 1
  BY <1>0 DEF CtlInv, CtlType
<1>2. Primary \in Endpoints /\ Primary \in Configured
  BY <1>0, PrimaryConfigured
<1>3. CASE PrimaryProbeDue
  <2>1. a = [ep |-> Primary, gen |-> generation, probe |-> TRUE, primary |-> TRUE]
    BY <1>0, <1>3 DEF Offered
  <2> QED BY <2>1, <1>1, <1>2, <1>3 DEF PrimaryProbeDue, Attempts
<1>4. CASE ~PrimaryProbeDue /\ active # NoEndpoint
  <2>1. a = [ep |-> active, gen |-> generation, probe |-> FALSE, primary |-> FALSE]
    BY <1>0, <1>4 DEF Offered
  <2>2. active \in Endpoints /\ active \in Configured
    BY <1>4 DEF CtlType, CtlInv
  <2> QED BY <2>1, <2>2, <1>1 DEF Attempts
<1>5. CASE ~PrimaryProbeDue /\ active = NoEndpoint
  <2>1. \E e \in IF probe = NoEndpoint THEN FirstAvailable(NoEndpoint) ELSE {} :
          a = [ep |-> e, gen |-> generation, probe |-> TRUE, primary |-> e = Primary]
    BY <1>0, <1>5 DEF Offered
  <2>2. probe = NoEndpoint
    BY <2>1
  <2>3. PICK e \in FirstAvailable(NoEndpoint) :
          a = [ep |-> e, gen |-> generation, probe |-> TRUE, primary |-> e = Primary]
    BY <2>1, <2>2
  <2>4. e \in Endpoints /\ e \in Configured
    BY FirstAvailableSound
  <2>5. a.ep = e /\ a.gen = generation /\ a.probe = TRUE /\ a \in Attempts
    BY <2>3, <2>4, <1>1 DEF Attempts
  <2> QED BY <2>2, <2>4, <2>5, <1>1, <1>2, <1>5, Assumed
<1> QED BY <1>3, <1>4, <1>5

LEMMA SelectSound ==
    ASSUME CtlType, CtlInv, NEW a, SelectAttempt(a)
    PROVE  CtlType' /\ CtlInv'
<1>1. Configured' = Configured /\ Primary' = Primary
  BY ConfiguredKept DEF SelectAttempt
<1>2. a \in Offered
  BY DEF SelectAttempt
<1>3. /\ a.ep \in Endpoints /\ a.ep \in Configured
      /\ a.probe => active # Primary /\ a.ep # active
  BY <1>2, OfferedSound DEF Attempts
<1>4. CASE a.probe
  BY <1>1, <1>3, <1>4 DEF SelectAttempt, CtlType, CtlInv
<1>5. CASE ~a.probe
  BY <1>1, <1>5 DEF SelectAttempt, CtlType, CtlInv
<1> QED BY <1>4, <1>5

LEMMA ReplaceSound ==
    ASSUME CtlType, CtlInv, NEW c \in Configs, ReplaceConfig(c)
    PROVE  /\ CtlType' /\ CtlInv'
           /\ probe' = NoEndpoint /\ active' = Primary'
           /\ \/ generation' = generation /\ active' = active
              \/ generation' = generation + 1
<1>1. endpoints' = c /\ active' = Primary' /\ probe' = NoEndpoint /\ unavailable' = {}
      /\ generation' = IF active' = active THEN generation ELSE generation + 1
  BY DEF ReplaceConfig
<1>2. endpoints' \in Seq(Endpoints)
  BY <1>1, Assumed
<1>3. CASE endpoints' = <<>>
  <2>1. active' = NoEndpoint
    BY <1>1, <1>3 DEF Primary
  <2> QED BY <1>1, <1>2, <1>3, <2>1, Assumed DEF ReplaceConfig, NoFailures, CtlType, CtlInv
<1>4. CASE endpoints' # <<>>
  <2>1. 1 \in DOMAIN endpoints' /\ active' = endpoints'[1]
    BY <1>1, <1>2, <1>4 DEF Primary
  <2>2. active' \in Endpoints /\ active' \in Configured'
    BY <1>2, <2>1 DEF Configured
  <2>3. generation' \in Nat /\ generation' # 0
    <3>1. CASE active' = active
      <4>1. active \in Configured
        BY <3>1, <2>2, Assumed DEF CtlInv
      <4>2. endpoints # <<>>
        BY <4>1 DEF Configured
      <4> QED BY <1>1, <3>1, <4>2 DEF CtlInv, CtlType
    <3>2. CASE active' # active
      BY <1>1, <3>2 DEF CtlType
    <3> QED BY <3>1, <3>2
  <2>4. CtlType'
    BY <1>1, <1>2, <2>2, <2>3, Assumed DEF ReplaceConfig, NoFailures, CtlType
  <2>5. CtlInv'
    BY <1>1, <2>2, <2>3, Assumed DEF CtlInv
  <2> QED BY <1>1, <2>4, <2>5
<1> QED BY <1>3, <1>4

--------------------------------------------------------------------------------
(* The tasks. *)

\* A report of task t leaves every other task's part of the invariant in place.
LEMMA OthersKept ==
    ASSUME IInv, NEW t \in Tasks, NEW u \in Tasks, u # t,
           ReportStep(attempt[t]),
           pc'[u] = pc[u], attempt'[u] = attempt[u], verdict'[u] = verdict[u],
           registered'[u] = registered[u],
           CancelledAfter({t}) \ {t} \subseteq cancelled',
           cancelled' \subseteq CancelledAfter({t})
    PROVE  TaskInv(u)'
<1>0. TaskInv(u) /\ generation \in Nat
  BY DEF IInv, CtlType
<1>1. Primary' = Primary
  BY ConfiguredKept DEF ReportStep
<1>idle. pc[u] = "idle" => u \notin cancelled'
  BY <1>0 DEF TaskInv, CancelledAfter
<1>2. CASE generation' = generation
  <2>1. active' = active /\ probe' \in {probe, NoEndpoint}
        /\ (probe' = probe \/ (attempt[t].probe /\ IsCurrent(attempt[t])))
    BY <1>0, <1>2 DEF ReportStep
  <2>2. u \notin cancelled' => u \notin cancelled
    BY <1>2 DEF CancelledAfter
  <2>3. pc[u] # "idle" => ProbeKnown(attempt[u])'
    <3> SUFFICES ASSUME pc[u] # "idle", attempt[u].probe, attempt[u].gen = generation
                 PROVE  /\ active = NoEndpoint \/ attempt[u].primary
                        /\ attempt[u].ep # active
                        /\ attempt[u].ep = probe' \/ active = Primary
      BY <1>1, <1>2, <2>1 DEF ProbeKnown
    <3>1. /\ active = NoEndpoint \/ attempt[u].primary
          /\ attempt[u].ep # active
          /\ attempt[u].ep = probe \/ active = Primary
      BY <1>0 DEF TaskInv, ProbeKnown
    <3>2. CASE attempt[u].ep = probe /\ probe' # probe
      <4>1. Owns(u)
        BY <3>2 DEF Owns, IsCurrent
      <4>2. Owns(t)
        BY <2>1, <3>2 DEF Owns
      <4> QED BY <4>1, <4>2 DEF IInv, OwnerInv
    <3> QED BY <3>1, <3>2
  <2> QED BY <1>0, <1>idle, <1>2, <2>1, <2>2, <2>3 DEF TaskInv
<1>3. CASE generation' = generation + 1
  <2>1. pc[u] # "idle" => attempt[u].gen # generation' /\ attempt[u].gen <= generation'
                          /\ attempt[u].gen \in Nat /\ generation # 0
    BY <1>0, <1>3 DEF TaskInv, Attempts
  <2>2. ~(pc[u] = "relay" /\ u \notin cancelled')
    <3> SUFFICES ASSUME pc[u] = "relay", u \notin cancelled' PROVE FALSE
      OBVIOUS
    <3>1. generation' # generation
      BY <1>0, <1>3
    <3>2. u \notin cancelled /\ ~(registered[u] = generation /\ generation # 0)
      BY <3>1 DEF CancelledAfter
    <3> QED BY <1>0, <2>1, <3>2 DEF TaskInv
  <2>3. pc[u] # "idle" => ProbeKnown(attempt[u])'
    BY <2>1 DEF ProbeKnown
  <2> QED BY <1>0, <1>idle, <2>1, <2>2, <2>3 DEF TaskInv
<1> QED BY <1>2, <1>3 DEF ReportStep

\* Ownership of the probe slot after a report of t, whose task either leaves or
\* keeps its attempt.
LEMMA OwnerKept ==
    ASSUME IInv, NEW t \in Tasks, ReportStep(attempt[t]),
           \A u \in Tasks \ {t} : /\ pc'[u] = pc[u] /\ attempt'[u] = attempt[u]
                                  /\ verdict'[u] = verdict[u],
           attempt'[t] \in {attempt[t], NoAttempt}
    PROVE  OwnerInv'
<1>0. generation \in Nat /\ CtlType'
  BY DEF IInv, CtlType, ReportStep
<1>1. ASSUME NEW u \in Tasks, Owns(u)'
      PROVE  Owns(u) /\ probe' = probe /\ generation' = generation /\ u # t
  <2>1. attempt'[u].probe /\ attempt'[u].gen = generation' /\ attempt'[u].ep = probe'
    BY <1>1 DEF Owns, IsCurrent
  <2>2. attempt'[u] = attempt[u] /\ attempt[u] # NoAttempt
    BY <2>1 DEF NoAttempt
  <2>3. pc[u] # "idle" /\ attempt[u] \in Attempts /\ attempt[u].gen <= generation
    BY <2>2 DEF IInv, TaskInv
  <2>4. generation' = generation
    BY <1>0, <2>1, <2>2, <2>3 DEF ReportStep, Attempts
  <2>5. probe' = probe
    BY <1>0, <2>1, <2>2, <2>3, <2>4, Assumed DEF ReportStep, Attempts
  <2>6. Owns(u)
    BY <2>1, <2>2, <2>4, <2>5 DEF Owns, IsCurrent
  <2>7. u # t
    BY <2>1, <2>2, <2>3, <2>6, Assumed DEF Owns, ReportStep, Attempts
  <2> QED BY <2>4, <2>5, <2>6, <2>7
<1>2. ASSUME probe' # NoEndpoint
      PROVE  \E u \in Tasks : pc'[u] # "idle" /\ ~verdict'[u] /\ Owns(u)'
  <2>1. generation' = generation /\ probe' = probe /\ active' = active
    BY <1>0, <1>2 DEF ReportStep
  <2>2. PICK u \in Tasks : pc[u] # "idle" /\ ~verdict[u] /\ Owns(u)
    BY <1>2, <2>1 DEF IInv, OwnerInv
  <2>3. u # t
    BY <1>2, <2>2 DEF Owns, ReportStep
  <2>4. Owns(u)'
    BY <2>1, <2>2, <2>3 DEF Owns, IsCurrent
  <2> QED BY <2>2, <2>3, <2>4
<1>3. \A u, w \in Tasks : Owns(u)' /\ Owns(w)' => u = w
  BY <1>1 DEF IInv, OwnerInv
<1> QED BY <1>2, <1>3 DEF OwnerInv

LEMMA LiveAttempt ==
    ASSUME IInv, NEW t \in Tasks, pc[t] # "idle"
    PROVE  attempt[t] \in Attempts /\ ProbeKnown(attempt[t]) /\ CtlType /\ CtlInv
BY DEF IInv, TaskInv

\* A task whose verdict is given no longer owns the probe slot.
LEMMA VerdictGiven ==
    ASSUME IInv, NEW t \in Tasks, pc[t] # "idle", verdict[t], UNCHANGED ctlVars
    PROVE  ReportStep(attempt[t])
<1>1. ~Owns(t)
  <2> SUFFICES ASSUME Owns(t) PROVE FALSE
    OBVIOUS
  <2>1. probe # NoEndpoint
    BY LiveAttempt, Assumed DEF Owns, IsCurrent, Attempts
  <2>2. PICK u \in Tasks : ~verdict[u] /\ Owns(u)
    BY <2>1 DEF IInv, OwnerInv
  <2> QED BY <2>2 DEF IInv, OwnerInv
<1> QED BY <1>1, LiveAttempt, SameCtlReports DEF Owns, ctlVars, CtlType

LEMMA LeaveSound ==
    ASSUME IInv, NEW t \in Tasks, pc[t] # "idle", Leave(t), ReportStep(attempt[t]),
           free' \in Int, queued' \in Int
    PROVE  IInv'
<1>1. \A u \in Tasks \ {t} : /\ pc'[u] = pc[u] /\ attempt'[u] = attempt[u]
                             /\ verdict'[u] = verdict[u] /\ registered'[u] = registered[u]
  BY DEF Leave, IInv, TaskType
<1>2. /\ pc'[t] = "idle" /\ attempt'[t] = NoAttempt /\ verdict'[t] = FALSE
      /\ registered'[t] = 0 /\ t \notin cancelled'
  BY DEF Leave, IInv, TaskType
<1>3. TaskInv(t)'
  BY <1>2 DEF TaskInv
<1>4. \A u \in Tasks : TaskInv(u)'
  BY <1>1, <1>3, OthersKept DEF Leave
<1>5. OwnerInv'
  BY <1>1, <1>2, OwnerKept
<1>6. TaskType'
  BY DEF Leave, IInv, TaskType, Places, CancelledAfter
<1> QED BY <1>4, <1>5, <1>6 DEF IInv, ReportStep

LEMMA GiveBackType ==
    ASSUME IInv, NEW t \in Tasks, GiveBack(t)
    PROVE  free' \in Int /\ queued' \in Int
BY DEF GiveBack, IInv, TaskType

LEMMA OpenSound ==
    ASSUME IInv, NEW t \in Tasks, Open(t)
    PROVE  IInv'
<1>1. PICK a \in Offered : /\ SelectAttempt(a)
                           /\ attempt' = [attempt EXCEPT ![t] = a]
                           /\ registered' = [registered EXCEPT ![t] = a.gen]
  BY DEF Open
<1>2. CtlType /\ CtlInv /\ pc[t] = "idle" /\ TaskInv(t)
  BY DEF Open, IInv
<1>3. CtlType' /\ CtlInv'
  BY <1>1, <1>2, SelectSound
<1>4. /\ a \in Attempts /\ a.gen = generation /\ generation >= 1
      /\ a.ep \in Configured
      /\ ~a.probe => a.ep = active
      /\ a.probe => /\ probe = NoEndpoint /\ active # Primary /\ a.ep # active
                    /\ active = NoEndpoint \/ a.primary
  BY <1>2, OfferedSound
<1>5. /\ endpoints' = endpoints /\ active' = active /\ generation' = generation
      /\ probe' = IF a.probe THEN a.ep ELSE probe
      /\ Primary' = Primary /\ verdict' = verdict /\ cancelled' = cancelled
  BY <1>1, ConfiguredKept DEF SelectAttempt, Open
<1>6. pc' \in [Tasks -> Places] /\ pc'[t] \in {"dial", "queued"} /\ free' \in Int /\ queued' \in Int
      /\ \A u \in Tasks \ {t} : pc'[u] = pc[u]
  BY DEF Open, IInv, TaskType, Places
<1>7. TaskType'
  BY <1>1, <1>4, <1>5, <1>6 DEF IInv, TaskType, Attempts
<1>8. attempt'[t] = a /\ registered'[t] = a.gen
      /\ \A u \in Tasks \ {t} : attempt'[u] = attempt[u] /\ registered'[u] = registered[u]
  BY <1>1 DEF IInv, TaskType
<1>9. a.gen \in Nat /\ a.ep \in Endpoints
  BY <1>4 DEF Attempts
<1>10. TaskInv(t)'
  <2>1. ProbeKnown(a)'
    BY <1>4, <1>5 DEF ProbeKnown
  <2> QED BY <1>2, <1>4, <1>5, <1>6, <1>8, <1>9, <2>1 DEF TaskInv
<1>11. ASSUME NEW u \in Tasks, u # t, a.probe
       PROVE  ~(attempt[u].probe /\ attempt[u].gen = generation)
  <2>1. CASE pc[u] = "idle"
    BY <2>1 DEF IInv, TaskInv, NoAttempt
  <2>2. CASE pc[u] # "idle"
    BY <2>2, <1>4, <1>11, LiveAttempt, Assumed DEF ProbeKnown, Attempts
  <2> QED BY <2>1, <2>2
<1>12. ASSUME NEW u \in Tasks, u # t
       PROVE  TaskInv(u)'
  <2>0. attempt'[u] = attempt[u] /\ (pc[u] # "idle" => ProbeKnown(attempt[u]))
    BY <1>8, <1>12, LiveAttempt
  <2>1. pc[u] # "idle" => ProbeKnown(attempt[u])'
    <3>1. CASE a.probe
      <4>1. ~(attempt[u].probe /\ attempt[u].gen = generation)
        BY <1>11, <1>12, <3>1
      <4> QED BY <1>5, <2>0, <4>1 DEF ProbeKnown
    <3>2. CASE ~a.probe
      BY <1>5, <2>0, <3>2 DEF ProbeKnown
    <3> QED BY <3>1, <3>2
  <2>2. TaskInv(u)
    BY DEF IInv
  <2> QED BY <1>5, <1>6, <1>8, <1>12, <2>1, <2>2 DEF TaskInv
<1>13. OwnerInv'
  <2>1. CASE a.probe
    <3>1. Owns(t)' /\ pc'[t] # "idle" /\ ~verdict'[t]
      BY <1>2, <1>4, <1>5, <1>6, <1>8, <2>1 DEF Owns, IsCurrent, TaskInv
    <3>2. \A u \in Tasks : Owns(u)' => u = t
      BY <1>5, <1>8, <1>11, <2>1 DEF Owns, IsCurrent
    <3> QED BY <3>1, <3>2 DEF OwnerInv
  <2>2. CASE ~a.probe
    <3>1. ~Owns(t)' /\ ~Owns(t)
      BY <1>2, <1>8, <2>2 DEF Owns, TaskInv, NoAttempt
    <3>2. \A u \in Tasks \ {t} : Owns(u)' <=> Owns(u)
      BY <1>5, <1>8, <2>2 DEF Owns, IsCurrent
    <3>3. probe' = probe
      BY <1>5, <2>2
    <3>4. \A u, w \in Tasks : Owns(u)' /\ Owns(w)' => u = w
      BY <3>1, <3>2 DEF IInv, OwnerInv
    <3>5. probe' # NoEndpoint => \E u \in Tasks : pc'[u] # "idle" /\ ~verdict'[u] /\ Owns(u)'
      BY <1>5, <1>6, <3>1, <3>2, <3>3 DEF IInv, OwnerInv
    <3> QED BY <3>4, <3>5 DEF OwnerInv
  <2> QED BY <2>1, <2>2
<1> QED BY <1>3, <1>7, <1>10, <1>12, <1>13 DEF IInv

\* A step that touches nothing but the place of t, which does not become idle, and
\* takes nobody but t out of the cancelled tasks.
LEMMA MoveSound ==
    ASSUME IInv, NEW t \in Tasks, UNCHANGED <<ctlVars, attempt, verdict, registered>>,
           pc[t] \in {"queued", "dial"}, NEW p \in Places \ {"idle"},
           pc' = [pc EXCEPT ![t] = p],
           p = "relay" => attempt[t].gen = generation,
           cancelled' = cancelled \ {t}, free' \in Int, queued' \in Int
    PROVE  IInv'
<1>1. Primary' = Primary
  BY ConfiguredKept DEF ctlVars
<1>2. CtlType' /\ CtlInv'
  <2>1. Configured' = Configured
    BY ConfiguredKept DEF ctlVars
  <2> QED BY <1>1, <2>1 DEF IInv, CtlType, CtlInv, ctlVars
<1>3. TaskType'
  BY DEF IInv, TaskType, Places
<1>4. ASSUME NEW u \in Tasks PROVE TaskInv(u)'
  <2>1. TaskInv(u) /\ pc \in [Tasks -> Places] /\ (ProbeKnown(attempt[u])' <=> ProbeKnown(attempt[u]))
    BY <1>1 DEF IInv, TaskType, ProbeKnown, ctlVars
  <2>2. CASE u = t
    BY <2>1, <2>2 DEF TaskInv, ctlVars, Places
  <2>3. CASE u # t
    BY <2>1, <2>3 DEF TaskInv, ctlVars
  <2> QED BY <2>2, <2>3
<1>5. OwnerInv'
  <2>1. \A u \in Tasks : (Owns(u)' <=> Owns(u)) /\ (pc[u] # "idle" => pc'[u] # "idle")
    BY DEF Owns, IsCurrent, ctlVars, IInv, TaskType
  <2> QED BY <2>1 DEF IInv, OwnerInv, ctlVars
<1> QED BY <1>2, <1>3, <1>4, <1>5 DEF IInv

LEMMA FirstResponseSound ==
    ASSUME IInv, NEW t \in Tasks, FirstResponse(t)
    PROVE  IInv'
<1>0. pc[t] = "relay" /\ attempt[t] \in Attempts /\ ProbeKnown(attempt[t]) /\ CtlType /\ CtlInv
      /\ TaskInv(t) /\ verdict \in [Tasks -> BOOLEAN] /\ registered \in [Tasks -> Nat]
  BY LiveAttempt DEF FirstResponse, IInv, TaskType
<1>1. /\ ReportStep(attempt[t])
      /\ generation' # generation => attempt[t].probe /\ attempt[t].gen = generation
      /\ attempt[t].probe /\ IsCurrent(attempt[t]) => generation' # generation
  BY <1>0, RecvOkReports DEF FirstResponse
<1>2. /\ pc' = pc /\ attempt' = attempt /\ cancelled' = CancelledAfter({t})
      /\ \A u \in Tasks \ {t} : verdict'[u] = verdict[u] /\ registered'[u] = registered[u]
      /\ registered'[t] = IF generation' = generation THEN registered[t] ELSE generation'
  BY <1>0 DEF FirstResponse
<1>3. ASSUME NEW u \in Tasks, u # t PROVE TaskInv(u)'
  BY <1>1, <1>2, <1>3, OthersKept
<1>4. TaskInv(t)'
  <2>1. Primary' = Primary /\ generation \in Nat
    BY <1>0, <1>1, ConfiguredKept DEF ReportStep, CtlType
  <2>2. CASE generation' = generation
    <3>1. active' = active /\ (probe' = probe \/ Owns(t)) /\ ~Owns(t)
      BY <1>1, <2>1, <2>2 DEF ReportStep, Owns
    <3>2. ProbeKnown(attempt[t])'
      BY <1>0, <1>2, <2>1, <2>2, <3>1 DEF ProbeKnown
    <3>3. t \notin cancelled' => t \notin cancelled
      BY <1>2, <2>2 DEF CancelledAfter
    <3> QED BY <1>0, <1>2, <2>2, <3>1, <3>2, <3>3 DEF TaskInv
  <2>3. CASE generation' = generation + 1
    <3>1. attempt[t].gen # generation' /\ attempt[t].probe
      BY <1>1, <2>1, <2>3
    <3>2. ProbeKnown(attempt[t])'
      BY <1>2, <3>1 DEF ProbeKnown
    <3>3. attempt[t].gen \in Nat /\ generation' # generation
      BY <1>0, <2>1, <2>3 DEF Attempts
    <3> QED BY <1>0, <1>2, <2>1, <2>3, <3>1, <3>2, <3>3 DEF TaskInv
  <2> QED BY <1>1, <2>2, <2>3 DEF ReportStep
<1>5. OwnerInv'
  BY <1>1, <1>2, OwnerKept
<1>6. TaskType'
  <2>1. generation' \in Nat
    BY <1>1 DEF ReportStep, CtlType
  <2>2. registered' \in [Tasks -> Nat] /\ verdict' \in [Tasks -> BOOLEAN]
    BY <1>0, <2>1 DEF FirstResponse
  <2>3. cancelled' \subseteq Tasks
    BY <1>2 DEF IInv, TaskType, CancelledAfter
  <2>4. UNCHANGED <<pc, attempt, free, queued>>
    BY DEF FirstResponse
  <2> QED BY <2>2, <2>3, <2>4 DEF IInv, TaskType
<1> QED BY <1>1, <1>3, <1>4, <1>5, <1>6 DEF IInv, ReportStep

LEMMA ApplyConfigSound ==
    ASSUME IInv, NEW c \in Configs, ApplyConfig(c)
    PROVE  IInv'
<1>0. CtlType /\ CtlInv /\ generation \in Nat
  BY DEF IInv, CtlType
<1>1. /\ CtlType' /\ CtlInv'
      /\ probe' = NoEndpoint /\ active' = Primary'
      /\ \/ generation' = generation /\ active' = active
         \/ generation' = generation + 1
  BY <1>0, ReplaceSound DEF ApplyConfig
<1>2. UNCHANGED <<pc, attempt, verdict, registered, free, queued>> /\ cancelled' = CancelledAfter({})
  BY DEF ApplyConfig
<1>3. TaskType'
  BY <1>2 DEF IInv, TaskType, CancelledAfter
<1>4. ASSUME NEW t \in Tasks PROVE TaskInv(t)'
  <2>1. TaskInv(t) /\ (pc[t] # "idle" => attempt[t].gen \in Nat)
    BY DEF IInv, TaskInv, Attempts
  <2>idle. pc[t] = "idle" => t \notin cancelled'
    BY <1>2, <2>1 DEF TaskInv, CancelledAfter
  <2>2. CASE generation' = generation /\ active' = active
    <3>1. pc[t] # "idle" => ProbeKnown(attempt[t])'
      BY <1>1, <1>2, <2>1, <2>2 DEF TaskInv, ProbeKnown
    <3>2. t \notin cancelled' => t \notin cancelled
      BY <1>2, <2>2 DEF CancelledAfter
    <3> QED BY <1>2, <2>1, <2>idle, <2>2, <3>1, <3>2 DEF TaskInv
  <2>3. CASE generation' = generation + 1
    <3>1. pc[t] # "idle" => attempt[t].gen # generation' /\ attempt[t].gen <= generation' /\ generation # 0
      BY <1>0, <2>1, <2>3 DEF TaskInv
    <3>2. pc[t] # "idle" => ProbeKnown(attempt[t])'
      BY <1>2, <3>1 DEF ProbeKnown
    <3>3. ~(pc[t] = "relay" /\ t \notin cancelled')
      <4> SUFFICES ASSUME pc[t] = "relay", t \notin cancelled' PROVE FALSE
        OBVIOUS
      <4>1. generation' # generation
        BY <1>0, <2>3
      <4>2. t \notin cancelled /\ ~(registered[t] = generation /\ generation # 0)
        BY <1>2, <4>1 DEF CancelledAfter
      <4> QED BY <2>1, <3>1, <4>2 DEF TaskInv
    <3> QED BY <1>2, <2>1, <2>idle, <2>3, <3>1, <3>2, <3>3 DEF TaskInv
  <2> QED BY <1>1, <2>2, <2>3
<1>5. OwnerInv'
  <2>1. ASSUME NEW t \in Tasks PROVE ~Owns(t)'
    <3>1. CASE pc[t] = "idle"
      BY <1>2, <3>1 DEF IInv, TaskInv, NoAttempt, Owns
    <3>2. CASE pc[t] # "idle"
      BY <1>1, <1>2, <3>2, LiveAttempt, Assumed DEF Owns, IsCurrent, Attempts
    <3> QED BY <3>1, <3>2
  <2> QED BY <1>1, <2>1 DEF OwnerInv
<1> QED BY <1>1, <1>3, <1>4, <1>5 DEF IInv

LEMMA QuietSound ==
    ASSUME IInv, CloseAll \/ TimePasses \/ UNCHANGED vars
    PROVE  IInv'
<1>1. /\ UNCHANGED <<endpoints, active, generation, probe, connFails, zeroRecv>>
      /\ unavailable' \subseteq unavailable
      /\ UNCHANGED <<pc, attempt, verdict, registered, free, queued>>
      /\ cancelled \subseteq cancelled' /\ cancelled' \subseteq Tasks
  BY DEF CloseAll, TimePasses, RetryDelayElapses, vars, ctlVars, taskVars, IInv, TaskType
<1>2. Configured' = Configured /\ Primary' = Primary
  BY <1>1, ConfiguredKept
<1>3. CtlType' /\ CtlInv'
  BY <1>1, <1>2 DEF IInv, CtlType, CtlInv
<1>4. TaskType'
  BY <1>1 DEF IInv, TaskType
<1>5. ASSUME NEW t \in Tasks PROVE TaskInv(t)'
  <2>1. TaskInv(t) /\ (ProbeKnown(attempt[t])' <=> ProbeKnown(attempt[t]))
    BY <1>1, <1>2 DEF IInv, ProbeKnown
  <2>2. pc[t] = "idle" => t \notin cancelled'
    BY <2>1 DEF TaskInv, CloseAll, TimePasses, vars, taskVars
  <2> QED BY <1>1, <2>1, <2>2 DEF TaskInv
<1>6. OwnerInv'
  BY <1>1 DEF IInv, OwnerInv, Owns, IsCurrent
<1> QED BY <1>3, <1>4, <1>5, <1>6 DEF IInv

LEMMA InitSound ==
    ASSUME Init
    PROVE  IInv
<1>1. endpoints \in Seq(Endpoints)
  BY Assumed DEF Init, ControllerInit
<1>2. CtlType /\ CtlInv
  <2>1. CASE endpoints = <<>>
    BY <1>1, <2>1, Assumed DEF Init, ControllerInit, CtlType, CtlInv, Primary, NoFailures
  <2>2. CASE endpoints # <<>>
    <3>1. 1 \in DOMAIN endpoints /\ active = endpoints[1]
      BY <1>1, <2>2 DEF Init, ControllerInit, Primary
    <3>2. active \in Endpoints /\ active \in Configured
      BY <1>1, <3>1 DEF Configured
    <3> QED BY <1>1, <2>2, <3>2, Assumed DEF Init, ControllerInit, CtlType, CtlInv, NoFailures
  <2> QED BY <2>1, <2>2
<1>3. TaskType
  BY RuntimeAssumption DEF RuntimeAssumption, Init, TaskType, Places
<1>4. \A t \in Tasks : TaskInv(t)
  BY DEF Init, TaskInv
<1>5. OwnerInv
  BY DEF Init, ControllerInit, OwnerInv, Owns, NoAttempt
<1> QED BY <1>2, <1>3, <1>4, <1>5 DEF IInv

LEMMA NextSound ==
    ASSUME IInv, [Next]_vars
    PROVE  IInv'
<1>1. ASSUME NEW t \in Tasks, Open(t) PROVE IInv'
  BY <1>1, OpenSound
<1>2. ASSUME NEW t \in Tasks, AcquireSlot(t) PROVE IInv'
  <2>1. pc' = [pc EXCEPT ![t] = "dial"] /\ free' \in Int /\ queued' \in Int
    BY <1>2 DEF AcquireSlot, IInv, TaskType
  <2>2. "dial" \in Places \ {"idle"}
    BY DEF Places
  <2> QED BY <1>2, <2>1, <2>2, MoveSound DEF AcquireSlot
<1>3. ASSUME NEW t \in Tasks, DialConnects(t) PROVE IInv'
  <2>1. PICK p \in {"relay", "close"} :
          /\ pc' = [pc EXCEPT ![t] = p] /\ free' \in Int
          /\ p = "relay" => attempt[t].gen = generation
    BY <1>3 DEF DialConnects, IInv, TaskType
  <2>2. p \in Places \ {"idle"}
    BY DEF Places
  <2>3. queued' \in Int
    BY <1>3 DEF DialConnects, IInv, TaskType
  <2> QED BY <1>3, <2>1, <2>2, <2>3, MoveSound DEF DialConnects
<1>4. ASSUME NEW t \in Tasks, QueueTimeout(t) \/ DialRefused(t) \/ StaleClosed(t) PROVE IInv'
  <2>1. pc[t] # "idle" /\ AbandonAttempt(attempt[t]) /\ Leave(t) /\ GiveBack(t)
    BY <1>4 DEF QueueTimeout, DialRefused, StaleClosed
  <2> QED BY <2>1, LiveAttempt, AbandonReports, GiveBackType, LeaveSound
<1>5. ASSUME NEW t \in Tasks, DialFails(t) PROVE IInv'
  <2>1. pc[t] # "idle" /\ RecordConnectFailure(attempt[t]) /\ Leave(t) /\ GiveBack(t)
    BY <1>5 DEF DialFails
  <2> QED BY <2>1, LiveAttempt, ConnectFailureReports, GiveBackType, LeaveSound
<1>6. ASSUME NEW t \in Tasks, FirstResponse(t) PROVE IInv'
  BY <1>6, FirstResponseSound
<1>7. ASSUME NEW t \in Tasks, RelayEnds(t) \/ RelayBreaks(t) PROVE IInv'
  <2>1. pc[t] # "idle" /\ Leave(t) /\ free' \in Int /\ queued' \in Int
    BY <1>7 DEF RelayEnds, RelayBreaks, IInv, TaskType
  <2>2. \/ verdict[t] /\ UNCHANGED ctlVars
        \/ RecordZeroRecv(attempt[t])
        \/ AbandonAttempt(attempt[t])
    BY <1>7 DEF RelayEnds, RelayBreaks
  <2>3. ReportStep(attempt[t])
    BY <2>1, <2>2, LiveAttempt, VerdictGiven, ZeroRecvReports, AbandonReports
  <2> QED BY <2>1, <2>3, LeaveSound
<1>8. ASSUME NEW t \in Tasks, CancelArrives(t) PROVE IInv'
  <2>1. Leave(t) /\ GiveBack(t)
        /\ ((verdict[t] /\ UNCHANGED ctlVars) \/ AbandonAttempt(attempt[t]))
    BY <1>8 DEF CancelArrives
  <2>2. CASE pc[t] # "idle"
    <3>1. ReportStep(attempt[t])
      BY <2>1, <2>2, LiveAttempt, VerdictGiven, AbandonReports
    <3> QED BY <2>1, <2>2, <3>1, GiveBackType, LeaveSound
  <2>3. CASE pc[t] = "idle"
    <3>1. t \in cancelled
      BY <1>8 DEF CancelArrives
    <3> QED BY <2>3, <3>1 DEF IInv, TaskInv
  <2> QED BY <2>2, <2>3
<1>9. ASSUME NEW c \in Configs, ApplyConfig(c) PROVE IInv'
  BY <1>9, ApplyConfigSound
<1>10. CASE CloseAll \/ TimePasses \/ UNCHANGED vars
  BY <1>10, QuietSound
<1> QED BY <1>1, <1>2, <1>3, <1>4, <1>5, <1>6, <1>7, <1>8, <1>9, <1>10 DEF Next, EndsHandshake

--------------------------------------------------------------------------------
(* Evidence: the counters of a server never run ahead of the bad verdicts made   *)
(* while it was the active one.                                                  *)

EvidenceInv ==
    /\ bad \in [Endpoints -> 0 .. Enough]
    /\ \A e \in Endpoints :
          bad[e] < Enough => connFails[e] <= bad[e] /\ zeroRecv[e] <= bad[e]

\* What a step of task t owes SwitchNeedsEvidence.
Evidence(t) ==
    active' # active =>
        \/ ~verdict[t] /\ verdict'[t] /\ attempt[t].probe /\ active' = attempt[t].ep
        \/ OnActive(attempt[t]) /\ active # NoEndpoint /\ bad[active] + 1 >= Enough

LEMMA EnoughBounds == Enough \in Nat /\ Enough >= 1 /\ Enough <= FailLimit /\ Enough <= ZeroLimit
BY Assumed DEF Enough

\* A bad verdict on a that was dismissed, or that a probe got: the counters of a's
\* server are unchanged or reset.
LEMMA BlameHarmless ==
    ASSUME IInv, EvidenceInv, NEW t \in Tasks, pc[t] # "idle", Blame(t),
           active' = active,
           \A e \in Endpoints : connFails'[e] \in {0, connFails[e]} /\ zeroRecv'[e] \in {0, zeroRecv[e]}
    PROVE  EvidenceInv'
<1>1. CtlType /\ attempt[t] \in Attempts /\ (OnActive(attempt[t]) => active \in Endpoints)
  BY LiveAttempt DEF OnActive, Attempts
<1>2. bad' \in [Endpoints -> 0 .. Enough] /\ \A e \in Endpoints : bad'[e] >= bad[e]
  <2>1. CASE OnActive(attempt[t])
    <3>1. bad' = [bad EXCEPT ![active] = IF @ < Enough THEN @ + 1 ELSE @]
      BY <2>1 DEF Blame
    <3> QED BY <1>1, <2>1, <3>1, EnoughBounds DEF EvidenceInv
  <2>2. CASE ~OnActive(attempt[t])
    BY <2>2, EnoughBounds DEF Blame, EvidenceInv
  <2> QED BY <2>1, <2>2
<1>3. ASSUME NEW e \in Endpoints, bad'[e] < Enough
      PROVE  connFails'[e] <= bad'[e] /\ zeroRecv'[e] <= bad'[e]
  <2>1. bad[e] \in Nat /\ bad'[e] \in Nat /\ bad'[e] >= bad[e] /\ bad[e] < Enough
    BY <1>2, <1>3, EnoughBounds DEF EvidenceInv
  <2>2. connFails[e] \in Nat /\ zeroRecv[e] \in Nat
    BY <1>1, Assumed DEF CtlType
  <2>3. connFails[e] <= bad[e] /\ zeroRecv[e] <= bad[e]
    BY <2>1 DEF EvidenceInv
  <2> QED BY <2>1, <2>2, <2>3, <1>3
<1> QED BY <1>2, <1>3 DEF EvidenceInv

\* The active server is given up: its counters and its history start over.
LEMMA BlameSwitches ==
    ASSUME IInv, EvidenceInv, NEW t \in Tasks, pc[t] # "idle", Blame(t),
           ~attempt[t].probe, IsCurrent(attempt[t]), FailActive(attempt[t].ep),
           endpoints' = endpoints
    PROVE  EvidenceInv'
<1>0. CtlType /\ CtlInv /\ attempt[t] \in Attempts
  BY LiveAttempt
<1>1. attempt[t].ep \in Endpoints /\ attempt[t].ep = active /\ OnActive(attempt[t])
  BY <1>0 DEF Attempts, IsCurrent, OnActive
<1>2. active' # active
  BY <1>0, FailActiveReports
<1>3. bad' = [bad EXCEPT ![active] = 0]
  BY <1>1, <1>2 DEF Blame
<1>4. connFails' = [connFails EXCEPT ![active] = 0] /\ zeroRecv' = [zeroRecv EXCEPT ![active] = 0]
  BY <1>1 DEF FailActive, Penalize
<1> QED BY <1>0, <1>1, <1>3, <1>4, EnoughBounds DEF EvidenceInv, CtlType

\* One more bad verdict of the active server was counted.
LEMMA BlameCounts ==
    ASSUME IInv, EvidenceInv, NEW t \in Tasks, pc[t] # "idle", Blame(t),
           ~attempt[t].probe, IsCurrent(attempt[t]), active' = active,
           connFails' \in [Endpoints -> 0 .. FailLimit],
           zeroRecv' \in [Endpoints -> 0 .. ZeroLimit],
           \A e \in Endpoints \ {active} : connFails'[e] = connFails[e] /\ zeroRecv'[e] = zeroRecv[e],
           connFails'[active] <= connFails[active] + 1,
           zeroRecv'[active] <= zeroRecv[active] + 1
    PROVE  EvidenceInv'
<1>0. CtlType /\ attempt[t] \in Attempts
  BY LiveAttempt
<1>1. active \in Endpoints /\ OnActive(attempt[t])
  BY <1>0 DEF Attempts, IsCurrent, OnActive
<1>2. bad' = [bad EXCEPT ![active] = IF @ < Enough THEN @ + 1 ELSE @]
  BY <1>1 DEF Blame
<1>3. bad' \in [Endpoints -> 0 .. Enough]
  BY <1>1, <1>2, EnoughBounds DEF EvidenceInv
<1>4. ASSUME NEW e \in Endpoints, bad'[e] < Enough
      PROVE  connFails'[e] <= bad'[e] /\ zeroRecv'[e] <= bad'[e]
  <2>1. CASE e # active
    BY <1>2, <1>4, <2>1 DEF EvidenceInv
  <2>2. CASE e = active
    <3>1. bad[active] \in Nat /\ connFails[active] \in Nat /\ zeroRecv[active] \in Nat
          /\ connFails'[active] \in Nat /\ zeroRecv'[active] \in Nat
      BY <1>0, <1>1, EnoughBounds, Assumed DEF EvidenceInv, CtlType
    <3>2. bad[active] < Enough /\ bad'[active] = bad[active] + 1
      BY <1>1, <1>2, <1>4, <2>2, <3>1, EnoughBounds DEF EvidenceInv
    <3>3. connFails[active] <= bad[active] /\ zeroRecv[active] <= bad[active]
      BY <1>1, <3>2 DEF EvidenceInv
    <3> QED BY <2>2, <3>1, <3>2, <3>3
  <2> QED BY <2>1, <2>2
<1> QED BY <1>3, <1>4 DEF EvidenceInv

LEMMA ConnectFailureEvidence ==
    ASSUME IInv, EvidenceInv, NEW t \in Tasks, pc[t] # "idle",
           RecordConnectFailure(attempt[t]), Blame(t)
    PROVE  EvidenceInv' /\ Evidence(t)
<1> DEFINE a == attempt[t]
<1>0. CtlType /\ CtlInv /\ a \in Attempts /\ a.ep \in Endpoints /\ endpoints' = endpoints
  BY LiveAttempt DEF Attempts, RecordConnectFailure
<1>1. CASE ~IsCurrent(a)
  <2>1. UNCHANGED <<active, connFails, zeroRecv>>
    BY <1>1 DEF RecordConnectFailure
  <2> QED BY <2>1, BlameHarmless DEF Evidence
<1>2. CASE IsCurrent(a) /\ a.probe
  <2>1. FailProbe(a)
    BY <1>2 DEF RecordConnectFailure
  <2>2. active' = active /\ connFails' = [connFails EXCEPT ![a.ep] = 0]
        /\ zeroRecv' = [zeroRecv EXCEPT ![a.ep] = 0]
    BY <2>1 DEF FailProbe, Penalize
  <2>3. \A e \in Endpoints : connFails'[e] \in {0, connFails[e]} /\ zeroRecv'[e] \in {0, zeroRecv[e]}
    BY <1>0, <2>2 DEF CtlType
  <2> QED BY <2>2, <2>3, BlameHarmless DEF Evidence
<1>3. CASE IsCurrent(a) /\ ~a.probe
  <2>0. a.ep = active /\ OnActive(a) /\ active # NoEndpoint
    BY <1>0, <1>3, Assumed DEF IsCurrent, OnActive
  <2>1. PICK n \in 1 .. connFails[a.ep] + 1 :
         \/ /\ connFails' = [connFails EXCEPT ![a.ep] = IF n < FailLimit THEN n ELSE FailLimit]
            /\ UNCHANGED <<active, generation, probe, unavailable, zeroRecv>>
         \/ n >= FailLimit /\ FailActive(a.ep)
    BY <1>3 DEF RecordConnectFailure
  <2>2. connFails[active] \in Nat /\ zeroRecv[active] \in Nat /\ n \in Nat
        /\ n <= connFails[active] + 1 /\ bad[active] \in Nat
    BY <1>0, <2>0, Assumed, EnoughBounds DEF CtlType, EvidenceInv
  <2>3. CASE n >= FailLimit /\ FailActive(a.ep)
    <3>1. bad[active] + 1 >= Enough
      <4>1. bad[active] < Enough => connFails[active] <= bad[active]
        BY <1>0, <2>0 DEF EvidenceInv
      <4> QED BY <2>2, <2>3, <4>1, EnoughBounds, Assumed
    <3>2. EvidenceInv'
      BY <1>0, <1>3, <2>3, BlameSwitches
    <3> QED BY <2>0, <3>1, <3>2 DEF Evidence
  <2>4. CASE /\ connFails' = [connFails EXCEPT ![a.ep] = IF n < FailLimit THEN n ELSE FailLimit]
             /\ UNCHANGED <<active, generation, probe, unavailable, zeroRecv>>
    <3>1. connFails' \in [Endpoints -> 0 .. FailLimit]
      BY <1>0, <2>0, <2>2, <2>4, Assumed DEF CtlType
    <3>2. connFails'[active] <= connFails[active] + 1
      BY <1>0, <2>0, <2>2, <2>4, Assumed DEF CtlType
    <3>3. zeroRecv'[active] <= zeroRecv[active] + 1
      BY <2>2, <2>4
    <3>4. \A e \in Endpoints \ {active} : connFails'[e] = connFails[e] /\ zeroRecv'[e] = zeroRecv[e]
      BY <1>0, <2>0, <2>4 DEF CtlType
    <3>5. zeroRecv' \in [Endpoints -> 0 .. ZeroLimit]
      BY <1>0, <2>4 DEF CtlType
    <3> HIDE DEF a
    <3> QED BY <1>3, <2>4, <3>1, <3>2, <3>3, <3>4, <3>5, BlameCounts DEF Evidence, a
  <2> QED BY <2>1, <2>3, <2>4
<1> QED BY <1>0, <1>1, <1>2, <1>3 DEF Attempts

LEMMA ZeroRecvEvidence ==
    ASSUME IInv, EvidenceInv, NEW t \in Tasks, pc[t] # "idle",
           RecordZeroRecv(attempt[t]), Blame(t)
    PROVE  EvidenceInv' /\ Evidence(t)
<1> DEFINE a == attempt[t]
<1>0. CtlType /\ CtlInv /\ a \in Attempts /\ a.ep \in Endpoints /\ endpoints' = endpoints
  BY LiveAttempt DEF Attempts, RecordZeroRecv
<1>1. CASE ~IsCurrent(a)
  <2>1. UNCHANGED <<active, connFails, zeroRecv>>
    BY <1>1 DEF RecordZeroRecv
  <2> QED BY <2>1, BlameHarmless DEF Evidence
<1>2. CASE IsCurrent(a) /\ a.probe
  <2>1. FailProbe(a)
    BY <1>2 DEF RecordZeroRecv
  <2>2. active' = active /\ connFails' = [connFails EXCEPT ![a.ep] = 0]
        /\ zeroRecv' = [zeroRecv EXCEPT ![a.ep] = 0]
    BY <2>1 DEF FailProbe, Penalize
  <2>3. \A e \in Endpoints : connFails'[e] \in {0, connFails[e]} /\ zeroRecv'[e] \in {0, zeroRecv[e]}
    BY <1>0, <2>2 DEF CtlType
  <2> QED BY <2>2, <2>3, BlameHarmless DEF Evidence
<1>3. CASE IsCurrent(a) /\ ~a.probe
  <2> DEFINE n == zeroRecv[a.ep] + 1
  <2>0. a.ep = active /\ OnActive(a) /\ active # NoEndpoint
    BY <1>0, <1>3, Assumed DEF IsCurrent, OnActive
  <2>1. \/ /\ zeroRecv' = [zeroRecv EXCEPT ![a.ep] = IF n < ZeroLimit THEN n ELSE ZeroLimit]
           /\ UNCHANGED <<active, generation, probe, unavailable, connFails>>
        \/ n >= ZeroLimit /\ FailActive(a.ep)
    BY <1>3 DEF RecordZeroRecv
  <2>2. connFails[active] \in Nat /\ zeroRecv[active] \in Nat /\ n \in Nat
        /\ n = zeroRecv[active] + 1 /\ bad[active] \in Nat
    BY <1>0, <2>0, Assumed, EnoughBounds DEF CtlType, EvidenceInv
  <2>3. CASE n >= ZeroLimit /\ FailActive(a.ep)
    <3>1. bad[active] + 1 >= Enough
      <4>1. bad[active] < Enough => zeroRecv[active] <= bad[active]
        BY <1>0, <2>0 DEF EvidenceInv
      <4> QED BY <2>2, <2>3, <4>1, EnoughBounds, Assumed
    <3>2. EvidenceInv'
      BY <1>0, <1>3, <2>3, BlameSwitches
    <3> QED BY <2>0, <3>1, <3>2 DEF Evidence
  <2>4. CASE /\ zeroRecv' = [zeroRecv EXCEPT ![a.ep] = IF n < ZeroLimit THEN n ELSE ZeroLimit]
             /\ UNCHANGED <<active, generation, probe, unavailable, connFails>>
    <3>1. zeroRecv' \in [Endpoints -> 0 .. ZeroLimit]
      BY <1>0, <2>0, <2>2, <2>4, Assumed DEF CtlType
    <3>2. zeroRecv'[active] <= zeroRecv[active] + 1
      BY <1>0, <2>0, <2>2, <2>4, Assumed DEF CtlType
    <3>3. connFails'[active] <= connFails[active] + 1
      BY <2>2, <2>4
    <3>4. \A e \in Endpoints \ {active} : connFails'[e] = connFails[e] /\ zeroRecv'[e] = zeroRecv[e]
      BY <1>0, <2>0, <2>4 DEF CtlType
    <3>5. connFails' \in [Endpoints -> 0 .. FailLimit]
      BY <1>0, <2>4 DEF CtlType
    <3> HIDE DEF a, n
    <3> QED BY <1>3, <2>4, <3>1, <3>2, <3>3, <3>4, <3>5, BlameCounts DEF Evidence, a
  <2> QED BY <2>1, <2>3, <2>4
<1> QED BY <1>0, <1>1, <1>2, <1>3 DEF Attempts

LEMMA RecvOkEvidence ==
    ASSUME IInv, EvidenceInv, NEW t \in Tasks, FirstResponse(t)
    PROVE  EvidenceInv' /\ Evidence(t)
<1> DEFINE a == attempt[t]
<1>0. CtlType /\ CtlInv /\ a \in Attempts /\ a.ep \in Endpoints /\ ProbeKnown(a)
      /\ RecordRecvOk(a) /\ Praise(t)
  BY LiveAttempt DEF Attempts, FirstResponse
<1>1. EvidenceInv'
  <2>1. CASE ~IsCurrent(a)
    <3>1. UNCHANGED <<connFails, zeroRecv, bad>>
      BY <1>0, <2>1 DEF RecordRecvOk, Praise
    <3> QED BY <3>1 DEF EvidenceInv
  <2>2. CASE IsCurrent(a)
    <3>1. /\ connFails' = [connFails EXCEPT ![a.ep] = 0]
          /\ zeroRecv' = [zeroRecv EXCEPT ![a.ep] = 0]
          /\ bad' = [bad EXCEPT ![a.ep] = 0]
      BY <1>0, <2>2 DEF RecordRecvOk, Praise
    <3> QED BY <1>0, <3>1, EnoughBounds DEF EvidenceInv, CtlType
  <2> QED BY <2>1, <2>2
<1>2. active' # active => a.probe /\ active' = a.ep
  BY <1>0, RecvOkReports
<1>3. ~verdict[t] /\ verdict'[t]
  BY DEF FirstResponse, IInv, TaskType
<1> QED BY <1>1, <1>2, <1>3 DEF Evidence

\* Nothing is blamed or praised, and the active server stays.
LEMMA NoEvidenceStep ==
    ASSUME EvidenceInv, UNCHANGED <<connFails, zeroRecv, bad, active>>
    PROVE  EvidenceInv' /\ \A t \in Tasks : Evidence(t)
BY DEF EvidenceInv, Evidence

EvidenceStep ==
    \A t \in Tasks : <<pc[t], verdict[t]>>' # <<pc[t], verdict[t]>> => Evidence(t)

LEMMA EvidenceKept ==
    ASSUME IInv, EvidenceInv, [Next]_vars
    PROVE  EvidenceInv' /\ EvidenceStep
<1>0. pc \in [Tasks -> Places] /\ verdict \in [Tasks -> BOOLEAN]
  BY DEF IInv, TaskType
<1>1. ASSUME NEW t \in Tasks, Open(t) \/ AcquireSlot(t) \/ QueueTimeout(t) \/ DialConnects(t)
                               \/ DialRefused(t) \/ StaleClosed(t) \/ RelayBreaks(t) \/ CancelArrives(t)
      PROVE  EvidenceInv' /\ EvidenceStep
  <2>1. UNCHANGED <<connFails, zeroRecv, bad, active>>
    BY <1>1 DEF Open, AcquireSlot, QueueTimeout, DialConnects, DialRefused, StaleClosed, RelayBreaks,
                CancelArrives, SelectAttempt, AbandonAttempt, ctlVars
  <2> QED BY <2>1, NoEvidenceStep DEF EvidenceStep
<1>2. ASSUME NEW t \in Tasks, DialFails(t)
      PROVE  EvidenceInv' /\ EvidenceStep
  <2>1. EvidenceInv' /\ Evidence(t)
    BY <1>2, ConnectFailureEvidence DEF DialFails
  <2>2. \A u \in Tasks \ {t} : pc'[u] = pc[u] /\ verdict'[u] = verdict[u]
    BY <1>0, <1>2 DEF DialFails, Leave
  <2> QED BY <2>1, <2>2 DEF EvidenceStep
<1>3. ASSUME NEW t \in Tasks, FirstResponse(t)
      PROVE  EvidenceInv' /\ EvidenceStep
  <2>1. EvidenceInv' /\ Evidence(t)
    BY <1>3, RecvOkEvidence
  <2>2. \A u \in Tasks \ {t} : pc'[u] = pc[u] /\ verdict'[u] = verdict[u]
    BY <1>0, <1>3 DEF FirstResponse
  <2> QED BY <2>1, <2>2 DEF EvidenceStep
<1>4. ASSUME NEW t \in Tasks, RelayEnds(t)
      PROVE  EvidenceInv' /\ EvidenceStep
  <2>1. CASE verdict[t]
    <3>1. UNCHANGED <<connFails, zeroRecv, bad, active>>
      BY <1>4, <2>1 DEF RelayEnds, ctlVars
    <3> QED BY <3>1, NoEvidenceStep DEF EvidenceStep
  <2>2. CASE ~verdict[t]
    <3>1. EvidenceInv' /\ Evidence(t)
      BY <1>4, <2>2, ZeroRecvEvidence DEF RelayEnds
    <3>2. \A u \in Tasks \ {t} : pc'[u] = pc[u] /\ verdict'[u] = verdict[u]
      BY <1>0, <1>4 DEF RelayEnds, Leave
    <3> QED BY <3>1, <3>2 DEF EvidenceStep
  <2> QED BY <2>1, <2>2
<1>5. ASSUME NEW c \in Configs, ApplyConfig(c)
      PROVE  EvidenceInv' /\ EvidenceStep
  <2>1. connFails' = NoFailures /\ zeroRecv' = NoFailures /\ bad' = NoFailures
        /\ pc' = pc /\ verdict' = verdict
    BY <1>5 DEF ApplyConfig, ReplaceConfig
  <2> QED BY <2>1, EnoughBounds DEF EvidenceInv, EvidenceStep, NoFailures
<1>6. CASE CloseAll \/ TimePasses \/ UNCHANGED vars
  <2>1. UNCHANGED <<connFails, zeroRecv, bad, active>>
    BY <1>6 DEF CloseAll, TimePasses, RetryDelayElapses, vars, ctlVars
  <2> QED BY <2>1, NoEvidenceStep DEF EvidenceStep
<1> QED BY <1>1, <1>2, <1>3, <1>4, <1>5, <1>6 DEF Next, EndsHandshake

LEMMA EvidenceInit ==
    ASSUME Init
    PROVE  EvidenceInv
BY EnoughBounds DEF Init, ControllerInit, EvidenceInv, NoFailures

--------------------------------------------------------------------------------
(* The slots of the semaphore: the tasks that hold one and those that queue for   *)
(* one are finitely many, because each step adds or removes one of them; Tasks    *)
(* itself need not be finite.                                                     *)
Holding == {t \in Tasks : pc[t] \in HoldsSlot}
InQueue == {t \in Tasks : pc[t] = "queued"}

\* Nothing is lost or doubled, and what is free or queued is never negative.
SlotInv ==
    /\ IsFiniteSet(Holding) /\ IsFiniteSet(InQueue)
    /\ free \in Nat /\ queued \in Nat
    /\ free + Cardinality(Holding) = ConnectLimit
    /\ queued = Cardinality(InQueue)
    /\ queued <= MaxQueued

SlotOf(place) == IF place \in HoldsSlot THEN 1 ELSE 0
PlaceOf(place) == IF place = "queued" THEN 1 ELSE 0

\* A finite set of tasks from which one may be taken or to which one may be added
\* is counted by the difference.
LEMMA CountedByDifference ==
    ASSUME NEW S, NEW T, NEW t, IsFiniteSet(S), S \ {t} = T \ {t}
    PROVE  /\ IsFiniteSet(T)
           /\ Cardinality(S) \in Nat /\ Cardinality(T) \in Nat
           /\ Cardinality(T) = Cardinality(S) + (IF t \in T THEN 1 ELSE 0) - (IF t \in S THEN 1 ELSE 0)
<1>1. Cardinality(S) \in Nat
  BY FS_CardinalityType
<1>2. IsFiniteSet(S \ {t}) /\ Cardinality(S \ {t}) = IF t \in S THEN Cardinality(S) - 1 ELSE Cardinality(S)
  BY FS_RemoveElement
<1>3. Cardinality(S \ {t}) \in Nat
  BY <1>2, FS_CardinalityType
<1>4. CASE t \in T
  <2>1. T = (S \ {t}) \cup {t}
    BY <1>4
  <2>2. IsFiniteSet(T) /\ Cardinality(T) = Cardinality(S \ {t}) + 1
    BY <1>2, <2>1, FS_AddElement
  <2> QED BY <1>1, <1>2, <1>3, <1>4, <2>2
<1>5. CASE t \notin T
  <2>1. T = S \ {t}
    BY <1>5
  <2> QED BY <1>1, <1>2, <1>3, <1>5, <2>1
<1> QED BY <1>4, <1>5

\* One task moves and the semaphore and the queue are changed by what it held
\* and by what it takes.
LEMMA MoveAccounted ==
    ASSUME TaskType, SlotInv, NEW t \in Tasks, NEW p \in Places,
           pc' = [pc EXCEPT ![t] = p],
           free' = free + SlotOf(pc[t]) - SlotOf(p),
           queued' = queued + PlaceOf(p) - PlaceOf(pc[t]),
           p \in HoldsSlot => pc[t] \in HoldsSlot \/ free > 0,
           p = "queued" => queued < MaxQueued
    PROVE  SlotInv'
<1>1. pc \in [Tasks -> Places] /\ pc'[t] = p /\ \A u \in Tasks \ {t} : pc'[u] = pc[u]
  BY DEF TaskType
<1>2. Holding \ {t} = Holding' \ {t} /\ InQueue \ {t} = InQueue' \ {t}
  BY <1>1 DEF Holding, InQueue
<1>3. /\ IsFiniteSet(Holding') /\ IsFiniteSet(InQueue')
      /\ Cardinality(Holding) \in Nat /\ Cardinality(Holding') \in Nat
      /\ Cardinality(InQueue) \in Nat /\ Cardinality(InQueue') \in Nat
      /\ Cardinality(Holding') = Cardinality(Holding) + (IF t \in Holding' THEN 1 ELSE 0)
                                                      - (IF t \in Holding THEN 1 ELSE 0)
      /\ Cardinality(InQueue') = Cardinality(InQueue) + (IF t \in InQueue' THEN 1 ELSE 0)
                                                      - (IF t \in InQueue THEN 1 ELSE 0)
  BY <1>2, CountedByDifference DEF SlotInv
<1>4. /\ t \in Holding <=> pc[t] \in HoldsSlot
      /\ t \in Holding' <=> p \in HoldsSlot
      /\ t \in InQueue <=> pc[t] = "queued"
      /\ t \in InQueue' <=> p = "queued"
  BY <1>1 DEF Holding, InQueue
<1>5. ConnectLimit \in Nat /\ MaxQueued \in Nat
  BY RuntimeAssumption
<1>6. free' \in Nat /\ free' + Cardinality(Holding') = ConnectLimit
  BY <1>3, <1>4, <1>5 DEF SlotInv, SlotOf
<1>7. queued' \in Nat /\ queued' = Cardinality(InQueue') /\ queued' <= MaxQueued
  BY <1>3, <1>4, <1>5 DEF SlotInv, PlaceOf
<1> QED BY <1>3, <1>6, <1>7 DEF SlotInv

\* What a place costs: a slot of the semaphore, a place in the queue, or nothing.
LEMMA Costs ==
    /\ {"idle", "queued", "dial", "close", "relay"} = Places
    /\ "dial" \in HoldsSlot /\ "close" \in HoldsSlot
    /\ "idle" \notin HoldsSlot /\ "queued" \notin HoldsSlot /\ "relay" \notin HoldsSlot
    /\ SlotOf("dial") = 1 /\ SlotOf("close") = 1
    /\ SlotOf("idle") = 0 /\ SlotOf("queued") = 0 /\ SlotOf("relay") = 0
    /\ PlaceOf("queued") = 1 /\ PlaceOf("idle") = 0
    /\ PlaceOf("dial") = 0 /\ PlaceOf("close") = 0 /\ PlaceOf("relay") = 0
BY DEF Places, HoldsSlot, SlotOf, PlaceOf

\* A task that leaves gives back what it held.
LEMMA LeaveAccounted ==
    ASSUME TaskType, SlotInv, NEW t \in Tasks, Leave(t),
           free' = free + SlotOf(pc[t]), queued' = queued - PlaceOf(pc[t])
    PROVE  SlotInv'
<1>1. free' = free + SlotOf(pc[t]) - SlotOf("idle") /\ queued' = queued + PlaceOf("idle") - PlaceOf(pc[t])
  BY DEF SlotOf, PlaceOf, HoldsSlot, SlotInv
<1>2. pc' = [pc EXCEPT ![t] = "idle"]
  BY DEF Leave
<1> QED BY <1>1, <1>2, Costs, MoveAccounted

LEMMA SlotsKept ==
    ASSUME TaskType, SlotInv, [Next]_vars
    PROVE  SlotInv'
<1>0. free \in Nat /\ queued \in Nat /\ MaxQueued \in Nat
  BY RuntimeAssumption DEF SlotInv
<1>1. ASSUME NEW t \in Tasks, Open(t)
      PROVE  SlotInv'
  <2>1. CASE MayPass /\ pc' = [pc EXCEPT ![t] = "dial"] /\ free' = free - 1 /\ queued' = queued
    <3>1. pc[t] = "idle" /\ free > 0
      BY <1>1, <2>1 DEF Open, MayPass
    <3>2. free' = free + SlotOf(pc[t]) - SlotOf("dial") /\ queued' = queued + PlaceOf("dial") - PlaceOf(pc[t])
      BY <1>0, <2>1, <3>1, Costs
    <3> QED BY <2>1, <3>1, <3>2, Costs, MoveAccounted
  <2>2. CASE /\ queued < MaxQueued /\ pc' = [pc EXCEPT ![t] = "queued"]
             /\ queued' = queued + 1 /\ free' = free
    <3>1. pc[t] = "idle"
      BY <1>1 DEF Open
    <3>2. free' = free + SlotOf(pc[t]) - SlotOf("queued") /\ queued' = queued + PlaceOf("queued") - PlaceOf(pc[t])
      BY <1>0, <2>2, <3>1, Costs
    <3> QED BY <2>2, <3>1, <3>2, Costs, MoveAccounted
  <2> QED BY <1>1, <2>1, <2>2 DEF Open
<1>2. ASSUME NEW t \in Tasks, AcquireSlot(t)
      PROVE  SlotInv'
  <2>1. /\ pc[t] = "queued" /\ free > 0 /\ pc' = [pc EXCEPT ![t] = "dial"]
        /\ free' = free - 1 /\ queued' = queued - 1
    BY <1>2 DEF AcquireSlot
  <2>2. free' = free + SlotOf(pc[t]) - SlotOf("dial") /\ queued' = queued + PlaceOf("dial") - PlaceOf(pc[t])
    BY <1>0, <2>1, Costs
  <2> QED BY <2>1, <2>2, Costs, MoveAccounted
<1>3. ASSUME NEW t \in Tasks, DialConnects(t)
      PROVE  SlotInv'
  <2>1. pc[t] = "dial" /\ queued' = queued
    BY <1>3 DEF DialConnects
  <2>2. CASE pc' = [pc EXCEPT ![t] = "relay"] /\ free' = free + 1
    <3>1. free' = free + SlotOf(pc[t]) - SlotOf("relay") /\ queued' = queued + PlaceOf("relay") - PlaceOf(pc[t])
      BY <1>0, <2>1, <2>2, Costs
    <3> QED BY <2>1, <2>2, <3>1, Costs, MoveAccounted
  <2>3. CASE pc' = [pc EXCEPT ![t] = "close"] /\ free' = free
    <3>1. free' = free + SlotOf(pc[t]) - SlotOf("close") /\ queued' = queued + PlaceOf("close") - PlaceOf(pc[t])
      BY <1>0, <2>1, <2>3, Costs
    <3> QED BY <2>1, <2>3, <3>1, Costs, MoveAccounted
  <2> QED BY <1>3, <2>2, <2>3 DEF DialConnects
<1>4. ASSUME NEW t \in Tasks,
             \/ QueueTimeout(t) \/ DialFails(t) \/ DialRefused(t) \/ StaleClosed(t)
             \/ RelayEnds(t) \/ RelayBreaks(t) \/ CancelArrives(t)
      PROVE  SlotInv'
  <2>1. CASE QueueTimeout(t) \/ DialFails(t) \/ DialRefused(t) \/ StaleClosed(t) \/ CancelArrives(t)
    <3>1. Leave(t) /\ GiveBack(t)
      BY <2>1 DEF QueueTimeout, DialFails, DialRefused, StaleClosed, CancelArrives
    <3>2. free' = free + SlotOf(pc[t]) /\ queued' = queued - PlaceOf(pc[t])
      BY <3>1 DEF GiveBack, SlotOf, PlaceOf
    <3> QED BY <3>1, <3>2, LeaveAccounted
  <2>2. CASE RelayEnds(t) \/ RelayBreaks(t)
    <3>1. Leave(t) /\ pc[t] = "relay" /\ free' = free /\ queued' = queued
      BY <2>2 DEF RelayEnds, RelayBreaks
    <3>2. free' = free + SlotOf(pc[t]) /\ queued' = queued - PlaceOf(pc[t])
      BY <1>0, <3>1, Costs
    <3> QED BY <3>1, <3>2, LeaveAccounted
  <2> QED BY <1>4, <2>1, <2>2
<1>5. ASSUME UNCHANGED <<pc, free, queued>>
      PROVE  SlotInv'
  BY <1>5 DEF SlotInv, Holding, InQueue
<1>6. ASSUME NEW t \in Tasks, FirstResponse(t)
      PROVE  SlotInv'
  BY <1>5, <1>6 DEF FirstResponse
<1>7. ASSUME NEW c \in Configs, ApplyConfig(c)
      PROVE  SlotInv'
  BY <1>5, <1>7 DEF ApplyConfig
<1>8. CASE CloseAll \/ TimePasses \/ UNCHANGED vars
  BY <1>5, <1>8 DEF CloseAll, TimePasses, vars, taskVars
<1> QED BY <1>1, <1>2, <1>3, <1>4, <1>6, <1>7, <1>8 DEF Next, EndsHandshake

LEMMA SlotsInit ==
    ASSUME Init
    PROVE  SlotInv
<1>1. Holding = {} /\ InQueue = {}
  BY DEF Init, Holding, InQueue, HoldsSlot
<1> QED BY <1>1, FS_EmptySet, RuntimeAssumption DEF Init, SlotInv

--------------------------------------------------------------------------------
LEMMA Invariant == Spec => [](IInv /\ EvidenceInv)
<1>1. Init => IInv /\ EvidenceInv
  BY InitSound, EvidenceInit
<1>2. (IInv /\ EvidenceInv) /\ [Next]_vars => (IInv /\ EvidenceInv)'
  BY NextSound, EvidenceKept
<1> QED BY <1>1, <1>2, PTL DEF Spec

\* Every variable keeps its type: among them, the counters of a server never pass
\* their limits.
THEOREM TypeCorrect == Spec => []TypeOK
<1>1. IInv /\ EvidenceInv => TypeOK
  BY DEF IInv, CtlType, TaskType, EvidenceInv, TypeOK
<1> QED BY <1>1, Invariant, PTL

\* A taken probe slot belongs to exactly one connection that has not reported.
THEOREM ProbeSlotOwned == Spec => []ProbeHasOwner
<1>1. IInv => ProbeHasOwner
  BY DEF IInv, OwnerInv, Owns, ProbeHasOwner
<1> QED BY <1>1, Invariant, PTL

\* The active server is configured, not kept away, and is not being probed.
THEOREM ActiveUsable == Spec => []ActiveIsUsable
<1>1. IInv => ActiveIsUsable
  BY DEF IInv, CtlInv, Configured, ActiveIsUsable
<1> QED BY <1>1, Invariant, PTL

\* No relay of a former server goes on uncancelled.
THEOREM RelaysFollowSwitch == Spec => []RelaysUseActive
<1>1. IInv => RelaysUseActive
  BY DEF IInv, TaskInv, RelaysUseActive
<1> QED BY <1>1, Invariant, PTL

\* A connection switches the server only on evidence that counts.
THEOREM SwitchOnEvidence == Spec => SwitchNeedsEvidence
<1>1. IInv /\ EvidenceInv /\ [Next]_vars =>
        [ \A t \in Tasks :
            active' # active /\ <<pc[t], verdict[t]>>' # <<pc[t], verdict[t]>> =>
              \/ ~verdict[t] /\ verdict'[t] /\ attempt[t].probe /\ active' = attempt[t].ep
              \/ OnActive(attempt[t]) /\ active # NoEndpoint /\ bad[active] + 1 >= Enough ]_vars
  BY EvidenceKept DEF EvidenceStep, Evidence
<1> QED BY <1>1, Invariant, PTL DEF Spec, SwitchNeedsEvidence

\* The slots of the semaphore and the places of the queue are those the tasks hold.
THEOREM SlotsNeverLost == Spec => []SlotsAccounted
<1>1. Init => SlotInv
  BY SlotsInit
<1>2. IInv /\ SlotInv /\ [Next]_vars => SlotInv'
  BY SlotsKept DEF IInv
<1>3. SlotInv => SlotsAccounted
  BY DEF SlotInv, SlotsAccounted, Holding, InQueue
<1> QED BY <1>1, <1>2, <1>3, Invariant, PTL DEF Spec
================================================================================
