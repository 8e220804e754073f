-------------------------- MODULE ProxyLifecycle_proofs --------------------------
(* Proofs about ProxyLifecycle for any number of callers whose calls do not      *)
(* overlap.  At most one call is under way, and it works on the runtime the      *)
(* manager holds: every other runtime has been told to halt or has ended.        *)
EXTENDS ProxyLifecycle, TLAPS

\* Runtimes that were not created yet.
Fresh ==
    \A r \in Runtimes : r > made =>
        loop[r] = "none" /\ r \notin halted /\ r \notin running /\ stopping[r] = "no"

Serial == \A c, d \in Callers : pc[c] # "idle" /\ pc[d] # "idle" => c = d

OnlyCurrent == \A r \in Runtimes : loop[r] \in Alive /\ r \notin halted => current = r

Works(r) == loop[r] = "serving" /\ r \in running /\ stopping[r] = "no"

\* Between the calls the manager's runtime serves or has ended.
Rests ==
    current # None /\ (\A c \in Callers : pc[c] \in {"idle", "create"}) =>
        /\ current \in refs /\ current \notin halted
        /\ Works(current) \/ loop[current] = "dead"

PortInv == \A r \in Runtimes : port = r => loop[r] \in {"bound", "serving", "closing"}

CallInv(c) ==
    /\ pc[c] \in {"idle", "create"} => target[c] = None
    /\ pc[c] = "create" /\ current # None => loop[current] = "dead"
    /\ pc[c] \notin {"idle", "create"} => target[c] = current /\ current # None
    /\ pc[c] = "starting" =>
         /\ current \in refs /\ current \notin halted /\ stopping[current] = "no"
         /\ loop[current] \in {"thread", "ready", "binding", "bound", "serving", "closing", "dead"}
         /\ loop[current] = "serving" => current \in running
    /\ pc[c] = "wait" =>
         /\ loop[current] = "serving" /\ current \notin halted
         /\ \/ stopping[current] = "asked" /\ current \in running
            \/ stopping[current] \in {"waiting", "done"} /\ port # current
    /\ pc[c] \in {"join", "clear"} =>
         /\ port # current
         /\ loop[current] = "dead" \/ (loop[current] \in {"serving", "closing"} /\ current \in halted)

IInv ==
    /\ TypeOK /\ Fresh /\ Serial /\ OnlyCurrent /\ Rests /\ PortInv
    /\ \A c \in Callers : CallInv(c)

USE DEF None, Runtimes, Alive, LoopRuns

LEMMA InitSound == Init => IInv
BY LifecycleAssumption DEF LifecycleAssumption, Init, IInv, TypeOK, Fresh, Serial, OnlyCurrent, Rests,
   PortInv, CallInv

LEMMA TypeKept ==
    ASSUME IInv, [Next]_vars
    PROVE  TypeOK'
<1>0. TypeOK
  BY DEF IInv
<1> USE <1>0, LifecycleAssumption DEF LifecycleAssumption, TypeOK, vars, loopVars, callVars
<1>1. ASSUME NEW c \in Callers, CallStart(c) PROVE TypeOK'
  BY <1>1 DEF CallStart, Goto
<1>2. ASSUME NEW c \in Callers, CreateRuntime(c) PROVE TypeOK'
  BY <1>2 DEF CreateRuntime, Goto
<1>3. ASSUME NEW c \in Callers, StartReturns(c) PROVE TypeOK'
  BY <1>3 DEF StartReturns, Goto
<1>4. ASSUME NEW c \in Callers, NEW k \in {"stop", "stopOnly"}, CallStop(c, k) PROVE TypeOK'
  <2>1. current \in Runtimes
    BY <1>4 DEF CallStop
  <2>2. target' \in [Callers -> Runtimes \cup {None}] /\ kind' \in [Callers -> {"start", "stop", "stopOnly"}]
        /\ refs' \subseteq Runtimes
    BY <1>4, <2>1 DEF CallStop
  <2>3. /\ pc' \in [Callers -> {"idle", "create", "starting", "wait", "join", "clear"}]
        /\ stopping' \in [Runtimes -> {"no", "asked", "waiting", "done"}]
    BY <1>4, <2>1 DEF CallStop, Goto
  <2> QED BY <1>4, <2>2, <2>3 DEF CallStop
<1>5. ASSUME NEW c \in Callers, FutureEnds(c) PROVE TypeOK'
  <2>1. target[c] \in Runtimes
    BY <1>5 DEF FutureEnds, IInv, CallInv
  <2> QED BY <1>5, <2>1 DEF FutureEnds, Goto
<1>6. ASSUME NEW c \in Callers, JoinEnds(c) PROVE TypeOK'
  BY <1>6 DEF JoinEnds, Goto
<1>7. ASSUME NEW c \in Callers, ClearRuntime(c) PROVE TypeOK'
  BY <1>7 DEF ClearRuntime, Goto
<1>8. ASSUME NEW r \in Runtimes, ThreadReadsLoop(r) \/ ThreadEntersLoop(r) \/ Bind(r) \/ BindFails(r)
      PROVE  TypeOK'
  BY <1>8 DEF ThreadReadsLoop, ThreadEntersLoop, Bind, BindFails
<1>9. ASSUME NEW r \in Runtimes, Serve(r) \/ ClientConnects(r) \/ ClientLeaves(r)
      PROVE  TypeOK'
  BY <1>9 DEF Serve, ClientConnects, ClientLeaves
<1>10. ASSUME NEW r \in Runtimes, StopListening(r) \/ StopCompletes(r) \/ LoopHalts(r) \/ LoopCloses(r)
       PROVE  TypeOK'
  BY <1>10 DEF StopListening, StopCompletes, LoopHalts, LoopCloses
<1>11. CASE UNCHANGED vars
  BY <1>11
<1> QED BY <1>1, <1>2, <1>3, <1>4, <1>5, <1>6, <1>7, <1>8, <1>9, <1>10, <1>11
        DEF Next, CallerSteps, LoopSteps

\* A step of the loop of runtime r.
LEMMA LoopSound ==
    ASSUME IInv, NEW r \in Runtimes, LoopSteps(r)
    PROVE  IInv'
<1>0. TypeOK' /\ TypeOK
  BY TypeKept DEF IInv, Next
<1>1. UNCHANGED <<current, made, refs, halted, callVars>>
  BY DEF LoopSteps, ThreadReadsLoop, ThreadEntersLoop, Bind, BindFails, Serve, StopListening,
         StopCompletes, LoopHalts, LoopCloses
<1>2. /\ \A q \in Runtimes \ {r} : /\ loop'[q] = loop[q] /\ stopping'[q] = stopping[q]
                                   /\ q \in running' <=> q \in running
      /\ loop[r] # "none"
      /\ loop'[r] \in Alive => loop[r] \in Alive
  BY <1>0 DEF TypeOK, LoopSteps, ThreadReadsLoop, ThreadEntersLoop, Bind, BindFails, Serve,
              StopListening, StopCompletes, LoopHalts, LoopCloses
<1>3. Fresh' /\ Serial' /\ OnlyCurrent'
  BY <1>1, <1>2 DEF IInv, Fresh, Serial, OnlyCurrent, callVars
<1>4. PortInv'
  BY <1>0 DEF IInv, PortInv, TypeOK, LoopSteps, ThreadReadsLoop, ThreadEntersLoop, Bind, BindFails,
              Serve, StopListening, StopCompletes, LoopHalts, LoopCloses
<1>5. CASE r # current
  <2>0. current # None => current \in Runtimes \ {r}
    BY <1>0, <1>5, LifecycleAssumption DEF TypeOK, LifecycleAssumption
  <2>1. current # None =>
          /\ loop'[current] = loop[current] /\ stopping'[current] = stopping[current]
          /\ current \in running' <=> current \in running
          /\ port' = current => port = current
    BY <1>0, <1>2, <2>0 DEF TypeOK, LoopSteps, ThreadReadsLoop, ThreadEntersLoop, Bind, BindFails,
              Serve, StopListening, StopCompletes, LoopHalts, LoopCloses
  <2>2. Rests'
    BY <1>1, <2>1 DEF IInv, Rests, Works, callVars
  <2>3. \A c \in Callers : CallInv(c)'
    BY <1>1, <2>1 DEF IInv, CallInv, callVars
  <2> QED BY <1>0, <1>3, <1>4, <2>2, <2>3 DEF IInv
<1>6. CASE r = current
  <2>1. Rests'
    BY <1>0, <1>1, <1>6 DEF IInv, Rests, Works, callVars, TypeOK, LoopSteps, ThreadReadsLoop,
       ThreadEntersLoop, Bind, BindFails, Serve, StopListening, StopCompletes, LoopHalts, LoopCloses
  <2>2. ASSUME NEW c \in Callers PROVE CallInv(c)'
    <3>0. CallInv(c)
      BY DEF IInv
    <3>1. CASE pc[c] \in {"idle", "create"}
      BY <1>0, <1>1, <1>6, <3>0, <3>1 DEF CallInv, callVars, TypeOK, LoopSteps, ThreadReadsLoop,
         ThreadEntersLoop, Bind, BindFails, Serve, StopListening, StopCompletes, LoopHalts, LoopCloses
    <3>2. CASE pc[c] = "starting"
      BY <1>0, <1>1, <1>6, <3>0, <3>2 DEF CallInv, callVars, TypeOK, LoopSteps, ThreadReadsLoop,
         ThreadEntersLoop, Bind, BindFails, Serve, StopListening, StopCompletes, LoopHalts, LoopCloses
    <3>3. CASE pc[c] = "wait"
      BY <1>0, <1>1, <1>6, <3>0, <3>3 DEF CallInv, callVars, TypeOK, LoopSteps, ThreadReadsLoop,
         ThreadEntersLoop, Bind, BindFails, Serve, StopListening, StopCompletes, LoopHalts, LoopCloses
    <3>4. CASE pc[c] \in {"join", "clear"}
      BY <1>0, <1>1, <1>6, <3>0, <3>4 DEF CallInv, callVars, TypeOK, LoopSteps, ThreadReadsLoop,
         ThreadEntersLoop, Bind, BindFails, Serve, StopListening, StopCompletes, LoopHalts, LoopCloses
    <3> QED BY <1>0, <3>1, <3>2, <3>3, <3>4 DEF TypeOK
  <2> QED BY <1>0, <1>3, <1>4, <2>1, <2>2 DEF IInv
<1> QED BY <1>5, <1>6

LEMMA ClientSound ==
    ASSUME IInv, NEW r \in Runtimes, ClientConnects(r) \/ ClientLeaves(r)
    PROVE  IInv'
<1>1. TypeOK'
  BY TypeKept DEF IInv, Next
<1>2. UNCHANGED <<current, made, refs, halted, callVars, loop, running, stopping, port>>
  BY DEF ClientConnects, ClientLeaves
<1> QED BY <1>1, <1>2 DEF IInv, Fresh, Serial, OnlyCurrent, Rests, PortInv, CallInv, Works, callVars

\* A caller in the middle of a call is the only one.
LEMMA Alone ==
    ASSUME IInv, NEW c \in Callers, pc[c] # "idle", NEW d \in Callers \ {c}
    PROVE  pc[d] = "idle" /\ target[d] = None
BY DEF IInv, Serial, CallInv

LEMMA FreeToCall ==
    ASSUME IInv, Overlap = FALSE, NEW c \in Callers, MayCall(c), NEW d \in Callers
    PROVE  pc[d] = "idle" /\ target[d] = None
BY DEF MayCall, IInv, CallInv

LEMMA CurrentMade ==
    ASSUME IInv, current # None
    PROVE  current \in Runtimes
BY LifecycleAssumption DEF LifecycleAssumption, IInv, TypeOK

LEMMA CallStartSound ==
    ASSUME IInv, Overlap = FALSE, NEW c \in Callers, CallStart(c)
    PROVE  IInv'
<1>0. TypeOK /\ TypeOK' /\ \A d \in Callers : pc[d] = "idle" /\ target[d] = None
  BY TypeKept, FreeToCall DEF IInv, Next, CallStart
<1>1. /\ UNCHANGED <<current, made, refs, halted, loop, running, stopping, port, target>>
      /\ pc' = [pc EXCEPT ![c] = "create"]
  BY DEF CallStart, Goto, loopVars
<1>2. pc'[c] = "create" /\ \A d \in Callers \ {c} : pc'[d] = "idle"
  BY <1>0, <1>1 DEF TypeOK
<1>3. current # None => loop[current] = "dead"
  BY <1>0 DEF CallStart, IsRunning, IInv, Rests, Works
<1>4. \A d \in Callers : CallInv(d)'
  BY <1>0, <1>1, <1>2, <1>3 DEF CallInv
<1> QED BY <1>0, <1>1, <1>2, <1>4 DEF IInv, Fresh, Serial, OnlyCurrent, Rests, Works, PortInv

LEMMA CreateRuntimeSound ==
    ASSUME IInv, NEW c \in Callers, CreateRuntime(c)
    PROVE  IInv'
<1> DEFINE n == made + 1
<1>0. TypeOK /\ TypeOK' /\ pc[c] = "create"
      /\ \A d \in Callers \ {c} : pc[d] = "idle" /\ target[d] = None
  BY TypeKept, Alone DEF IInv, Next, CreateRuntime, CallerSteps
<1>1. /\ made < MaxRuntimes /\ made' = n /\ current' = n
      /\ refs' = refs \cup {n}
      /\ loop' = [loop EXCEPT ![n] = "thread"]
      /\ target' = [target EXCEPT ![c] = n]
      /\ pc' = [pc EXCEPT ![c] = "starting"]
      /\ UNCHANGED <<halted, running, stopping, port>>
  BY DEF CreateRuntime, Goto
<1>2. n \in Runtimes /\ n > made /\ made \in Nat
  BY <1>0, <1>1, LifecycleAssumption DEF TypeOK, LifecycleAssumption
<1>3. loop[n] = "none" /\ n \notin halted /\ n \notin running /\ stopping[n] = "no"
  BY <1>2 DEF IInv, Fresh
<1>4. loop'[n] = "thread" /\ \A q \in Runtimes \ {n} : loop'[q] = loop[q]
  BY <1>0, <1>1, <1>2 DEF TypeOK
<1>5. /\ pc'[c] = "starting" /\ target'[c] = n
      /\ \A d \in Callers \ {c} : pc'[d] = "idle" /\ target'[d] = None
  BY <1>0, <1>1 DEF TypeOK
<1>6. Fresh'
  BY <1>1, <1>2, <1>4 DEF IInv, Fresh
<1>7. OnlyCurrent'
  <2> SUFFICES ASSUME NEW q \in Runtimes, loop'[q] \in Alive, q \notin halted, q # n
               PROVE  FALSE
    BY <1>1 DEF OnlyCurrent
  <2>1. current = q
    BY <1>4 DEF IInv, OnlyCurrent
  <2>2. loop[q] = "dead"
    BY <1>0, <2>1 DEF IInv, CallInv
  <2> QED BY <1>4, <2>2
<1>8. PortInv'
  <2>1. port # n
    BY <1>2, <1>3 DEF IInv, PortInv
  <2> QED BY <1>1, <1>4, <2>1 DEF IInv, PortInv
<1>9. \A d \in Callers : CallInv(d)'
  BY <1>1, <1>2, <1>3, <1>4, <1>5 DEF CallInv
<1>10. Serial' /\ Rests'
  BY <1>5 DEF Serial, Rests
<1> QED BY <1>0, <1>6, <1>7, <1>8, <1>9, <1>10 DEF IInv

LEMMA StartReturnsSound ==
    ASSUME IInv, NEW c \in Callers, StartReturns(c)
    PROVE  IInv'
<1>0. TypeOK /\ TypeOK' /\ pc[c] = "starting" /\ CallInv(c)
      /\ \A d \in Callers \ {c} : pc[d] = "idle" /\ target[d] = None
  BY TypeKept, Alone DEF IInv, Next, StartReturns, CallerSteps
<1>1. /\ UNCHANGED <<current, made, refs, halted, loop, running, stopping, port>>
      /\ pc' = [pc EXCEPT ![c] = "idle"] /\ target' = [target EXCEPT ![c] = None]
  BY DEF StartReturns, Goto, loopVars
<1>2. \A d \in Callers : pc'[d] = "idle" /\ target'[d] = None
  BY <1>0, <1>1 DEF TypeOK
<1>3. Rests'
  BY <1>0, <1>1 DEF StartReturns, Started, CallInv, Rests, Works
<1>4. \A d \in Callers : CallInv(d)'
  BY <1>2 DEF CallInv
<1> QED BY <1>0, <1>1, <1>2, <1>3, <1>4 DEF IInv, Fresh, Serial, OnlyCurrent, PortInv

LEMMA CallStopSound ==
    ASSUME IInv, Overlap = FALSE, NEW c \in Callers, NEW k \in {"stop", "stopOnly"}, CallStop(c, k)
    PROVE  IInv'
<1>0. TypeOK /\ TypeOK' /\ \A d \in Callers : pc[d] = "idle" /\ target[d] = None
  BY TypeKept, FreeToCall DEF IInv, Next, CallStop
<1>1. /\ current # None /\ current \in Runtimes
      /\ UNCHANGED <<current, made, halted, loop, running, port>>
      /\ target' = [target EXCEPT ![c] = current]
  BY CurrentMade DEF CallStop
<1>2. /\ current \in refs /\ current \notin halted
      /\ Works(current) \/ loop[current] = "dead"
  BY <1>0, <1>1 DEF IInv, Rests
<1>3. \A d \in Callers \ {c} : pc'[d] = "idle" /\ target'[d] = None
  BY <1>0 DEF CallStop, Goto, TypeOK
<1>4. CASE Works(current)
  <2>1. pc'[c] = "wait" /\ stopping' = [stopping EXCEPT ![current] = "asked"]
    BY <1>0, <1>2, <1>4 DEF CallStop, Goto, Works, TypeOK
  <2>2. stopping'[current] = "asked" /\ target'[c] = current
    BY <1>0, <1>1, <2>1 DEF TypeOK
  <2>3. \A d \in Callers : CallInv(d)'
    BY <1>1, <1>2, <1>3, <1>4, <2>1, <2>2 DEF CallInv, Works
  <2>4. Fresh'
    BY <1>0, <1>1, <1>4, <2>1 DEF IInv, Fresh, Works, TypeOK
  <2> QED BY <1>0, <1>1, <1>3, <2>1, <2>3, <2>4 DEF IInv, Serial, OnlyCurrent, Rests, PortInv
<1>5. CASE loop[current] = "dead"
  <2>1. pc'[c] = "join" /\ stopping' = stopping /\ target'[c] = current
    BY <1>0, <1>1, <1>2, <1>5 DEF CallStop, Goto, TypeOK
  <2>2. port # current
    BY <1>1, <1>5 DEF IInv, PortInv
  <2>3. \A d \in Callers : CallInv(d)'
    BY <1>1, <1>3, <1>5, <2>1, <2>2 DEF CallInv
  <2> QED BY <1>0, <1>1, <1>3, <2>1, <2>3 DEF IInv, Fresh, Serial, OnlyCurrent, Rests, PortInv
<1> QED BY <1>2, <1>4, <1>5

LEMMA FutureEndsSound ==
    ASSUME IInv, NEW c \in Callers, FutureEnds(c)
    PROVE  IInv'
<1>0. TypeOK /\ TypeOK' /\ pc[c] = "wait" /\ CallInv(c) /\ target[c] = current /\ current # None
      /\ \A d \in Callers \ {c} : pc[d] = "idle" /\ target[d] = None
  BY TypeKept, Alone DEF IInv, Next, FutureEnds, CallerSteps, CallInv
<1>1. /\ UNCHANGED <<current, made, refs, loop, running, stopping, port, target>>
      /\ pc' = [pc EXCEPT ![c] = "join"] /\ halted' = halted \cup {current}
  BY <1>0 DEF FutureEnds, Goto, loopVars
<1>2. pc'[c] = "join" /\ \A d \in Callers \ {c} : pc'[d] = "idle"
  BY <1>0, <1>1 DEF TypeOK
<1>3. \A d \in Callers : CallInv(d)'
  BY <1>0, <1>1, <1>2 DEF CallInv, FutureEnds
<1>4. Fresh'
  BY <1>0, <1>1 DEF IInv, Fresh, CallInv
<1> QED BY <1>0, <1>1, <1>2, <1>3, <1>4 DEF IInv, Serial, OnlyCurrent, Rests, PortInv

LEMMA JoinEndsSound ==
    ASSUME IInv, NEW c \in Callers, JoinEnds(c)
    PROVE  IInv'
<1>0. TypeOK /\ TypeOK' /\ pc[c] = "join" /\ CallInv(c)
      /\ \A d \in Callers \ {c} : pc[d] = "idle" /\ target[d] = None
  BY TypeKept, Alone DEF IInv, Next, JoinEnds, CallerSteps
<1>1. /\ UNCHANGED <<current, made, refs, halted, loop, running, stopping, port, target>>
      /\ pc' = [pc EXCEPT ![c] = "clear"]
  BY DEF JoinEnds, Goto, loopVars
<1>2. pc'[c] = "clear" /\ \A d \in Callers \ {c} : pc'[d] = "idle"
  BY <1>0, <1>1 DEF TypeOK
<1>3. \A d \in Callers : CallInv(d)'
  BY <1>0, <1>1, <1>2 DEF CallInv
<1> QED BY <1>0, <1>1, <1>2, <1>3 DEF IInv, Fresh, Serial, OnlyCurrent, Rests, PortInv

LEMMA ClearRuntimeSound ==
    ASSUME IInv, NEW c \in Callers, ClearRuntime(c)
    PROVE  IInv'
<1>0. TypeOK /\ TypeOK' /\ pc[c] = "clear" /\ CallInv(c) /\ target[c] = current
      /\ \A d \in Callers \ {c} : pc[d] = "idle" /\ target[d] = None
  BY TypeKept, Alone DEF IInv, Next, ClearRuntime, CallerSteps, CallInv
<1>1. /\ UNCHANGED <<made, refs, halted, loop, running, stopping, port>>
      /\ current' = None
      /\ pc' = [pc EXCEPT ![c] = "idle"] /\ target' = [target EXCEPT ![c] = None]
  BY <1>0 DEF ClearRuntime, Goto, loopVars
<1>2. \A d \in Callers : pc'[d] = "idle" /\ target'[d] = None
  BY <1>0, <1>1 DEF TypeOK
<1>3. OnlyCurrent'
  BY <1>0, <1>1 DEF IInv, OnlyCurrent, CallInv
<1>4. \A d \in Callers : CallInv(d)'
  BY <1>2 DEF CallInv
<1> QED BY <1>0, <1>1, <1>2, <1>3, <1>4 DEF IInv, Fresh, Serial, Rests, PortInv

LEMMA Invariant == Overlap = FALSE => (Spec => []IInv)
<1> SUFFICES ASSUME Overlap = FALSE PROVE Spec => []IInv
  OBVIOUS
<1>1. Init => IInv
  BY InitSound
<1>2. IInv /\ [Next]_vars => IInv'
  <2> SUFFICES ASSUME IInv, [Next]_vars PROVE IInv'
    OBVIOUS
  <2>1. ASSUME NEW c \in Callers, CallerSteps(c) PROVE IInv'
    BY <2>1, CreateRuntimeSound, StartReturnsSound, FutureEndsSound, JoinEndsSound, ClearRuntimeSound
       DEF CallerSteps
  <2>2. ASSUME NEW c \in Callers, CallStart(c) \/ CallStop(c, "stop") \/ CallStop(c, "stopOnly")
        PROVE  IInv'
    BY <2>2, CallStartSound, CallStopSound
  <2>3. ASSUME NEW r \in Runtimes, LoopSteps(r) \/ ClientConnects(r) \/ ClientLeaves(r) PROVE IInv'
    BY <2>3, LoopSound, ClientSound
  <2>4. CASE UNCHANGED vars
    BY <2>4 DEF vars, loopVars, callVars, IInv, TypeOK, Fresh, Serial, OnlyCurrent, Rests, Works,
            PortInv, CallInv
  <2> QED BY <2>1, <2>2, <2>3, <2>4 DEF Next
<1> QED BY <1>1, <1>2, PTL DEF Spec

\* While calls do not overlap every variable keeps its type.
THEOREM LifecycleTypeCorrect == Overlap = FALSE => (Spec => []TypeOK)
<1>1. IInv => TypeOK
  BY DEF IInv
<1> QED BY <1>1, Invariant, PTL

\* While calls do not overlap no running proxy is out of the manager's reach.
THEOREM NothingOrphaned == Overlap = FALSE => (Spec => []NoOrphan)
<1>1. IInv => NoOrphan
  BY DEF IInv, OnlyCurrent, NoOrphan
<1> QED BY <1>1, Invariant, PTL

\* While calls do not overlap a stop that is about to return has freed the port.
THEOREM PortFreed == Overlap = FALSE => (Spec => []StopFreesPort)
<1>1. IInv => StopFreesPort
  BY DEF IInv, CallInv, StopFreesPort
<1> QED BY <1>1, Invariant, PTL
================================================================================
