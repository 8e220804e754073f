---------------------------- MODULE ServerPool_proofs ----------------------------
(* Type correctness of ServerPool, for every number of servers, any priorities    *)
(* and any number of fetching threads.                                            *)
(*                                                                                *)
(* A thread that records a failure has failed with a server that has statistics,  *)
(* and one that checks a server has looked one up: the type alone does not say so *)
(* (Placed).  And a switch chooses with CHOOSE, so what it chooses from must not  *)
(* be empty: the naturals are well ordered (LeastNatural), and so are the         *)
(* priorities of the servers that are left (PreferredIsOne).                      *)
EXTENDS ServerPool, WellFoundedInduction, TLAPS

PoolType ==
    /\ selected \in Servers
    /\ failures \in [Known -> 0 .. Limit]
    /\ blocked \subseteq Known
    /\ pace \in [Known -> {0} \cup Paces]

CacheType == cache \in {"none", "full", "partial"} /\ vpsBlocked \in BOOLEAN

Placed(f) ==
    /\ f.pc = "check" => f.at \in Servers
    /\ f.pc \in {"judge", "block"} => f.at \in Known

FetchInv ==
    /\ fetch \in [Tasks -> Fetches] /\ result \in [Tasks -> {"none", "found", "failed"}]
    /\ \A t \in Tasks : Placed(fetch[t])

LEMMA TypeParts == PoolType /\ CacheType /\ FetchInv => TypeOK
BY DEF TypeOK, PoolType, CacheType, FetchInv

(*------------------------------- choosing a server ----------------------------*)

\* A set of naturals that is not empty has a least element, and Min is it.
LEMMA LeastNatural ==
    ASSUME NEW S, S \subseteq Nat, S # {}
    PROVE  Min(S) \in S /\ \A n \in S : Min(S) <= n
<1>1. PICK m \in S : \A n \in S : ~(<<n, m>> \in OpToRel(<, Nat))
  BY NatLessThanWellFounded, WFMin
<1>2. ASSUME NEW n \in S PROVE m <= n
  <2>1. m \in Nat /\ n \in Nat /\ <<n, m>> \in Nat \X Nat
    OBVIOUS
  <2>2. ~(n < m)
    BY <1>1, <2>1 DEF OpToRel
  <2> QED BY <2>1, <2>2
<1> QED BY <1>2 DEF Min

LEMMA ServersAreNaturals == Servers \subseteq Nat /\ \A S \in SUBSET Servers : S \subseteq Nat
BY PoolAssumption DEF Servers

\* Among servers that are left, the switch of the pool finds one of the first priority.
LEMMA PreferredIsOne ==
    ASSUME NEW S, S \subseteq Servers, S # {}
    PROVE  /\ Preferred(S) \in S
           /\ \A s \in S : Priority[Preferred(S)] <= Priority[s]
<1> DEFINE Best == {s \in S : \A r \in S : Priority[s] <= Priority[r]}
           Ranks == {Priority[s] : s \in S}
<1>1. Ranks \subseteq Nat /\ Ranks # {}
  BY PoolAssumption
<1>2. PICK s \in S : Priority[s] = Min(Ranks)
  BY <1>1, LeastNatural
<1>3. \A r \in S : Priority[s] <= Priority[r]
  BY <1>1, <1>2, LeastNatural
<1>4. Best # {} /\ Best \subseteq Nat
  BY <1>2, <1>3, ServersAreNaturals
<1>5. Min(Best) \in Best
  BY <1>4, LeastNatural
<1> QED BY <1>5 DEF Preferred

\* What is chosen is one of the servers there are.
LEMMA EligibleAreServers ==
    ASSUME NEW t \in Tasks, NEW S, S \subseteq Servers, S # {}
    PROVE  Eligible(t, S) \subseteq Servers
BY PreferredIsOne DEF Eligible

LEMMA FasterIsServer == Faster # {} => Min(Faster) \in Servers
<1>1. Faster \subseteq Servers /\ Faster \subseteq Nat
  BY ServersAreNaturals DEF Faster
<1> QED BY <1>1, LeastNatural

(*---------------------------------- the pool ----------------------------------*)

LEMMA CountFailureType ==
    ASSUME PoolType, NEW t \in Tasks, CountFailure(t)
    PROVE  failures' \in [Known -> 0 .. Limit]
<1> DEFINE s == fetch[t].at
           count == Min({failures[s] + 1, Limit})
<1>1. CASE s \notin Known
  BY <1>1 DEF CountFailure, PoolType
<1>2. CASE s \in Known
  <2>1. failures[s] \in Nat /\ Limit \in Nat
    BY <1>2, PoolAssumption DEF PoolType
  <2>2. count \in {failures[s] + 1, Limit} /\ count <= Limit
    <3>1. {failures[s] + 1, Limit} \subseteq Nat
      BY <2>1
    <3> QED BY <3>1, LeastNatural
  <2>3. count \in 0 .. Limit
    BY <2>1, <2>2
  <2>4. failures' = [failures EXCEPT ![s] = count]
    BY <1>2 DEF CountFailure
  <2> HIDE DEF count
  <2> QED BY <1>2, <2>3, <2>4 DEF PoolType
<1> QED BY <1>1, <1>2

LEMMA CountSuccessType ==
    ASSUME PoolType, NEW t \in Tasks, NEW seconds \in Paces, CountSuccess(t, seconds)
    PROVE  failures' \in [Known -> 0 .. Limit] /\ pace' \in [Known -> {0} \cup Paces]
<1> DEFINE s == fetch[t].at
<1>1. CASE s \notin Known
  BY <1>1 DEF CountSuccess, PoolType
<1>2. CASE s \in Known
  <2>1. failures' = [failures EXCEPT ![s] = 0]
    BY <1>2 DEF CountSuccess
  <2>2. PICK average \in IF pace[s] = 0 THEN {seconds} ELSE {pace[s], seconds} :
            pace' = [pace EXCEPT ![s] = average]
    BY <1>2 DEF CountSuccess
  <2>3. pace[s] \in {0} \cup Paces
    BY <1>2 DEF PoolType
  <2>4. average \in {0} \cup Paces
    BY <2>3
  <2> QED BY <1>2, <2>1, <2>2, <2>4, PoolAssumption DEF PoolType
<1> QED BY <1>1, <1>2

LEMMA PoolSteps ==
    ASSUME PoolType, FetchInv, [Next]_vars
    PROVE  PoolType'
<1>1. ASSUME NEW t \in Tasks, Assign(t)
      PROVE  PoolType'
  BY <1>1 DEF Assign, PoolType, FetchInv, Fetches
<1>2. ASSUME NEW t \in Tasks, Block(t)
      PROVE  PoolType'
  BY <1>2 DEF Block, At, PoolType, FetchInv, Placed
<1>3. ASSUME NEW t \in Tasks, NEW seconds \in Paces, AnswerFound(t, seconds)
      PROVE  PoolType'
  BY <1>3, CountSuccessType DEF AnswerFound, PoolType
<1>4. ASSUME NEW t \in Tasks, AnswerLacksChannel(t) \/ \E error \in Errors : AnswerError(t, error)
      PROVE  PoolType'
  BY <1>4, CountFailureType DEF AnswerLacksChannel, AnswerError, PoolType
<1>5. ASSUME NEW s \in Known, BlockEnds(s)
      PROVE  PoolType'
  BY <1>5 DEF BlockEnds, PoolType
<1>6. CASE UNCHANGED poolVars
  BY <1>6 DEF poolVars, PoolType
<1> QED BY <1>1, <1>2, <1>3, <1>4, <1>5, <1>6
        DEF Next, Step, Answer, Records, Fetch, Look, SkipBlocked, TakeServer, GiveUp, UseCache, Ask,
            GoOn, Judge, Compare, List, Pick, VpsBlockEnds, CacheExpires, CacheFilled, vars

LEMMA CacheSteps ==
    ASSUME CacheType, [Next]_vars
    PROVE  CacheType'
<1>1. ASSUME UNCHANGED <<cache, vpsBlocked>>
      PROVE  CacheType'
  BY <1>1 DEF CacheType
<1>2. ASSUME NEW t \in Tasks, NEW seconds \in Paces, AnswerFound(t, seconds)
      PROVE  CacheType'
  BY <1>2 DEF AnswerFound, CacheType
<1>3. ASSUME NEW t \in Tasks, AnswerLacksChannel(t)
      PROVE  CacheType'
  BY <1>3 DEF AnswerLacksChannel, CacheType
<1>4. ASSUME NEW t \in Tasks, NEW error \in Errors, AnswerError(t, error)
      PROVE  CacheType'
  BY <1>4 DEF AnswerError, CacheType, SevereStatusKnown, Truth
<1>5. CASE VpsBlockEnds \/ CacheExpires \/ CacheFilled
  BY <1>5, PoolAssumption DEF VpsBlockEnds, CacheExpires, CacheFilled, CacheType
<1> QED BY <1>1, <1>2, <1>3, <1>4, <1>5
        DEF Next, Step, Answer, Records, Fetch, Look, SkipBlocked, TakeServer, GiveUp, UseCache, Ask,
            GoOn, Judge, Block, Compare, List, Pick, Assign, BlockEnds, vars

(*---------------------------------- a fetch -----------------------------------*)

\* A step of one thread gives its place and its locals another value of their kind.
LEMMA BecomeKeeps ==
    ASSUME FetchInv, NEW t \in Tasks, NEW f \in Fetches, Placed(f), Become(t, f),
           result' \in [Tasks -> {"none", "found", "failed"}]
    PROVE  FetchInv'
BY DEF FetchInv, Become

LEMMA IdleIsPlaced == Idle \in Fetches /\ Placed(Idle)
<1>1. 0 \in 0 .. MaxAttempts
  BY PoolAssumption DEF MaxAttempts
<1> QED BY <1>1 DEF Idle, Fetches, Placed

LEMMA ReturnKeeps ==
    ASSUME FetchInv, NEW t \in Tasks, NEW outcome \in {"found", "failed"}, Return(t, outcome)
    PROVE  FetchInv'
<1>1. result' \in [Tasks -> {"none", "found", "failed"}]
  BY DEF Return, FetchInv
<1> QED BY <1>1, IdleIsPlaced, BecomeKeeps DEF Return

LEMMA GotoKeeps ==
    ASSUME FetchInv, NEW t \in Tasks, NEW place \in {"loop", "try", "wait", "judge", "block", "answered"},
           place \in {"judge", "block"} => fetch[t].at \in Known,
           Goto(t, place), result' \in [Tasks -> {"none", "found", "failed"}]
    PROVE  FetchInv'
<1> DEFINE f == [fetch[t] EXCEPT !.pc = place]
<1>1. f \in Fetches /\ Placed(f)
  BY DEF FetchInv, Fetches, Placed
<1>2. Become(t, f)
  BY DEF Goto
<1> HIDE DEF f
<1> QED BY <1>1, <1>2, BecomeKeeps

LEMMA OnwardIsPlaced ==
    ASSUME FetchInv, NEW t \in Tasks
    PROVE  Onward(t) \in Fetches /\ Placed(Onward(t))
<1>1. fetch[t] \in Fetches
  BY DEF FetchInv
<1>2. CASE fetch[t].onward = "loop"
  BY <1>1, <1>2 DEF Onward, Idle, Fetches, Placed
<1>3. CASE fetch[t].onward = "answered"
  BY <1>1, <1>3 DEF Onward, Fetches, Placed
<1>4. CASE fetch[t].onward = "idle"
  BY <1>4, IdleIsPlaced DEF Onward
<1> QED BY <1>1, <1>2, <1>3, <1>4 DEF Fetches

LEMMA CountFailureKeeps ==
    ASSUME FetchInv, NEW t \in Tasks, CountFailure(t), UNCHANGED result
    PROVE  FetchInv'
<1>1. CASE fetch[t].at \in Known
  BY <1>1, GotoKeeps DEF CountFailure, FetchInv
<1>2. CASE fetch[t].at \notin Known
  BY <1>2, GotoKeeps DEF CountFailure, FetchInv
<1> QED BY <1>1, <1>2

LEMMA AnswerFoundKeeps ==
    ASSUME FetchInv, NEW t \in Tasks, NEW seconds, AnswerFound(t, seconds)
    PROVE  FetchInv'
<1>1. result' \in [Tasks -> {"none", "found", "failed"}]
  BY DEF AnswerFound, FetchInv
<1>2. [Idle EXCEPT !.pc = "compare"] \in Fetches /\ Placed([Idle EXCEPT !.pc = "compare"])
  BY IdleIsPlaced DEF Fetches, Placed, Idle
<1>3. Become(t, [Idle EXCEPT !.pc = "compare"]) \/ Become(t, Idle)
  BY DEF AnswerFound, CountSuccess
<1> QED BY <1>1, <1>2, <1>3, IdleIsPlaced, BecomeKeeps

\* The steps of a thread that select a server.
LEMMA SelectingKeeps ==
    ASSUME FetchInv, PoolType, NEW t \in Tasks, Records(t)
    PROVE  FetchInv'
<1>0. fetch[t] \in Fetches /\ UNCHANGED result /\ result \in [Tasks -> {"none", "found", "failed"}]
  BY DEF FetchInv, Records, Judge, Block, Compare, List, Pick, Assign
<1>1. CASE Judge(t)
  <2>1. fetch[t].at \in Known
    BY <1>1 DEF Judge, At, FetchInv, Placed
  <2>2. Goto(t, "block") \/ Goto(t, "answered")
    BY <1>1 DEF Judge
  <2> QED BY <1>0, <2>1, <2>2, GotoKeeps
<1>2. CASE Block(t)
  <2> DEFINE f == [fetch[t] EXCEPT !.pc = "list", !.onward = "answered"]
  <2>1. f \in Fetches /\ Placed(f)
    BY <1>0 DEF Fetches, Placed
  <2>2. Become(t, f)
    BY <1>2 DEF Block
  <2> HIDE DEF f
  <2> QED BY <1>0, <2>1, <2>2, BecomeKeeps
<1>3. CASE Compare(t)
  <2> DEFINE f == [Idle EXCEPT !.pc = "assign", !.options = {Min(Faster)}, !.onward = "idle"]
  <2>1. Faster # {} => f \in Fetches /\ Placed(f)
    BY IdleIsPlaced, FasterIsServer DEF Fetches, Placed, Idle
  <2>2. (Faster # {} /\ Become(t, f)) \/ Become(t, Idle)
    BY <1>3 DEF Compare
  <2> HIDE DEF f
  <2> QED BY <1>0, <2>1, <2>2, IdleIsPlaced, BecomeKeeps
<1>4. CASE List(t)
  <2> DEFINE f == [fetch[t] EXCEPT !.pc = "pick", !.options = Servers \ blocked]
  <2>1. f \in Fetches /\ Placed(f)
    BY <1>0 DEF Fetches, Placed
  <2>2. Become(t, f)
    BY <1>4 DEF List
  <2> HIDE DEF f
  <2> QED BY <1>0, <2>1, <2>2, BecomeKeeps
<1>5. CASE Pick(t)
  <2> DEFINE others == fetch[t].options \ {selected}
  <2>1. CASE Become(t, Onward(t))
    BY <1>0, <2>1, OnwardIsPlaced, BecomeKeeps
  <2>2. CASE /\ others # {}
             /\ \E s \in Eligible(t, others) :
                   Become(t, [fetch[t] EXCEPT !.pc = "assign", !.options = {s}])
    <3>1. others \subseteq Servers
      BY <1>0 DEF Fetches
    <3> HIDE DEF others
    <3>2. PICK s \in Servers : Become(t, [fetch[t] EXCEPT !.pc = "assign", !.options = {s}])
      BY <2>2, <3>1, EligibleAreServers
    <3> DEFINE f == [fetch[t] EXCEPT !.pc = "assign", !.options = {s}]
    <3>3. f \in Fetches /\ Placed(f)
      BY <1>0 DEF Fetches, Placed
    <3> HIDE DEF f
    <3> QED BY <1>0, <3>2, <3>3, BecomeKeeps DEF f
  <2> QED BY <1>5, <2>1, <2>2 DEF Pick
<1>6. CASE Assign(t)
  BY <1>0, <1>6, OnwardIsPlaced, BecomeKeeps DEF Assign
<1> QED BY <1>1, <1>2, <1>3, <1>4, <1>5, <1>6 DEF Records

LEMMA LoopKeeps ==
    ASSUME FetchInv, PoolType, NEW t \in Tasks,
           Look(t) \/ SkipBlocked(t) \/ TakeServer(t) \/ GoOn(t)
    PROVE  FetchInv'
<1>0. fetch[t] \in Fetches /\ Placed(fetch[t]) /\ result \in [Tasks -> {"none", "found", "failed"}]
  BY DEF FetchInv
<1>1. CASE Look(t)
  <2>1. CASE Return(t, "failed")
    BY <2>1, ReturnKeeps
  <2>2. CASE /\ AttemptLeft(t) /\ UNCHANGED result
             /\ Become(t, [fetch[t] EXCEPT !.pc = "check", !.at = selected, !.attempts = @ + 1])
    <3> DEFINE f == [fetch[t] EXCEPT !.pc = "check", !.at = selected, !.attempts = @ + 1]
    <3>1. fetch[t].attempts + 1 \in 0 .. MaxAttempts
      <4>1. MaxAttempts \in Nat
        BY PoolAssumption DEF MaxAttempts
      <4> QED BY <1>0, <2>2, <4>1 DEF AttemptLeft, Fetches
    <3>2. f \in Fetches /\ Placed(f)
      BY <1>0, <3>1 DEF Fetches, Placed, PoolType
    <3> HIDE DEF f
    <3> QED BY <1>0, <2>2, <3>2, BecomeKeeps DEF f
  <2> QED BY <1>1, <2>1, <2>2 DEF Look
<1>2. CASE SkipBlocked(t)
  <2> DEFINE f == [fetch[t] EXCEPT !.pc = "list", !.at = NoServer, !.tried = @ \cup {fetch[t].at},
                                   !.onward = "loop"]
  <2>1. f \in Fetches /\ Placed(f)
    BY <1>0, <1>2 DEF SkipBlocked, At, Fetches, Placed
  <2>2. Become(t, f) /\ UNCHANGED result
    BY <1>2 DEF SkipBlocked
  <2> HIDE DEF f
  <2> QED BY <1>0, <2>1, <2>2, BecomeKeeps
<1>3. CASE TakeServer(t)
  <2> DEFINE f == [fetch[t] EXCEPT !.pc = "try", !.tried = @ \cup {fetch[t].at}]
  <2>1. f \in Fetches /\ Placed(f)
    BY <1>0, <1>3 DEF TakeServer, At, Fetches, Placed
  <2>2. Become(t, f) /\ UNCHANGED result
    BY <1>3 DEF TakeServer
  <2> HIDE DEF f
  <2> QED BY <1>0, <2>1, <2>2, BecomeKeeps
<1>4. CASE GoOn(t)
  <2> DEFINE f == [fetch[t] EXCEPT !.pc = "try", !.protocol = "http"]
  <2>1. f \in Fetches /\ Placed(f)
    BY <1>0 DEF Fetches, Placed
  <2>2. (Become(t, f) \/ Become(t, Onward(t))) /\ UNCHANGED result
    BY <1>4 DEF GoOn
  <2> HIDE DEF f
  <2> QED BY <1>0, <2>1, <2>2, OnwardIsPlaced, BecomeKeeps
<1> QED BY <1>1, <1>2, <1>3, <1>4

LEMMA FetchSteps ==
    ASSUME PoolType, FetchInv, [Next]_vars
    PROVE  FetchInv'
<1>1. ASSUME NEW t \in Tasks, Fetch(t)
      PROVE  FetchInv'
  <2>1. CASE Return(t, "failed")
    BY <2>1, ReturnKeeps
  <2>2. CASE Goto(t, "loop") /\ result' = [result EXCEPT ![t] = "none"]
    BY <2>2, GotoKeeps DEF FetchInv
  <2> QED BY <1>1, <2>1, <2>2 DEF Fetch
<1>2. ASSUME NEW t \in Tasks, UseCache(t)
      PROVE  FetchInv'
  <2>1. Return(t, "found") \/ (Goto(t, "answered") /\ UNCHANGED result)
    BY <1>2 DEF UseCache
  <2> QED BY <2>1, ReturnKeeps, GotoKeeps DEF FetchInv
<1>3. ASSUME NEW t \in Tasks, GiveUp(t)
      PROVE  FetchInv'
  BY <1>3, ReturnKeeps DEF GiveUp
<1>4. ASSUME NEW t \in Tasks, Ask(t)
      PROVE  FetchInv'
  BY <1>4, GotoKeeps DEF Ask, FetchInv
<1>5. ASSUME NEW t \in Tasks, AnswerLacksChannel(t) \/ \E error \in Errors : AnswerError(t, error)
      PROVE  FetchInv'
  BY <1>5, CountFailureKeeps DEF AnswerLacksChannel, AnswerError
<1>6. CASE UNCHANGED <<fetch, result>>
  BY <1>6 DEF FetchInv
<1> QED BY <1>1, <1>2, <1>3, <1>4, <1>5, <1>6, AnswerFoundKeeps, SelectingKeeps, LoopKeeps
        DEF Next, Step, Answer, BlockEnds, VpsBlockEnds, CacheExpires, CacheFilled, vars

LEMMA InitInv == Init => PoolType /\ CacheType /\ FetchInv
<1> SUFFICES ASSUME Init PROVE PoolType /\ CacheType /\ FetchInv
  OBVIOUS
<1>1. PoolType /\ CacheType
  BY DEF Init, PoolType, CacheType
<1>2. FetchInv
  BY IdleIsPlaced DEF Init, FetchInv
<1> QED BY <1>1, <1>2

(*---------------------------------- theorems ----------------------------------*)

\* The pool and the fetches hold values the code gives them: among them, no count
\* of failures passes the limit and no fetch makes more attempts than allowed.
THEOREM TypeCorrect == Spec => []TypeOK
<1>1. PoolType /\ CacheType /\ FetchInv /\ [Next]_vars => (PoolType /\ CacheType /\ FetchInv)'
  BY PoolSteps, CacheSteps, FetchSteps
<1> QED BY <1>1, InitInv, TypeParts, PTL DEF Spec
================================================================================
