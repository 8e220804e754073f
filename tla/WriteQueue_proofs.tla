---------------------------- MODULE WriteQueue_proofs ----------------------------
(* Proofs about the queue of preset writes, for every set of operations, of     *)
(* runtimes and of keys: two writes never overlap, nothing that waits is        *)
(* forgotten, the last request of a key is the last to be written unless a      *)
(* request overtakes a finish, and the queue implements SerialWriter.           *)
(*                                                                              *)
(* OneWriter is not inductive: a new write is started when no runtime says that *)
(* it runs, so the invariant (IInv) has to say that every running thread is     *)
(* known to its runtime as long as the page is open, and that a closed page     *)
(* starts nothing.  The other theorems need to know what filtering a queue      *)
(* leaves in it, which is proved by induction on the prefixes of the queue, and *)
(* that nothing waits twice or has a thread already (QueueInv).  The latest     *)
(* state is kept because, without overtaking, at most one operation is at work  *)
(* and the last request of a key is never behind an older one (LatestInv).  The *)
(* button that adds a profile needs only that a runtime knows what it runs.     *)
EXTENDS WriteQueue, WellFoundedInduction, TLAPS

States == {"none", "running", "finished", "done"}

TypeInv ==
    /\ scheduled \in Requests \cup {NoRequest}
    /\ slot \in [Runtimes -> Requests \cup {NoRequest}]
    /\ thread \in [Requests -> States]
    /\ closed \in BOOLEAN

\* A runtime only ever holds operations of its own kind.
SlotsOwn == \A rt \in Runtimes, r \in Requests : slot[rt] = r => RuntimeOf[r] = rt

\* While the page is open no running thread is forgotten by its runtime.
RunningIsHeld ==
    \A r \in Requests : ~closed /\ thread[r] = "running" => slot[RuntimeOf[r]] = r

\* A closed page has nothing left to start.
ClosedIsEmpty == closed => pending = <<>> /\ scheduled = NoRequest

IInv == TypeInv /\ SlotsOwn /\ RunningIsHeld /\ ClosedIsEmpty /\ OneWriter /\ NothingStranded

--------------------------------------------------------------------------------
\* Initially nothing runs and nothing waits.
LEMMA InitHolds == Init => IInv
  BY QueueAssumption
  DEF Init, IInv, TypeInv, SlotsOwn, RunningIsHeld, ClosedIsEmpty, OneWriter,
      NothingStranded, States

\* With the page open, runtimes that say they are idle mean that nothing runs.
LEMMA IdleMeansNoThread ==
  ASSUME IInv, ~closed, ~(\E rt \in Runtimes : IsRunning(rt))
  PROVE  \A s \in Requests : thread[s] # "running"
  BY QueueAssumption DEF IInv, TypeInv, RunningIsHeld, IsRunning

\* A write that is started while nothing runs is the only one, and its runtime
\* holds it.
LEMMA StartHolds ==
  ASSUME IInv, NEW r \in Requests, StartWorker(r),
         ~closed, UNCHANGED closed,
         ~(\E rt \in Runtimes : IsRunning(rt)),
         scheduled' \in Requests \cup {NoRequest}
  PROVE  IInv'
  <1>1. \A s \in Requests : thread[s] # "running"
    BY IdleMeansNoThread
  <1>2. RuntimeOf[r] \in Runtimes
    BY QueueAssumption
  <1>3. /\ thread' \in [Requests -> States]
        /\ slot' \in [Runtimes -> Requests \cup {NoRequest}]
    BY <1>2 DEF IInv, TypeInv, StartWorker, States
  <1>4. /\ thread'[r] = "running" /\ slot'[RuntimeOf[r]] = r
        /\ \A s \in Requests \ {r} : thread'[s] # "running"
    BY <1>1, <1>2 DEF IInv, TypeInv, StartWorker
  <1>5. TypeInv'
    BY <1>3 DEF IInv, TypeInv
  <1>6. SlotsOwn'
    BY <1>2, QueueAssumption DEF IInv, TypeInv, SlotsOwn, StartWorker
  <1>7. RunningIsHeld' /\ OneWriter'
    BY <1>4 DEF RunningIsHeld, OneWriter
  <1>8. ClosedIsEmpty'
    BY DEF ClosedIsEmpty
  <1>9. NothingStranded'
    BY <1>2, <1>4 DEF NothingStranded
  <1>10. QED
    BY <1>5, <1>6, <1>7, <1>8, <1>9 DEF IInv

\* A step that only touches the queue, and leaves a reason to start it, is safe.
LEMMA QueueOnly ==
  ASSUME IInv, UNCHANGED <<slot, thread, closed>>, ~closed,
         scheduled' \in Requests \cup {NoRequest},
         \/ scheduled' # NoRequest
         \/ \E rt \in Runtimes : IsRunning(rt)
  PROVE  IInv'
  <1>1. TypeInv' /\ SlotsOwn' /\ RunningIsHeld' /\ OneWriter' /\ ClosedIsEmpty'
    BY DEF IInv, TypeInv, SlotsOwn, RunningIsHeld, OneWriter, ClosedIsEmpty
  <1>2. NothingStranded'
    BY DEF NothingStranded, IsRunning
  <1>3. QED
    BY <1>1, <1>2 DEF IInv

LEMMA RequestHolds ==
  ASSUME IInv, NEW r \in Requests, Request(r)
  PROVE  IInv'
  <1>1. ~closed /\ UNCHANGED <<scheduled, closed>>
    BY DEF Request
  <1>2. scheduled' \in Requests \cup {NoRequest}
    BY <1>1 DEF IInv, TypeInv
  <1>3. CASE OperationRunning
    BY <1>1, <1>2, <1>3, QueueOnly DEF Request, OperationRunning
  <1>4. CASE ~OperationRunning
    BY <1>1, <1>2, <1>4, StartHolds DEF Request, OperationRunning
  <1>5. QED
    BY <1>3, <1>4

LEMMA ThreadEndsHolds ==
  ASSUME IInv, NEW r \in Requests, ThreadEnds(r)
  PROVE  IInv'
  <1>1. /\ thread' \in [Requests -> States]
        /\ thread'[r] = "finished" /\ thread[r] = "running"
        /\ \A s \in Requests \ {r} : thread'[s] = thread[s]
        /\ UNCHANGED <<pending, scheduled, slot, closed>>
    BY DEF IInv, TypeInv, ThreadEnds, States
  <1>2. TypeInv' /\ SlotsOwn' /\ ClosedIsEmpty'
    BY <1>1 DEF IInv, TypeInv, SlotsOwn, ClosedIsEmpty
  <1>3. RunningIsHeld' /\ OneWriter'
    BY <1>1 DEF IInv, RunningIsHeld, OneWriter
  <1>4. NothingStranded'
    BY <1>1 DEF IInv, NothingStranded
  <1>5. QED
    BY <1>2, <1>3, <1>4 DEF IInv

\* The single shot that a finish schedules stands for the operation it has taken.
LEMMA NextIsScheduled ==
  ASSUME IInv, NEW p \in Requests, ScheduleNext(p)
  PROVE  scheduled' \in Requests /\ ~closed
  BY QueueAssumption DEF IInv, TypeInv, ClosedIsEmpty, ScheduleNext

LEMMA FinishHandledHolds ==
  ASSUME IInv, NEW r \in Requests, FinishHandled(r)
  PROVE  IInv'
  <1>r. RuntimeOf[r] \in Runtimes
    BY QueueAssumption
  <1>1. /\ thread' \in [Requests -> States]
        /\ thread[r] = "finished" /\ thread'[r] = "done"
        /\ \A s \in Requests \ {r} : thread'[s] = thread[s]
        /\ UNCHANGED closed
    BY DEF IInv, TypeInv, FinishHandled, States
  <1>2. OneWriter'
    BY <1>1 DEF IInv, OneWriter
  <1>3. CASE slot[RuntimeOf[r]] = r
    <2>1. /\ slot' \in [Runtimes -> Requests \cup {NoRequest}]
          /\ slot'[RuntimeOf[r]] = NoRequest
          /\ \A rt \in Runtimes \ {RuntimeOf[r]} : slot'[rt] = slot[rt]
      BY <1>3, <1>r DEF IInv, TypeInv, FinishHandled
    <2>2. SlotsOwn'
      BY <2>1, QueueAssumption DEF IInv, SlotsOwn
    <2>3. RunningIsHeld'
      <3>1. SUFFICES ASSUME NEW s \in Requests, ~closed, thread'[s] = "running"
                     PROVE  slot'[RuntimeOf[s]] = s
        BY <1>1 DEF RunningIsHeld
      <3>2. s # r /\ thread[s] = "running" /\ slot[RuntimeOf[s]] = s
        BY <3>1, <1>1 DEF IInv, RunningIsHeld
      <3>3. RuntimeOf[s] \in Runtimes \ {RuntimeOf[r]}
        BY <3>2, <1>3, QueueAssumption
      <3>4. QED
        BY <3>2, <3>3, <2>1
    <2>4. CASE NoNext(r)
      <3>1. pending = <<>> /\ UNCHANGED <<pending, scheduled>>
        BY <2>4 DEF NoNext
      <3>2. TypeInv' /\ ClosedIsEmpty' /\ NothingStranded'
        BY <3>1, <1>1, <2>1 DEF IInv, TypeInv, ClosedIsEmpty, NothingStranded
      <3>3. QED
        BY <3>2, <2>2, <2>3, <1>2 DEF IInv
    <2>5. CASE \E p \in Requests : ScheduleNext(p)
      <3>1. scheduled' \in Requests /\ ~closed
        BY <2>5, NextIsScheduled
      <3>2. TypeInv' /\ ClosedIsEmpty' /\ NothingStranded'
        BY <3>1, <1>1, <2>1, QueueAssumption DEF TypeInv, IInv, ClosedIsEmpty, NothingStranded
      <3>3. QED
        BY <3>2, <2>2, <2>3, <1>2 DEF IInv
    <2>6. QED
      BY <2>4, <2>5, <1>3 DEF FinishHandled
  <1>4. CASE slot[RuntimeOf[r]] # r
    <2>1. UNCHANGED <<slot, pending, scheduled>>
      BY <1>4 DEF FinishHandled
    <2>2. TypeInv' /\ SlotsOwn' /\ RunningIsHeld' /\ ClosedIsEmpty'
      BY <2>1, <1>1 DEF IInv, TypeInv, SlotsOwn, RunningIsHeld, ClosedIsEmpty
    <2>3. \A rt \in Runtimes : slot[rt] # r
      BY <1>4 DEF IInv, SlotsOwn
    <2>4. NothingStranded'
      BY <2>1, <2>3, <1>1 DEF IInv, NothingStranded
    <2>5. QED
      BY <2>2, <2>4, <1>2 DEF IInv
  <1>5. QED
    BY <1>3, <1>4

LEMMA RunScheduledHolds ==
  ASSUME IInv, NEW r \in Requests, RunScheduled(r)
  PROVE  IInv'
  <1>1. scheduled' = NoRequest /\ ~closed /\ UNCHANGED closed
    BY QueueAssumption DEF IInv, TypeInv, ClosedIsEmpty, RunScheduled
  <1>2. CASE \E rt \in Runtimes : IsRunning(rt)
    BY <1>1, <1>2, QueueOnly DEF RunScheduled
  <1>3. CASE ~(\E rt \in Runtimes : IsRunning(rt))
    BY <1>1, <1>3, StartHolds DEF RunScheduled
  <1>4. QED
    BY <1>2, <1>3

LEMMA CleanupHolds ==
  ASSUME IInv, Cleanup
  PROVE  IInv'
  BY QueueAssumption
  DEF IInv, TypeInv, SlotsOwn, RunningIsHeld, ClosedIsEmpty, OneWriter, NothingStranded,
      Cleanup

LEMMA NextHolds ==
  ASSUME IInv, [Next]_vars
  PROVE  IInv'
  <1>1. CASE Cleanup
    BY <1>1, CleanupHolds
  <1>2. CASE \E r \in Requests :
                 Request(r) \/ ThreadEnds(r) \/ FinishHandled(r) \/ RunScheduled(r)
    BY <1>2, RequestHolds, ThreadEndsHolds, FinishHandledHolds, RunScheduledHolds
  <1>3. CASE UNCHANGED vars
    BY <1>3
    DEF vars, IInv, TypeInv, SlotsOwn, RunningIsHeld, ClosedIsEmpty, OneWriter,
        NothingStranded
  <1>4. QED
    BY <1>1, <1>2, <1>3 DEF Next

LEMMA IInvAlways == Spec => []IInv
  BY InitHolds, NextHolds, PTL DEF Spec

\* Two writes never work on the preset at the same time, whatever the user asks for
\* and whenever the finishes and single shots are handled.
THEOREM OnlyOneWriter == Spec => []OneWriter
  <1>1. IInv => OneWriter
    BY DEF IInv
  <1>2. QED
    BY <1>1, IInvAlways, PTL

\* What waits in the queue always has a single shot, a running write or an ended one
\* whose finish will be accepted to start it.
THEOREM NothingIsStranded == Spec => []NothingStranded
  <1>1. IInv => NothingStranded
    BY DEF IInv
  <1>2. QED
    BY <1>1, IInvAlways, PTL

\* A write of a user profile that starts disables the button; other writes leave it.
LEMMA StartBlocks ==
  ASSUME TypeInv, AddingIsBlocked, ~closed, NEW r \in Requests, StartWorker(r)
  PROVE  AddingIsBlocked'
  BY DEF TypeInv, AddingIsBlocked, StartWorker

LEMMA FinishBlocks ==
  ASSUME IInv, AddingIsBlocked, ~closed, NEW r \in Requests, FinishHandled(r)
  PROVE  AddingIsBlocked'
  <1>1. \A s \in Requests : thread'[s] = "running" => thread[s] = "running" /\ s # r
    BY DEF FinishHandled, IInv, TypeInv
  <1>2. CASE addEnabled' => addEnabled
    BY <1>1, <1>2 DEF AddingIsBlocked
  <1>3. CASE ~(addEnabled' => addEnabled)
    <2>1. /\ slot[RuntimeOf[r]] = r
          /\ \A rt \in UserRuntimes \ {RuntimeOf[r]} : ~IsRunning(rt)
      BY <1>3 DEF FinishHandled, NoNext, ScheduleNext
    <2>2. ASSUME NEW s \in Requests, thread[s] = "running", s # r
          PROVE  RuntimeOf[s] \notin UserRuntimes
      BY <2>1, <2>2 DEF IInv, RunningIsHeld, IsRunning
    <2> QED
      BY <1>1, <2>2 DEF AddingIsBlocked
  <1>4. QED
    BY <1>2, <1>3

LEMMA BlockedHolds ==
  ASSUME IInv, AddingIsBlocked, [Next]_vars
  PROVE  AddingIsBlocked'
  <1>0. CASE closed
    BY <1>0, QueueAssumption
    DEF AddingIsBlocked, Next, vars, Request, ThreadEnds, FinishHandled, RunScheduled, Cleanup
  <1>1. ASSUME ~closed, NEW r \in Requests, Request(r)
        PROVE  AddingIsBlocked'
    BY <1>1, StartBlocks DEF Request, AddingIsBlocked, IInv
  <1>2. ASSUME ~closed, NEW r \in Requests, ThreadEnds(r)
        PROVE  AddingIsBlocked'
    BY <1>2 DEF ThreadEnds, AddingIsBlocked, IInv, TypeInv
  <1>3. ASSUME ~closed, NEW r \in Requests, RunScheduled(r)
        PROVE  AddingIsBlocked'
    BY <1>3, StartBlocks DEF RunScheduled, AddingIsBlocked, IInv
  <1>4. CASE Cleanup
    BY <1>4 DEF Cleanup, AddingIsBlocked
  <1>5. CASE UNCHANGED vars
    BY <1>5 DEF vars, AddingIsBlocked
  <1>6. QED
    BY <1>0, <1>1, <1>2, <1>3, <1>4, <1>5, FinishBlocks DEF Next

\* The button that adds a user profile is not enabled while one is being written: a finish
\* that is handled late finds the runtime of the write that was started meanwhile running.
THEOREM AddingStaysBlocked == Spec => []AddingIsBlocked
  <1>1. Init => AddingIsBlocked
    BY DEF Init, AddingIsBlocked
  <1>2. QED
    BY <1>1, IInvAlways, BlockedHolds, PTL DEF Spec

(*------------------------- what stays when one is queued ------------------------*)

\* Every non-empty set of naturals has a first element.
LEMMA FirstNatural ==
  ASSUME NEW S, S \subseteq Nat, S # {}
  PROVE  \E m \in S : \A n \in S : m <= n
  <1>1. PICK m \in S : \A n \in S : ~(<<n, m>> \in OpToRel(<, Nat))
    BY NatLessThanWellFounded, WFMin
  <1>2. ASSUME NEW n \in S PROVE m <= n
    <2>1. m \in Nat /\ n \in Nat /\ <<n, m>> \in Nat \X Nat
      OBVIOUS
    <2>2. ~(n < m)
      BY <1>1, <2>1 DEF OpToRel
    <2>3. QED
      BY <2>1, <2>2
  <1>3. QED
    BY <1>2

\* What holds of no operation of a queue, and of one more at every step, holds of all.
LEMMA Prefixes ==
  ASSUME NEW N \in Nat, NEW S, 0 \in S, \A n \in 1..N : n - 1 \in S => n \in S
  PROVE  0..N \subseteq S
  <1> DEFINE Bad == {n \in 0..N : n \notin S}
  <1>1. SUFFICES ASSUME Bad # {} PROVE FALSE
    OBVIOUS
  <1>2. Bad \subseteq Nat
    OBVIOUS
  <1>3. PICK m \in Bad : \A k \in Bad : m <= k
    BY <1>1, <1>2, FirstNatural
  <1>4. m \in 1..N /\ m - 1 \in 0..N /\ ~(m <= m - 1)
    BY <1>3
  <1>5. m - 1 \in S
    BY <1>3, <1>4
  <1>6. QED
    BY <1>3, <1>4, <1>5

\* The operations of a queue, and that none of them is in it twice.
InQueue(q) == {q[i] : i \in DOMAIN q}
Distinct(q) == \A i, j \in DOMAIN q : q[i] = q[j] => i = j

\* f filters the first n operations of q.
Filters(f, n, q, r) ==
    /\ f \in [0..n -> Seq(Requests)]
    /\ f[0] = <<>>
    /\ \A m \in 1..n :
          f[m] = IF Supersedes(r, q[m]) THEN f[m - 1] ELSE Append(f[m - 1], q[m])

\* The recursive definition of what stays has a solution for every prefix: that for
\* n operations extends the one for n - 1.
LEMMA FilterExists ==
  ASSUME NEW q \in Seq(Requests), NEW r \in Requests
  PROVE  \E f : Filters(f, Len(q), q, r)
  <1> DEFINE Good == {m \in 0..Len(q) : \E f : Filters(f, m, q, r)}
  <1>1. 0 \in Good
    <2>1. Filters([k \in 0..0 |-> <<>>], 0, q, r)
      BY DEF Filters
    <2>2. QED
      BY <2>1
  <1>2. ASSUME NEW m \in 1..Len(q), m - 1 \in Good
        PROVE  m \in Good
    <2>1. PICK g : Filters(g, m - 1, q, r)
      BY <1>2
    <2>2. g \in [0..(m - 1) -> Seq(Requests)]
      BY <2>1 DEF Filters
    <2>3. q[m] \in Requests
      OBVIOUS
    <2> DEFINE last == IF Supersedes(r, q[m]) THEN g[m - 1] ELSE Append(g[m - 1], q[m])
               f == [k \in 0..m |-> IF k = m THEN last ELSE g[k]]
    <2>4. last \in Seq(Requests)
      BY <2>2, <2>3
    <2>5. f \in [0..m -> Seq(Requests)]
      BY <2>2, <2>4
    <2>6. f[0] = <<>>
      BY <2>1 DEF Filters
    <2>7. ASSUME NEW k \in 1..m
          PROVE  f[k] = IF Supersedes(r, q[k]) THEN f[k - 1] ELSE Append(f[k - 1], q[k])
      <3>1. CASE k = m
        BY <3>1
      <3>2. CASE k # m
        <4>1. k \in 1..(m - 1) /\ k - 1 \in 0..(m - 1)
          BY <3>2
        <4>2. f[k] = g[k] /\ f[k - 1] = g[k - 1]
          BY <4>1
        <4>3. QED
          BY <2>1, <4>1, <4>2 DEF Filters
      <3>3. QED
        BY <3>1, <3>2
    <2>8. Filters(f, m, q, r)
      BY <2>5, <2>6, <2>7 DEF Filters
    <2>9. QED
      BY <2>8
  <1>3. 0..Len(q) \subseteq Good
    <2>1. \A n \in 1..Len(q) : n - 1 \in Good => n \in Good
      BY <1>2
    <2>2. Len(q) \in Nat
      OBVIOUS
    <2> HIDE DEF Good
    <2>3. QED
      BY <1>1, <2>1, <2>2, Prefixes
  <1>4. Len(q) \in 0..Len(q)
    OBVIOUS
  <1>5. QED
    BY <1>3, <1>4

\* So what Kept chooses is one.
LEMMA KeptFilters ==
  ASSUME NEW q \in Seq(Requests), NEW r \in Requests
  PROVE  /\ Kept(q, r)[0] = <<>>
         /\ \A m \in 1..Len(q) :
               Kept(q, r)[m] = IF Supersedes(r, q[m]) THEN Kept(q, r)[m - 1]
                               ELSE Append(Kept(q, r)[m - 1], q[m])
  <1> DEFINE Body(f) == [n \in 0..Len(q) |->
                 IF n = 0 THEN <<>>
                 ELSE IF Supersedes(r, q[n]) THEN f[n - 1] ELSE Append(f[n - 1], q[n])]
             k == Kept(q, r)
  <1>1. PICK g : Filters(g, Len(q), q, r)
    BY FilterExists
  <1>2. g = Body(g)
    <2>1. /\ g \in [0..Len(q) -> Seq(Requests)] /\ g[0] = <<>> /\ Len(q) \in Nat
          /\ \A m \in 1..Len(q) :
                g[m] = IF Supersedes(r, q[m]) THEN g[m - 1] ELSE Append(g[m - 1], q[m])
      BY <1>1 DEF Filters
    <2>2. ASSUME NEW n \in 0..Len(q) PROVE g[n] = Body(g)[n]
      <3>1. n = 0 \/ n \in 1..Len(q)
        BY <2>1
      <3>2. QED
        BY <2>1, <3>1
    <2>3. g = [n \in 0..Len(q) |-> g[n]]
      BY <2>1
    <2>4. QED
      BY <2>2, <2>3
  <1>3. k = CHOOSE f : f = Body(f)
    BY DEF Kept
  <1>4. k = Body(k)
    <2> HIDE DEF k, Body
    <2>1. QED
      BY <1>2, <1>3
  <1>5. \A n \in 0..Len(q) : k[n] = Body(k)[n]
    <2> HIDE DEF k, Body
    <2>1. QED
      BY <1>4
  <1>6. QED
    BY <1>5

\* What stays of a queue: its operations but those r replaces, none of them twice.
LEMMA KeptStays ==
  ASSUME NEW q \in Seq(Requests), NEW r \in Requests, Distinct(q)
  PROVE  /\ Kept(q, r)[Len(q)] \in Seq(Requests)
         /\ InQueue(Kept(q, r)[Len(q)]) = {p \in InQueue(q) : ~Supersedes(r, p)}
         /\ Distinct(Kept(q, r)[Len(q)])
  <1> DEFINE k == Kept(q, r)
             Good == {n \in 0..Len(q) :
                         /\ k[n] \in Seq(Requests)
                         /\ InQueue(k[n]) = {p \in {q[i] : i \in 1..n} : ~Supersedes(r, p)}
                         /\ Distinct(k[n])}
  <1>1. 0 \in Good
    <2>1. k[0] = <<>>
      BY KeptFilters
    <2>2. InQueue(<<>>) = {} /\ Distinct(<<>>)
      BY DEF InQueue, Distinct
    <2>3. {q[i] : i \in 1..0} = {} /\ 0 \in 0..Len(q) /\ <<>> \in Seq(Requests)
      OBVIOUS
    <2> HIDE DEF k
    <2>4. QED
      BY <2>1, <2>2, <2>3
  <1>2. ASSUME NEW n \in 1..Len(q), n - 1 \in Good
        PROVE  n \in Good
    <2> DEFINE before == k[n - 1]
    <2>1. /\ before \in Seq(Requests)
          /\ InQueue(before) = {p \in {q[i] : i \in 1..(n - 1)} : ~Supersedes(r, p)}
          /\ Distinct(before)
      BY <1>2
    <2>2. {q[i] : i \in 1..n} = {q[i] : i \in 1..(n - 1)} \cup {q[n]}
      OBVIOUS
    <2>3. k[n] = IF Supersedes(r, q[n]) THEN before ELSE Append(before, q[n])
      BY KeptFilters
    <2>4. CASE Supersedes(r, q[n])
      BY <2>1, <2>2, <2>3, <2>4
    <2>5. CASE ~Supersedes(r, q[n])
      <3>1. q[n] \in Requests
        OBVIOUS
      <3>2. q[n] \notin {q[i] : i \in 1..(n - 1)}
        BY DEF Distinct
      <3>3. k[n] = Append(before, q[n])
        BY <2>3, <2>5
      <3> HIDE DEF before, k
      <3>4. k[n] \in Seq(Requests) /\ InQueue(k[n]) = InQueue(before) \cup {q[n]}
        BY <2>1, <3>1, <3>3 DEF InQueue
      <3>5. Distinct(k[n])
        <4>1. \A i \in DOMAIN before : before[i] # q[n]
          BY <2>1, <3>2 DEF InQueue
        <4>2. SUFFICES ASSUME NEW i \in DOMAIN k[n], NEW j \in DOMAIN k[n],
                              k[n][i] = k[n][j]
                       PROVE  i = j
          BY DEF Distinct
        <4>3. /\ DOMAIN k[n] = DOMAIN before \cup {Len(before) + 1}
              /\ \A h \in DOMAIN before : k[n][h] = before[h]
              /\ k[n][Len(before) + 1] = q[n]
          BY <2>1, <3>1, <3>3
        <4>4. QED
          BY <2>1, <4>1, <4>2, <4>3 DEF Distinct
      <3>6. QED
        BY <2>1, <2>2, <2>5, <3>4, <3>5
    <2>6. QED
      BY <2>4, <2>5
  <1>3. 0..Len(q) \subseteq Good
    <2>1. \A n \in 1..Len(q) : n - 1 \in Good => n \in Good
      BY <1>2
    <2>2. Len(q) \in Nat
      OBVIOUS
    <2> HIDE DEF Good
    <2>3. QED
      BY <1>1, <2>1, <2>2, Prefixes
  <1>4. Len(q) \in Good
    <2>1. Len(q) \in 0..Len(q)
      OBVIOUS
    <2>2. QED
      BY <1>3, <2>1
  <1>5. {q[i] : i \in 1..Len(q)} = InQueue(q)
    BY DEF InQueue
  <1>6. QED
    BY <1>4, <1>5

\* An operation that is queued comes to what stays.
LEMMA QueuedHolds ==
  ASSUME NEW q \in Seq(Requests), NEW r \in Requests, Distinct(q), r \notin InQueue(q)
  PROVE  /\ Queued(q, r) \in Seq(Requests)
         /\ InQueue(Queued(q, r)) = {p \in InQueue(q) : ~Supersedes(r, p)} \cup {r}
         /\ Distinct(Queued(q, r))
         /\ Queued(q, r) # <<>>
  <1> DEFINE s == Kept(q, r)[Len(q)]
  <1>1. /\ s \in Seq(Requests)
        /\ InQueue(s) = {p \in InQueue(q) : ~Supersedes(r, p)}
        /\ Distinct(s)
    BY KeptStays
  <1>2. Queued(q, r) = Append(s, r)
    BY DEF Queued
  <1> HIDE DEF s
  <1>3. /\ Queued(q, r) \in Seq(Requests) /\ Queued(q, r) # <<>>
        /\ InQueue(Queued(q, r)) = InQueue(s) \cup {r}
    BY <1>1, <1>2 DEF InQueue
  <1>4. Distinct(Queued(q, r))
    BY <1>1, <1>2 DEF Distinct, InQueue
  <1>5. QED
    BY <1>1, <1>3, <1>4

\* Taking the first operation leaves the others.
LEMMA TailHolds ==
  ASSUME NEW q \in Seq(Requests), q # <<>>, Distinct(q)
  PROVE  /\ Head(q) \in Requests /\ Head(q) \in InQueue(q)
         /\ Tail(q) \in Seq(Requests)
         /\ InQueue(Tail(q)) = InQueue(q) \ {Head(q)}
         /\ Distinct(Tail(q))
  <1>1. /\ Len(q) \in Nat \ {0} /\ DOMAIN q = 1..Len(q) /\ Head(q) = q[1]
        /\ Tail(q) \in Seq(Requests) /\ DOMAIN Tail(q) = 1..(Len(q) - 1)
        /\ \A i \in 1..(Len(q) - 1) : Tail(q)[i] = q[i + 1]
    OBVIOUS
  <1>2. Head(q) \in Requests /\ Head(q) \in InQueue(q)
    BY <1>1 DEF InQueue
  <1>3. Distinct(Tail(q))
    BY <1>1 DEF Distinct
  <1>4. ASSUME NEW p \in InQueue(Tail(q))
        PROVE  p \in InQueue(q) \ {Head(q)}
    <2>1. PICK i \in 1..(Len(q) - 1) : p = q[i + 1]
      BY <1>1 DEF InQueue
    <2>2. i + 1 \in 1..Len(q) /\ 1 \in 1..Len(q) /\ i + 1 # 1
      BY <1>1
    <2>3. QED
      BY <1>1, <2>1, <2>2 DEF InQueue, Distinct
  <1>5. ASSUME NEW p \in InQueue(q), p # Head(q)
        PROVE  p \in InQueue(Tail(q))
    <2>1. PICK i \in 1..Len(q) : p = q[i]
      BY <1>1 DEF InQueue
    <2>2. i - 1 \in 1..(Len(q) - 1) /\ (i - 1) + 1 = i
      BY <1>1, <1>5, <2>1
    <2>3. QED
      BY <1>1, <2>1, <2>2 DEF InQueue
  <1>6. QED
    BY <1>1, <1>2, <1>3, <1>4, <1>5

(*--------------------------- what waits, and its threads ------------------------*)

\* Nothing waits twice, and what waits was asked for and has no thread yet.
QueueInv ==
    /\ Distinct(pending)
    /\ scheduled \notin InQueue(pending)
    /\ \A r \in Requests : Waiting(r) => thread[r] = "none"
    /\ \A r \in Requests : Waiting(r) \/ thread[r] # "none" => r \in asked

BInv == IInv /\ TypeOK /\ QueueInv

LEMMA WaitsSomewhere ==
  ASSUME NEW r PROVE Waiting(r) <=> scheduled = r \/ r \in InQueue(pending)
  BY DEF Waiting, InQueue

LEMMA WaitsSomewhereNext ==
  ASSUME NEW r PROVE Waiting(r)' <=> scheduled' = r \/ r \in InQueue(pending')
  BY DEF Waiting, InQueue

\* r comes to the queue q, without what it replaces.
Joins(q, r) ==
    /\ pending' \in Seq(Requests) /\ Distinct(pending')
    /\ InQueue(pending') = {p \in q : ~Supersedes(r, p)} \cup {r}

\* p leaves the queue for the single shot.
Taken(p) ==
    /\ scheduled = NoRequest /\ scheduled' = p
    /\ p \in InQueue(pending)
    /\ pending' \in Seq(Requests) /\ Distinct(pending')
    /\ InQueue(pending') = InQueue(pending) \ {p}

\* p goes to the end of the queue, as the single shot is taken.
SentBack(p) ==
    /\ scheduled # NoRequest /\ UNCHANGED scheduled
    /\ p \in InQueue(pending)
    /\ Joins(InQueue(pending) \ {p}, p)

\* A request is new; it joins the queue, or starts while nothing runs.
LEMMA RequestDoes ==
  ASSUME BInv, NEW r \in Requests, Request(r)
  PROVE  /\ ~closed /\ UNCHANGED <<closed, scheduled, lastWritten>>
         /\ r \notin asked /\ asked' = asked \cup {r}
         /\ ~Waiting(r) /\ r \notin InQueue(pending) /\ thread[r] = "none"
         /\ OperationRunning =>
               Joins(InQueue(pending), r) /\ UNCHANGED thread
         /\ ~OperationRunning =>
               /\ scheduled = NoRequest /\ UNCHANGED pending
               /\ \A s \in Requests : thread[s] # "running"
               /\ thread' = [thread EXCEPT ![r] = "running"]
  <1>1. /\ ~closed /\ UNCHANGED <<closed, scheduled, lastWritten>>
        /\ r \notin asked /\ asked' = asked \cup {r}
    BY DEF Request
  <1>2. ~Waiting(r) /\ thread[r] = "none"
    BY <1>1 DEF BInv, QueueInv
  <1>3. r \notin InQueue(pending)
    BY <1>2, WaitsSomewhere
  <1>4. ASSUME OperationRunning PROVE Joins(InQueue(pending), r) /\ UNCHANGED thread
    <2>1. pending' = Queued(pending, r) /\ UNCHANGED thread
      BY <1>4 DEF Request
    <2>2. pending \in Seq(Requests) /\ Distinct(pending)
      BY DEF BInv, TypeOK, QueueInv
    <2>3. QED
      BY <2>1, <2>2, <1>3, QueuedHolds DEF Joins
  <1>5. ASSUME ~OperationRunning
        PROVE  /\ scheduled = NoRequest /\ UNCHANGED pending
               /\ \A s \in Requests : thread[s] # "running"
               /\ thread' = [thread EXCEPT ![r] = "running"]
    <2>1. scheduled = NoRequest /\ ~(\E rt \in Runtimes : IsRunning(rt))
      BY <1>5 DEF OperationRunning
    <2>2. \A s \in Requests : thread[s] # "running"
      BY <2>1, <1>1, IdleMeansNoThread DEF BInv
    <2>3. QED
      BY <2>1, <2>2, <1>5 DEF Request, StartWorker
  <1>6. QED
    BY <1>1, <1>2, <1>3, <1>4, <1>5

\* The finish of a thread takes the first waiting operation for the single shot, or
\* sends it back, or leaves the queue alone.
LEMMA FinishDoes ==
  ASSUME BInv, NEW r \in Requests, FinishHandled(r)
  PROVE  /\ thread[r] = "finished" /\ thread' = [thread EXCEPT ![r] = "done"]
         /\ UNCHANGED <<history, closed>>
         /\ \/ UNCHANGED <<pending, scheduled>>
            \/ \E p \in Requests : Taken(p)
            \/ \E p \in Requests : SentBack(p)
  <1>1. /\ thread[r] = "finished" /\ thread' = [thread EXCEPT ![r] = "done"]
        /\ UNCHANGED <<history, closed>>
    BY DEF FinishHandled
  <1>2. \/ UNCHANGED <<pending, scheduled>>
        \/ \E p \in Requests : ScheduleNext(p)
    BY DEF FinishHandled, NoNext
  <1>3. ASSUME NEW p \in Requests, ScheduleNext(p)
        PROVE  Taken(p) \/ SentBack(p)
    <2>1. pending \in Seq(Requests) /\ Distinct(pending)
      BY DEF BInv, TypeOK, QueueInv
    <2>2. pending # <<>> /\ p = Head(pending)
      BY <1>3 DEF ScheduleNext
    <2>3. /\ p \in InQueue(pending) /\ Tail(pending) \in Seq(Requests)
          /\ Distinct(Tail(pending)) /\ InQueue(Tail(pending)) = InQueue(pending) \ {p}
      BY <2>1, <2>2, TailHolds
    <2>4. CASE scheduled = NoRequest
      BY <1>3, <2>3, <2>4 DEF ScheduleNext, Taken
    <2>5. CASE scheduled # NoRequest
      <3>1. pending' = Queued(Tail(pending), p) /\ UNCHANGED scheduled
        BY <1>3, <2>5 DEF ScheduleNext
      <3>2. Joins(InQueue(pending) \ {p}, p)
        BY <3>1, <2>3, QueuedHolds DEF Joins
      <3>3. QED
        BY <3>1, <3>2, <2>3, <2>5 DEF SentBack
    <2>6. QED
      BY <2>4, <2>5
  <1>4. QED
    BY <1>1, <1>2, <1>3

\* The single shot starts its operation while nothing runs, or sends it back.
LEMMA RunDoes ==
  ASSUME BInv, NEW r \in Requests, RunScheduled(r)
  PROVE  /\ scheduled = r /\ scheduled' = NoRequest
         /\ ~closed /\ UNCHANGED <<history, closed>>
         /\ r \notin InQueue(pending) /\ thread[r] = "none" /\ r \in asked
         /\ \/ Joins(InQueue(pending), r) /\ UNCHANGED thread
            \/ /\ UNCHANGED pending
               /\ \A s \in Requests : thread[s] # "running"
               /\ thread' = [thread EXCEPT ![r] = "running"]
  <1>1. scheduled = r /\ scheduled' = NoRequest /\ UNCHANGED <<history, closed>>
    BY DEF RunScheduled
  <1>2. ~closed
    BY <1>1, QueueAssumption DEF BInv, IInv, ClosedIsEmpty
  <1>3. Waiting(r) /\ r \notin InQueue(pending)
    BY <1>1 DEF BInv, QueueInv, Waiting
  <1>4. thread[r] = "none" /\ r \in asked
    BY <1>3 DEF BInv, QueueInv
  <1>5. CASE \E rt \in Runtimes : IsRunning(rt)
    <2>1. pending' = Queued(pending, r) /\ UNCHANGED thread
      BY <1>5 DEF RunScheduled
    <2>2. pending \in Seq(Requests) /\ Distinct(pending)
      BY DEF BInv, TypeOK, QueueInv
    <2>3. Joins(InQueue(pending), r)
      BY <2>1, <2>2, <1>3, QueuedHolds DEF Joins
    <2>4. QED
      BY <1>1, <1>2, <1>3, <1>4, <2>1, <2>3
  <1>6. CASE ~ \E rt \in Runtimes : IsRunning(rt)
    <2>1. \A s \in Requests : thread[s] # "running"
      BY <1>2, <1>6, IdleMeansNoThread DEF BInv
    <2>2. UNCHANGED pending /\ thread' = [thread EXCEPT ![r] = "running"]
      BY <1>6 DEF RunScheduled, StartWorker
    <2>3. QED
      BY <1>1, <1>2, <1>3, <1>4, <2>1, <2>2
  <1>7. QED
    BY <1>5, <1>6

LEMMA BInitHolds == Init => BInv
  <1> SUFFICES ASSUME Init PROVE BInv
    OBVIOUS
  <1>1. TypeOK
    <2>1. pending \in Seq(Requests)
      BY DEF Init
    <2>2. IInv
      BY InitHolds
    <2>3. asked \subseteq Requests /\ addEnabled \in BOOLEAN /\ overtook \in BOOLEAN
      BY DEF Init
    <2>4. /\ lastAsked \in [Keys -> Requests \cup {NoRequest}]
          /\ lastWritten \in [Keys -> Requests \cup {NoRequest}]
      BY DEF Init
    <2>5. QED
      BY <2>1, <2>2, <2>3, <2>4 DEF TypeOK, IInv, TypeInv, States
  <1>2. InQueue(pending) = {} /\ Distinct(pending) /\ scheduled = NoRequest
    BY DEF Init, InQueue, Distinct
  <1>3. \A r \in Requests : ~Waiting(r) /\ thread[r] = "none"
    BY <1>2, WaitsSomewhere, QueueAssumption DEF Init
  <1>4. QED
    BY <1>1, <1>2, <1>3, InitHolds DEF BInv, QueueInv

\* The types of what only the queue and the histories add.
LEMMA RestTyped ==
  ASSUME BInv, IInv',
         asked' \subseteq Requests, pending' \in Seq(Requests),
         addEnabled' \in BOOLEAN, overtook' \in BOOLEAN,
         lastAsked' \in [Keys -> Requests \cup {NoRequest}],
         lastWritten' \in [Keys -> Requests \cup {NoRequest}]
  PROVE  TypeOK'
  BY DEF TypeOK, IInv, TypeInv, States

LEMMA RequestTyped ==
  ASSUME BInv, NEW r \in Requests, Request(r)
  PROVE  TypeOK'
  <1>1. IInv'
    BY RequestHolds DEF BInv
  <1>2. /\ asked' \subseteq Requests
        /\ lastAsked' \in [Keys -> Requests \cup {NoRequest}]
        /\ lastWritten' \in [Keys -> Requests \cup {NoRequest}]
    BY DEF Request, BInv, TypeOK
  <1>3. overtook' \in BOOLEAN
    BY DEF Request, BInv, TypeOK
  <1>4. addEnabled' \in BOOLEAN
    BY DEF Request, StartWorker, BInv, TypeOK
  <1>5. pending' \in Seq(Requests)
    BY RequestDoes DEF Joins, BInv, TypeOK
  <1>6. QED
    BY <1>1, <1>2, <1>3, <1>4, <1>5, RestTyped

LEMMA ThreadEndsTyped ==
  ASSUME BInv, NEW r \in Requests, ThreadEnds(r)
  PROVE  TypeOK'
  <1>1. IInv'
    BY ThreadEndsHolds DEF BInv
  <1>2. lastWritten' \in [Keys -> Requests \cup {NoRequest}]
    BY DEF ThreadEnds, BInv, TypeOK
  <1>3. QED
    BY <1>1, <1>2, RestTyped DEF ThreadEnds, BInv, TypeOK

LEMMA FinishTyped ==
  ASSUME BInv, NEW r \in Requests, FinishHandled(r)
  PROVE  TypeOK'
  <1>1. IInv'
    BY FinishHandledHolds DEF BInv
  <1>2. pending' \in Seq(Requests)
    BY FinishDoes DEF Taken, SentBack, Joins, BInv, TypeOK
  <1>3. addEnabled' \in BOOLEAN
    BY DEF FinishHandled, NoNext, ScheduleNext, BInv, TypeOK
  <1>4. QED
    BY <1>1, <1>2, <1>3, RestTyped DEF FinishHandled, history, BInv, TypeOK

LEMMA RunTyped ==
  ASSUME BInv, NEW r \in Requests, RunScheduled(r)
  PROVE  TypeOK'
  <1>1. IInv'
    BY RunScheduledHolds DEF BInv
  <1>2. pending' \in Seq(Requests)
    BY RunDoes DEF Joins, BInv, TypeOK
  <1>3. addEnabled' \in BOOLEAN
    BY DEF RunScheduled, StartWorker, BInv, TypeOK
  <1>4. QED
    BY <1>1, <1>2, <1>3, RestTyped DEF RunScheduled, history, BInv, TypeOK

LEMMA RequestQueues ==
  ASSUME BInv, NEW r \in Requests, Request(r)
  PROVE  QueueInv'
  <1>1. CASE OperationRunning
    <2>1. /\ Joins(InQueue(pending), r) /\ UNCHANGED <<thread, scheduled>>
          /\ asked' = asked \cup {r} /\ ~Waiting(r) /\ thread[r] = "none"
      BY <1>1, RequestDoes
    <2>2. \A s \in Requests : Waiting(s)' => Waiting(s) \/ s = r
      BY <2>1, WaitsSomewhere, WaitsSomewhereNext DEF Joins
    <2>3. scheduled' \notin InQueue(pending')
      BY <2>1, WaitsSomewhere DEF Joins, BInv, QueueInv
    <2>4. QED
      BY <2>1, <2>2, <2>3 DEF Joins, BInv, QueueInv
  <1>2. CASE ~OperationRunning
    <2>1. /\ UNCHANGED <<pending, scheduled>> /\ thread' = [thread EXCEPT ![r] = "running"]
          /\ asked' = asked \cup {r} /\ ~Waiting(r)
      BY <1>2, RequestDoes
    <2>2. \A s \in Requests : Waiting(s)' => Waiting(s)
      BY <2>1 DEF Waiting
    <2>3. \A s \in Requests \ {r} : thread'[s] = thread[s]
      BY <2>1 DEF BInv, TypeOK
    <2>4. QED
      BY <2>1, <2>2, <2>3 DEF BInv, QueueInv
  <1>3. QED
    BY <1>1, <1>2

LEMMA ThreadEndsQueues ==
  ASSUME BInv, NEW r \in Requests, ThreadEnds(r)
  PROVE  QueueInv'
  <1>1. /\ thread[r] = "running" /\ UNCHANGED <<pending, scheduled, asked>>
        /\ \A s \in Requests \ {r} : thread'[s] = thread[s]
    BY DEF ThreadEnds, BInv, TypeOK
  <1>2. \A s \in Requests : Waiting(s)' = Waiting(s)
    BY <1>1 DEF Waiting
  <1>3. QED
    BY <1>1, <1>2 DEF BInv, QueueInv

LEMMA FinishQueues ==
  ASSUME BInv, NEW r \in Requests, FinishHandled(r)
  PROVE  QueueInv'
  <1>1. /\ thread[r] = "finished" /\ UNCHANGED asked
        /\ \A s \in Requests \ {r} : thread'[s] = thread[s]
    BY FinishDoes DEF history, BInv, TypeOK
  <1>2. ASSUME Distinct(pending'), scheduled' \notin InQueue(pending'),
               \A s \in Requests : Waiting(s)' => Waiting(s)
        PROVE  QueueInv'
    BY <1>1, <1>2 DEF BInv, QueueInv
  <1>3. CASE UNCHANGED <<pending, scheduled>>
    BY <1>2, <1>3 DEF Waiting, BInv, QueueInv
  <1>4. ASSUME NEW p \in Requests, Taken(p) PROVE QueueInv'
    BY <1>2, <1>4, WaitsSomewhere, WaitsSomewhereNext DEF Taken
  <1>5. ASSUME NEW p \in Requests, SentBack(p) PROVE QueueInv'
    BY <1>2, <1>5, WaitsSomewhere, WaitsSomewhereNext DEF SentBack, Joins, BInv, QueueInv
  <1>6. QED
    BY <1>3, <1>4, <1>5, FinishDoes

LEMMA RunQueues ==
  ASSUME BInv, NEW r \in Requests, RunScheduled(r)
  PROVE  QueueInv'
  <1>1. /\ scheduled = r /\ scheduled' = NoRequest /\ UNCHANGED asked
        /\ r \notin InQueue(pending) /\ r \in asked /\ Waiting(r)
        /\ pending \in Seq(Requests) /\ Distinct(pending)
    BY RunDoes DEF history, Waiting, BInv, TypeOK, QueueInv
  <1>2. CASE Joins(InQueue(pending), r) /\ UNCHANGED thread
    <2>1. pending' \in Seq(Requests)
      BY <1>2 DEF Joins
    <2>2. NoRequest \notin InQueue(pending')
      BY <2>1, QueueAssumption DEF InQueue
    <2>3. \A s \in Requests : Waiting(s)' => Waiting(s)
      BY <1>1, <1>2, <2>2, QueueAssumption, WaitsSomewhere, WaitsSomewhereNext DEF Joins
    <2>4. QED
      BY <1>1, <1>2, <2>2, <2>3 DEF Joins, BInv, QueueInv
  <1>3. CASE UNCHANGED pending /\ thread' = [thread EXCEPT ![r] = "running"]
    <2>1. NoRequest \notin InQueue(pending')
      BY <1>1, <1>3, QueueAssumption DEF InQueue
    <2>2. \A s \in Requests : Waiting(s)' => Waiting(s) /\ s # r
      BY <1>1, <1>3, QueueAssumption, WaitsSomewhere, WaitsSomewhereNext
    <2>3. \A s \in Requests \ {r} : thread'[s] = thread[s]
      BY <1>3 DEF BInv, TypeOK
    <2>4. QED
      BY <1>1, <1>3, <2>1, <2>2, <2>3 DEF BInv, QueueInv
  <1>4. QED
    BY <1>2, <1>3, RunDoes

LEMMA BNextHolds ==
  ASSUME BInv, [Next]_vars
  PROVE  BInv'
  <1>1. CASE Cleanup
    <2>1. IInv'
      BY <1>1, CleanupHolds DEF BInv
    <2>2. TypeOK'
      BY <1>1, <2>1, RestTyped DEF Cleanup, history, BInv, TypeOK
    <2>3. QueueInv'
      BY <1>1, QueueAssumption
      DEF Cleanup, history, BInv, QueueInv, Distinct, InQueue, Waiting
    <2>4. QED
      BY <2>1, <2>2, <2>3 DEF BInv
  <1>2. ASSUME NEW r \in Requests, Request(r) PROVE BInv'
    BY <1>2, RequestHolds, RequestTyped, RequestQueues DEF BInv
  <1>3. ASSUME NEW r \in Requests, ThreadEnds(r) PROVE BInv'
    BY <1>3, ThreadEndsHolds, ThreadEndsTyped, ThreadEndsQueues DEF BInv
  <1>4. ASSUME NEW r \in Requests, FinishHandled(r) PROVE BInv'
    BY <1>4, FinishHandledHolds, FinishTyped, FinishQueues DEF BInv
  <1>5. ASSUME NEW r \in Requests, RunScheduled(r) PROVE BInv'
    BY <1>5, RunScheduledHolds, RunTyped, RunQueues DEF BInv
  <1>6. CASE UNCHANGED vars
    <2>1. IInv'
      BY <1>6, NextHolds DEF BInv
    <2>2. TypeOK'
      BY <1>6 DEF vars, BInv, TypeOK
    <2>3. QueueInv'
      BY <1>6 DEF vars, BInv, QueueInv, Distinct, InQueue, Waiting
    <2>4. QED
      BY <2>1, <2>2, <2>3 DEF BInv
  <1>7. QED
    BY <1>1, <1>2, <1>3, <1>4, <1>5, <1>6 DEF Next

LEMMA BInvAlways == Spec => []BInv
  BY BInitHolds, BNextHolds, PTL DEF Spec

\* The queue, the scheduled write, the runtimes and the threads hold values the code
\* gives them: in particular filtering a queue gives a queue.
THEOREM TypeCorrect == Spec => []TypeOK
  <1>1. BInv => TypeOK
    BY DEF BInv
  <1>2. QED
    BY <1>1, BInvAlways, PTL

(*-------------------------------- the latest state ------------------------------*)

\* The operations that work on the preset, are about to, or have just done so.
Active == {r \in Requests : scheduled = r \/ thread[r] \in {"running", "finished"}}

OneActive == \A r, s \in Active : r = s

\* The last request of key k waits, is about to run, runs, or was the last to write;
\* whatever else of that key is still to write has it waiting behind.
KeyInv(k) ==
    /\ lastAsked[k] # NoRequest => KeyOf[lastAsked[k]] = k
    /\ \A r \in InQueue(pending) : KeyOf[r] = k => r = lastAsked[k]
    /\ \A r \in Requests :
          (scheduled = r \/ thread[r] = "running") /\ KeyOf[r] = k =>
              r = lastAsked[k] \/ lastAsked[k] \in InQueue(pending)
    /\ \/ lastAsked[k] \in InQueue(pending)
       \/ lastAsked[k] \in Requests /\ lastAsked[k] = scheduled
       \/ lastAsked[k] \in Requests /\ thread[lastAsked[k]] = "running"
       \/ lastWritten[k] = lastAsked[k]

LatestInv == ~overtook /\ ~closed => OneActive /\ \A k \in Keys : KeyInv(k)

\* While a write waits in an open page something is active.
LEMMA WaitingMeansActive ==
  ASSUME BInv, pending # <<>>
  PROVE  \E r \in Requests : r \in Active
  BY QueueAssumption DEF BInv, TypeOK, IInv, NothingStranded, Active

LEMMA RequestLatest ==
  ASSUME BInv, LatestInv, NEW r \in Requests, Request(r)
  PROVE  LatestInv'
  <1>1. SUFFICES ASSUME ~overtook'
                 PROVE  OneActive' /\ \A k \in Keys : KeyInv(k)'
    BY DEF LatestInv
  <1>2. ~overtook /\ \A s \in Requests : thread[s] # "finished"
    BY <1>1 DEF Request
  <1>3. /\ ~closed /\ UNCHANGED <<scheduled, lastWritten>>
        /\ r \notin InQueue(pending) /\ thread[r] = "none"
    BY RequestDoes
  <1>4. OneActive /\ \A k \in Keys : KeyInv(k)
    BY <1>2, <1>3 DEF LatestInv
  <1>5. \A k \in Keys : lastAsked'[k] = IF k = KeyOf[r] THEN r ELSE lastAsked[k]
    BY DEF Request
  <1>6. CASE OperationRunning
    <2>1. /\ UNCHANGED thread
          /\ InQueue(pending') = {p \in InQueue(pending) : ~Supersedes(r, p)} \cup {r}
      BY <1>6, RequestDoes DEF Joins
    <2>2. OneActive'
      BY <1>3, <1>4, <2>1 DEF OneActive, Active
    <2>3. ASSUME NEW k \in Keys, k = KeyOf[r] PROVE KeyInv(k)'
      <3>1. lastAsked'[k] = r /\ r \in InQueue(pending')
        BY <1>5, <2>1, <2>3
      <3>2. \A s \in InQueue(pending') : KeyOf[s] = k => s = r
        BY <2>1, <2>3, QueueAssumption DEF Supersedes
      <3>3. QED
        BY <3>1, <3>2, <2>3 DEF KeyInv
    <2>4. ASSUME NEW k \in Keys, k # KeyOf[r] PROVE KeyInv(k)'
      <3>1. lastAsked'[k] = lastAsked[k] /\ lastWritten'[k] = lastWritten[k] /\ KeyInv(k)
        BY <1>3, <1>4, <1>5, <2>4
      <3>2. \A s \in InQueue(pending') : KeyOf[s] = k => s \in InQueue(pending)
        BY <2>1, <2>4
      <3>3. lastAsked[k] \in InQueue(pending) => lastAsked[k] \in InQueue(pending')
        <4>1. SUFFICES ASSUME lastAsked[k] \in InQueue(pending)
                       PROVE  ~Supersedes(r, lastAsked[k])
          BY <2>1
        <4>2. lastAsked[k] # NoRequest
          BY <4>1, QueueAssumption DEF BInv, TypeOK, InQueue
        <4>3. QED
          BY <3>1, <4>2, <2>4 DEF KeyInv, Supersedes
      <3>4. QED
        BY <3>1, <3>2, <3>3, <1>3, <2>1 DEF KeyInv
    <2>5. QED
      BY <2>2, <2>3, <2>4
  <1>7. CASE ~OperationRunning
    <2>1. /\ scheduled = NoRequest /\ UNCHANGED pending
          /\ \A s \in Requests : thread[s] # "running"
          /\ thread' = [thread EXCEPT ![r] = "running"]
      BY <1>7, RequestDoes
    <2>2. thread'[r] = "running" /\ \A s \in Requests \ {r} : thread'[s] = thread[s]
      BY <2>1 DEF BInv, TypeOK
    <2>3. \A s \in Requests : s \notin Active
      BY <2>1, <1>2, QueueAssumption DEF Active
    <2>4. pending = <<>> /\ InQueue(pending') = {}
      BY <2>1, <2>3, WaitingMeansActive DEF InQueue
    <2>5. OneActive'
      BY <1>2, <1>3, <2>1, <2>2, QueueAssumption DEF OneActive, Active
    <2>6. ASSUME NEW k \in Keys, k = KeyOf[r] PROVE KeyInv(k)'
      <3>1. lastAsked'[k] = r
        BY <1>5, <2>6
      <3>2. \A s \in Requests : scheduled' = s \/ thread'[s] = "running" => s = r
        BY <1>3, <2>1, <2>2, QueueAssumption
      <3>3. QED
        BY <3>1, <3>2, <2>2, <2>4, <2>6 DEF KeyInv
    <2>7. ASSUME NEW k \in Keys, k # KeyOf[r] PROVE KeyInv(k)'
      <3>1. lastAsked'[k] = lastAsked[k] /\ lastWritten'[k] = lastWritten[k] /\ KeyInv(k)
        BY <1>3, <1>4, <1>5, <2>7
      <3>2. \A s \in Requests : scheduled' = s \/ thread'[s] = "running" => s = r
        BY <1>3, <2>1, <2>2, QueueAssumption
      <3>3. lastWritten[k] = lastAsked[k]
        BY <3>1, <2>1, <2>4, QueueAssumption DEF KeyInv
      <3>4. QED
        BY <3>1, <3>2, <3>3, <2>4, <2>7 DEF KeyInv
    <2>8. QED
      BY <2>5, <2>6, <2>7
  <1>8. QED
    BY <1>6, <1>7

LEMMA ThreadEndsLatest ==
  ASSUME BInv, LatestInv, NEW r \in Requests, ThreadEnds(r)
  PROVE  LatestInv'
  <1>1. SUFFICES ASSUME ~overtook, ~closed, OneActive, \A k \in Keys : KeyInv(k)
                 PROVE  OneActive' /\ \A k \in Keys : KeyInv(k)'
    BY DEF LatestInv, ThreadEnds
  <1>2. /\ thread[r] = "running" /\ thread'[r] = "finished"
        /\ \A s \in Requests \ {r} : thread'[s] = thread[s]
        /\ UNCHANGED <<pending, scheduled, lastAsked>>
        /\ \A k \in Keys : lastWritten'[k] = IF k = KeyOf[r] THEN r ELSE lastWritten[k]
    BY DEF ThreadEnds, BInv, TypeOK
  <1>3. OneActive'
    BY <1>1, <1>2 DEF OneActive, Active
  <1>4. ASSUME NEW k \in Keys PROVE KeyInv(k)'
    <2>1. KeyInv(k)
      BY <1>1
    <2>2. /\ lastAsked' = lastAsked /\ pending' = pending /\ scheduled' = scheduled
          /\ \A s \in Requests : thread'[s] = "running" => thread[s] = "running"
      BY <1>2
    <2>3. \/ lastAsked[k] \in InQueue(pending)
          \/ lastAsked[k] \in Requests /\ lastAsked[k] = scheduled
          \/ lastAsked[k] \in Requests /\ thread'[lastAsked[k]] = "running"
          \/ lastWritten'[k] = lastAsked[k]
      <3>1. CASE k = KeyOf[r]
        BY <3>1, <2>1, <1>2 DEF KeyInv
      <3>2. CASE k # KeyOf[r]
        <4>1. lastWritten'[k] = lastWritten[k]
          BY <1>2, <3>2
        <4>2. lastAsked[k] \in Requests => lastAsked[k] # r
          BY <2>1, <3>2, QueueAssumption DEF KeyInv
        <4>3. QED
          BY <4>1, <4>2, <2>1, <1>2 DEF KeyInv
      <3>3. QED
        BY <3>1, <3>2
    <2>4. QED
      BY <2>1, <2>2, <2>3 DEF KeyInv
  <1>5. QED
    BY <1>3, <1>4

LEMMA FinishLatest ==
  ASSUME BInv, LatestInv, NEW r \in Requests, FinishHandled(r)
  PROVE  LatestInv'
  <1>1. SUFFICES ASSUME ~overtook, ~closed, OneActive, \A k \in Keys : KeyInv(k)
                 PROVE  OneActive' /\ \A k \in Keys : KeyInv(k)'
    BY DEF LatestInv, FinishHandled, history
  <1>2. /\ thread[r] = "finished" /\ thread'[r] = "done"
        /\ \A s \in Requests \ {r} : thread'[s] = thread[s]
        /\ UNCHANGED <<lastAsked, lastWritten>>
    BY FinishDoes DEF history, BInv, TypeOK
  <1>3. \A s \in Requests : s \in Active => s = r
    BY <1>1, <1>2 DEF OneActive, Active
  <1>4. scheduled = NoRequest /\ \A s \in Requests : thread'[s] \notin {"running", "finished"}
    BY <1>2, <1>3 DEF Active, BInv, TypeOK, QueueInv, Waiting
  <1>5. \A k \in Keys : lastAsked[k] \in Requests => thread[lastAsked[k]] # "running"
    BY <1>2, <1>3 DEF Active
  <1>6. CASE UNCHANGED <<pending, scheduled>>
    <2>1. OneActive'
      BY <1>4, <1>6, QueueAssumption DEF OneActive, Active
    <2>2. ASSUME NEW k \in Keys PROVE KeyInv(k)'
      <3>1. KeyInv(k)
        BY <1>1
      <3>2. QED
        BY <3>1, <1>2, <1>4, <1>5, <1>6, QueueAssumption DEF KeyInv
    <2>3. QED
      BY <2>1, <2>2
  <1>7. ASSUME NEW p \in Requests, Taken(p)
        PROVE  OneActive' /\ \A k \in Keys : KeyInv(k)'
    <2>1. scheduled' = p /\ p \in InQueue(pending) /\ InQueue(pending') = InQueue(pending) \ {p}
      BY <1>7 DEF Taken
    <2>2. OneActive'
      BY <1>4, <2>1 DEF OneActive, Active
    <2>3. ASSUME NEW k \in Keys PROVE KeyInv(k)'
      <3>1. KeyInv(k)
        BY <1>1
      <3>2. \A s \in Requests : scheduled' = s \/ thread'[s] = "running" => s = p
        BY <1>4, <2>1
      <3>3. KeyOf[p] = k => p = lastAsked[k]
        BY <3>1, <2>1 DEF KeyInv
      <3>4. QED
        BY <3>1, <3>2, <3>3, <1>2, <1>4, <1>5, <2>1, QueueAssumption DEF KeyInv
    <2>4. QED
      BY <2>2, <2>3
  <1>8. ~ \E p \in Requests : SentBack(p)
    BY <1>4 DEF SentBack
  <1>9. QED
    BY <1>6, <1>7, <1>8, FinishDoes

LEMMA RunLatest ==
  ASSUME BInv, LatestInv, NEW r \in Requests, RunScheduled(r)
  PROVE  LatestInv'
  <1>1. SUFFICES ASSUME ~overtook, ~closed, OneActive, \A k \in Keys : KeyInv(k)
                 PROVE  OneActive' /\ \A k \in Keys : KeyInv(k)'
    BY DEF LatestInv, RunScheduled, history
  <1>2. /\ scheduled = r /\ scheduled' = NoRequest /\ thread[r] = "none"
        /\ UNCHANGED <<lastAsked, lastWritten>>
    BY RunDoes DEF history
  <1>3. \A s \in Requests : thread[s] \notin {"running", "finished"}
    BY <1>1, <1>2 DEF OneActive, Active
  <1>4. UNCHANGED pending /\ thread' = [thread EXCEPT ![r] = "running"]
    <2>1. ~ \E rt \in Runtimes : IsRunning(rt)
      BY <1>3 DEF IsRunning
    <2>2. QED
      BY <2>1 DEF RunScheduled, StartWorker
  <1>5. thread'[r] = "running" /\ \A s \in Requests \ {r} : thread'[s] = thread[s]
    BY <1>4 DEF BInv, TypeOK
  <1>6. OneActive'
    BY <1>2, <1>3, <1>5, QueueAssumption DEF OneActive, Active
  <1>7. ASSUME NEW k \in Keys PROVE KeyInv(k)'
    <2>1. KeyInv(k)
      BY <1>1
    <2>2. \A s \in Requests : scheduled' = s \/ thread'[s] = "running" => s = r
      BY <1>2, <1>3, <1>5, QueueAssumption
    <2>3. QED
      BY <2>1, <2>2, <1>2, <1>3, <1>4, <1>5 DEF KeyInv
  <1>8. QED
    BY <1>6, <1>7

LEMMA LatestNext ==
  ASSUME BInv, LatestInv, [Next]_vars
  PROVE  LatestInv'
  <1>1. CASE Cleanup
    BY <1>1 DEF Cleanup, LatestInv
  <1>2. CASE \E r \in Requests :
                 Request(r) \/ ThreadEnds(r) \/ FinishHandled(r) \/ RunScheduled(r)
    BY <1>2, RequestLatest, ThreadEndsLatest, FinishLatest, RunLatest
  <1>3. CASE UNCHANGED vars
    BY <1>3 DEF vars, LatestInv, OneActive, Active, KeyInv
  <1>4. QED
    BY <1>1, <1>2, <1>3 DEF Next

LEMMA LatestInit == Init => LatestInv
  BY QueueAssumption DEF Init, LatestInv, OneActive, Active, KeyInv, InQueue

LEMMA LatestIsKept ==
  ASSUME BInv, LatestInv
  PROVE  LatestUnlessOvertaken
  <1>1. SUFFICES ASSUME ~overtook, ~closed,
                        \A r \in Requests : ~Waiting(r) /\ thread[r] # "running"
                 PROVE  lastWritten = lastAsked
    BY DEF LatestUnlessOvertaken, LatestStateKept, Quiet
  <1>2. ASSUME NEW k \in Keys PROVE lastWritten[k] = lastAsked[k]
    <2>1. KeyInv(k)
      BY <1>1 DEF LatestInv
    <2>2. lastAsked[k] \notin InQueue(pending)
      <3>1. InQueue(pending) \subseteq Requests
        BY DEF BInv, TypeOK, InQueue
      <3>2. QED
        BY <1>1, <3>1, WaitsSomewhere
    <2>3. QED
      BY <2>1, <2>2, <1>1, WaitsSomewhere DEF KeyInv
  <1>3. QED
    BY <1>2 DEF BInv, TypeOK

\* When nothing waits and nothing writes, the last write of every key is the last
\* request of that key, as long as no request came between the end of a thread and
\* the handling of its finish: the finding that it may be overtaken otherwise is the
\* only way to lose the latest state.
THEOREM LatestIsWritten == Spec => []LatestUnlessOvertaken
  <1>1. Spec => []LatestInv
    <2>1. BInv /\ LatestInv /\ [Next]_vars => LatestInv'
      BY LatestNext
    <2>2. QED
      BY <2>1, LatestInit, BInvAlways, PTL DEF Spec
  <1>2. BInv /\ LatestInv => LatestUnlessOvertaken
    BY LatestIsKept
  <1>3. QED
    BY <1>1, <1>2, BInvAlways, PTL

(*------------------------------ the serial writer ------------------------------*)

LEMMA PhaseIs ==
  ASSUME BInv, NEW q \in Requests
  PROVE  /\ PhaseOf(q) = "writing" <=> thread[q] = "running"
         /\ PhaseOf(q) = "waiting" <=> Waiting(q)
         /\ PhaseOf(q) = "new" <=> q \notin asked
  BY DEF BInv, TypeOK, QueueInv, PhaseOf

\* A step that changes nothing of an operation that matters here leaves its phase.
LEMMA PhaseStays ==
  ASSUME NEW q, UNCHANGED asked, Waiting(q)' <=> Waiting(q),
         \/ thread'[q] = thread[q]
         \/ thread[q] = "finished" /\ thread'[q] = "done"
  PROVE  PhaseOf(q)' = PhaseOf(q)
  BY DEF PhaseOf

LEMMA RequestSerial ==
  ASSUME BInv, NEW r \in Requests, Request(r)
  PROVE  Serial!Ask(r) \/ Serial!Begin(r)
  <1>1. /\ ~closed /\ UNCHANGED <<closed, scheduled>>
        /\ r \notin asked /\ asked' = asked \cup {r}
        /\ ~Waiting(r) /\ r \notin InQueue(pending) /\ thread[r] = "none"
    BY RequestDoes
  <1>2. PhaseOf(r) = "new"
    BY <1>1, PhaseIs
  <1>3. CASE OperationRunning
    <2> DEFINE D == {q \in Requests : q \in InQueue(pending) /\ Supersedes(r, q)}
    <2>1. Joins(InQueue(pending), r) /\ UNCHANGED thread
      BY <1>3, RequestDoes
    <2>2. ASSUME NEW q \in D
          PROVE  Waiting(q) /\ ~Waiting(q)' /\ thread[q] = "none" /\ q \in asked /\ q # r
      <3>1. q # r /\ Waiting(q)
        BY <1>1, WaitsSomewhere
      <3>2. ~Waiting(q)'
        BY <3>1, <2>1, <1>1, WaitsSomewhereNext DEF Joins, BInv, QueueInv
      <3>3. QED
        BY <3>1, <3>2 DEF BInv, QueueInv
    <2>3. \A q \in D : PhaseOf(q) = "waiting" /\ PhaseOf(q)' = "dropped"
      <3>1. ASSUME NEW q \in D PROVE PhaseOf(q) = "waiting"
        BY <2>2, PhaseIs
      <3>2. ASSUME NEW q \in D PROVE PhaseOf(q)' = "dropped"
        BY <2>1, <2>2, <1>1 DEF PhaseOf
      <3>3. QED
        BY <3>1, <3>2
    <2>4. PhaseOf(r)' = "waiting"
      BY <2>1, <1>1, WaitsSomewhereNext DEF PhaseOf, Joins
    <2>5. ASSUME NEW q \in Requests \ D, q # r
          PROVE  PhaseOf(q)' = PhaseOf(q)
      <3>1. Waiting(q)' <=> Waiting(q)
        BY <2>1, <2>5, <1>1, WaitsSomewhere, WaitsSomewhereNext DEF Joins
      <3>2. (q \in asked') <=> (q \in asked)
        BY <1>1, <2>5
      <3>3. QED
        BY <3>1, <3>2, <2>1 DEF PhaseOf
    <2>6. Serial!Ask(r)
      <3> HIDE DEF D
      <3>1. D \subseteq Requests
        BY DEF D
      <3>2. \A q \in D : Supersedes(r, q)
        BY DEF D
      <3>3. D \in SUBSET {q \in Requests : PhaseOf(q) = "waiting" /\ Supersedes(r, q)}
        BY <2>3, <3>1, <3>2
      <3>4. [q \in Requests |-> PhaseOf(q)]'
              = [q \in Requests |-> IF q = r THEN "waiting"
                                    ELSE IF q \in D THEN "dropped" ELSE PhaseOf(q)]
        BY <2>3, <2>4, <2>5, <3>1
      <3>5. QED
        BY <3>3, <3>4, <1>1, <1>2 DEF Serial!Ask
    <2>7. QED
      BY <2>6
  <1>4. CASE ~OperationRunning
    <2>1. /\ UNCHANGED pending /\ \A s \in Requests : thread[s] # "running"
          /\ thread' = [thread EXCEPT ![r] = "running"]
      BY <1>4, RequestDoes
    <2>2. thread'[r] = "running" /\ \A s \in Requests \ {r} : thread'[s] = thread[s]
      BY <2>1 DEF BInv, TypeOK
    <2>3. ASSUME NEW q \in Requests, q # r PROVE PhaseOf(q)' = PhaseOf(q)
      <3>1. Waiting(q)' <=> Waiting(q)
        BY <2>1, <1>1 DEF Waiting
      <3>2. (q \in asked') <=> (q \in asked)
        BY <1>1, <2>3
      <3>3. QED
        BY <3>1, <3>2, <2>2, <2>3 DEF PhaseOf
    <2>4. PhaseOf(r)' = "writing"
      BY <2>2 DEF PhaseOf
    <2>5. Serial!Idle
      BY <2>1, PhaseIs DEF Serial!Idle
    <2>6. [q \in Requests |-> PhaseOf(q)]'
              = [[q \in Requests |-> PhaseOf(q)] EXCEPT ![r] = "writing"]
      BY <2>3, <2>4
    <2>7. QED
      BY <2>5, <2>6, <1>1, <1>2 DEF Serial!Begin
  <1>5. QED
    BY <1>3, <1>4

LEMMA ThreadEndsSerial ==
  ASSUME BInv, NEW r \in Requests, ThreadEnds(r)
  PROVE  Serial!End(r)
  <1>1. /\ thread[r] = "running" /\ thread'[r] = "finished"
        /\ \A s \in Requests \ {r} : thread'[s] = thread[s]
        /\ UNCHANGED <<pending, scheduled, asked, closed>>
    BY DEF ThreadEnds, BInv, TypeOK
  <1>2. ASSUME NEW q \in Requests, q # r PROVE PhaseOf(q)' = PhaseOf(q)
    <2>1. Waiting(q)' <=> Waiting(q)
      BY <1>1 DEF Waiting
    <2>2. QED
      BY <2>1, <1>1, <1>2, PhaseStays
  <1>3. PhaseOf(r) = "writing" /\ PhaseOf(r)' = "done"
    BY <1>1 DEF PhaseOf
  <1>4. [q \in Requests |-> PhaseOf(q)]'
            = [[q \in Requests |-> PhaseOf(q)] EXCEPT ![r] = "done"]
    BY <1>2, <1>3
  <1>5. QED
    BY <1>1, <1>3, <1>4 DEF Serial!End

\* p is sent back: what it replaces is dropped in its favour, and it waits on.
LEMMA SentBackDrops ==
  ASSUME BInv, NEW p \in Requests, Waiting(p),
         Joins(InQueue(pending) \ {p}, p),
         UNCHANGED <<asked, closed>>,
         \A q \in Requests : \/ thread'[q] = thread[q]
                             \/ thread[q] = "finished" /\ thread'[q] = "done",
         \A q \in Requests \ {p} : scheduled' = q <=> scheduled = q
  PROVE  Serial!Drop(p)
  <1> DEFINE D == {q \in Requests \ {p} : q \in InQueue(pending) /\ Supersedes(p, q)}
  <1>1. ASSUME NEW q \in D PROVE PhaseOf(q) = "waiting" /\ PhaseOf(q)' = "dropped"
    <2>1. Waiting(q) /\ scheduled # q
      BY WaitsSomewhere DEF BInv, QueueInv
    <2>2. ~Waiting(q)'
      BY <2>1, WaitsSomewhereNext DEF Joins
    <2>3. thread[q] = "none" /\ q \in asked
      BY <2>1 DEF BInv, QueueInv
    <2>4. thread'[q] = "none"
      BY <2>3
    <2>5. PhaseOf(q)' = "dropped"
      BY <2>2, <2>3, <2>4 DEF PhaseOf
    <2>6. QED
      BY <2>1, <2>5, PhaseIs
  <1>2. ASSUME NEW q \in Requests \ D PROVE PhaseOf(q)' = PhaseOf(q)
    <2>1. CASE q = p
      <3>1. Waiting(p)'
        BY WaitsSomewhereNext DEF Joins
      <3>2. QED
        BY <2>1, <3>1, PhaseStays
    <2>2. CASE q # p
      <3>1. Waiting(q)' <=> Waiting(q)
        BY <2>2, <1>2, WaitsSomewhere, WaitsSomewhereNext DEF Joins
      <3>2. QED
        BY <3>1, PhaseStays
    <2>3. QED
      BY <2>1, <2>2
  <1>3. D \subseteq Requests \ {p} /\ \A q \in D : Supersedes(p, q)
    OBVIOUS
  <1> HIDE DEF D
  <1>4. D \in SUBSET {q \in Requests \ {p} : PhaseOf(q) = "waiting" /\ Supersedes(p, q)}
    BY <1>1, <1>3
  <1>5. [q \in Requests |-> PhaseOf(q)]'
            = [q \in Requests |-> IF q \in D THEN "dropped" ELSE PhaseOf(q)]
    BY <1>1, <1>2
  <1>6. PhaseOf(p) = "waiting"
    BY PhaseIs
  <1>7. QED
    BY <1>4, <1>5, <1>6 DEF Serial!Drop

LEMMA FinishSerial ==
  ASSUME BInv, NEW r \in Requests, FinishHandled(r)
  PROVE  \/ \E p \in Requests : Serial!Drop(p)
         \/ UNCHANGED Serial!progress
  <1>1. /\ thread[r] = "finished" /\ thread'[r] = "done"
        /\ \A s \in Requests \ {r} : thread'[s] = thread[s]
        /\ UNCHANGED <<asked, closed>>
    BY FinishDoes DEF history, BInv, TypeOK
  <1>2. \A q \in Requests : \/ thread'[q] = thread[q]
                            \/ thread[q] = "finished" /\ thread'[q] = "done"
    BY <1>1
  <1>3. ASSUME \A q \in Requests : Waiting(q)' <=> Waiting(q)
        PROVE  UNCHANGED Serial!progress
    <2>1. \A q \in Requests : PhaseOf(q)' = PhaseOf(q)
      BY <1>1, <1>2, <1>3, PhaseStays
    <2>2. QED
      BY <1>1, <2>1 DEF Serial!progress
  <1>4. CASE UNCHANGED <<pending, scheduled>>
    <2>1. \A q \in Requests : Waiting(q)' <=> Waiting(q)
      BY <1>4 DEF Waiting
    <2>2. QED
      BY <2>1, <1>3
  <1>5. ASSUME NEW p \in Requests, Taken(p)
        PROVE  UNCHANGED Serial!progress
    <2>1. \A q \in Requests : Waiting(q)' <=> Waiting(q)
      BY <1>5, QueueAssumption, WaitsSomewhere, WaitsSomewhereNext DEF Taken
    <2>2. QED
      BY <2>1, <1>3
  <1>6. ASSUME NEW p \in Requests, SentBack(p)
        PROVE  Serial!Drop(p)
    <2>1. Waiting(p)
      BY <1>6, WaitsSomewhere DEF SentBack
    <2>2. QED
      BY <1>1, <1>2, <1>6, <2>1, SentBackDrops DEF SentBack
  <1>7. QED
    BY <1>4, <1>5, <1>6, FinishDoes

LEMMA RunSerial ==
  ASSUME BInv, NEW r \in Requests, RunScheduled(r)
  PROVE  Serial!Drop(r) \/ Serial!Begin(r)
  <1>1. /\ scheduled = r /\ scheduled' = NoRequest /\ Waiting(r)
        /\ ~closed /\ UNCHANGED <<asked, closed>>
        /\ r \notin InQueue(pending) /\ thread[r] = "none" /\ r \in asked
    BY RunDoes DEF history, Waiting
  <1>2. PhaseOf(r) = "waiting"
    BY <1>1, PhaseIs
  <1>3. CASE Joins(InQueue(pending), r) /\ UNCHANGED thread
    <2>1. InQueue(pending) \ {r} = InQueue(pending)
      BY <1>1
    <2>2. \A q \in Requests \ {r} : scheduled' = q <=> scheduled = q
      BY <1>1, QueueAssumption
    <2>3. QED
      BY <1>1, <1>3, <2>1, <2>2, SentBackDrops
  <1>4. CASE /\ UNCHANGED pending
             /\ \A s \in Requests : thread[s] # "running"
             /\ thread' = [thread EXCEPT ![r] = "running"]
    <2>1. thread'[r] = "running" /\ \A s \in Requests \ {r} : thread'[s] = thread[s]
      BY <1>4 DEF BInv, TypeOK
    <2>2. ASSUME NEW q \in Requests, q # r PROVE PhaseOf(q)' = PhaseOf(q)
      <3>1. Waiting(q)' <=> Waiting(q)
        BY <1>1, <1>4, <2>2, QueueAssumption DEF Waiting
      <3>2. QED
        BY <3>1, <1>1, <2>1, <2>2, PhaseStays
    <2>3. PhaseOf(r)' = "writing"
      BY <2>1 DEF PhaseOf
    <2>4. Serial!Idle
      BY <1>4, PhaseIs DEF Serial!Idle
    <2>5. [q \in Requests |-> PhaseOf(q)]'
              = [[q \in Requests |-> PhaseOf(q)] EXCEPT ![r] = "writing"]
      BY <2>2, <2>3
    <2>6. QED
      BY <2>4, <2>5, <1>1, <1>2 DEF Serial!Begin
  <1>5. QED
    BY <1>3, <1>4, RunDoes

LEMMA CleanupSerial ==
  ASSUME BInv, Cleanup
  PROVE  Serial!Close
  <1>1. /\ ~closed /\ closed' /\ pending' = <<>> /\ scheduled' = NoRequest
        /\ UNCHANGED <<asked, thread>>
    BY DEF Cleanup, history
  <1>2. \A q \in Requests : ~Waiting(q)'
    BY <1>1, QueueAssumption DEF Waiting
  <1>3. ASSUME NEW q \in Requests
        PROVE  PhaseOf(q)' = IF PhaseOf(q) = "waiting" THEN "dropped" ELSE PhaseOf(q)
    <2>1. CASE Waiting(q)
      <3>1. thread[q] = "none" /\ q \in asked
        BY <2>1 DEF BInv, QueueInv
      <3>2. PhaseOf(q)' = "dropped"
        BY <3>1, <1>1, <1>2 DEF PhaseOf
      <3>3. QED
        BY <2>1, <3>2, PhaseIs
    <2>2. CASE ~Waiting(q)
      <3>1. PhaseOf(q)' = PhaseOf(q)
        BY <2>2, <1>1, <1>2, PhaseStays
      <3>2. QED
        BY <2>2, <3>1, PhaseIs
    <2>3. QED
      BY <2>1, <2>2
  <1>4. QED
    BY <1>1, <1>3 DEF Serial!Close

LEMMA SerialInit == ASSUME Init PROVE Serial!Init
  <1>1. \A q \in Requests : ~Waiting(q) /\ thread[q] = "none" /\ q \notin asked
    BY QueueAssumption DEF Init, Waiting
  <1>2. \A q \in Requests : PhaseOf(q) = "new"
    BY <1>1 DEF PhaseOf
  <1>3. QED
    BY <1>2 DEF Init, Serial!Init

LEMMA SerialNext ==
  ASSUME BInv, [Next]_vars
  PROVE  [Serial!Next]_(Serial!progress)
  <1>1. CASE Cleanup
    BY <1>1, CleanupSerial DEF Serial!Next
  <1>2. ASSUME NEW r \in Requests, Request(r) PROVE Serial!Next
    BY <1>2, RequestSerial DEF Serial!Next
  <1>3. ASSUME NEW r \in Requests, ThreadEnds(r) PROVE Serial!Next
    BY <1>3, ThreadEndsSerial DEF Serial!Next
  <1>4. ASSUME NEW r \in Requests, FinishHandled(r)
        PROVE  Serial!Next \/ UNCHANGED Serial!progress
    BY <1>4, FinishSerial DEF Serial!Next
  <1>5. ASSUME NEW r \in Requests, RunScheduled(r) PROVE Serial!Next
    BY <1>5, RunSerial DEF Serial!Next
  <1>6. CASE UNCHANGED vars
    <2>1. \A q \in Requests : PhaseOf(q)' = PhaseOf(q)
      BY <1>6 DEF vars, PhaseOf, Waiting
    <2>2. QED
      BY <1>6, <2>1 DEF vars, Serial!progress
  <1>7. QED
    BY <1>1, <1>2, <1>3, <1>4, <1>5, <1>6 DEF Next

\* The queue of the page implements the serial writer: whatever the order of clicks,
\* ends of threads, finishes and single shots, a write asked for is performed once
\* and alone, displaced only by one that waits, or dropped with the page.
THEOREM WritesAreSerial == Spec => ImplementsSerialWriter
  <1>1. Init => Serial!Init
    BY SerialInit
  <1>2. BInv /\ [Next]_vars => [Serial!Next]_(Serial!progress)
    BY SerialNext
  <1>3. QED
    BY <1>1, <1>2, BInvAlways, PTL DEF Spec, ImplementsSerialWriter, Serial!Spec
================================================================================
