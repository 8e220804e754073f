------------------------------- MODULE WriteQueue -------------------------------
(* PresetWriteQueue: the preset page performs its writes (switch a profile on   *)
(* or off, duplicate, delete, move, create and edit user profiles) one at a     *)
(* time in one-shot threads, with one OneShotWorkerRuntime for each kind.       *)
(*                                                                              *)
(* The UI thread runs every step except ThreadEnds.  QThread.isRunning() is     *)
(* already false when a thread ends, while the slot connected to its `finished' *)
(* signal runs later on the UI thread: `finished' threads are between the two.  *)
EXTENDS Integers, Sequences

CONSTANTS
    Requests,      \* operations the user may ask for, each once
    NoRequest,
    Runtimes,      \* the worker runtimes
    UserRuntimes,  \* those of user profiles, which block the button that adds one
    RuntimeOf,     \* the runtime of each request
    KeyOf,         \* what it overwrites: profile and kind, or NoKey
    Keys,
    NoKey

ASSUME QueueAssumption ==
    /\ NoRequest \notin Requests
    /\ UserRuntimes \subseteq Runtimes
    /\ RuntimeOf \in [Requests -> Runtimes]
    /\ KeyOf \in [Requests -> Keys \cup {NoKey}]
    /\ NoKey \notin Keys

VARIABLES
    asked,       \* history: requests made
    pending,     \* QueuedWorkerState.pending
    scheduled,   \* the operation of the single shot, NoRequest unless start_scheduled
    slot,        \* worker of each runtime
    thread,      \* each worker: "none", "running", "finished" (not handled), "done"
    addEnabled,  \* the button that adds a user profile is enabled
    closed,      \* _cleanup_in_progress
    lastAsked,   \* history: last request of each key
    lastWritten, \* history: last write of each key
    overtook     \* history: some request was made before a finish was handled

vars == <<asked, pending, scheduled, slot, thread, addEnabled, closed,
          lastAsked, lastWritten, overtook>>
history == <<asked, lastAsked, lastWritten, overtook>>

Init ==
    /\ asked = {}
    /\ pending = <<>>
    /\ scheduled = NoRequest
    /\ slot = [rt \in Runtimes |-> NoRequest]
    /\ thread = [r \in Requests |-> "none"]
    /\ addEnabled = TRUE
    /\ closed = FALSE
    /\ lastAsked = [k \in Keys |-> NoRequest]
    /\ lastWritten = [k \in Keys |-> NoRequest]
    /\ overtook = FALSE

IsRunning(rt) == \E r \in Requests : slot[rt] = r /\ thread[r] = "running"

\* _profile_preset_write_operation_running
OperationRunning == scheduled # NoRequest \/ \E rt \in Runtimes : IsRunning(rt)

Supersedes(s, r) == KeyOf[s] # NoKey /\ KeyOf[s] = KeyOf[r]

QueuedFirst(q, r) == <<r>> \o q                                       \* mutant

\* What r leaves of the first n operations of q, in their order.
Kept(q, r) ==
    LET kept[n \in 0..Len(q)] ==
            IF n = 0 THEN <<>>
            ELSE IF Supersedes(r, q[n]) THEN kept[n - 1] ELSE Append(kept[n - 1], q[n])
    IN kept

\* _queue_profile_preset_write_operation: at the end, without what it replaces.
Queued(q, r) == Append(Kept(q, r)[Len(q)], r)

\* The _start_..._worker methods of the five runtimes.
StartWorker(r) ==
    /\ slot' = [slot EXCEPT ![RuntimeOf[r]] = r]
    /\ thread' = [thread EXCEPT ![r] = "running"]
    /\ addEnabled' = (addEnabled /\ RuntimeOf[r] \notin UserRuntimes)

\* The _request_... methods.  The button that adds a user profile is only looked at when its
\* dialog is opened: the request comes when the dialog closes, whatever the button is by then.
Request(r) ==
    /\ ~closed
    /\ r \notin asked
    /\ asked' = asked \cup {r}
    /\ lastAsked' = [k \in Keys |-> IF k = KeyOf[r] THEN r ELSE lastAsked[k]]
    /\ overtook' = (overtook \/ \E s \in Requests : thread[s] = "finished")
    /\ IF OperationRunning
       THEN /\ pending' = Queued(pending, r)
            /\ UNCHANGED <<slot, thread, addEnabled>>
       ELSE StartWorker(r) /\ UNCHANGED pending
    /\ UNCHANGED <<scheduled, closed, lastWritten>>

\* The worker has written the preset and its thread ends.
ThreadEnds(r) ==
    /\ thread[r] = "running"
    /\ thread' = [thread EXCEPT ![r] = "finished"]
    /\ lastWritten' = [k \in Keys |-> IF k = KeyOf[r] THEN r ELSE lastWritten[k]]
    /\ UNCHANGED <<asked, pending, scheduled, slot, addEnabled, closed, lastAsked, overtook>>

ScheduleNextDropping(p) ==                                            \* mutant
    /\ pending # <<>> /\ p = Head(pending)
    /\ pending' = Tail(pending)
    /\ scheduled' = IF scheduled # NoRequest THEN scheduled ELSE p
    /\ UNCHANGED addEnabled

\* schedule_next_after_finish, with the first waiting operation p.
ScheduleNext(p) ==
    /\ pending # <<>> /\ p = Head(pending)
    /\ IF scheduled # NoRequest
       THEN pending' = Queued(Tail(pending), p) /\ UNCHANGED scheduled
       ELSE pending' = Tail(pending) /\ scheduled' = p
    /\ UNCHANGED addEnabled

NoNextEnables(r) ==                                                   \* mutant
    /\ pending = <<>>
    /\ addEnabled' = (addEnabled \/ RuntimeOf[r] \in UserRuntimes)
    /\ UNCHANGED <<pending, scheduled>>

NextForgotten(r) ==                                                   \* mutant
    /\ addEnabled' = (addEnabled \/ RuntimeOf[r] \in UserRuntimes)
    /\ UNCHANGED <<pending, scheduled>>

\* Nothing waits: the end of a user profile operation enables the button again.
NoNext(r) ==
    /\ pending = <<>>
    /\ addEnabled' = \/ addEnabled
                     \/ /\ RuntimeOf[r] \in UserRuntimes
                        /\ \A rt \in UserRuntimes \ {RuntimeOf[r]} : ~IsRunning(rt)
    /\ UNCHANGED <<pending, scheduled>>

\* _finish_qthread_worker and the on_finished of the runtime; a worker that was
\* replaced in its slot is ignored.
FinishHandled(r) ==
    /\ thread[r] = "finished"
    /\ thread' = [thread EXCEPT ![r] = "done"]
    /\ IF slot[RuntimeOf[r]] = r
       THEN /\ slot' = [slot EXCEPT ![RuntimeOf[r]] = NoRequest]
            /\ NoNext(r) \/ \E p \in Requests : ScheduleNext(p)
       ELSE UNCHANGED <<slot, pending, scheduled, addEnabled>>
    /\ UNCHANGED <<history, closed>>

RunScheduledAtOnce(r) ==                                              \* mutant
    /\ scheduled = r
    /\ scheduled' = NoRequest
    /\ StartWorker(r)
    /\ UNCHANGED <<history, pending, closed>>

RunScheduledCleared(r) ==                                             \* mutant
    /\ scheduled = r
    /\ scheduled' = NoRequest
    /\ IF \E rt \in Runtimes : IsRunning(rt)
       THEN /\ pending' = Queued(pending, scheduled')
            /\ UNCHANGED <<slot, thread, addEnabled>>
       ELSE StartWorker(r) /\ UNCHANGED pending
    /\ UNCHANGED <<history, closed>>

\* run_scheduled and _run_profile_preset_write_operation.
RunScheduled(r) ==
    /\ scheduled = r
    /\ scheduled' = NoRequest
    /\ IF \E rt \in Runtimes : IsRunning(rt)
       THEN /\ pending' = Queued(pending, r)
            /\ UNCHANGED <<slot, thread, addEnabled>>
       ELSE StartWorker(r) /\ UNCHANGED pending
    /\ UNCHANGED <<history, closed>>

\* cleanup: the queue is emptied and the runtimes forget their workers, whose
\* threads go on to their end.
Cleanup ==
    /\ ~closed
    /\ closed' = TRUE
    /\ pending' = <<>>
    /\ scheduled' = NoRequest
    /\ slot' = [rt \in Runtimes |-> NoRequest]
    /\ UNCHANGED <<history, thread, addEnabled>>

Next ==
    \/ \E r \in Requests : Request(r) \/ ThreadEnds(r) \/ FinishHandled(r) \/ RunScheduled(r)
    \/ Cleanup

(* A write ends, because it is a bounded piece of file work, and the UI thread  *)
(* gets to its queued slots and single shots.  The user owes nothing.           *)
Fairness ==
    \A r \in Requests :
        WF_vars(ThreadEnds(r)) /\ WF_vars(FinishHandled(r)) /\ WF_vars(RunScheduled(r))

Spec == Init /\ [][Next]_vars /\ Fairness

--------------------------------------------------------------------------------
Waiting(r) == scheduled = r \/ \E i \in DOMAIN pending : pending[i] = r

\* Type invariant: the queue, the scheduled write, the runtimes and the threads hold values the code gives them.
TypeOK ==
    /\ asked \subseteq Requests
    /\ pending \in Seq(Requests)
    /\ scheduled \in Requests \cup {NoRequest}
    /\ slot \in [Runtimes -> Requests \cup {NoRequest}]
    /\ thread \in [Requests -> {"none", "running", "finished", "done"}]
    /\ addEnabled \in BOOLEAN /\ closed \in BOOLEAN /\ overtook \in BOOLEAN
    /\ lastAsked \in [Keys -> Requests \cup {NoRequest}]
    /\ lastWritten \in [Keys -> Requests \cup {NoRequest}]

\* Two writes never work on the preset at the same time, although a request may
\* find every runtime idle while a finish and a single shot are still to come.
OneWriter ==
    \A r, s \in Requests : thread[r] = "running" /\ thread[s] = "running" => r = s

\* No user profile is added while one is being written: a finish that is handled late, when
\* the next write of a user profile runs already, does not enable the button.
AddingIsBlocked ==
    ~closed /\ addEnabled =>
        \A r \in Requests : thread[r] = "running" => RuntimeOf[r] \notin UserRuntimes

\* Whatever waits has something that will start it: a single shot, a running
\* write or an ended one whose finish will be accepted.
NothingStranded ==
    pending # <<>> =>
        \/ scheduled # NoRequest
        \/ \E rt \in Runtimes, r \in Requests :
              slot[rt] = r /\ thread[r] \in {"running", "finished"}

Quiet ==
    /\ ~closed
    /\ \A r \in Requests : ~Waiting(r) /\ thread[r] # "running"

\* When nothing waits and nothing writes, the last write of a key is the last
\* request of that key, which the queue is there for (see the test of the queue
\* that keeps the latest state for the same profile).
LatestStateKept == Quiet => lastWritten = lastAsked

\* The same, as long as no request came between the end of a thread and the
\* handling of its finish.
LatestUnlessOvertaken == ~overtook => LatestStateKept

\* Every operation that waits is started, replaced or dropped with the page.
WaitingEnds == \A r \in Requests : Waiting(r) ~> ~Waiting(r)

--------------------------------------------------------------------------------
PhaseOf(r) ==
    CASE thread[r] = "running"                -> "writing"
      [] thread[r] \in {"finished", "done"}   -> "done"
      [] thread[r] = "none" /\ Waiting(r)     -> "waiting"
      [] thread[r] = "none" /\ r \notin asked -> "new"
      [] OTHER                                -> "dropped"

\* The queue implements the serial writer: no operation is performed twice, lost
\* or overlapped, and only one that waits can displace another.
Serial == INSTANCE SerialWriter WITH
    Replaces <- Supersedes,
    phase <- [r \in Requests |-> PhaseOf(r)],
    open <- ~closed
ImplementsSerialWriter == Serial!Spec
================================================================================
