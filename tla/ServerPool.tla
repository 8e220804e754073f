------------------------------- MODULE ServerPool -------------------------------
(* How the updater asks its own servers for a release: ServerPool keeps failures*)
(* and blocks of each server and the one that is selected, and fetches of       *)
(* several threads (ReleaseManager._try_server_pool) go through it without a    *)
(* lock.  Every method of the pool is cut where it reads or assigns what other  *)
(* threads change: a server may be blocked between being listed as available    *)
(* and being selected, and succeed between being found failing and being        *)
(* blocked.                                                                     *)
EXTENDS Integers, FiniteSetsExt

CONSTANTS
    NumServers,  \* servers of VPS_SERVERS, numbered in the order of this list
    Priority,    \* their priorities
    Known,       \* servers that the persisted statistics have an entry for
    Healthy,     \* servers that answer every request with the release
    Lacking,     \* servers whose answer may lack the channel
    Paces,       \* response times that are told apart, in seconds
    Limit,       \* MAX_CONSECUTIVE_FAILURES
    Filled,      \* what other workers put into the cache
    Tasks,       \* threads that fetch
    Outlasting   \* a block ends only while nobody fetches: an hour is long

Servers == 1 .. NumServers
FastLimit == 2           \* FAST_RESPONSE_THRESHOLD in seconds
NoStats == 999           \* average assumed of a server without statistics
MaxAttempts == 2 * NumServers

ASSUME PoolAssumption ==
    /\ NumServers \in Nat \ {0} /\ Limit \in Nat \ {0}
    /\ Priority \in [Servers -> Nat]
    /\ Known \subseteq Servers /\ Healthy \subseteq Servers
    /\ Lacking \subseteq Servers \ Healthy
    /\ Paces \subseteq Nat \ {0}
    /\ Filled \subseteq {"full", "partial"}
    /\ Outlasting \in BOOLEAN

VARIABLES
    selected,    \* ServerPool.selected_server
    failures,    \* consecutive_failures, counted up to the limit
    blocked,     \* servers whose blocked_until lies ahead
    pace,        \* avg_response_time, 0 before the first success
    cache,       \* all_versions of the last thirty seconds, may lack the channel
    vpsBlocked,  \* ReleaseManager._vps_block_until lies ahead
    fetch,       \* what each thread is doing and the locals that still matter
    result       \* what its last fetch returned

poolVars == <<selected, failures, blocked, pace>>
vars == <<poolVars, cache, vpsBlocked, fetch, result>>

(* tried and attempts belong to the loop over the servers, at and protocol to the attempt; *)
(* options is what a call that selects chooses from and at last its choice, onward is      *)
(* where the thread goes on after that call.                                               *)
NoServer == 0
Fetches == [pc : {"idle", "loop", "check", "try", "wait", "judge", "block", "answered",
                  "compare", "list", "pick", "assign"},
            at : Servers \cup {NoServer}, protocol : {"https", "http"},
            tried : SUBSET Servers, attempts : 0 .. MaxAttempts,
            options : SUBSET Servers, onward : {"loop", "answered", "idle"}]
Idle == [pc |-> "idle", at |-> NoServer, protocol |-> "https", tried |-> {}, attempts |-> 0,
         options |-> {}, onward |-> "loop"]

\* Type invariant: the selected server exists, counts and attempts stay within their
\* limits, and only servers with statistics are blocked.
TypeOK ==
    /\ selected \in Servers
    /\ failures \in [Known -> 0 .. Limit]
    /\ blocked \subseteq Known
    /\ pace \in [Known -> {0} \cup Paces]
    /\ cache \in {"none", "full", "partial"}
    /\ vpsBlocked \in BOOLEAN
    /\ fetch \in [Tasks -> Fetches]
    /\ result \in [Tasks -> {"none", "found", "failed"}]

\* An earlier session has left anything in the settings; averages are met by answers.
Init ==
    /\ selected \in Servers
    /\ failures \in [Known -> 0 .. Limit]
    /\ blocked \in SUBSET Known
    /\ pace = [s \in Known |-> 0]
    /\ cache = "none"
    /\ vpsBlocked \in BOOLEAN
    /\ fetch = [t \in Tasks |-> Idle]
    /\ result = [t \in Tasks |-> "none"]

At(t, place) == fetch[t].pc = place
Become(t, f) == fetch' = [fetch EXCEPT ![t] = f]
Goto(t, place) == Become(t, [fetch[t] EXCEPT !.pc = place])
Return(t, outcome) == Become(t, Idle) /\ result' = [result EXCEPT ![t] = outcome]

--------------------------------------------------------------------------------
(* Selecting a server: list the available ones, choose, assign *)

\* Where the thread goes on: with another attempt, after the answer, or nowhere.
Onward(t) ==
    LET f == fetch[t]
    IN  CASE f.onward = "loop" -> [Idle EXCEPT !.pc = "loop", !.tried = f.tried, !.attempts = f.attempts]
          [] f.onward = "answered" -> [f EXCEPT !.pc = "answered", !.options = {}, !.onward = "loop"]
          [] f.onward = "idle" -> Idle

\* _get_available_servers, the first thing both switches do.
List(t) ==
    /\ At(t, "list")
    /\ Become(t, [fetch[t] EXCEPT !.pc = "pick", !.options = Servers \ blocked])
    /\ UNCHANGED <<poolVars, cache, vpsBlocked, result>>

\* _switch_to_next_server takes the first priority, force_switch_server any server.
Preferred(S) ==
    LET Best == {s \in S : \A r \in S : Priority[s] <= Priority[r]}
    IN Min(Best)
Eligible(t, S) == IF fetch[t].onward = "answered" THEN {Preferred(S)} ELSE S

Pick(t) ==
    /\ At(t, "pick")
    /\ LET others == fetch[t].options \ {selected}
       IN  \/ others = {} /\ Become(t, Onward(t))
           \/ others # {} /\ \E s \in Eligible(t, others) :
                 Become(t, [fetch[t] EXCEPT !.pc = "assign", !.options = {s}])
    /\ UNCHANGED <<poolVars, cache, vpsBlocked, result>>

Assign(t) ==
    /\ At(t, "assign")
    /\ selected' \in fetch[t].options
    /\ Become(t, Onward(t))
    /\ UNCHANGED <<failures, blocked, pace, cache, vpsBlocked, result>>

--------------------------------------------------------------------------------
(* Recording an answer *)

\* record_failure counts; a server without statistics is not looked at.
CountFailure(t) ==
    LET s == fetch[t].at
    IN  IF s \in Known
        THEN failures' = [failures EXCEPT ![s] = Min({@ + 1, Limit})] /\ Goto(t, "judge")
        ELSE UNCHANGED failures /\ Goto(t, "answered")

\* It reads the count again, which another thread may have raised or reset.
Judge(t) ==
    /\ At(t, "judge")
    /\ Goto(t, IF failures[fetch[t].at] >= Limit THEN "block" ELSE "answered")
    /\ UNCHANGED <<poolVars, cache, vpsBlocked, result>>

Block(t) ==
    /\ At(t, "block")
    /\ blocked' = blocked \cup {fetch[t].at}
    /\ Become(t, [fetch[t] EXCEPT !.pc = "list", !.onward = "answered"])
    /\ UNCHANGED <<selected, failures, pace, cache, vpsBlocked, result>>

\* record_success; the moving average stays where it was or comes near the new time.
CountSuccess(t, seconds) ==
    LET s == fetch[t].at
    IN  IF s \in Known
        THEN /\ failures' = [failures EXCEPT ![s] = 0]
             /\ \E average \in IF pace[s] = 0 THEN {seconds} ELSE {pace[s], seconds} :
                    pace' = [pace EXCEPT ![s] = average]
             /\ Become(t, [Idle EXCEPT !.pc = "compare"])
        ELSE UNCHANGED <<failures, pace>> /\ Become(t, Idle)

\* _check_faster_server: the first server of the list that is faster by 30%.
Average(s) == IF s \in Known THEN pace[s] ELSE NoStats
Faster ==
    {s \in Servers \ (blocked \cup {selected}) : 10 * Average(s) < 7 * Average(selected)}

Compare(t) ==
    /\ At(t, "compare")
    /\ Become(t, IF Average(selected) > FastLimit /\ Faster # {}
                 THEN [Idle EXCEPT !.pc = "assign", !.options = {Min(Faster)}, !.onward = "idle"]
                 ELSE Idle)
    /\ UNCHANGED <<poolVars, cache, vpsBlocked, result>>

--------------------------------------------------------------------------------
(* A fetch *)

Fetch(t) ==
    /\ At(t, "idle")
    /\ IF vpsBlocked
       THEN Return(t, "failed")
       ELSE Goto(t, "loop") /\ result' = [result EXCEPT ![t] = "none"]
    /\ UNCHANGED <<poolVars, cache, vpsBlocked>>

\* An attempt: get_current_server, then what is done about the server it returned.
AttemptTooOften(t) == fetch[t].attempts <= MaxAttempts                \* mutant
AttemptLeft(t) == fetch[t].attempts < MaxAttempts

Look(t) ==
    /\ At(t, "loop")
    /\ \/ /\ AttemptLeft(t)
          /\ Become(t, [fetch[t] EXCEPT !.pc = "check", !.at = selected, !.attempts = @ + 1])
          /\ UNCHANGED result
       \/ ~AttemptLeft(t) /\ Return(t, "failed")
    /\ UNCHANGED <<poolVars, cache, vpsBlocked>>

SkipBlocked(t) ==
    /\ At(t, "check") /\ fetch[t].at \in blocked
    /\ Become(t, [fetch[t] EXCEPT !.pc = "list", !.at = NoServer, !.tried = @ \cup {fetch[t].at},
                                  !.onward = "loop"])
    /\ UNCHANGED <<poolVars, cache, vpsBlocked, result>>

TakeServer(t) ==
    /\ At(t, "check") /\ fetch[t].at \notin blocked \cup fetch[t].tried
    /\ Become(t, [fetch[t] EXCEPT !.pc = "try", !.tried = @ \cup {fetch[t].at}])
    /\ UNCHANGED <<poolVars, cache, vpsBlocked, result>>

\* The selected server was tried and is not blocked: all count as tried.
GiveUp(t) ==
    /\ At(t, "check") /\ fetch[t].at \in fetch[t].tried \ blocked
    /\ Return(t, "failed")
    /\ UNCHANGED <<poolVars, cache, vpsBlocked>>

\* Nothing is recorded of an answer that comes out of the cache.
UseCache(t) ==
    /\ At(t, "try") /\ cache # "none"
    /\ \/ cache = "full" /\ Return(t, "found")
       \/ cache = "partial" /\ Goto(t, "answered") /\ UNCHANGED result
    /\ UNCHANGED <<poolVars, cache, vpsBlocked>>

Ask(t) ==
    /\ At(t, "try") /\ cache = "none"
    /\ Goto(t, "wait")
    /\ UNCHANGED <<poolVars, cache, vpsBlocked, result>>

AnswerFound(t, seconds) ==
    /\ At(t, "wait")
    /\ cache' = "full"
    /\ CountSuccess(t, seconds)
    /\ result' = [result EXCEPT ![t] = "found"]
    /\ UNCHANGED <<selected, blocked, vpsBlocked>>

AnswerLacksChannel(t) ==
    /\ At(t, "wait") /\ fetch[t].at \in Lacking
    /\ cache' = "partial"
    /\ CountFailure(t)
    /\ UNCHANGED <<selected, blocked, pace, vpsBlocked, result>>

Errors == {"connection", "client", "server"}
\* A response with an error status is false where Python asks for its truth.
Truth(error) == error \notin {"client", "server"}
SevereStatusKnown(error) == error = "server" /\ Truth(error)

ErrorUnrecorded(t, error) ==                                          \* mutant
    /\ At(t, "wait") /\ fetch[t].at \notin Healthy
    /\ vpsBlocked' = (vpsBlocked \/ SevereStatusKnown(error))
    /\ Goto(t, "answered")
    /\ UNCHANGED <<poolVars, cache, result>>
AnswerError(t, error) ==
    /\ At(t, "wait") /\ fetch[t].at \notin Healthy
    /\ CountFailure(t)
    /\ vpsBlocked' = (vpsBlocked \/ SevereStatusKnown(error))
    /\ UNCHANGED <<selected, blocked, pace, cache, result>>

\* HTTP is tried after HTTPS unless the server is blocked by now.
GoOn(t) ==
    /\ At(t, "answered")
    /\ Become(t, IF fetch[t].protocol = "https" /\ fetch[t].at \notin blocked
                 THEN [fetch[t] EXCEPT !.pc = "try", !.protocol = "http"]
                 ELSE Onward(t))
    /\ UNCHANGED <<poolVars, cache, vpsBlocked, result>>

--------------------------------------------------------------------------------
(* Time and other threads *)

AllIdle == \A t \in Tasks : At(t, "idle")

\* The count of failures stays as it is.
BlockEnds(s) ==
    /\ s \in blocked /\ (Outlasting => AllIdle)
    /\ blocked' = blocked \ {s}
    /\ UNCHANGED <<selected, failures, pace, cache, vpsBlocked, fetch, result>>

VpsBlockEnds ==
    /\ vpsBlocked /\ vpsBlocked' = FALSE
    /\ UNCHANGED <<poolVars, cache, fetch, result>>

CacheExpires ==
    /\ cache # "none" /\ cache' = "none"
    /\ UNCHANGED <<poolVars, vpsBlocked, fetch, result>>

\* The workers of the settings page ask servers too and record nothing.
CacheFilled ==
    /\ cache' \in Filled /\ cache' # cache
    /\ UNCHANGED <<poolVars, vpsBlocked, fetch, result>>

Answer(t) ==
    \/ \E seconds \in Paces : AnswerFound(t, seconds)
    \/ AnswerLacksChannel(t)
    \/ \E error \in Errors : AnswerError(t, error)

Records(t) == Judge(t) \/ Block(t) \/ Compare(t) \/ List(t) \/ Pick(t) \/ Assign(t)

Step(t) ==
    \/ Look(t) \/ SkipBlocked(t) \/ TakeServer(t) \/ GiveUp(t)
    \/ UseCache(t) \/ Ask(t) \/ Answer(t) \/ GoOn(t) \/ Records(t)

Next ==
    \/ \E t \in Tasks : Fetch(t) \/ Step(t)
    \/ \E s \in Known : BlockEnds(s)
    \/ VpsBlockEnds \/ CacheExpires \/ CacheFilled

\* Requests have time limits, and blocks end by the clock whoever fetches.
Fairness ==
    /\ \A t \in Tasks : WF_vars(Fetch(t)) /\ WF_vars(Step(t))
    /\ \A s \in Known : SF_vars(BlockEnds(s))
    /\ WF_vars(VpsBlockEnds) /\ SF_vars(CacheExpires)

Spec == Init /\ [][Next]_vars /\ Fairness

--------------------------------------------------------------------------------
(* Properties *)

\* While some server is healthy, fetches find the release again and again: blocks, races
\* for the selection and slow answers of the others never lead away from it for good.  The
\* code keeps this only under what Assumed names: every server has statistics (failures of
\* one without them are not counted, so it is never left), at most one answers without the
\* channel, and nobody else caches such an answer (what the cache lacks counts against no
\* server).  And it is about fetches that meet only now and then: []<>AllIdle.
Assumed ==
    /\ Healthy # {} /\ Known = Servers
    /\ Cardinality(Lacking) <= 1
    /\ "partial" \notin Filled
KeepsFinding == Assumed /\ []<>AllIdle => []<>(\E t \in Tasks : result[t] = "found")
================================================================================
