------------------------------ MODULE SerialWriter ------------------------------
(* What the queue of preset writes promises: every write asked for is performed *)
(* once, one at a time, unless a write that replaces it is waiting too, or the  *)
(* page is closed.                                                              *)
CONSTANTS
    Requests,  \* writes that may be asked for
    Replaces(_, _)  \* Replaces(s, r): s makes a waiting r pointless

VARIABLES
    phase,  \* how far each write is
    open    \* the page is in use

progress == <<phase, open>>

Phases == {"new", "waiting", "writing", "done", "dropped"}

Init ==
    /\ phase = [r \in Requests |-> "new"]
    /\ open = TRUE

Idle == \A r \in Requests : phase[r] # "writing"

\* r is asked for and waits; what it replaces may be dropped.
Ask(r) ==
    /\ open /\ phase[r] = "new"
    /\ \E D \in SUBSET {q \in Requests : phase[q] = "waiting" /\ Replaces(r, q)} :
          phase' = [q \in Requests |-> IF q = r THEN "waiting"
                                       ELSE IF q \in D THEN "dropped" ELSE phase[q]]
    /\ UNCHANGED open

\* The writer takes r, which may just have been asked for.
Begin(r) ==
    /\ open /\ Idle
    /\ phase[r] \in {"new", "waiting"}
    /\ phase' = [phase EXCEPT ![r] = "writing"]
    /\ UNCHANGED open

End(r) ==
    /\ phase[r] = "writing"
    /\ phase' = [phase EXCEPT ![r] = "done"]
    /\ UNCHANGED open

\* A write is dropped in favour of one that waits.
Drop(s) ==
    /\ phase[s] = "waiting"
    /\ \E D \in SUBSET {q \in Requests \ {s} : phase[q] = "waiting" /\ Replaces(s, q)} :
          phase' = [q \in Requests |-> IF q \in D THEN "dropped" ELSE phase[q]]
    /\ UNCHANGED open

\* Closing the page drops what waits; a write under way goes on.
Close ==
    /\ open
    /\ open' = FALSE
    /\ phase' = [q \in Requests |-> IF phase[q] = "waiting" THEN "dropped" ELSE phase[q]]

Next == Close \/ \E r \in Requests : Ask(r) \/ Begin(r) \/ End(r) \/ Drop(r)

Spec == Init /\ [][Next]_progress
================================================================================
