------------------------------ MODULE LatestRequest ------------------------------
(* What a generation counter promises whoever raises it: requests are numbered, *)
(* a number that has been served is served once, a later number may stand for   *)
(* all earlier ones, and the newest is served in the end.                       *)
EXTENDS Naturals

VARIABLES requested, served

latest == <<requested, served>>

Init == requested = 0 /\ served = 0

Request == requested' = requested + 1 /\ UNCHANGED served

Serve ==
    /\ served' \in served + 1 .. requested
    /\ UNCHANGED requested

\* A request that finds nothing to do is served in the step that makes it.
RequestServed ==
    /\ requested' = requested + 1
    /\ served' = requested'

Next == Request \/ Serve \/ RequestServed

Spec == Init /\ [][Next]_latest

FairSpec == Spec /\ WF_latest(Serve)
=================================================================================
