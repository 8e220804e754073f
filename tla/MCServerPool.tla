------------------------------ MODULE MCServerPool ------------------------------
(* The healthy server is the first of the list and the last by priority.        *)
EXTENDS ServerPool, TLC

TwoInReverse == 1 :> 2 @@ 2 :> 1
================================================================================
