------------------------------- MODULE MCUpstream -------------------------------
(* Configurations are sequences of model values.  The safety run switches among *)
(* two servers, the same two with the other one as primary, and none; the run   *)
(* for progress has two fallbacks, so that the next server is a choice.         *)
EXTENDS UpstreamRuntime, TLC

CONSTANTS a, b, c

ServerConfigs == {<<a, b>>, <<b, a>>, <<>>}
FallbackConfigs == {<<a, b, c>>, <<>>}

Interchangeable == Permutations(Tasks)
================================================================================
