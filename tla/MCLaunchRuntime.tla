----------------------------- MODULE MCLaunchRuntime -----------------------------
(* LaunchRuntime on small instances.  Presets are only compared with each other, so the   *)
(* one that is selected at first may be any: this breaks the symmetry without SYMMETRY,   *)
(* which liveness does not allow.                                                         *)
EXTENDS LaunchRuntime

FirstSelected == CHOOSE p \in Presets : TRUE
MCInit == Init /\ choice.selected = FirstSelected
MCSpec == MCInit /\ [][Next]_vars /\ Fairness

=================================================================================
