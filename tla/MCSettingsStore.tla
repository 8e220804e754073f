----------------------------- MODULE MCSettingsStore -----------------------------
(* Two threads; others may delete the file, damage it, write an old schema with *)
(* one user profile, or put back a file that was saved when c1 was locked.      *)
EXTENDS SettingsStore

CONSTANTS c1, c2

MCOutside == {
    Missing,
    [kind |-> "corrupt", data |-> Defaults],
    [kind |-> "raw", data |-> [locked |-> {}, profiles |-> {c1}]],
    Normal([locked |-> {c1}, profiles |-> {}])}
================================================================================
