------------------------------ MODULE MCWriteQueue ------------------------------
(* One profile is switched off and on, copied and moved; one user profile is    *)
(* created and edited.                                                          *)
EXTENDS WriteQueue

MCRequests == {"off", "on", "copy", "move", "create", "edit"}
MCRuntimes == {"context", "move", "create", "update", "delete"}

MCRuntimeOf == [r \in MCRequests |->
    CASE r \in {"off", "on", "copy"} -> "context"
      [] r = "edit"                  -> "update"
      [] OTHER                       -> r]

MCKeyOf == [r \in MCRequests |->
    CASE r \in {"off", "on"} -> "enabled"
      [] r = "edit"          -> "profile"
      [] r = "move"          -> "place"
      [] OTHER               -> "noKey"]
================================================================================
