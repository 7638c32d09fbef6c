----------------------------- MODULE Lifecycle ------------------------------
(***************************************************************************)
(* What one pool.Backend promises whoever owns it: at any time it has one  *)
(* child process or none, it may start another after one exits, and once   *)
(* it is closed its process is stopped and no other ever starts.           *)
(***************************************************************************)
VARIABLE state    \* "none", "running", "stopping" or "stopped"

Init == state = "none"

Move(from, to) == state = from /\ state' = to

Next ==
    \/ Move("none", "running")        \* a request needs a process
    \/ Move("running", "none")        \* the process exits, or is discarded
    \/ Move("running", "stopping")    \* Close finds a process
    \/ Move("stopping", "stopped")
    \/ Move("none", "stopped")        \* Close finds none

Spec == Init /\ [][Next]_state
=============================================================================
