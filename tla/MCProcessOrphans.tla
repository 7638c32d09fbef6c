-------------------------- MODULE MCProcessOrphans ---------------------------
(***************************************************************************)
(* Module ProcessStop with a note of how the backend went.                 *)
(***************************************************************************)
EXTENDS ProcessStop

VARIABLE politely    \* Stop found the backend up, and it went while its input was closed

OrphansSpec ==
    /\ Init /\ politely = FALSE
    /\ [][/\ Next
          /\ politely' = (politely \/ (stage = "stdin wait" /\ LeaderExits))]_<<vars, politely>>

\* "signal sends sig to the process group, reaching every descendant" (stop.go:32): a
\* stop that asked a running backend to go, and was obeyed, has sent nothing to those
\* whom it leaves behind.
NoOrphans == politely /\ stage = "stopped" => helpers \subseteq doomed
=============================================================================
