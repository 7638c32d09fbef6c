----------------------------- MODULE MCShutdown ------------------------------
(***************************************************************************)
(* Files that leave limits out, set them, or get them wrong; requests that *)
(* share the backends, of which there are more than the pool has room for. *)
(***************************************************************************)
EXTENDS Shutdown

MCDefaults == [n \in LimitNames |-> 2]
Written(processes, perSubject, others) ==
    [n \in LimitNames |-> CASE n = "maxProcesses" -> processes
                            [] n = "maxProcessesPerSubject" -> perSubject
                            [] OTHER -> others]
MCFiles == {Written(p, s, o) : p \in {-1, 0, 1}, s \in {-1, 0, 3}, o \in {-1, 0}}
=============================================================================
