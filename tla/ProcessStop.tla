---------------------------- MODULE ProcessStop -----------------------------
(***************************************************************************)
(* Stopping one backend process: Process.Stop of internal/pool/process.go  *)
(* and the escalation of internal/pool/stop.go, against the process tree   *)
(* it has to end.  The backend leads a process group; what it forks joins  *)
(* the group.  Any member may exit at any time, and may ignore the end of  *)
(* its input and SIGTERM; nothing survives SIGKILL.                        *)
(*                                                                         *)
(* Go learns of the backend's end in steps: it exits and is a zombie,      *)
(* cmd.Wait collects it and closes the gateway's ends of its pipes, and    *)
(* the reaping goroutine closes done.  A signal goes to a group that       *)
(* exists as long as a member does, zombies included.                      *)
(***************************************************************************)
CONSTANT Helpers    \* processes the backend may fork, directly or not

VARIABLES
    leader,     \* the backend: "up", "exited", then "waited" for
    done,       \* p.done is closed
    helpers,    \* its descendants that are alive
    doomed,     \* members of the group that SIGKILL has been sent to
    drain,      \* drainStderr: "reading" or "ended"
    ctx,        \* the context Stop was given: "live" or "over"
    stage,      \* how far Stop has got
    result      \* of stop: "none", "ok" or "error"

tree == <<leader, helpers, doomed>>
gateway == <<done, drain>>
vars == <<tree, gateway, ctx, stage, result>>

Backend == "backend"
Members == Helpers \cup {Backend}

TypeOK ==
    /\ leader \in {"up", "exited", "waited"}
    /\ done \in BOOLEAN
    /\ helpers \in SUBSET Helpers
    /\ doomed \in SUBSET Members
    /\ drain \in {"reading", "ended"}
    /\ ctx \in {"live", "over"}
    /\ stage \in {"running", "stdin wait", "terminate", "send TERM", "TERM wait",
                  "kill", "send KILL", "last wait", "collect", "stopped"}
    /\ result \in {"none", "ok", "error"}
    /\ result = "none" <=> stage \notin {"collect", "stopped"}

Init ==
    /\ leader = "up" /\ done = FALSE /\ helpers = {} /\ doomed = {}
    /\ drain = "reading" /\ ctx = "live" /\ stage = "running" /\ result = "none"

\* Who SIGTERM and SIGKILL would reach.
Group == helpers \cup (IF leader = "waited" THEN {} ELSE {Backend})
Up == helpers \cup (IF leader = "up" THEN {Backend} ELSE {})

-----------------------------------------------------------------------------
(* The process tree.                                                       *)

\* A member that has not been killed forks.
Fork(h) ==
    /\ h \in Helpers \ helpers
    /\ Up \ doomed # {}
    /\ helpers' = helpers \cup {h}
    /\ doomed' = doomed \ {h}
    /\ UNCHANGED <<leader, gateway, ctx, stage, result>>

HelperExits(h) ==
    /\ h \in helpers
    /\ helpers' = helpers \ {h}
    /\ UNCHANGED <<leader, doomed, gateway, ctx, stage, result>>

LeaderExits ==
    /\ leader = "up"
    /\ leader' = "exited"
    /\ UNCHANGED <<helpers, doomed, gateway, ctx, stage, result>>

-----------------------------------------------------------------------------
(* The goroutines of Spawn.                                                *)

\* cmd.Wait returns.
Waited ==
    /\ leader = "exited"
    /\ leader' = "waited"
    /\ UNCHANGED <<helpers, doomed, gateway, ctx, stage, result>>

\* reap, after it.
Reaped ==
    /\ leader = "waited" /\ ~done
    /\ done' = TRUE
    /\ UNCHANGED <<tree, drain, ctx, stage, result>>

\* drainStderr: the gateway's end of the pipe was closed under it; or, at any
\* time, the backend closed its end or wrote a line too long for the scanner.
DrainCut ==
    /\ drain = "reading" /\ leader = "waited"
    /\ drain' = "ended"
    /\ UNCHANGED <<tree, done, ctx, stage, result>>
DrainGivesUp ==
    /\ drain = "reading" /\ leader # "waited"
    /\ drain' = "ended"
    /\ UNCHANGED <<tree, done, ctx, stage, result>>

-----------------------------------------------------------------------------
(* Stop.                                                                   *)

\* Faulty variants: not waiting for the goroutines, and another SIGTERM in the
\* place of SIGKILL.
NoWait == TRUE
NotKilled == {}

StopCalled ==
    /\ stage = "running"
    /\ stage' = "stdin wait"
    /\ UNCHANGED <<tree, gateway, ctx, result>>

\* waitFor and the last select, when done is closed.
GoneInTime ==
    /\ stage \in {"stdin wait", "TERM wait"} /\ done
    /\ stage' = "collect" /\ result' = "ok"
    /\ UNCHANGED <<tree, gateway, ctx>>

\* waitFor, when its timer fires or the context is over.  Both may be ready
\* together with done, and then select may choose any of them.
GraceOver ==
    /\ stage \in {"stdin wait", "TERM wait"}
    /\ stage' = IF stage = "stdin wait" THEN "terminate" ELSE "kill"
    /\ UNCHANGED <<tree, gateway, ctx, result>>

\* signal looks at Exited first, and reports success if the process is gone.
SignalSpared ==
    /\ stage \in {"terminate", "kill"} /\ done
    /\ stage' = IF stage = "terminate" THEN "TERM wait" ELSE "last wait"
    /\ UNCHANGED <<tree, gateway, ctx, result>>
SignalDue ==
    /\ stage \in {"terminate", "kill"} /\ ~done
    /\ stage' = IF stage = "terminate" THEN "send TERM" ELSE "send KILL"
    /\ UNCHANGED <<tree, gateway, ctx, result>>

\* What stop goes on with when a signal could not be sent.
AfterFailed == IF stage = "send TERM" THEN "kill" ELSE "last wait"

\* signalGroup; ESRCH when the group has no member left.
SignalFails ==
    /\ stage \in {"send TERM", "send KILL"} /\ Group = {}
    /\ stage' = AfterFailed
    /\ UNCHANGED <<tree, gateway, ctx, result>>
TermSent ==
    /\ stage = "send TERM" /\ Group # {}
    /\ stage' = "TERM wait"
    /\ UNCHANGED <<tree, gateway, ctx, result>>

\* Signals go to the group, not to the backend.
Killed == Group
KillSent ==
    /\ stage = "send KILL" /\ Group # {}
    /\ doomed' = doomed \cup Killed
    /\ stage' = "last wait"
    /\ UNCHANGED <<leader, helpers, gateway, ctx, result>>

\* waitFor without a grace and the select at the end of stop.
StopSucceeds ==
    /\ stage = "last wait" /\ done
    /\ stage' = "collect" /\ result' = "ok"
    /\ UNCHANGED <<tree, gateway, ctx>>
StopCutShort ==
    /\ stage = "last wait" /\ ctx = "over"
    /\ stage' = "collect" /\ result' = "error"
    /\ UNCHANGED <<tree, gateway, ctx>>

\* p.wg.Wait: both goroutines of Spawn are over.
Collected == done /\ drain = "ended"
StopReturns ==
    /\ stage = "collect" /\ Collected
    /\ stage' = "stopped"
    /\ UNCHANGED <<tree, gateway, ctx, result>>

ContextEnds ==
    /\ ctx = "live"
    /\ ctx' = "over"
    /\ UNCHANGED <<tree, gateway, stage, result>>

-----------------------------------------------------------------------------
StopStep ==
    \/ GoneInTime \/ GraceOver \/ SignalSpared \/ SignalDue \/ SignalFails
    \/ TermSent \/ KillSent \/ StopSucceeds \/ StopCutShort \/ StopReturns

Next ==
    \/ \E h \in Helpers : Fork(h) \/ HelperExits(h)
    \/ LeaderExits \/ Waited \/ Reaped \/ DrainCut \/ DrainGivesUp
    \/ StopCalled \/ StopStep \/ ContextEnds

Spec == Init /\ [][Next]_vars

\* Goroutines get on, timers fire, and what was killed dies.  No member exits
\* for any other reason unless it wants to, and no context has to end.
Fairness ==
    /\ WF_vars(StopStep) /\ WF_vars(Waited) /\ WF_vars(Reaped) /\ WF_vars(DrainCut)
    /\ WF_vars(LeaderExits /\ Backend \in doomed)
    /\ \A h \in Helpers : WF_vars(HelperExits(h) /\ h \in doomed)

FairSpec == Spec /\ Fairness

-----------------------------------------------------------------------------
\* What has been killed together is not outlived by something forked later: if
\* the backend had to be killed, whatever is left of its tree is dying.
KillReachesTree == Backend \in doomed => helpers \subseteq doomed

\* Success means that the process is gone, by whichever exit of stop; and when
\* Stop returns, with an error or without, the process has been collected and
\* neither of its goroutines is left, nor anything of a tree that had to be killed.
\* Module Backend builds on this.
NothingRuns ==
    /\ KillReachesTree
    /\ result = "ok" => done
    /\ stage = "stopped" => leader = "waited" /\ done /\ drain = "ended"

\* However the backend behaves, Stop returns.
StopEnds == stage = "stdin wait" ~> stage = "stopped"
=============================================================================
