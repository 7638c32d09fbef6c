------------------------- MODULE ProcessStopProofs --------------------------
(***************************************************************************)
(* Proofs about module ProcessStop, for any set of descendants.  What      *)
(* carries them is the order in which the gateway learns of an exit: done  *)
(* is closed only after the process was waited for, and stop says "ok"     *)
(* only when it has seen done closed.                                      *)
(***************************************************************************)
EXTENDS ProcessStop, TLAPS

Seen ==
    /\ done => leader = "waited"
    /\ result = "ok" => done
    /\ stage = "stopped" => done /\ drain = "ended"

IInv == TypeOK /\ Seen /\ KillReachesTree

LEMMA InitIInv == Init => IInv
  BY DEF Init, IInv, TypeOK, Members, Seen, KillReachesTree

LEMMA NextIInv == IInv /\ [Next]_vars => IInv'
  <1> SUFFICES ASSUME IInv, [Next]_vars PROVE IInv'
    OBVIOUS
  <1> USE DEF IInv, TypeOK, Members, Seen, KillReachesTree, gateway
  <1>1. ASSUME NEW h \in Helpers, Fork(h) PROVE IInv'
    <2>1. \/ Backend \notin doomed
          \/ leader # "up" /\ helpers \subseteq doomed
          \/ leader = "up" /\ helpers \subseteq doomed /\ Backend \in doomed
      OBVIOUS
    <2>2. Backend \notin doomed
      BY <1>1, <2>1 DEF Fork, Up
    <2>3. QED
      BY <1>1, <2>2 DEF Fork
  <1>2. ASSUME NEW h \in Helpers, HelperExits(h) PROVE IInv'
    BY <1>2 DEF HelperExits
  <1>3. CASE LeaderExits
    BY <1>3 DEF LeaderExits
  <1>4. CASE Waited
    BY <1>4 DEF Waited
  <1>5. CASE Reaped
    BY <1>5 DEF Reaped, tree
  <1>6. CASE DrainCut
    BY <1>6 DEF DrainCut, tree
  <1>7. CASE DrainGivesUp
    BY <1>7 DEF DrainGivesUp, tree
  <1>8. CASE StopCalled
    BY <1>8 DEF StopCalled, tree
  <1>9. CASE ContextEnds
    BY <1>9 DEF ContextEnds, tree
  <1>10. CASE GoneInTime
    BY <1>10 DEF GoneInTime, tree
  <1>11. CASE GraceOver
    BY <1>11 DEF GraceOver, tree
  <1>12. CASE SignalSpared
    BY <1>12 DEF SignalSpared, tree
  <1>13. CASE SignalDue
    BY <1>13 DEF SignalDue, tree
  <1>14. CASE SignalFails
    BY <1>14 DEF SignalFails, AfterFailed, tree
  <1>15. CASE TermSent
    BY <1>15 DEF TermSent, tree
  <1>16. CASE KillSent
    <2>1. helpers \subseteq Group /\ Group \subseteq Members
      BY DEF Group
    <2>2. QED
      BY <1>16, <2>1 DEF KillSent, Killed
  <1>17. CASE StopSucceeds
    BY <1>17 DEF StopSucceeds, tree
  <1>18. CASE StopCutShort
    BY <1>18 DEF StopCutShort, tree
  <1>19. CASE StopReturns
    BY <1>19 DEF StopReturns, Collected, tree
  <1>20. CASE UNCHANGED vars
    BY <1>20 DEF vars, tree
  <1>21. QED
    BY <1>1, <1>2, <1>3, <1>4, <1>5, <1>6, <1>7, <1>8, <1>9, <1>10, <1>11,
       <1>12, <1>13, <1>14, <1>15, <1>16, <1>17, <1>18, <1>19, <1>20
    DEF Next, StopStep

\* The inductive invariant.
THEOREM StopCorrect == Spec => []IInv
  BY InitIInv, NextIInv, PTL DEF Spec

\* The type invariant.
THEOREM TypeCorrect == Spec => []TypeOK
  <1>1. IInv => TypeOK
    BY DEF IInv
  <1>2. QED
    BY <1>1, StopCorrect, PTL

\* However stop ended, when Process.Stop returns the process has been collected
\* and its goroutines are over, and nothing forked outlives a SIGKILL: what module Backend relies on.
THEOREM NothingRunsHolds == Spec => []NothingRuns
  <1>1. IInv => NothingRuns
    BY DEF IInv, Seen, NothingRuns
  <1>2. QED
    BY <1>1, StopCorrect, PTL
=============================================================================
