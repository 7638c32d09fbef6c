--------------------------- MODULE BackendProofs ----------------------------
(***************************************************************************)
(* Proofs about module Backend, for any number of requests, subscriptions  *)
(* and restarts.                                                           *)
(*                                                                         *)
(* The inductive invariant says who holds b.mu and what that entitles to:  *)
(* the holder in session works on b.proc while it discards, and on a       *)
(* process of its own while it connects, when b.proc is nil (Locking,      *)
(* Working, Owned).  History says what the others may still know: a        *)
(* process to blame is out of use, and one being connected is nobody       *)
(* else's.                                                                 *)
(***************************************************************************)
EXTENDS Backend, TLAPS

Holding == {"discard", "spawn", "connect", "undo"}
Served == {"call", "lost", "rejected", "broken", "forget"}

\* b.mu: the holder is the one request in the middle of session, or Close.
Locking ==
    /\ \A r \in Requests : pc[r] \in Holding <=> lock = r
    /\ closing = "discard" <=> lock = Closer
    /\ closed <=> closing \in {"discard", "done"}
    /\ closed => lock \notin Requests

Born ==
    /\ \A p \in Processes : p > started <=> status[p] = "unborn"
    /\ proc <= started

\* What the holder of the lock, and who has been served, works on.
WorksOn(r) ==
    /\ pc[r] = "discard" => proc # Nil /\ conn = Nil
    /\ pc[r] \in {"spawn", "connect", "undo"} => proc = Nil
    /\ pc[r] \in {"connect", "undo"} \cup Served => using[r] \in 1..started
Working ==
    /\ \A r \in Requests : WorksOn(r)
    /\ closing = "discard" => proc # Nil /\ conn = Nil
    /\ closing = "done" => proc = Nil

LEMMA InitIInv == Init => TypeOK /\ Locking /\ Born /\ Working /\ Owned
  <1> SUFFICES ASSUME Init PROVE TypeOK /\ Locking /\ Born /\ Working /\ Owned
    OBVIOUS
  <1>0. /\ lock = Nobody /\ closed \in BOOLEAN /\ proc = Nil /\ conn = Nil /\ started = 0
        /\ status = [p \in Processes |-> "unborn"]
        /\ pc = [r \in Requests |-> "idle"]
        /\ using = [r \in Requests |-> Nil]
        /\ closing = "not yet" /\ blamed = {} /\ listeners = {}
    BY DEF Init
  <1>b. started = 0 /\ proc = Nil /\ status = [p \in Processes |-> "unborn"]
    BY DEF Init
  <1>a. /\ MaxStarts \in Nat /\ \A p \in Processes : p \in Nat /\ p > 0
    BY BackendAssumption DEF BackendAssumption, Processes
  <1>1. TypeOK
    <2>1. /\ lock \in Requests \cup {Closer, Nobody}
          /\ proc \in Pointers /\ conn \in {Nil, proc}
          /\ listeners \in SUBSET Listeners /\ blamed \in SUBSET Processes
          /\ closing \in {"not yet", "waiting", "discard", "done"}
      BY <1>0 DEF Pointers
    <2>2. started \in 0..MaxStarts
      BY <1>b, <1>a
    <2>3. /\ status \in [Processes -> {"unborn", "up", "exited", "reaped"}]
          /\ link \in [Processes -> {"none", "opening", "open", "lost", "closed"}]
          /\ reader \in [Processes -> {"reading", "change", "publishing"}]
          /\ due \in [Processes -> SUBSET Listeners]
      BY DEF Init
    <2>4. /\ pc \in [Requests -> {"idle", "session", "discard", "spawn", "connect", "undo",
                                  "call", "lost", "rejected", "broken", "forget"}]
          /\ using \in [Requests -> Pointers] /\ over \in [Requests -> Pointers]
      BY DEF Init, Pointers
    <2>5. QED
      BY <1>0, <2>1, <2>2, <2>3, <2>4 DEF TypeOK
  <1>2. Locking
    BY BackendAssumption DEF BackendAssumption, Init, Locking, Holding
  <1>3. Born
    BY <1>b, <1>a DEF Born, Nil
  <1>4. Working
    BY DEF Init, Working, WorksOn, Served
  <1>5. Owned
    BY <1>b, <1>a DEF Owned
  <1>6. QED
    BY <1>1, <1>2, <1>3, <1>4, <1>5

\* The numbers a state is made of.
LEMMA Numbers ==
  ASSUME TypeOK
  PROVE  /\ MaxStarts \in Nat /\ started \in Nat /\ started <= MaxStarts
         /\ proc \in Nat /\ conn \in Nat /\ (proc # Nil => proc \in Processes)
         /\ \A p \in Processes : p \in Nat /\ p # Nil
         /\ \A r \in Requests : using[r] \in Nat /\ (using[r] # Nil => using[r] \in Processes)
         /\ \A p \in 1..started : p \in Processes /\ p # started + 1
         /\ status \in [Processes -> {"unborn", "up", "exited", "reaped"}]
  <1>1. MaxStarts \in Nat /\ \A p \in Processes : p \in Nat /\ p # Nil
    BY BackendAssumption DEF BackendAssumption, Processes, Nil
  <1>2. started \in 0..MaxStarts /\ proc \in Pointers /\ conn \in {Nil, proc}
    BY DEF TypeOK
  <1>3. \A r \in Requests : using[r] \in Pointers
    BY DEF TypeOK
  <1>4. started \in Nat /\ started <= MaxStarts
    BY <1>1, <1>2
  <1>5. \A p \in 1..started : p \in Processes /\ p # started + 1
    BY <1>1, <1>4 DEF Processes
  <1>6. status \in [Processes -> {"unborn", "up", "exited", "reaped"}]
    BY DEF TypeOK
  <1>7. QED
    BY <1>1, <1>2, <1>3, <1>4, <1>5, <1>6 DEF Pointers, Nil


\* Steps that leave the lock where it is, what the others work on, and what they own.
LEMMA LockingKept ==
  ASSUME Locking, UNCHANGED <<lock, closed, closing>>,
         \A q \in Requests : pc'[q] \in Holding <=> pc[q] \in Holding
  PROVE  Locking'
  BY DEF Locking

LEMMA WorkingKept ==
  ASSUME Working, UNCHANGED <<proc, conn, started, closing>>,
         \A q \in Requests :
            \/ pc'[q] = pc[q] /\ using'[q] = using[q]
            \/ pc'[q] \in {"idle", "session"}
            \/ pc[q] \in Served /\ pc'[q] \in Served /\ using'[q] = using[q]
  PROVE  Working'
  <1>1. ASSUME NEW q \in Requests PROVE WorksOn(q)'
    BY <1>1 DEF Working, WorksOn, Served
  <1>2. QED
    BY <1>1 DEF Working

LEMMA OwnedKept ==
  ASSUME Owned, UNCHANGED <<lock, proc, started, status>>,
         \A q \in Requests : pc[q] \in {"connect", "undo"} =>
            pc'[q] \in {"connect", "undo"} /\ using'[q] = using[q]
  PROVE  Owned'
  BY DEF Owned

\* The type invariant.
LEMMA NextTypeOK == TypeOK /\ Working /\ [Next]_vars => TypeOK'
  <1> SUFFICES ASSUME TypeOK, Working, [Next]_vars
               PROVE  TypeOK'
    OBVIOUS
  <1>1. ASSUME NEW r \in Requests, Ask(r)
        PROVE  TypeOK'
    BY <1>1, BackendAssumption DEF Ask, pointers, processes, publication, TypeOK,
       Working, WorksOn, Served, Processes, Pointers, Nil, BackendAssumption
  <1>2. ASSUME NEW r \in Requests, Refused(r)
        PROVE  TypeOK'
    BY <1>2, BackendAssumption DEF Refused, MayServe, pointers, processes, publication,
       TypeOK, Working, WorksOn, Served, Processes, Pointers, Nil, BackendAssumption
  <1>3. ASSUME NEW r \in Requests, Reuse(r)
        PROVE  TypeOK'
    BY <1>3, BackendAssumption DEF Reuse, MayServe, Usable, Exited, pointers,
       processes, publication, TypeOK, Working, WorksOn, Served, Processes, Pointers,
       Nil, BackendAssumption
  <1>4. ASSUME NEW r \in Requests, Replace(r)
        PROVE  TypeOK'
    BY <1>4, ZenonT(60), BackendAssumption DEF Replace, MayServe, Usable, Exited, CloseLink,
       publication, TypeOK, Working, WorksOn, Served, Processes, Pointers, Nil,
       BackendAssumption
  <1>5. ASSUME NEW r \in Requests, Discarded(r)
        PROVE  TypeOK'
    BY <1>5, BackendAssumption DEF Discarded, Gone, Exited, processes, publication,
       TypeOK, Working, WorksOn, Served, Processes, Pointers, Nil, BackendAssumption
  <1>6. ASSUME NEW r \in Requests, SpawnFails(r)
        PROVE  TypeOK'
    BY <1>6, BackendAssumption DEF SpawnFails, pointers, processes, publication,
       TypeOK, Working, WorksOn, Served, Processes, Pointers, Nil, BackendAssumption
  <1>7. ASSUME NEW r \in Requests, Spawn(r)
        PROVE  TypeOK'
    <2>1. /\ started' = started + 1 /\ started < MaxStarts
          /\ status' = [status EXCEPT ![started + 1] = "up"]
          /\ link' = [link EXCEPT ![started + 1] = "opening"]
          /\ using' = [using EXCEPT ![r] = started + 1]
      BY <1>7 DEF Spawn
    <2>2. started + 1 \in Processes /\ started' \in 0..MaxStarts
      BY <2>1, Numbers DEF Processes
    <2>3. /\ status' \in [Processes -> {"unborn", "up", "exited", "reaped"}]
          /\ link' \in [Processes -> {"none", "opening", "open", "lost", "closed"}]
          /\ using' \in [Requests -> Pointers]
      BY <2>1, <2>2 DEF TypeOK, Pointers
    <2>4. QED
      BY <1>7, <2>2, <2>3 DEF Spawn, TypeOK, pointers, publication
  <1>8. ASSUME NEW r \in Requests, Connected(r)
        PROVE  TypeOK'
    BY <1>8, BackendAssumption DEF Connected, publication, TypeOK, Working, WorksOn,
       Served, Processes, Pointers, Nil, BackendAssumption
  <1>9. ASSUME NEW r \in Requests, ConnectFails(r)
        PROVE  TypeOK'
    BY <1>9, BackendAssumption DEF ConnectFails, pointers, publication, TypeOK,
       Working, WorksOn, Served, Processes, Pointers, Nil, BackendAssumption
  <1>10. ASSUME NEW r \in Requests, Undone(r)
        PROVE  TypeOK'
    BY <1>10, BackendAssumption DEF Undone, Gone, Exited, pointers, processes,
       publication, TypeOK, Working, WorksOn, Served, Processes, Pointers, Nil,
       BackendAssumption
  <1>11. ASSUME NEW r \in Requests, Answered(r)
        PROVE  TypeOK'
    BY <1>11, BackendAssumption DEF Answered, Return, pointers, processes, publication,
       TypeOK, Working, WorksOn, Served, Processes, Pointers, Nil, BackendAssumption
  <1>12. ASSUME NEW r \in Requests, CallRejected(r)
        PROVE  TypeOK'
    BY <1>12, BackendAssumption DEF CallRejected, pointers, processes, publication,
       TypeOK, Working, WorksOn, Served, Processes, Pointers, Nil, BackendAssumption
  <1>13. ASSUME NEW r \in Requests, CallBreaks(r)
        PROVE  TypeOK'
    BY <1>13, BackendAssumption DEF CallBreaks, pointers, processes, publication,
       TypeOK, Working, WorksOn, Served, Processes, Pointers, Nil, BackendAssumption
  <1>14. ASSUME NEW r \in Requests, CallLost(r)
        PROVE  TypeOK'
    BY <1>14, BackendAssumption DEF CallLost, pointers, processes, publication, TypeOK,
       Working, WorksOn, Served, Processes, Pointers, Nil, BackendAssumption
  <1>15. ASSUME NEW r \in Requests, PassedOn(r)
        PROVE  TypeOK'
    BY <1>15, BackendAssumption DEF PassedOn, Return, Exited, pointers, processes,
       publication, TypeOK, Working, WorksOn, Served, Processes, Pointers, Nil,
       BackendAssumption
  <1>16. ASSUME NEW r \in Requests, Blame(r)
        PROVE  TypeOK'
    BY <1>16, BackendAssumption DEF Blame, Exited, pointers, processes, publication,
       TypeOK, Working, WorksOn, Served, Processes, Pointers, Nil, BackendAssumption
  <1>17. ASSUME NEW r \in Requests, Forget(r)
        PROVE  TypeOK'
    <2>1. using[r] \in 1..started
      BY <1>17 DEF Forget, Working, WorksOn, Served
    <2>2. using[r] \in Processes
      BY <2>1, Numbers DEF Processes
    <2>3. /\ conn' \in {Nil, proc} /\ proc' = proc
          /\ blamed' = blamed \cup {using[r]}
      BY <1>17 DEF Forget, ForgetConn, TypeOK
    <2>4. QED
      BY <1>17, <2>2, <2>3 DEF Forget, Return, TypeOK, Pointers, processes, publication
  <1>18. ASSUME CloseCalled
        PROVE  TypeOK'
    BY <1>18, BackendAssumption DEF CloseCalled, pointers, processes, publication,
       requests, TypeOK, Working, WorksOn, Served, Processes, Pointers, Nil,
       BackendAssumption
  <1>19. ASSUME CloseLocked
        PROVE  TypeOK'
    BY <1>19, BackendAssumption DEF CloseLocked, CloseLink, publication, requests,
       TypeOK, Working, WorksOn, Served, Processes, Pointers, Nil, BackendAssumption
  <1>20. ASSUME CloseDone
        PROVE  TypeOK'
    BY <1>20, BackendAssumption DEF CloseDone, Gone, Exited, processes, publication,
       requests, TypeOK, Working, WorksOn, Served, Processes, Pointers, Nil,
       BackendAssumption
  <1>21. ASSUME NEW p \in Processes, Exit(p)
        PROVE  TypeOK'
    BY <1>21, BackendAssumption DEF Exit, pointers, publication, requests, TypeOK,
       Working, WorksOn, Served, Processes, Pointers, Nil, BackendAssumption
  <1>22. ASSUME NEW p \in Processes, Reap(p)
        PROVE  TypeOK'
    BY <1>22, BackendAssumption DEF Reap, pointers, publication, requests, TypeOK,
       Working, WorksOn, Served, Processes, Pointers, Nil, BackendAssumption
  <1>23. ASSUME NEW p \in Processes, Lose(p)
        PROVE  TypeOK'
    BY <1>23, BackendAssumption DEF Lose, pointers, publication, requests, TypeOK,
       Working, WorksOn, Served, Processes, Pointers, Nil, BackendAssumption
  <1>24. ASSUME NEW p \in Processes, Announce(p)
        PROVE  TypeOK'
    BY <1>24, BackendAssumption DEF Announce, pointers, processes, requests, TypeOK,
       Working, WorksOn, Served, Processes, Pointers, Nil, BackendAssumption
  <1>25. ASSUME NEW p \in Processes, Publish(p)
        PROVE  TypeOK'
    BY <1>25, BackendAssumption DEF Publish, ListenersFree, pointers, processes,
       requests, TypeOK, Working, WorksOn, Served, Processes, Pointers, Nil,
       BackendAssumption
  <1>26. ASSUME NEW p \in Processes, NEW l \in Listeners, Deliver(p, l)
        PROVE  TypeOK'
    BY <1>26, BackendAssumption DEF Deliver, pointers, processes, requests, TypeOK,
       Working, WorksOn, Served, Processes, Pointers, Nil, BackendAssumption
  <1>27. ASSUME NEW p \in Processes, Published(p)
        PROVE  TypeOK'
    BY <1>27, BackendAssumption DEF Published, pointers, processes, requests, TypeOK,
       Working, WorksOn, Served, Processes, Pointers, Nil, BackendAssumption
  <1>28. ASSUME NEW l \in Listeners, Subscribe(l)
        PROVE  TypeOK'
    BY <1>28, BackendAssumption DEF Subscribe, pointers, processes, requests, TypeOK,
       Working, WorksOn, Served, Processes, Pointers, Nil, BackendAssumption
  <1>29. ASSUME NEW l \in Listeners, Release(l)
        PROVE  TypeOK'
    BY <1>29, BackendAssumption DEF Release, pointers, processes, requests, TypeOK,
       Working, WorksOn, Served, Processes, Pointers, Nil, BackendAssumption
  <1>30. CASE UNCHANGED <<lock, closed, proc, conn, started, status, link, reader, due,
                         listeners, pc, using, over, closing, blamed>>
    BY <1>30 DEF TypeOK
  <1>31. QED
    BY <1>1, <1>2, <1>3, <1>4, <1>5, <1>6, <1>7, <1>8, <1>9, <1>10, <1>11, <1>12,
       <1>13, <1>14, <1>15, <1>16, <1>17, <1>18, <1>19, <1>20, <1>21, <1>22, <1>23,
       <1>24, <1>25, <1>26, <1>27, <1>28, <1>29, <1>30 DEF Next, Session, Classify,
       Publication, vars, pointers, processes, publication, requests

\* Who holds b.mu.
LEMMA NextLocking == TypeOK /\ Locking /\ [Next]_vars => Locking'
  <1> SUFFICES ASSUME TypeOK, Locking, [Next]_vars
               PROVE  Locking'
    OBVIOUS
  <1>1. ASSUME NEW r \in Requests, Ask(r)
        PROVE  Locking'
    <2>1. /\ UNCHANGED <<lock, closed, closing>>
          /\ \A q \in Requests : pc'[q] \in Holding <=> pc[q] \in Holding
      BY <1>1 DEF Ask, pointers, processes, publication, Holding, TypeOK
    <2>2. QED
      BY <2>1, LockingKept
  <1>2. ASSUME NEW r \in Requests, Refused(r)
        PROVE  Locking'
    <2>1. /\ UNCHANGED <<lock, closed, closing>>
          /\ \A q \in Requests : pc'[q] \in Holding <=> pc[q] \in Holding
      BY <1>2 DEF Refused, MayServe, pointers, processes, publication, Holding, TypeOK
    <2>2. QED
      BY <2>1, LockingKept
  <1>3. ASSUME NEW r \in Requests, Reuse(r)
        PROVE  Locking'
    <2>1. /\ UNCHANGED <<lock, closed, closing>>
          /\ \A q \in Requests : pc'[q] \in Holding <=> pc[q] \in Holding
      BY <1>3 DEF Reuse, MayServe, Usable, Exited, pointers, processes, publication, Holding, TypeOK
    <2>2. QED
      BY <2>1, LockingKept
  <1>4. ASSUME NEW r \in Requests, Replace(r)
        PROVE  Locking'
    BY <1>4, ZenonT(60), BackendAssumption DEF Replace, MayServe, Usable, Exited, CloseLink,
       publication, TypeOK, Locking, Holding, BackendAssumption
  <1>5. ASSUME NEW r \in Requests, Discarded(r)
        PROVE  Locking'
    <2>1. /\ UNCHANGED <<lock, closed, closing>>
          /\ \A q \in Requests : pc'[q] \in Holding <=> pc[q] \in Holding
      BY <1>5 DEF Discarded, Gone, Exited, processes, publication, Holding, TypeOK
    <2>2. QED
      BY <2>1, LockingKept
  <1>6. ASSUME NEW r \in Requests, SpawnFails(r)
        PROVE  Locking'
    <2>1. /\ pc[r] = "spawn" /\ lock' = Nobody /\ pc' = [pc EXCEPT ![r] = "idle"]
          /\ closing' = closing /\ (closed' <=> closed)
      BY <1>6 DEF SpawnFails, pointers
    <2>2. lock = r /\ closing # "discard" /\ Nobody \notin Requests \cup {Closer}
      BY <2>1, BackendAssumption DEF BackendAssumption, Locking, Holding
    <2>3. QED
      BY <2>1, <2>2 DEF Locking, Holding, TypeOK
  <1>7. ASSUME NEW r \in Requests, Spawn(r)
        PROVE  Locking'
    <2>1. /\ UNCHANGED <<lock, closed, closing>>
          /\ \A q \in Requests : pc'[q] \in Holding <=> pc[q] \in Holding
      BY <1>7 DEF Spawn, pointers, publication, Holding, TypeOK
    <2>2. QED
      BY <2>1, LockingKept
  <1>8. ASSUME NEW r \in Requests, Connected(r)
        PROVE  Locking'
    <2>1. /\ pc[r] \in Holding /\ lock' = Nobody /\ UNCHANGED <<closed, closing>>
          /\ pc'[r] \notin Holding /\ \A q \in Requests \ {r} : pc'[q] = pc[q]
      BY <1>8 DEF Connected, Undone, pointers, Holding, TypeOK
    <2>2. lock = r /\ Nobody \notin Requests \cup {Closer} /\ r # Closer
      BY <2>1, BackendAssumption DEF BackendAssumption, Locking
    <2>3. QED
      BY <2>1, <2>2 DEF Locking
  <1>9. ASSUME NEW r \in Requests, ConnectFails(r)
        PROVE  Locking'
    <2>1. /\ UNCHANGED <<lock, closed, closing>>
          /\ \A q \in Requests : pc'[q] \in Holding <=> pc[q] \in Holding
      BY <1>9 DEF ConnectFails, pointers, publication, Holding, TypeOK
    <2>2. QED
      BY <2>1, LockingKept
  <1>10. ASSUME NEW r \in Requests, Undone(r)
        PROVE  Locking'
    <2>1. /\ pc[r] \in Holding /\ lock' = Nobody /\ UNCHANGED <<closed, closing>>
          /\ pc'[r] \notin Holding /\ \A q \in Requests \ {r} : pc'[q] = pc[q]
      BY <1>10 DEF Connected, Undone, pointers, Holding, TypeOK
    <2>2. lock = r /\ Nobody \notin Requests \cup {Closer} /\ r # Closer
      BY <2>1, BackendAssumption DEF BackendAssumption, Locking
    <2>3. QED
      BY <2>1, <2>2 DEF Locking
  <1>11. ASSUME NEW r \in Requests, Answered(r)
        PROVE  Locking'
    <2>1. /\ UNCHANGED <<lock, closed, closing>>
          /\ \A q \in Requests : pc'[q] \in Holding <=> pc[q] \in Holding
      BY <1>11 DEF Answered, Return, pointers, processes, publication, Holding, TypeOK
    <2>2. QED
      BY <2>1, LockingKept
  <1>12. ASSUME NEW r \in Requests, CallRejected(r)
        PROVE  Locking'
    <2>1. /\ UNCHANGED <<lock, closed, closing>>
          /\ \A q \in Requests : pc'[q] \in Holding <=> pc[q] \in Holding
      BY <1>12 DEF CallRejected, pointers, processes, publication, Holding, TypeOK
    <2>2. QED
      BY <2>1, LockingKept
  <1>13. ASSUME NEW r \in Requests, CallBreaks(r)
        PROVE  Locking'
    <2>1. /\ UNCHANGED <<lock, closed, closing>>
          /\ \A q \in Requests : pc'[q] \in Holding <=> pc[q] \in Holding
      BY <1>13 DEF CallBreaks, pointers, processes, publication, Holding, TypeOK
    <2>2. QED
      BY <2>1, LockingKept
  <1>14. ASSUME NEW r \in Requests, CallLost(r)
        PROVE  Locking'
    <2>1. /\ UNCHANGED <<lock, closed, closing>>
          /\ \A q \in Requests : pc'[q] \in Holding <=> pc[q] \in Holding
      BY <1>14 DEF CallLost, pointers, processes, publication, Holding, TypeOK
    <2>2. QED
      BY <2>1, LockingKept
  <1>15. ASSUME NEW r \in Requests, PassedOn(r)
        PROVE  Locking'
    <2>1. /\ UNCHANGED <<lock, closed, closing>>
          /\ \A q \in Requests : pc'[q] \in Holding <=> pc[q] \in Holding
      BY <1>15 DEF PassedOn, Return, Exited, pointers, processes, publication, Holding, TypeOK
    <2>2. QED
      BY <2>1, LockingKept
  <1>16. ASSUME NEW r \in Requests, Blame(r)
        PROVE  Locking'
    <2>1. /\ UNCHANGED <<lock, closed, closing>>
          /\ \A q \in Requests : pc'[q] \in Holding <=> pc[q] \in Holding
      BY <1>16 DEF Blame, Exited, pointers, processes, publication, Holding, TypeOK
    <2>2. QED
      BY <2>1, LockingKept
  <1>17. ASSUME NEW r \in Requests, Forget(r)
        PROVE  Locking'
    <2>1. /\ UNCHANGED <<lock, closed, closing>>
          /\ \A q \in Requests : pc'[q] \in Holding <=> pc[q] \in Holding
      BY <1>17 DEF Forget, Return, ForgetConn, processes, publication, Holding, TypeOK
    <2>2. QED
      BY <2>1, LockingKept
  <1>18. ASSUME CloseCalled
        PROVE  Locking'
    BY <1>18, BackendAssumption DEF CloseCalled, pointers, processes, publication,
       requests, TypeOK, Locking, Holding, BackendAssumption
  <1>19. ASSUME CloseLocked
        PROVE  Locking'
    BY <1>19, BackendAssumption DEF CloseLocked, CloseLink, publication, requests,
       TypeOK, Locking, Holding, BackendAssumption
  <1>20. ASSUME CloseDone
        PROVE  Locking'
    BY <1>20, BackendAssumption DEF CloseDone, Gone, Exited, processes, publication,
       requests, TypeOK, Locking, Holding, BackendAssumption
  <1>21. CASE UNCHANGED <<lock, closed, pc, closing>>
    BY <1>21 DEF Locking, Holding
  <1>22. QED
    BY <1>1, <1>2, <1>3, <1>4, <1>5, <1>6, <1>7, <1>8, <1>9, <1>10, <1>11, <1>12,
       <1>13, <1>14, <1>15, <1>16, <1>17, <1>18, <1>19, <1>20, <1>21 DEF Next, Session,
       Classify, Publication, Exit, Reap, Lose, Announce, Publish, Deliver, Published,
       Subscribe, Release, vars, pointers, processes, publication, requests

\* Processes are numbered as they start.
LEMMA NextBorn == TypeOK /\ Born /\ Working /\ [Next]_vars => Born'
  <1> SUFFICES ASSUME TypeOK, Born, Working, [Next]_vars
               PROVE  Born'
    OBVIOUS
  <1>1. ASSUME NEW r \in Requests, Discarded(r)
        PROVE  Born'
    BY <1>1, Numbers DEF Discarded, Born, processes, Nil
  <1>2. ASSUME NEW r \in Requests, Spawn(r)
        PROVE  Born'
    <2>1. /\ started' = started + 1 /\ started < MaxStarts /\ proc' = proc
          /\ status' = [status EXCEPT ![started + 1] = "up"]
          /\ status \in [Processes -> {"unborn", "up", "exited", "reaped"}]
      BY <1>2 DEF Spawn, pointers, TypeOK
    <2>2. QED
      BY <2>1, Numbers DEF Born, Processes
  <1>3. ASSUME NEW r \in Requests, Connected(r)
        PROVE  Born'
    <2>1. proc' = using[r] /\ UNCHANGED <<started, status>> /\ using[r] \in 1..started
      BY <1>3 DEF Connected, Working, WorksOn
    <2>2. QED
      BY <2>1, Numbers DEF Born
  <1>4. ASSUME CloseDone
        PROVE  Born'
    BY <1>4, BackendAssumption DEF CloseDone, Gone, Exited, processes, publication,
       requests, TypeOK, Born, Working, Processes, Pointers, Nil, BackendAssumption
  <1>5. ASSUME NEW p \in Processes, Exit(p)
        PROVE  Born'
    BY <1>5, BackendAssumption DEF Exit, pointers, publication, requests, TypeOK, Born,
       Working, Processes, Pointers, Nil, BackendAssumption
  <1>6. ASSUME NEW p \in Processes, Reap(p)
        PROVE  Born'
    BY <1>6, BackendAssumption DEF Reap, pointers, publication, requests, TypeOK, Born,
       Working, Processes, Pointers, Nil, BackendAssumption
  <1>7. CASE UNCHANGED <<started, status, proc>>
    BY <1>7 DEF Born
  <1>8. QED
    BY <1>1, <1>2, <1>3, <1>4, <1>5, <1>6, <1>7 DEF Next, Session, Classify,
       Publication, Ask, Refused, Reuse, Replace, SpawnFails, ConnectFails, Undone,
       Answered, CallRejected, CallBreaks, CallLost, PassedOn, Blame, Forget,
       CloseCalled, CloseLocked, Lose, Announce, Publish, Deliver, Published,
       Subscribe, Release, vars, pointers, processes, publication, requests

\* What the holder works on.
LEMMA NextWorking == TypeOK /\ Locking /\ Born /\ Working /\ [Next]_vars => Working'
  <1> SUFFICES ASSUME TypeOK, Locking, Born, Working, [Next]_vars
               PROVE  Working'
    OBVIOUS
  <1>1. ASSUME NEW r \in Requests, Ask(r)
        PROVE  Working'
    <2>1. /\ UNCHANGED <<proc, conn, started, closing>>
          /\ \A q \in Requests :
                \/ pc'[q] = pc[q] /\ using'[q] = using[q]
                \/ pc'[q] \in {"idle", "session"}
                \/ pc[q] \in Served /\ pc'[q] \in Served /\ using'[q] = using[q]
      BY <1>1 DEF Ask, pointers, processes, publication, Served, TypeOK
    <2>2. QED
      BY <2>1, WorkingKept
  <1>2. ASSUME NEW r \in Requests, Refused(r)
        PROVE  Working'
    <2>1. /\ UNCHANGED <<proc, conn, started, closing>>
          /\ \A q \in Requests :
                \/ pc'[q] = pc[q] /\ using'[q] = using[q]
                \/ pc'[q] \in {"idle", "session"}
                \/ pc[q] \in Served /\ pc'[q] \in Served /\ using'[q] = using[q]
      BY <1>2 DEF Refused, MayServe, pointers, processes, publication, Served, TypeOK
    <2>2. QED
      BY <2>1, WorkingKept
  <1>3. ASSUME NEW r \in Requests, Reuse(r)
        PROVE  Working'
    <2>1. /\ pc' = [pc EXCEPT ![r] = "call"] /\ using' = [using EXCEPT ![r] = proc]
          /\ proc # Nil /\ UNCHANGED <<proc, conn, started, closing>>
      BY <1>3 DEF Reuse, Usable, pointers, processes
    <2>2. proc \in 1..started
      BY <2>1, Numbers DEF Born, Nil
    <2>3. ASSUME NEW q \in Requests PROVE WorksOn(q)'
      BY <2>1, <2>2, <2>3 DEF Working, WorksOn, TypeOK, Served
    <2>4. QED
      BY <2>1, <2>3 DEF Working
  <1>4. ASSUME NEW r \in Requests, Replace(r)
        PROVE  Working'
    <2>1. /\ lock' = r /\ lock = Nobody
          /\ UNCHANGED <<closed, proc, started, using, closing>>
          /\ \/ proc = Nil /\ pc' = [pc EXCEPT ![r] = "spawn"] /\ conn' = conn
             \/ proc # Nil /\ pc' = [pc EXCEPT ![r] = "discard"] /\ conn' = Nil
      BY <1>4 DEF Replace, CloseLink
    <2>2. lock \notin Requests /\ closing # "discard"
      BY <2>1, BackendAssumption DEF BackendAssumption, Locking
    <2>3. ASSUME NEW q \in Requests PROVE WorksOn(q)'
      <3>1. pc[q] \notin Holding
        BY <2>2, <2>3 DEF Locking
      <3>2. /\ pc'[q] = pc[q] \/ (pc'[q] = "spawn" /\ proc = Nil)
                            \/ (pc'[q] = "discard" /\ proc # Nil /\ conn' = Nil)
        BY <2>1, <2>3 DEF TypeOK
      <3>3. QED
        BY <2>1, <2>3, <3>1, <3>2 DEF Working, WorksOn, Holding, Served
    <2>4. QED
      BY <2>1, <2>2, <2>3 DEF Working
  <1>5. ASSUME NEW r \in Requests, Discarded(r)
        PROVE  Working'
    <2>1. /\ pc[r] = "discard" /\ proc' = Nil /\ UNCHANGED <<conn, started, using, closing>>
          /\ pc'[r] = "spawn" /\ \A q \in Requests \ {r} : pc'[q] = pc[q]
      BY <1>5 DEF Discarded, processes, TypeOK
    <2>2. lock = r /\ closing # "discard"
      BY <2>1, BackendAssumption DEF BackendAssumption, Locking, Holding
    <2>3. ASSUME NEW q \in Requests PROVE WorksOn(q)'
      <3>1. q # r => pc[q] \notin Holding
        BY <2>2 DEF Locking
      <3>2. QED
        BY <2>1, <3>1 DEF Working, WorksOn, Holding, Served
    <2>4. QED
      BY <2>1, <2>2, <2>3 DEF Working
  <1>6. ASSUME NEW r \in Requests, SpawnFails(r)
        PROVE  Working'
    <2>1. /\ UNCHANGED <<proc, conn, started, closing>>
          /\ \A q \in Requests :
                \/ pc'[q] = pc[q] /\ using'[q] = using[q]
                \/ pc'[q] \in {"idle", "session"}
                \/ pc[q] \in Served /\ pc'[q] \in Served /\ using'[q] = using[q]
      BY <1>6 DEF SpawnFails, pointers, processes, publication, Served, TypeOK
    <2>2. QED
      BY <2>1, WorkingKept
  <1>7. ASSUME NEW r \in Requests, Spawn(r)
        PROVE  Working'
    <2>1. /\ pc[r] = "spawn" /\ pc' = [pc EXCEPT ![r] = "connect"]
          /\ using' = [using EXCEPT ![r] = started + 1] /\ started' = started + 1
          /\ UNCHANGED <<proc, conn, closing>>
      BY <1>7 DEF Spawn, pointers
    <2>2. ASSUME NEW q \in Requests PROVE WorksOn(q)'
      <3>1. using[q] \in Nat /\ started \in Nat
        BY Numbers
      <3>2. using'[q] = (IF q = r THEN started + 1 ELSE using[q])
            /\ pc'[q] = (IF q = r THEN "connect" ELSE pc[q])
        BY <2>1 DEF TypeOK
      <3>3. QED
        BY <2>1, <3>1, <3>2 DEF Working, WorksOn, Served
    <2>3. QED
      BY <2>1, <2>2 DEF Working
  <1>8. ASSUME NEW r \in Requests, Connected(r)
        PROVE  Working'
    <2>1. /\ pc[r] = "connect" /\ proc' = using[r] /\ conn' = using[r]
          /\ UNCHANGED <<started, using, closing>>
          /\ pc'[r] = "call" /\ \A q \in Requests \ {r} : pc'[q] = pc[q]
      BY <1>8 DEF Connected, TypeOK
    <2>2. lock = r /\ ~closed /\ closing \notin {"discard", "done"}
      BY <2>1 DEF Locking, Holding
    <2>3. ASSUME NEW q \in Requests PROVE WorksOn(q)'
      <3>1. q # r => pc[q] \notin Holding
        BY <2>2 DEF Locking
      <3>2. QED
        BY <2>1, <3>1 DEF Working, WorksOn, Holding, Served
    <2>4. QED
      BY <2>1, <2>2, <2>3 DEF Working
  <1>9. ASSUME NEW r \in Requests, ConnectFails(r)
        PROVE  Working'
    BY <1>9, ZenonT(60), BackendAssumption DEF ConnectFails, pointers, publication, TypeOK,
       Locking, Holding, Born, Working, WorksOn, Served, Processes, Pointers, Nil,
       BackendAssumption
  <1>10. ASSUME NEW r \in Requests, Undone(r)
        PROVE  Working'
    <2>1. /\ UNCHANGED <<proc, conn, started, closing>>
          /\ \A q \in Requests :
                \/ pc'[q] = pc[q] /\ using'[q] = using[q]
                \/ pc'[q] \in {"idle", "session"}
                \/ pc[q] \in Served /\ pc'[q] \in Served /\ using'[q] = using[q]
      BY <1>10 DEF Undone, Gone, Exited, pointers, processes, publication, Served, TypeOK
    <2>2. QED
      BY <2>1, WorkingKept
  <1>11. ASSUME NEW r \in Requests, Answered(r)
        PROVE  Working'
    <2>1. /\ UNCHANGED <<proc, conn, started, closing>>
          /\ \A q \in Requests :
                \/ pc'[q] = pc[q] /\ using'[q] = using[q]
                \/ pc'[q] \in {"idle", "session"}
                \/ pc[q] \in Served /\ pc'[q] \in Served /\ using'[q] = using[q]
      BY <1>11 DEF Answered, Return, pointers, processes, publication, Served, TypeOK
    <2>2. QED
      BY <2>1, WorkingKept
  <1>12. ASSUME NEW r \in Requests, CallRejected(r)
        PROVE  Working'
    <2>1. /\ UNCHANGED <<proc, conn, started, closing>>
          /\ \A q \in Requests :
                \/ pc'[q] = pc[q] /\ using'[q] = using[q]
                \/ pc'[q] \in {"idle", "session"}
                \/ pc[q] \in Served /\ pc'[q] \in Served /\ using'[q] = using[q]
      BY <1>12 DEF CallRejected, pointers, processes, publication, Served, TypeOK
    <2>2. QED
      BY <2>1, WorkingKept
  <1>13. ASSUME NEW r \in Requests, CallBreaks(r)
        PROVE  Working'
    <2>1. /\ UNCHANGED <<proc, conn, started, closing>>
          /\ \A q \in Requests :
                \/ pc'[q] = pc[q] /\ using'[q] = using[q]
                \/ pc'[q] \in {"idle", "session"}
                \/ pc[q] \in Served /\ pc'[q] \in Served /\ using'[q] = using[q]
      BY <1>13 DEF CallBreaks, pointers, processes, publication, Served, TypeOK
    <2>2. QED
      BY <2>1, WorkingKept
  <1>14. ASSUME NEW r \in Requests, CallLost(r)
        PROVE  Working'
    <2>1. /\ UNCHANGED <<proc, conn, started, closing>>
          /\ \A q \in Requests :
                \/ pc'[q] = pc[q] /\ using'[q] = using[q]
                \/ pc'[q] \in {"idle", "session"}
                \/ pc[q] \in Served /\ pc'[q] \in Served /\ using'[q] = using[q]
      BY <1>14 DEF CallLost, pointers, processes, publication, Served, TypeOK
    <2>2. QED
      BY <2>1, WorkingKept
  <1>15. ASSUME NEW r \in Requests, PassedOn(r)
        PROVE  Working'
    <2>1. /\ UNCHANGED <<proc, conn, started, closing>>
          /\ \A q \in Requests :
                \/ pc'[q] = pc[q] /\ using'[q] = using[q]
                \/ pc'[q] \in {"idle", "session"}
                \/ pc[q] \in Served /\ pc'[q] \in Served /\ using'[q] = using[q]
      BY <1>15 DEF PassedOn, Return, Exited, pointers, processes, publication, Served, TypeOK
    <2>2. QED
      BY <2>1, WorkingKept
  <1>16. ASSUME NEW r \in Requests, Blame(r)
        PROVE  Working'
    <2>1. /\ UNCHANGED <<proc, conn, started, closing>>
          /\ \A q \in Requests :
                \/ pc'[q] = pc[q] /\ using'[q] = using[q]
                \/ pc'[q] \in {"idle", "session"}
                \/ pc[q] \in Served /\ pc'[q] \in Served /\ using'[q] = using[q]
      BY <1>16 DEF Blame, Exited, pointers, processes, publication, Served, TypeOK
    <2>2. QED
      BY <2>1, WorkingKept
  <1>17. ASSUME NEW r \in Requests, Forget(r)
        PROVE  Working'
    BY <1>17, BackendAssumption DEF Forget, Return, ForgetConn, processes, publication,
       TypeOK, Locking, Holding, Born, Working, WorksOn, Served, Processes, Pointers,
       Nil, BackendAssumption
  <1>18. ASSUME CloseCalled
        PROVE  Working'
    BY <1>18, BackendAssumption DEF CloseCalled, pointers, processes, publication,
       requests, TypeOK, Locking, Holding, Born, Working, WorksOn, Served, Processes,
       Pointers, Nil, BackendAssumption
  <1>19. ASSUME CloseLocked
        PROVE  Working'
    BY <1>19, BackendAssumption DEF CloseLocked, CloseLink, publication, requests,
       TypeOK, Locking, Holding, Born, Working, WorksOn, Served, Processes, Pointers,
       Nil, BackendAssumption
  <1>20. ASSUME CloseDone
        PROVE  Working'
    BY <1>20, BackendAssumption DEF CloseDone, Gone, Exited, processes, publication,
       requests, TypeOK, Locking, Holding, Born, Working, WorksOn, Served, Processes,
       Pointers, Nil, BackendAssumption
  <1>21. CASE UNCHANGED <<proc, conn, started, pc, using, closing>>
    BY <1>21 DEF Working, WorksOn
  <1>22. QED
    BY <1>1, <1>2, <1>3, <1>4, <1>5, <1>6, <1>7, <1>8, <1>9, <1>10, <1>11, <1>12,
       <1>13, <1>14, <1>15, <1>16, <1>17, <1>18, <1>19, <1>20, <1>21 DEF Next, Session,
       Classify, Publication, Exit, Reap, Lose, Announce, Publish, Deliver, Published,
       Subscribe, Release, vars, pointers, processes, publication, requests

\* No process is lost track of.
LEMMA NextOwned == TypeOK /\ Locking /\ Born /\ Working /\ Owned /\ [Next]_vars =>
   Owned'
  <1> SUFFICES ASSUME TypeOK, Locking, Born, Working, Owned, [Next]_vars
               PROVE  Owned'
    OBVIOUS
  <1>1. ASSUME NEW r \in Requests, Ask(r)
        PROVE  Owned'
    <2>1. /\ UNCHANGED <<lock, proc, started, status>>
          /\ \A q \in Requests : pc[q] \in {"connect", "undo"} =>
                pc'[q] \in {"connect", "undo"} /\ using'[q] = using[q]
      BY <1>1 DEF Ask, pointers, processes, publication, TypeOK
    <2>2. QED
      BY <2>1, OwnedKept
  <1>2. ASSUME NEW r \in Requests, Refused(r)
        PROVE  Owned'
    <2>1. /\ UNCHANGED <<lock, proc, started, status>>
          /\ \A q \in Requests : pc[q] \in {"connect", "undo"} =>
                pc'[q] \in {"connect", "undo"} /\ using'[q] = using[q]
      BY <1>2 DEF Refused, MayServe, pointers, processes, publication, TypeOK
    <2>2. QED
      BY <2>1, OwnedKept
  <1>3. ASSUME NEW r \in Requests, Reuse(r)
        PROVE  Owned'
    <2>1. /\ UNCHANGED <<lock, proc, started, status>>
          /\ \A q \in Requests : pc[q] \in {"connect", "undo"} =>
                pc'[q] \in {"connect", "undo"} /\ using'[q] = using[q]
      BY <1>3 DEF Reuse, MayServe, Usable, Exited, pointers, processes, publication, TypeOK
    <2>2. QED
      BY <2>1, OwnedKept
  <1>4. ASSUME NEW r \in Requests, Replace(r)
        PROVE  Owned'
    <2>1. lock = Nobody /\ UNCHANGED <<proc, started, status>>
      BY <1>4 DEF Replace
    <2>2. \A p \in 1..started : status[p] # "reaped" => p = proc
      BY <2>1, BackendAssumption DEF BackendAssumption, Owned
    <2>3. QED
      BY <2>1, <2>2 DEF Owned
  <1>5. ASSUME NEW r \in Requests, Discarded(r)
        PROVE  Owned'
    BY <1>5, BackendAssumption DEF Discarded, Gone, Exited, processes, publication,
       TypeOK, Locking, Holding, Born, Working, Owned, Processes, Pointers, Nil,
       BackendAssumption
  <1>6. ASSUME NEW r \in Requests, SpawnFails(r)
        PROVE  Owned'
    BY <1>6, BackendAssumption DEF SpawnFails, pointers, processes, publication,
       TypeOK, Locking, Holding, Born, Working, Owned, Processes, Pointers, Nil,
       BackendAssumption
  <1>7. ASSUME NEW r \in Requests, Spawn(r)
        PROVE  Owned'
    <2>1. /\ pc[r] = "spawn" /\ pc' = [pc EXCEPT ![r] = "connect"]
          /\ using' = [using EXCEPT ![r] = started + 1]
          /\ started' = started + 1 /\ started < MaxStarts
          /\ status' = [status EXCEPT ![started + 1] = "up"]
          /\ UNCHANGED <<lock, proc>>
      BY <1>7 DEF Spawn, pointers
    <2>2. lock = r /\ proc = Nil
      BY <2>1 DEF Locking, Holding, Working, WorksOn
    <2>3. \A p \in 1..started : status[p] = "reaped"
      BY <2>1, <2>2, Numbers DEF Owned, Nil
    <2>4. pc'[r] = "connect" /\ using'[r] = started + 1
      BY <2>1 DEF TypeOK
    <2>5. \A p \in 1..started : status'[p] = "reaped"
      BY <2>1, <2>3, Numbers
    <2>6. QED
      BY <2>1, <2>2, <2>4, <2>5, Numbers DEF Owned
  <1>8. ASSUME NEW r \in Requests, Connected(r)
        PROVE  Owned'
    <2>1. /\ pc[r] = "connect" /\ proc' = using[r] /\ UNCHANGED <<started, status>>
      BY <1>8 DEF Connected
    <2>2. lock = r /\ proc = Nil
      BY <2>1 DEF Locking, Holding, Working, WorksOn
    <2>3. \A p \in 1..started : status[p] # "reaped" => p = using[r]
      BY <2>2, Numbers DEF Owned, Nil
    <2>4. QED
      BY <2>1, <2>3 DEF Owned
  <1>9. ASSUME NEW r \in Requests, ConnectFails(r)
        PROVE  Owned'
    <2>1. /\ UNCHANGED <<lock, proc, started, status>>
          /\ \A q \in Requests : pc[q] \in {"connect", "undo"} =>
                pc'[q] \in {"connect", "undo"} /\ using'[q] = using[q]
      BY <1>9 DEF ConnectFails, pointers, publication, TypeOK
    <2>2. QED
      BY <2>1, OwnedKept
  <1>10. ASSUME NEW r \in Requests, Undone(r)
        PROVE  Owned'
    <2>1. /\ pc[r] = "undo" /\ status[using[r]] = "reaped"
          /\ UNCHANGED <<proc, started, status>>
      BY <1>10 DEF Undone, Gone, Exited, pointers, processes
    <2>2. lock = r
      BY <2>1 DEF Locking, Holding
    <2>3. \A p \in 1..started : status[p] # "reaped" => p = proc
      BY <2>1, <2>2 DEF Owned
    <2>4. QED
      BY <2>1, <2>3 DEF Owned
  <1>11. ASSUME NEW r \in Requests, Answered(r)
        PROVE  Owned'
    <2>1. /\ UNCHANGED <<lock, proc, started, status>>
          /\ \A q \in Requests : pc[q] \in {"connect", "undo"} =>
                pc'[q] \in {"connect", "undo"} /\ using'[q] = using[q]
      BY <1>11 DEF Answered, Return, pointers, processes, publication, TypeOK
    <2>2. QED
      BY <2>1, OwnedKept
  <1>12. ASSUME NEW r \in Requests, CallRejected(r)
        PROVE  Owned'
    <2>1. /\ UNCHANGED <<lock, proc, started, status>>
          /\ \A q \in Requests : pc[q] \in {"connect", "undo"} =>
                pc'[q] \in {"connect", "undo"} /\ using'[q] = using[q]
      BY <1>12 DEF CallRejected, pointers, processes, publication, TypeOK
    <2>2. QED
      BY <2>1, OwnedKept
  <1>13. ASSUME NEW r \in Requests, CallBreaks(r)
        PROVE  Owned'
    <2>1. /\ UNCHANGED <<lock, proc, started, status>>
          /\ \A q \in Requests : pc[q] \in {"connect", "undo"} =>
                pc'[q] \in {"connect", "undo"} /\ using'[q] = using[q]
      BY <1>13 DEF CallBreaks, pointers, processes, publication, TypeOK
    <2>2. QED
      BY <2>1, OwnedKept
  <1>14. ASSUME NEW r \in Requests, CallLost(r)
        PROVE  Owned'
    <2>1. /\ UNCHANGED <<lock, proc, started, status>>
          /\ \A q \in Requests : pc[q] \in {"connect", "undo"} =>
                pc'[q] \in {"connect", "undo"} /\ using'[q] = using[q]
      BY <1>14 DEF CallLost, pointers, processes, publication, TypeOK
    <2>2. QED
      BY <2>1, OwnedKept
  <1>15. ASSUME NEW r \in Requests, PassedOn(r)
        PROVE  Owned'
    <2>1. /\ UNCHANGED <<lock, proc, started, status>>
          /\ \A q \in Requests : pc[q] \in {"connect", "undo"} =>
                pc'[q] \in {"connect", "undo"} /\ using'[q] = using[q]
      BY <1>15 DEF PassedOn, Return, Exited, pointers, processes, publication, TypeOK
    <2>2. QED
      BY <2>1, OwnedKept
  <1>16. ASSUME NEW r \in Requests, Blame(r)
        PROVE  Owned'
    <2>1. /\ UNCHANGED <<lock, proc, started, status>>
          /\ \A q \in Requests : pc[q] \in {"connect", "undo"} =>
                pc'[q] \in {"connect", "undo"} /\ using'[q] = using[q]
      BY <1>16 DEF Blame, Exited, pointers, processes, publication, TypeOK
    <2>2. QED
      BY <2>1, OwnedKept
  <1>17. ASSUME NEW r \in Requests, Forget(r)
        PROVE  Owned'
    <2>1. /\ UNCHANGED <<lock, proc, started, status>>
          /\ \A q \in Requests : pc[q] \in {"connect", "undo"} =>
                pc'[q] \in {"connect", "undo"} /\ using'[q] = using[q]
      BY <1>17 DEF Forget, Return, ForgetConn, processes, publication, TypeOK
    <2>2. QED
      BY <2>1, OwnedKept
  <1>18. ASSUME CloseLocked
        PROVE  Owned'
    BY <1>18, BackendAssumption DEF CloseLocked, CloseLink, publication, requests,
       TypeOK, Locking, Holding, Born, Working, Owned, Processes, Pointers, Nil,
       BackendAssumption
  <1>19. ASSUME CloseDone
        PROVE  Owned'
    BY <1>19, BackendAssumption DEF CloseDone, Gone, Exited, processes, publication,
       requests, TypeOK, Locking, Holding, Born, Working, Owned, Processes, Pointers,
       Nil, BackendAssumption
  <1>20. ASSUME NEW p \in Processes, Exit(p)
        PROVE  Owned'
    <2>1. /\ status[p] = "up" /\ status' = [status EXCEPT ![p] = "exited"]
          /\ UNCHANGED <<lock, proc, started, pc, using>>
      BY <1>20 DEF Exit, pointers, requests
    <2>2. \A q \in 1..started : status'[q] # "reaped" => status[q] # "reaped"
      BY <2>1, Numbers
    <2>3. QED
      BY <2>1, <2>2 DEF Owned
  <1>21. ASSUME NEW p \in Processes, Reap(p)
        PROVE  Owned'
    <2>1. /\ status[p] = "exited" /\ status' = [status EXCEPT ![p] = "reaped"]
          /\ UNCHANGED <<lock, proc, started, pc, using>>
      BY <1>21 DEF Reap, pointers, requests
    <2>2. \A q \in 1..started : status'[q] # "reaped" => status[q] # "reaped"
      BY <2>1, Numbers
    <2>3. QED
      BY <2>1, <2>2 DEF Owned
  <1>22. CASE UNCHANGED <<lock, proc, started, status, pc, using>>
    BY <1>22 DEF Owned
  <1>23. QED
    BY <1>1, <1>2, <1>3, <1>4, <1>5, <1>6, <1>7, <1>8, <1>9, <1>10, <1>11, <1>12,
       <1>13, <1>14, <1>15, <1>16, <1>17, <1>18, <1>19, <1>20, <1>21, <1>22 DEF Next,
       Session, Classify, Publication, CloseCalled, Lose, Announce, Publish, Deliver,
       Published, Subscribe, Release, vars, pointers, processes, publication, requests

-----------------------------------------------------------------------------
(* What those who do not hold the lock still rely on.                      *)

Paired == \A r \in Requests : pc[r] \in {"call", "lost"} => over[r] # Nil /\ over[r] = using[r]

\* Out of use: the connection is gone, or the process is known to be.
Unfit(p) == link[p] \in {"lost", "closed"} \/ status[p] = "reaped"

Faults == \A r \in Requests :
    /\ pc[r] = "lost" => link[using[r]] \in {"lost", "closed"}
    /\ pc[r] = "forget" => Unfit(using[r])

Dropped == proc # Nil /\ conn = Nil => Unfit(proc)

\* A process being connected is the holder's alone.
Connecting == \A r \in Requests :
    /\ using[r] <= started
    /\ pc[r] = "connect" =>
          /\ link[using[r]] \in {"opening", "lost"}
          /\ \A q \in Requests \ {r} : using[q] # using[r]
          /\ using[r] \notin blamed

Blamed == \A p \in blamed : p <= started /\ conn # p

LEMMA InitHistory == Init => Paired /\ Faults /\ Dropped /\ Connecting /\ Blamed
  <1> SUFFICES ASSUME Init PROVE Paired /\ Faults /\ Dropped /\ Connecting /\ Blamed
    OBVIOUS
  <1>1. /\ proc = Nil /\ started = 0 /\ blamed = {}
        /\ pc = [r \in Requests |-> "idle"] /\ using = [r \in Requests |-> Nil]
    BY DEF Init
  <1>2. QED
    BY <1>1 DEF Paired, Faults, Dropped, Connecting, Blamed, Nil

\* A step that neither starts a process, nor blames one, nor meddles with those
\* being connected.
LEMMA ConnectingKept ==
  ASSUME TypeOK, Working, Connecting, UNCHANGED <<started, blamed>>,
         \A q \in Requests :
            /\ using'[q] \in {using[q], Nil}
            /\ pc'[q] = "connect" =>
                  pc[q] = "connect" /\ using'[q] = using[q] /\ link'[using[q]] = link[using[q]]
  PROVE  Connecting'
  <1>1. started \in Nat
    BY Numbers
  <1>2. ASSUME NEW q \in Requests PROVE using'[q] <= started'
    <2>1. using[q] <= started /\ using'[q] \in {using[q], Nil} /\ started' = started
      BY <1>2 DEF Connecting
    <2>2. QED
      BY <1>1, <2>1 DEF Nil
  <1>3. ASSUME NEW q \in Requests, pc'[q] = "connect"
        PROVE  /\ link'[using'[q]] \in {"opening", "lost"}
               /\ \A x \in Requests \ {q} : using'[x] # using'[q]
               /\ using'[q] \notin blamed'
    <2>1. pc[q] = "connect" /\ using'[q] = using[q] /\ link'[using[q]] = link[using[q]]
      BY <1>3
    <2>2. /\ link[using[q]] \in {"opening", "lost"}
          /\ \A x \in Requests \ {q} : using[x] # using[q]
          /\ using[q] \notin blamed
      BY <2>1 DEF Connecting
    <2>3. using[q] \in 1..started
      BY <2>1 DEF Working, WorksOn
    <2>4. using[q] # Nil
      BY <1>1, <2>3 DEF Nil
    <2>5. \A x \in Requests \ {q} : using'[x] # using[q]
      BY <2>2, <2>4
    <2>6. QED
      BY <2>1, <2>2, <2>5
  <1>4. QED
    BY <1>2, <1>3 DEF Connecting

\* A step that leaves nobody connecting.
LEMMA NobodyConnecting ==
  ASSUME \A q \in Requests : using'[q] <= started' /\ pc'[q] # "connect"
  PROVE  Connecting'
  BY DEF Connecting

\* The connection a call uses is the one over the process it will blame.
LEMMA NextPaired == TypeOK /\ Working /\ Paired /\ [Next]_vars => Paired'
  <1> SUFFICES ASSUME TypeOK, Working, Paired, [Next]_vars
               PROVE  Paired'
    OBVIOUS
  <1>1. ASSUME NEW r \in Requests, Ask(r)
        PROVE  Paired'
    BY <1>1, Numbers DEF Ask, pointers, processes, publication, TypeOK, Paired, Nil
  <1>2. ASSUME NEW r \in Requests, Refused(r)
        PROVE  Paired'
    BY <1>2, Numbers DEF Refused, MayServe, pointers, processes, publication, TypeOK,
       Paired, Nil
  <1>3. ASSUME NEW r \in Requests, Reuse(r)
        PROVE  Paired'
    BY <1>3, Numbers DEF Reuse, MayServe, Usable, Exited, pointers, processes,
       publication, TypeOK, Paired, Nil
  <1>4. ASSUME NEW r \in Requests, Replace(r)
        PROVE  Paired'
    <2>1. /\ UNCHANGED <<using, over>>
          /\ \A q \in Requests : pc'[q] \in {"call", "lost"} => pc'[q] = pc[q]
      BY <1>4 DEF Replace, TypeOK
    <2>2. QED
      BY <2>1 DEF Paired
  <1>5. ASSUME NEW r \in Requests, Discarded(r)
        PROVE  Paired'
    BY <1>5, Numbers DEF Discarded, Gone, Exited, processes, publication, TypeOK,
       Paired, Nil
  <1>6. ASSUME NEW r \in Requests, SpawnFails(r)
        PROVE  Paired'
    BY <1>6, Numbers DEF SpawnFails, pointers, processes, publication, TypeOK, Paired,
       Nil
  <1>7. ASSUME NEW r \in Requests, Spawn(r)
        PROVE  Paired'
    BY <1>7, Numbers DEF Spawn, pointers, publication, TypeOK, Paired, Nil
  <1>8. ASSUME NEW r \in Requests, Connected(r)
        PROVE  Paired'
    <2>1. /\ pc[r] = "connect" /\ pc'[r] = "call" /\ over'[r] = using[r] /\ using' = using
          /\ \A q \in Requests \ {r} : pc'[q] = pc[q] /\ over'[q] = over[q]
      BY <1>8 DEF Connected, TypeOK
    <2>2. using[r] \in 1..started
      BY <2>1 DEF Working, WorksOn
    <2>3. using[r] # Nil
      BY <2>2, Numbers DEF Nil
    <2>4. QED
      BY <2>1, <2>3 DEF Paired
  <1>9. ASSUME NEW r \in Requests, ConnectFails(r)
        PROVE  Paired'
    BY <1>9, Numbers DEF ConnectFails, pointers, publication, TypeOK, Paired, Nil
  <1>10. ASSUME NEW r \in Requests, Undone(r)
        PROVE  Paired'
    BY <1>10, Numbers DEF Undone, Gone, Exited, pointers, processes, publication,
       TypeOK, Paired, Nil
  <1>11. ASSUME NEW r \in Requests, Answered(r)
        PROVE  Paired'
    BY <1>11, Numbers DEF Answered, Return, pointers, processes, publication, TypeOK,
       Paired, Nil
  <1>12. ASSUME NEW r \in Requests, CallRejected(r)
        PROVE  Paired'
    BY <1>12, Numbers DEF CallRejected, pointers, processes, publication, TypeOK,
       Paired, Nil
  <1>13. ASSUME NEW r \in Requests, CallBreaks(r)
        PROVE  Paired'
    BY <1>13, Numbers DEF CallBreaks, pointers, processes, publication, TypeOK, Paired,
       Nil
  <1>14. ASSUME NEW r \in Requests, CallLost(r)
        PROVE  Paired'
    BY <1>14, Numbers DEF CallLost, pointers, processes, publication, TypeOK, Paired,
       Nil
  <1>15. ASSUME NEW r \in Requests, PassedOn(r)
        PROVE  Paired'
    BY <1>15, Numbers DEF PassedOn, Return, Exited, pointers, processes, publication,
       TypeOK, Paired, Nil
  <1>16. ASSUME NEW r \in Requests, Blame(r)
        PROVE  Paired'
    BY <1>16, Numbers DEF Blame, Exited, pointers, processes, publication, TypeOK,
       Paired, Nil
  <1>17. ASSUME NEW r \in Requests, Forget(r)
        PROVE  Paired'
    BY <1>17, Numbers DEF Forget, Return, ForgetConn, processes, publication, TypeOK,
       Paired, Nil
  <1>18. CASE UNCHANGED <<pc, using, over>>
    BY <1>18 DEF Paired
  <1>19. QED
    BY <1>1, <1>2, <1>3, <1>4, <1>5, <1>6, <1>7, <1>8, <1>9, <1>10, <1>11, <1>12,
       <1>13, <1>14, <1>15, <1>16, <1>17, <1>18 DEF Next, Session, Classify,
       Publication, CloseCalled, CloseLocked, CloseDone, Exit, Reap, Lose, Announce,
       Publish, Deliver, Published, Subscribe, Release, vars, pointers, processes,
       publication, requests

\* Blame falls on what is out of use.
LEMMA NextFaults == TypeOK /\ Working /\ Paired /\ Faults /\ [Next]_vars => Faults'
  <1> SUFFICES ASSUME TypeOK, Working, Paired, Faults, [Next]_vars
               PROVE  Faults'
    OBVIOUS
  <1>1. ASSUME NEW r \in Requests, Ask(r)
        PROVE  Faults'
    BY <1>1, Numbers DEF Ask, pointers, processes, publication, TypeOK, Working,
       WorksOn, Served, Paired, Faults, Unfit
  <1>2. ASSUME NEW r \in Requests, Refused(r)
        PROVE  Faults'
    BY <1>2, Numbers DEF Refused, MayServe, pointers, processes, publication, TypeOK,
       Working, WorksOn, Served, Paired, Faults, Unfit
  <1>3. ASSUME NEW r \in Requests, Reuse(r)
        PROVE  Faults'
    BY <1>3, Numbers DEF Reuse, MayServe, Usable, Exited, pointers, processes,
       publication, TypeOK, Working, WorksOn, Served, Paired, Faults, Unfit
  <1>4. ASSUME NEW r \in Requests, Replace(r)
        PROVE  Faults'
    <2>1. /\ UNCHANGED <<using, status>>
          /\ \A q \in Requests : pc'[q] \in {"lost", "forget"} => pc'[q] = pc[q]
          /\ \A p \in Processes : link'[p] \in {link[p], "closed"}
      BY <1>4, ZenonT(60) DEF Replace, CloseLink, TypeOK
    <2>2. \A q \in Requests : pc[q] \in {"lost", "forget"} => using[q] \in Processes
      BY Numbers DEF Working, WorksOn, Served
    <2>3. QED
      BY <2>1, <2>2 DEF Faults, Unfit
  <1>5. ASSUME NEW r \in Requests, Discarded(r)
        PROVE  Faults'
    BY <1>5, Numbers DEF Discarded, Gone, Exited, processes, publication, TypeOK,
       Working, WorksOn, Served, Paired, Faults, Unfit
  <1>6. ASSUME NEW r \in Requests, SpawnFails(r)
        PROVE  Faults'
    BY <1>6, Numbers DEF SpawnFails, pointers, processes, publication, TypeOK, Working,
       WorksOn, Served, Paired, Faults, Unfit
  <1>7. ASSUME NEW r \in Requests, Spawn(r)
        PROVE  Faults'
    <2>1. /\ started' = started + 1 /\ pc[r] = "spawn"
          /\ status' = [status EXCEPT ![started + 1] = "up"]
          /\ link' = [link EXCEPT ![started + 1] = "opening"]
      BY <1>7 DEF Spawn
    <2>2. /\ pc'[r] = "connect"
          /\ \A q \in Requests \ {r} : pc'[q] = pc[q] /\ using'[q] = using[q]
      BY <1>7 DEF Spawn, TypeOK
    <2>3. ASSUME NEW q \in Requests, pc[q] \in Served
          PROVE  link'[using[q]] = link[using[q]] /\ status'[using[q]] = status[using[q]]
      <3>1. using[q] \in 1..started
        BY <2>3 DEF Working, WorksOn, Served
      <3>2. using[q] # started + 1 /\ using[q] \in Processes
        BY <3>1, Numbers
      <3>3. QED
        BY <2>1, <3>2 DEF TypeOK
    <2>4. QED
      BY <2>2, <2>3 DEF Faults, Unfit, Served
  <1>8. ASSUME NEW r \in Requests, Connected(r)
        PROVE  Faults'
    BY <1>8, Numbers DEF Connected, publication, TypeOK, Working, WorksOn, Served,
       Paired, Faults, Unfit
  <1>9. ASSUME NEW r \in Requests, ConnectFails(r)
        PROVE  Faults'
    <2>1. /\ UNCHANGED <<using, status>>
          /\ \A q \in Requests : pc'[q] \in {"lost", "forget"} => pc'[q] = pc[q]
          /\ \A p \in Processes : link'[p] \in {link[p], "closed"}
      BY <1>9 DEF ConnectFails, TypeOK
    <2>2. \A q \in Requests : pc[q] \in {"lost", "forget"} => using[q] \in Processes
      BY Numbers DEF Working, WorksOn, Served
    <2>3. QED
      BY <2>1, <2>2 DEF Faults, Unfit
  <1>10. ASSUME NEW r \in Requests, Undone(r)
        PROVE  Faults'
    BY <1>10, Numbers DEF Undone, Gone, Exited, pointers, processes, publication,
       TypeOK, Working, WorksOn, Served, Paired, Faults, Unfit
  <1>11. ASSUME NEW r \in Requests, Answered(r)
        PROVE  Faults'
    BY <1>11, Numbers DEF Answered, Return, pointers, processes, publication, TypeOK,
       Working, WorksOn, Served, Paired, Faults, Unfit
  <1>12. ASSUME NEW r \in Requests, CallRejected(r)
        PROVE  Faults'
    BY <1>12, Numbers DEF CallRejected, pointers, processes, publication, TypeOK,
       Working, WorksOn, Served, Paired, Faults, Unfit
  <1>13. ASSUME NEW r \in Requests, CallBreaks(r)
        PROVE  Faults'
    BY <1>13, Numbers DEF CallBreaks, pointers, processes, publication, TypeOK,
       Working, WorksOn, Served, Paired, Faults, Unfit
  <1>14. ASSUME NEW r \in Requests, CallLost(r)
        PROVE  Faults'
    BY <1>14, Numbers, ZenonT(60) DEF CallLost, pointers, processes, publication, TypeOK, Working,
       WorksOn, Served, Paired, Faults, Unfit
  <1>15. ASSUME NEW r \in Requests, PassedOn(r)
        PROVE  Faults'
    BY <1>15, Numbers, ZenonT(60) DEF PassedOn, Return, Exited, pointers, processes, publication,
       TypeOK, Working, WorksOn, Served, Paired, Faults, Unfit
  <1>16. ASSUME NEW r \in Requests, Blame(r)
        PROVE  Faults'
    BY <1>16, Numbers DEF Blame, Exited, pointers, processes, publication, TypeOK,
       Working, WorksOn, Served, Paired, Faults, Unfit
  <1>17. ASSUME NEW r \in Requests, Forget(r)
        PROVE  Faults'
    BY <1>17, Numbers DEF Forget, Return, ForgetConn, processes, publication, TypeOK,
       Working, WorksOn, Served, Paired, Faults, Unfit
  <1>18. ASSUME CloseLocked
        PROVE  Faults'
    BY <1>18, Numbers DEF CloseLocked, CloseLink, publication, requests, TypeOK,
       Working, WorksOn, Served, Paired, Faults, Unfit
  <1>19. ASSUME NEW p \in Processes, Exit(p)
        PROVE  Faults'
    BY <1>19, Numbers DEF Exit, pointers, publication, requests, TypeOK, Working,
       WorksOn, Served, Paired, Faults, Unfit
  <1>20. ASSUME NEW p \in Processes, Reap(p)
        PROVE  Faults'
    BY <1>20, Numbers DEF Reap, pointers, publication, requests, TypeOK, Working,
       WorksOn, Served, Paired, Faults, Unfit
  <1>21. ASSUME NEW p \in Processes, Lose(p)
        PROVE  Faults'
    BY <1>21, Numbers DEF Lose, pointers, publication, requests, TypeOK, Working,
       WorksOn, Served, Paired, Faults, Unfit
  <1>22. CASE UNCHANGED <<pc, using, link, status>>
    BY <1>22 DEF Faults, Unfit
  <1>23. QED
    BY <1>1, <1>2, <1>3, <1>4, <1>5, <1>6, <1>7, <1>8, <1>9, <1>10, <1>11, <1>12,
       <1>13, <1>14, <1>15, <1>16, <1>17, <1>18, <1>19, <1>20, <1>21, <1>22 DEF Next,
       Session, Classify, Publication, CloseCalled, CloseDone, Announce, Publish,
       Deliver, Published, Subscribe, Release, vars, pointers, processes, publication,
       requests

\* Only what is out of use is dropped.
LEMMA NextDropped == TypeOK /\ Born /\ Working /\ Faults /\ Dropped /\ [Next]_vars =>
   Dropped'
  <1> SUFFICES ASSUME TypeOK, Born, Working, Faults, Dropped, [Next]_vars
               PROVE  Dropped'
    OBVIOUS
  <1>1. ASSUME NEW r \in Requests, Replace(r)
        PROVE  Dropped'
    BY <1>1, Numbers DEF Replace, MayServe, Usable, Exited, CloseLink, publication,
       TypeOK, Born, Working, WorksOn, Served, Faults, Dropped, Unfit, Nil
  <1>2. ASSUME NEW r \in Requests, Discarded(r)
        PROVE  Dropped'
    BY <1>2, Numbers DEF Discarded, Gone, Exited, processes, publication, TypeOK, Born,
       Working, WorksOn, Served, Faults, Dropped, Unfit, Nil
  <1>3. ASSUME NEW r \in Requests, Spawn(r)
        PROVE  Dropped'
    BY <1>3, Numbers DEF Spawn, pointers, publication, TypeOK, Born, Working, WorksOn,
       Served, Faults, Dropped, Unfit, Nil
  <1>4. ASSUME NEW r \in Requests, Connected(r)
        PROVE  Dropped'
    BY <1>4, Numbers DEF Connected, publication, TypeOK, Born, Working, WorksOn,
       Served, Faults, Dropped, Unfit, Nil
  <1>5. ASSUME NEW r \in Requests, ConnectFails(r)
        PROVE  Dropped'
    BY <1>5, Numbers DEF ConnectFails, pointers, publication, TypeOK, Born, Working,
       WorksOn, Served, Faults, Dropped, Unfit, Nil
  <1>6. ASSUME NEW r \in Requests, Forget(r)
        PROVE  Dropped'
    BY <1>6, Numbers DEF Forget, Return, ForgetConn, processes, publication, TypeOK,
       Born, Working, WorksOn, Served, Faults, Dropped, Unfit, Nil
  <1>7. ASSUME CloseLocked
        PROVE  Dropped'
    BY <1>7, Numbers DEF CloseLocked, CloseLink, publication, requests, TypeOK, Born,
       Working, WorksOn, Served, Faults, Dropped, Unfit, Nil
  <1>8. ASSUME CloseDone
        PROVE  Dropped'
    BY <1>8, Numbers DEF CloseDone, Gone, Exited, processes, publication, requests,
       TypeOK, Born, Working, WorksOn, Served, Faults, Dropped, Unfit, Nil
  <1>9. ASSUME NEW p \in Processes, Exit(p)
        PROVE  Dropped'
    BY <1>9, Numbers DEF Exit, pointers, publication, requests, TypeOK, Born, Working,
       WorksOn, Served, Faults, Dropped, Unfit, Nil
  <1>10. ASSUME NEW p \in Processes, Reap(p)
        PROVE  Dropped'
    BY <1>10, Numbers DEF Reap, pointers, publication, requests, TypeOK, Born, Working,
       WorksOn, Served, Faults, Dropped, Unfit, Nil
  <1>11. ASSUME NEW p \in Processes, Lose(p)
        PROVE  Dropped'
    BY <1>11, Numbers DEF Lose, pointers, publication, requests, TypeOK, Born, Working,
       WorksOn, Served, Faults, Dropped, Unfit, Nil
  <1>12. CASE UNCHANGED <<proc, conn, link, status>>
    BY <1>12 DEF Dropped, Unfit
  <1>13. QED
    BY <1>1, <1>2, <1>3, <1>4, <1>5, <1>6, <1>7, <1>8, <1>9, <1>10, <1>11, <1>12 DEF
       Next, Session, Classify, Publication, Ask, Refused, Reuse, SpawnFails, Undone,
       Answered, CallRejected, CallBreaks, CallLost, PassedOn, Blame, CloseCalled,
       Announce, Publish, Deliver, Published, Subscribe, Release, vars, pointers,
       processes, publication, requests

\* Nobody else uses, or has blamed, a process that is being connected.
LEMMA NextConnecting == TypeOK /\ Locking /\ Born /\ Working /\ Connecting /\ Blamed /\
   [Next]_vars => Connecting'
  <1> SUFFICES ASSUME TypeOK, Locking, Born, Working, Connecting, Blamed, [Next]_vars
               PROVE  Connecting'
    OBVIOUS
  <1>1. ASSUME NEW r \in Requests, Ask(r)
        PROVE  Connecting'
    <2>1. /\ UNCHANGED <<started, blamed, link>>
          /\ \A q \in Requests : using'[q] \in {using[q], Nil}
          /\ \A q \in Requests : pc'[q] = "connect" => pc[q] = "connect" /\ using'[q] = using[q]
      BY <1>1 DEF Ask, pointers, processes, publication, TypeOK
    <2>2. QED
      BY <2>1, ConnectingKept
  <1>2. ASSUME NEW r \in Requests, Refused(r)
        PROVE  Connecting'
    <2>1. /\ UNCHANGED <<started, blamed, link>>
          /\ \A q \in Requests : using'[q] \in {using[q], Nil}
          /\ \A q \in Requests : pc'[q] = "connect" => pc[q] = "connect" /\ using'[q] = using[q]
      BY <1>2 DEF Refused, MayServe, pointers, processes, publication, TypeOK
    <2>2. QED
      BY <2>1, ConnectingKept
  <1>3. ASSUME NEW r \in Requests, Reuse(r)
        PROVE  Connecting'
    <2>1. /\ lock = Nobody /\ pc' = [pc EXCEPT ![r] = "call"]
          /\ using' = [using EXCEPT ![r] = proc] /\ started' = started
      BY <1>3 DEF Reuse, processes
    <2>2. \A q \in Requests : pc'[q] # "connect"
      BY <2>1, BackendAssumption DEF BackendAssumption, Locking, Holding, TypeOK
    <2>3. proc <= started
      BY DEF Born
    <2>4. \A q \in Requests : using'[q] = proc \/ using'[q] = using[q]
      BY <2>1 DEF TypeOK
    <2>5. \A q \in Requests : using'[q] <= started'
      BY <2>1, <2>3, <2>4 DEF Connecting
    <2>6. QED
      BY <2>2, <2>5, NobodyConnecting
  <1>4. ASSUME NEW r \in Requests, Replace(r)
        PROVE  Connecting'
    <2>1. /\ lock = Nobody /\ UNCHANGED <<using, started>>
          /\ pc' \in {[pc EXCEPT ![r] = "spawn"], [pc EXCEPT ![r] = "discard"]}
      BY <1>4 DEF Replace
    <2>2. \A q \in Requests : pc'[q] # "connect"
      BY <2>1, BackendAssumption DEF BackendAssumption, Locking, Holding, TypeOK
    <2>3. QED
      BY <2>1, <2>2, NobodyConnecting DEF Connecting
  <1>5. ASSUME NEW r \in Requests, Discarded(r)
        PROVE  Connecting'
    <2>1. /\ UNCHANGED <<started, blamed, link>>
          /\ \A q \in Requests : using'[q] \in {using[q], Nil}
          /\ \A q \in Requests : pc'[q] = "connect" => pc[q] = "connect" /\ using'[q] = using[q]
      BY <1>5 DEF Discarded, Gone, Exited, processes, publication, TypeOK
    <2>2. QED
      BY <2>1, ConnectingKept
  <1>6. ASSUME NEW r \in Requests, SpawnFails(r)
        PROVE  Connecting'
    <2>1. /\ UNCHANGED <<started, blamed, link>>
          /\ \A q \in Requests : using'[q] \in {using[q], Nil}
          /\ \A q \in Requests : pc'[q] = "connect" => pc[q] = "connect" /\ using'[q] = using[q]
      BY <1>6 DEF SpawnFails, pointers, processes, publication, TypeOK
    <2>2. QED
      BY <2>1, ConnectingKept
  <1>7. ASSUME NEW r \in Requests, Spawn(r)
        PROVE  Connecting'
    <2>1. /\ pc[r] = "spawn" /\ pc' = [pc EXCEPT ![r] = "connect"]
          /\ started' = started + 1 /\ started < MaxStarts
          /\ link' = [link EXCEPT ![started + 1] = "opening"]
          /\ using' = [using EXCEPT ![r] = started + 1] /\ blamed' = blamed
      BY <1>7 DEF Spawn
    <2>2. /\ started \in Nat /\ started + 1 \in Processes
          /\ \A q \in Requests : using[q] \in Nat
      BY <2>1, Numbers DEF Processes
    <2>3. /\ using'[r] = started + 1 /\ pc'[r] = "connect" /\ link'[started + 1] = "opening"
          /\ \A q \in Requests \ {r} : using'[q] = using[q] /\ pc'[q] = pc[q]
      BY <2>1, <2>2 DEF TypeOK
    <2>4. \A q \in Requests \ {r} : using[q] <= started /\ pc[q] # "connect"
      BY <2>1 DEF Connecting, Locking, Holding
    <2>5. started + 1 \notin blamed
      BY <2>2 DEF Blamed
    <2>6. ASSUME NEW q \in Requests PROVE using'[q] <= started'
      BY <2>1, <2>2, <2>3, <2>4, <2>6
    <2>7. \A q \in Requests \ {r} : using'[q] # using'[r]
      BY <2>2, <2>3, <2>4
    <2>8. QED
      BY <2>1, <2>3, <2>4, <2>5, <2>6, <2>7 DEF Connecting
  <1>8. ASSUME NEW r \in Requests, Connected(r)
        PROVE  Connecting'
    <2>1. /\ pc[r] = "connect" /\ pc' = [pc EXCEPT ![r] = "call"]
          /\ UNCHANGED <<using, started>>
      BY <1>8 DEF Connected
    <2>2. lock = r
      BY <2>1 DEF Locking, Holding
    <2>3. \A q \in Requests : pc'[q] # "connect"
      BY <2>1, <2>2 DEF Locking, Holding, TypeOK
    <2>4. QED
      BY <2>1, <2>3, NobodyConnecting DEF Connecting
  <1>9. ASSUME NEW r \in Requests, ConnectFails(r)
        PROVE  Connecting'
    <2>1. /\ pc[r] = "connect" /\ pc' = [pc EXCEPT ![r] = "undo"]
          /\ UNCHANGED <<using, started>>
      BY <1>9 DEF ConnectFails
    <2>2. lock = r
      BY <2>1 DEF Locking, Holding
    <2>3. \A q \in Requests : pc'[q] # "connect"
      BY <2>1, <2>2 DEF Locking, Holding, TypeOK
    <2>4. QED
      BY <2>1, <2>3, NobodyConnecting DEF Connecting
  <1>10. ASSUME NEW r \in Requests, Undone(r)
        PROVE  Connecting'
    <2>1. /\ UNCHANGED <<started, blamed, link>>
          /\ \A q \in Requests : using'[q] \in {using[q], Nil}
          /\ \A q \in Requests : pc'[q] = "connect" => pc[q] = "connect" /\ using'[q] = using[q]
      BY <1>10 DEF Undone, Gone, Exited, pointers, processes, publication, TypeOK
    <2>2. QED
      BY <2>1, ConnectingKept
  <1>11. ASSUME NEW r \in Requests, Answered(r)
        PROVE  Connecting'
    <2>1. /\ UNCHANGED <<started, blamed, link>>
          /\ \A q \in Requests : using'[q] \in {using[q], Nil}
          /\ \A q \in Requests : pc'[q] = "connect" => pc[q] = "connect" /\ using'[q] = using[q]
      BY <1>11 DEF Answered, Return, pointers, processes, publication, TypeOK
    <2>2. QED
      BY <2>1, ConnectingKept
  <1>12. ASSUME NEW r \in Requests, CallRejected(r)
        PROVE  Connecting'
    <2>1. /\ UNCHANGED <<started, blamed, link>>
          /\ \A q \in Requests : using'[q] \in {using[q], Nil}
          /\ \A q \in Requests : pc'[q] = "connect" => pc[q] = "connect" /\ using'[q] = using[q]
      BY <1>12 DEF CallRejected, pointers, processes, publication, TypeOK
    <2>2. QED
      BY <2>1, ConnectingKept
  <1>13. ASSUME NEW r \in Requests, CallBreaks(r)
        PROVE  Connecting'
    <2>1. /\ UNCHANGED <<started, blamed, link>>
          /\ \A q \in Requests : using'[q] \in {using[q], Nil}
          /\ \A q \in Requests : pc'[q] = "connect" => pc[q] = "connect" /\ using'[q] = using[q]
      BY <1>13 DEF CallBreaks, pointers, processes, publication, TypeOK
    <2>2. QED
      BY <2>1, ConnectingKept
  <1>14. ASSUME NEW r \in Requests, CallLost(r)
        PROVE  Connecting'
    <2>1. /\ UNCHANGED <<started, blamed, link>>
          /\ \A q \in Requests : using'[q] \in {using[q], Nil}
          /\ \A q \in Requests : pc'[q] = "connect" => pc[q] = "connect" /\ using'[q] = using[q]
      BY <1>14 DEF CallLost, pointers, processes, publication, TypeOK
    <2>2. QED
      BY <2>1, ConnectingKept
  <1>15. ASSUME NEW r \in Requests, PassedOn(r)
        PROVE  Connecting'
    <2>1. /\ UNCHANGED <<started, blamed, link>>
          /\ \A q \in Requests : using'[q] \in {using[q], Nil}
          /\ \A q \in Requests : pc'[q] = "connect" => pc[q] = "connect" /\ using'[q] = using[q]
      BY <1>15 DEF PassedOn, Return, Exited, pointers, processes, publication, TypeOK
    <2>2. QED
      BY <2>1, ConnectingKept
  <1>16. ASSUME NEW r \in Requests, Blame(r)
        PROVE  Connecting'
    <2>1. /\ UNCHANGED <<started, blamed, link>>
          /\ \A q \in Requests : using'[q] \in {using[q], Nil}
          /\ \A q \in Requests : pc'[q] = "connect" => pc[q] = "connect" /\ using'[q] = using[q]
      BY <1>16 DEF Blame, Exited, pointers, processes, publication, TypeOK
    <2>2. QED
      BY <2>1, ConnectingKept
  <1>17. ASSUME NEW r \in Requests, Forget(r)
        PROVE  Connecting'
    <2>1. /\ lock = Nobody /\ pc' = [pc EXCEPT ![r] = "idle"]
          /\ using' = [using EXCEPT ![r] = Nil] /\ started' = started
      BY <1>17 DEF Forget, Return, processes
    <2>2. \A q \in Requests : pc'[q] # "connect"
      BY <2>1, BackendAssumption DEF BackendAssumption, Locking, Holding, TypeOK
    <2>3. \A q \in Requests : using'[q] = Nil \/ using'[q] = using[q]
      BY <2>1 DEF TypeOK
    <2>4. \A q \in Requests : using'[q] <= started'
      BY <2>1, <2>3, Numbers DEF Connecting, Nil
    <2>5. QED
      BY <2>2, <2>4, NobodyConnecting
  <1>18. ASSUME CloseLocked
        PROVE  Connecting'
    <2>1. lock = Nobody /\ UNCHANGED <<using, started, pc>>
      BY <1>18 DEF CloseLocked, requests
    <2>2. \A q \in Requests : pc[q] # "connect"
      BY <2>1, BackendAssumption DEF BackendAssumption, Locking, Holding
    <2>3. QED
      BY <2>1, <2>2, NobodyConnecting DEF Connecting
  <1>19. ASSUME NEW p \in Processes, Lose(p)
        PROVE  Connecting'
    <2>1. /\ UNCHANGED <<using, started, pc, blamed>>
          /\ \A q \in Processes : link'[q] \in {link[q], "lost"}
      BY <1>19 DEF Lose, pointers, requests, TypeOK
    <2>2. \A q \in Requests : pc[q] = "connect" => using[q] \in Processes
      BY Numbers DEF Working, WorksOn
    <2>3. QED
      BY <2>1, <2>2 DEF Connecting
  <1>20. CASE UNCHANGED <<using, started, pc, link, blamed>>
    BY <1>20 DEF Connecting
  <1>21. QED
    BY <1>1, <1>2, <1>3, <1>4, <1>5, <1>6, <1>7, <1>8, <1>9, <1>10, <1>11, <1>12,
       <1>13, <1>14, <1>15, <1>16, <1>17, <1>18, <1>19, <1>20 DEF Next, Session,
       Classify, Publication, CloseCalled, CloseDone, Exit, Reap, Announce, Publish,
       Deliver, Published, Subscribe, Release, vars, pointers, processes, publication,
       requests

\* A process to blame is never made current again.
LEMMA NextBlamed == TypeOK /\ Working /\ Connecting /\ Blamed /\ [Next]_vars => Blamed'
  <1> SUFFICES ASSUME TypeOK, Working, Connecting, Blamed, [Next]_vars
               PROVE  Blamed'
    OBVIOUS
  <1>1. ASSUME NEW r \in Requests, Replace(r)
        PROVE  Blamed'
    BY <1>1, Numbers DEF Replace, MayServe, Usable, Exited, CloseLink, publication,
       TypeOK, Connecting, Blamed, Nil
  <1>2. ASSUME NEW r \in Requests, Spawn(r)
        PROVE  Blamed'
    <2>1. started' = started + 1 /\ UNCHANGED <<blamed, conn>>
      BY <1>2 DEF Spawn, pointers
    <2>2. blamed \subseteq Processes
      BY DEF TypeOK
    <2>3. QED
      BY <2>1, <2>2, Numbers DEF Blamed
  <1>3. ASSUME NEW r \in Requests, Connected(r)
        PROVE  Blamed'
    BY <1>3, Numbers DEF Connected, publication, TypeOK, Connecting, Blamed, Nil
  <1>4. ASSUME NEW r \in Requests, Forget(r)
        PROVE  Blamed'
    <2>1. /\ blamed' = blamed \cup {using[r]} /\ started' = started
          /\ conn' = IF proc = using[r] THEN Nil ELSE conn
          /\ pc[r] = "forget"
      BY <1>4 DEF Forget, ForgetConn, processes
    <2>2. using[r] \in 1..started
      BY <2>1 DEF Working, WorksOn, Served
    <2>a. blamed \subseteq Processes
      BY DEF TypeOK
    <2>3. using[r] # Nil /\ using[r] <= started /\ \A p \in blamed : p # Nil
      BY <2>2, <2>a, Numbers DEF Nil
    <2>4. conn \in {Nil, proc}
      BY DEF TypeOK
    <2>5. conn' # using[r] /\ conn' \in {Nil, conn}
      BY <2>1, <2>3, <2>4
    <2>6. QED
      BY <2>1, <2>3, <2>5 DEF Blamed
  <1>5. ASSUME CloseLocked
        PROVE  Blamed'
    BY <1>5, Numbers DEF CloseLocked, CloseLink, publication, requests, TypeOK,
       Connecting, Blamed, Nil
  <1>6. CASE UNCHANGED <<blamed, started, conn>>
    BY <1>6 DEF Blamed
  <1>7. QED
    BY <1>1, <1>2, <1>3, <1>4, <1>5, <1>6 DEF Next, Session, Classify, Publication,
       Ask, Refused, Reuse, Discarded, SpawnFails, ConnectFails, Undone, Answered,
       CallRejected, CallBreaks, CallLost, PassedOn, Blame, CloseCalled, CloseDone,
       Exit, Reap, Lose, Announce, Publish, Deliver, Published, Subscribe, Release,
       vars, pointers, processes, publication, requests

-----------------------------------------------------------------------------
(* The theorems.                                                           *)

IInv == TypeOK /\ Locking /\ Born /\ Working /\ Owned

\* The inductive invariant: the lock, its holder's work, and who owns each process.
THEOREM OwnershipCorrect == Spec => []IInv
  <1>1. Init => IInv
    BY InitIInv DEF IInv
  <1>2. IInv /\ [Next]_vars => IInv'
    BY NextTypeOK, NextLocking, NextBorn, NextWorking, NextOwned DEF IInv
  <1>3. QED
    BY <1>1, <1>2, PTL DEF Spec

\* The type invariant.
THEOREM TypeCorrect == Spec => []TypeOK
  <1>1. IInv => TypeOK
    BY DEF IInv
  <1>2. QED
    BY <1>1, OwnershipCorrect, PTL

\* A process that has not been reaped always has an owner that will see to it.
THEOREM OwnedHolds == Spec => []Owned
  <1>1. IInv => Owned
    BY DEF IInv
  <1>2. QED
    BY <1>1, OwnershipCorrect, PTL

\* Two processes of one backend are never up at the same time: one that is not
\* b.proc is being connected, by the holder of the lock, and then b.proc is nil.
THEOREM OneProcessHolds == Spec => []OneProcess
  <1>1. IInv => OneProcess
    <2> SUFFICES ASSUME IInv, NEW p \in Processes, NEW q \in Processes,
                        status[p] = "up", status[q] = "up"
                 PROVE  p = q
      BY DEF OneProcess
    <2>1. p \in 1..started /\ q \in 1..started
      BY Numbers DEF IInv, Born, Processes
    <2>2. \A x \in {p, q} : \/ x = proc
                            \/ \E r \in Requests : lock = r /\ proc = Nil /\ using[r] = x
      BY <2>1 DEF IInv, Owned, Working, WorksOn
    <2>3. p # Nil /\ q # Nil
      BY Numbers DEF IInv
    <2>4. QED
      BY <2>2, <2>3
  <1>2. QED
    BY <1>1, OwnershipCorrect, PTL

\* After Close there is no process.
THEOREM ClosedForGoodHolds == Spec => []ClosedForGood
  <1>1. IInv => ClosedForGood
    <2> SUFFICES ASSUME IInv, closing = "done", NEW p \in 1..started
                 PROVE  status[p] = "reaped"
      BY DEF ClosedForGood
    <2>1. proc = Nil /\ lock \notin Requests
      BY DEF IInv, Working, Locking
    <2>2. p # Nil
      BY Numbers DEF IInv, Nil
    <2>3. QED
      BY <2>1, <2>2 DEF IInv, Owned
  <1>2. QED
    BY <1>1, OwnershipCorrect, PTL

-----------------------------------------------------------------------------
(* What the history shows.                                                 *)

History == Paired /\ Faults /\ Dropped /\ Connecting /\ Blamed

\* What was handed out, found at fault, dropped or blamed stays consistent, given
\* the inductive invariant of ownership.
THEOREM HistoryCorrect == Spec => []History
  <1>1. Init => History
    BY InitHistory DEF History
  <1>2. IInv /\ History /\ [Next]_vars => History'
    BY NextPaired, NextFaults, NextDropped, NextConnecting, NextBlamed DEF IInv, History
  <1>3. QED
    BY <1>1, <1>2, OwnershipCorrect, PTL DEF Spec

\* A call uses the connection over the process it would blame.
THEOREM HandedPairHolds == Spec => []HandedPair
  <1>1. History => HandedPair
    BY DEF History, Paired, HandedPair
  <1>2. QED
    BY <1>1, HistoryCorrect, PTL

\* After a retryable error a request never gets the same process again: what is
\* handed out is b.conn, which is not blamed, or a process just connected.
THEOREM RetryGetsAnotherHolds == Spec => RetryGetsAnother
  <1>1. IInv /\ History /\ [Next]_vars =>
          [\A r \in Requests : pc[r] # "call" /\ pc'[r] = "call" => using'[r] \notin blamed]_vars
    <2> SUFFICES ASSUME IInv, History, [Next]_vars,
                        NEW r \in Requests, pc[r] # "call", pc'[r] = "call"
                 PROVE  using'[r] \notin blamed
      OBVIOUS
    <2>1. pc \in [Requests -> {"idle", "session", "discard", "spawn", "connect", "undo",
                               "call", "lost", "rejected", "broken", "forget"}]
      BY DEF IInv, TypeOK
    <2>2. Reuse(r) \/ Connected(r)
      <3>1. ASSUME NEW q \in Requests, Reuse(q) \/ Connected(q) PROVE q = r
        BY <2>1, <3>1 DEF Reuse, Connected
      <3>2. ASSUME ~\E q \in Requests : Reuse(q) \/ Connected(q)
            PROVE  pc'[r] = "call" => pc[r] = "call"
        <4>1. CASE \E q \in Requests : Session(q)
          BY <2>1, <3>2, <4>1 DEF Session, Refused, Replace, Discarded, SpawnFails, Spawn,
             ConnectFails, Undone
        <4>2. CASE \E q \in Requests : Ask(q) \/ Answered(q) \/ CallRejected(q)
                                       \/ CallBreaks(q) \/ CallLost(q) \/ Classify(q)
          BY <2>1, <4>2 DEF Ask, Answered, CallRejected, CallBreaks, CallLost, Classify,
             PassedOn, Blame, Forget, Return
        <4>3. CASE UNCHANGED pc
          BY <4>3
        <4>4. QED
          BY <4>1, <4>2, <4>3 DEF Next, CloseCalled, CloseLocked, CloseDone, Exit, Reap, Lose,
             Announce, Publication, Publish, Deliver, Published, Subscribe, Release, vars, requests
      <3>3. QED
        BY <3>1, <3>2
    <2>3. using \in [Requests -> Pointers] /\ conn \in {Nil, proc}
      BY DEF IInv, TypeOK
    <2>4. CASE Reuse(r)
      <3>1. using'[r] = proc /\ conn = proc
        BY <2>3, <2>4 DEF Reuse, Usable
      <3>2. QED
        BY <3>1 DEF History, Blamed
    <2>5. CASE Connected(r)
      <3>1. using'[r] = using[r] /\ pc[r] = "connect"
        BY <2>5 DEF Connected
      <3>2. QED
        BY <3>1 DEF History, Connecting
    <2>6. QED
      BY <2>2, <2>4, <2>5
  <1>2. QED
    BY <1>1, OwnershipCorrect, HistoryCorrect, PTL DEF Spec, RetryGetsAnother

\* Requests never stop a process that is up with an open connection: b.conn is
\* dropped only when that is over, and a connection being opened is not open.
THEOREM HealthySparedHolds == Spec => HealthySpared
  <1>1. IInv /\ History /\ [Next]_vars =>
          [\A p \in Stopping' \ Stopping : status[p] = "up" /\ link[p] = "open" => closed']_vars
    <2> SUFFICES ASSUME IInv, History, [Next]_vars, NEW p \in Stopping', p \notin Stopping,
                        status[p] = "up", link[p] = "open"
                 PROVE  closed'
      OBVIOUS
    <2>1. /\ p \in Processes /\ p # Nil
          /\ pc \in [Requests -> {"idle", "session", "discard", "spawn", "connect", "undo",
                                  "call", "lost", "rejected", "broken", "forget"}]
          /\ using \in [Requests -> Pointers]
      BY Numbers DEF IInv, TypeOK, Stopping
    <2>2. CASE \E r \in Requests : Replace(r)
      <3>1. PICK r \in Requests : Replace(r)
        BY <2>2
      <3>2. p = proc /\ proc # Nil
        BY <2>1, <3>1 DEF Replace, Stopping
      <3>3. conn = Nil
        BY <3>1, <3>2 DEF Replace, Usable, Exited
      <3>4. QED
        BY <3>2, <3>3 DEF History, Dropped, Unfit
    <2>3. CASE \E r \in Requests : ConnectFails(r)
      <3>1. PICK r \in Requests : ConnectFails(r)
        BY <2>3
      <3>2. p = using[r] /\ pc[r] = "connect"
        BY <2>1, <3>1 DEF ConnectFails, Stopping, pointers
      <3>3. QED
        BY <3>2 DEF History, Connecting
    <2>4. CASE \E r \in Requests : Connected(r)
      <3>1. PICK r \in Requests : Connected(r)
        BY <2>4
      <3>2. lock = r /\ closing # "discard" /\ \A q \in Requests : pc[q] # "discard"
        BY <3>1, BackendAssumption DEF BackendAssumption, Connected, IInv, Locking, Holding
      <3>3. p \in Stopping
        BY <2>1, <3>1, <3>2 DEF Connected, Stopping
      <3>4. QED
        BY <3>3
    <2>5. CASE CloseLocked
      BY <2>5 DEF CloseLocked
    <2>6. CASE ~(\E r \in Requests : Replace(r) \/ ConnectFails(r) \/ Connected(r)) /\ ~CloseLocked
      <3>1. /\ closing' = "discard" => closing = "discard"
            /\ proc' = proc \/ proc' = Nil
            /\ \A r \in Requests : /\ pc'[r] = "discard" => pc[r] = "discard"
                                   /\ pc'[r] = "undo" => pc[r] = "undo" /\ using'[r] = using[r]
        <4>1. CASE \E r \in Requests : Session(r)
          BY <2>1, <2>6, <4>1 DEF Session, Refused, Reuse, Discarded, SpawnFails, Spawn, Undone,
             pointers
        <4>2. CASE \E r \in Requests : Ask(r) \/ Answered(r) \/ CallRejected(r)
                                       \/ CallBreaks(r) \/ CallLost(r) \/ Classify(r)
          BY <2>1, <4>2 DEF Ask, Answered, CallRejected, CallBreaks, CallLost, Classify,
             PassedOn, Blame, Forget, Return, pointers
        <4>3. CASE UNCHANGED requests /\ proc' \in {proc, Nil} /\ (closing' = "discard" => closing = "discard")
          BY <4>3 DEF requests
        <4>4. QED
          BY <2>6, <4>1, <4>2, <4>3 DEF Next, CloseCalled, CloseDone, Exit, Reap, Lose,
             Announce, Publication, Publish, Deliver, Published, Subscribe, Release, vars, pointers
      <3>2. p \in Stopping
        BY <2>1, <3>1 DEF Stopping
      <3>3. QED
        BY <3>2
    <2>7. QED
      BY <2>2, <2>3, <2>4, <2>5, <2>6
  <1>2. QED
    BY <1>1, OwnershipCorrect, HistoryCorrect, PTL DEF Spec, HealthySpared

\* The backend implements module Lifecycle.
THEOREM LifeKeptHolds == Spec => LifeKept
  <1> DEFINE Up == \E p \in Processes : status[p] = "up"
  <1>1. Init => Life!Init
    BY DEF Init, Life!Init
  <1>2. IInv /\ [Next]_vars => [Life!Next]_(IF \E p \in Processes : status[p] = "up"
             THEN IF closed THEN "stopping" ELSE "running"
             ELSE IF closed THEN "stopped" ELSE "none")
    <2> SUFFICES ASSUME IInv, [Next]_vars
                 PROVE  \/ (closed' <=> closed) /\ (Up' <=> Up)
                        \/ ~closed /\ ~closed' /\ ~Up /\ Up'
                        \/ (closed' <=> closed) /\ Up /\ ~Up'
                        \/ ~closed /\ closed' /\ (Up' <=> Up)
      BY DEF Life!Next, Life!Move
    <2>1. status \in [Processes -> {"unborn", "up", "exited", "reaped"}]
      BY DEF IInv, TypeOK
    <2>2. CASE \E r \in Requests : Spawn(r)
      <3>1. PICK r \in Requests : Spawn(r)
        BY <2>2
      <3>2. /\ pc[r] = "spawn" /\ started < MaxStarts
            /\ status' = [status EXCEPT ![started + 1] = "up"] /\ (closed' <=> closed)
        BY <3>1 DEF Spawn, pointers
      <3>3. started + 1 \in Processes
        BY <3>2, Numbers DEF IInv, Processes
      <3>4. lock = r /\ proc = Nil /\ ~closed
        BY <3>2 DEF IInv, Locking, Holding, Working, WorksOn
      <3>5. ASSUME NEW p \in Processes, status[p] = "up" PROVE FALSE
        <4>1. p \in 1..started /\ p # Nil
          BY <3>5, Numbers DEF IInv, Born, Processes
        <4>2. QED
          BY <3>2, <3>4, <3>5, <4>1 DEF IInv, Owned
      <3>6. Up'
        BY <2>1, <3>2, <3>3
      <3>7. QED
        BY <3>2, <3>4, <3>5, <3>6
    <2>3. CASE \E p \in Processes : Exit(p)
      <3>1. PICK p \in Processes : Exit(p)
        BY <2>3
      <3>2. /\ status[p] = "up" /\ status' = [status EXCEPT ![p] = "exited"]
            /\ (closed' <=> closed)
        BY <3>1 DEF Exit, pointers
      <3>3. QED
        BY <2>1, <3>2
    <2>4. CASE \E p \in Processes : Reap(p)
      <3>1. PICK p \in Processes : Reap(p)
        BY <2>4
      <3>2. /\ status[p] = "exited" /\ status' = [status EXCEPT ![p] = "reaped"]
            /\ (closed' <=> closed)
        BY <3>1 DEF Reap, pointers
      <3>3. QED
        BY <2>1, <3>2
    <2>5. CASE CloseLocked
      BY <2>5 DEF CloseLocked, IInv, Locking
    <2>6. CASE UNCHANGED <<status, closed>>
      BY <2>6
    <2>7. QED
      BY <2>2, <2>3, <2>4, <2>5, <2>6 DEF Next, Session, Classify, Publication, Ask, Refused, Reuse,
         Replace, Discarded, SpawnFails, Connected, ConnectFails, Undone, Answered, CallRejected,
         CallBreaks, CallLost, PassedOn, Blame, Forget, CloseCalled, CloseDone, Lose, Announce,
         Publish, Deliver, Published, Subscribe, Release, vars, requests, pointers, processes
  <1>3. QED
    BY <1>1, <1>2, OwnershipCorrect, PTL DEF Spec, LifeKept, Life!Spec

=============================================================================
