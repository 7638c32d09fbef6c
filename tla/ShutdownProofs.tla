--------------------------- MODULE ShutdownProofs ----------------------------
(***************************************************************************)
(* Proofs about module Shutdown, for any number of requests and backends   *)
(* and any configuration file.  What carries them is who owns a backend    *)
(* that may have a process (the pool's table until the pool is closed,     *)
(* then a goroutine that stops it), and that no request is left when the   *)
(* pool is closed without an error.                                        *)
(***************************************************************************)
EXTENDS Shutdown, TLAPS

\* How far the program is, in all that records it.
Stages ==
    /\ listening => stage = "serving"
    /\ exit = "none" <=> stage \in {"loading", "built", "serving", "draining"}
    /\ stage = "closing" => exit \in {"ok", "error"}
    /\ poolClosed => entries = {}
    /\ ~poolClosed => todo[Main] = {}

\* The limits are the file's, completed and found valid, or the program has ended.
Loaded ==
    /\ stage \in {"built", "serving", "draining", "closing"} =>
         limits = Defaulted(file) /\ Valid(limits)
    /\ exit = "invalid" => ~Valid(Defaulted(file))

\* Before anything is served there is nothing, and a file that is refused leaves that.
Blank ==
    stage \in {"loading", "built"} \/ exit = "invalid" =>
        /\ entries = {} /\ \A c \in Closers : todo[c] = {}
        /\ \A b \in Backends : backend[b] = "none"
        /\ \A r \in Requests : conn[r] = "away"

\* A process belongs to the table or to whoever stops it.
Owned == \A b \in Alive : b \in entries \/ \E c \in Closers : b \in todo[c]

\* The table's backends are not stopped, and nobody is about to.
Pooled ==
    \A b \in entries :
        backend[b] \in {"none", "running"} /\ \A c \in Closers : b \notin todo[c]

Victims == \A r \in Requests : todo[r] # {} => conn[r] = "evicting"

\* What a request holds is the table's, or Close stops it or has done so.
Held ==
    \A r \in Requests : conn[r] \in Holding =>
        /\ on[r] \in Backends
        /\ \/ on[r] \in entries
           \/ poolClosed /\ (on[r] \in todo[Main] \/ backend[on[r]] = "stopped")

\* A handshake keeps the lock.
Starting ==
    \A r \in Requests : conn[r] = "starting" =>
        on[r] \in Backends /\ lock[on[r]] = r /\ backend[on[r]] \in {"none", "running"}

Settled == exit = "ok" => \A r \in Requests : conn[r] \in {"away", "over"}

Done == stage = "exited" => todo[Main] = {} /\ todo[Reaper] = {}

IInv ==
    /\ TypeOK /\ Stages /\ Loaded /\ Blank /\ Owned /\ Pooled /\ Victims /\ Held /\ Starting
    /\ Settled /\ Done

-----------------------------------------------------------------------------
(* The limits, for every file of integers.                                 *)

LEMMA DefaultedType ==
    ASSUME NEW given \in [LimitNames -> Int]
    PROVE  Defaulted(given) \in [LimitNames -> Int]
  BY ShutdownAssumption DEF Defaulted, Lesser, LimitNames

\* What is found valid can be kept: every limit is at least one.
THEOREM LoadedLimitsKeepable ==
    ASSUME NEW given \in [LimitNames -> Int], Valid(Defaulted(given))
    PROVE  /\ \A n \in LimitNames : Defaulted(given)[n] > 0
           /\ Defaulted(given)["maxProcessesPerSubject"] <= Defaulted(given)["maxProcesses"]
  BY ShutdownAssumption DEF Defaulted, Valid, Lesser, LimitNames

\* A file that only lowers, or raises, the number of processes is valid.
LEMMA LoweringIsValid ==
    ASSUME NEW given \in [LimitNames -> Int], Lowers(given) PROVE Valid(Defaulted(given))
  BY ShutdownAssumption DEF Defaulted, Valid, Lesser, LimitNames, Lowers

-----------------------------------------------------------------------------
LEMMA InitIInv == Init => IInv
  BY ShutdownAssumption
     DEF Init, IInv, TypeOK, Stages, Loaded, Blank, Owned, Pooled, Victims, Held, Starting,
         Settled, Done, Alive, Holding, Closers, poolClosed

LEMMA NextTypeOK == IInv /\ Next => TypeOK'
  <1> SUFFICES ASSUME IInv, Next PROVE TypeOK'
    OBVIOUS
  <1> USE DEF IInv, TypeOK, Holding, Closers, config, program, pool, requests
  <1>1. CASE Loads
    BY <1>1, ShutdownAssumption, DefaultedType DEF Loads
  <1>2. CASE LoadFails
    BY <1>2, ShutdownAssumption, DefaultedType DEF LoadFails, Exits
  <1>3. CASE StartFails
    BY <1>3 DEF StartFails, Exits
  <1>4. CASE Listens
    BY <1>4 DEF Listens
  <1>5. CASE Signal
    BY <1>5 DEF Signal
  <1>6. ASSUME NEW r \in Requests, Connects(r) PROVE TypeOK'
    BY <1>6 DEF Connects, Becomes
  <1>7. ASSUME NEW r \in Requests, Disconnects(r) PROVE TypeOK'
    BY <1>7 DEF Disconnects, Becomes
  <1>8. ASSUME NEW r \in Requests, Streams(r) PROVE TypeOK'
    BY <1>8 DEF Streams, Becomes
  <1>9. ASSUME NEW r \in Requests, StreamEnds(r) PROVE TypeOK'
    BY <1>9 DEF StreamEnds, Becomes
  <1>10. ASSUME NEW r \in Requests, AcquireRefused(r) PROVE TypeOK'
    BY <1>10 DEF AcquireRefused, Full, Idle, Inflight, Becomes
  <1>11. ASSUME NEW r \in Requests, EvictionDone(r) PROVE TypeOK'
    BY <1>11 DEF EvictionDone, Becomes
  <1>12. ASSUME NEW r \in Requests, SessionFound(r) PROVE TypeOK'
    BY <1>12 DEF SessionFound, Free, Becomes
  <1>13. ASSUME NEW r \in Requests, SessionRefused(r) PROVE TypeOK'
    BY <1>13 DEF SessionRefused, Free, Becomes
  <1>14. ASSUME NEW r \in Requests, Starts(r) PROVE TypeOK'
    BY <1>14 DEF Starts, Free, Becomes
  <1>15. ASSUME NEW r \in Requests, Started(r) PROVE TypeOK'
    BY <1>15 DEF Started, LetsGo, Becomes
  <1>16. ASSUME NEW r \in Requests, NotStarted(r) PROVE TypeOK'
    BY <1>16 DEF NotStarted, LetsGo, Becomes
  <1>17. ASSUME NEW r \in Requests, Returns(r) PROVE TypeOK'
    BY <1>17 DEF Returns, Becomes
  <1>18. ASSUME NEW r \in Requests, NEW b \in Backends, AcquireHit(r, b) PROVE TypeOK'
    BY <1>18 DEF AcquireHit, Becomes
  <1>19. ASSUME NEW r \in Requests, NEW b \in Backends, AcquireNew(r, b) PROVE TypeOK'
    BY <1>19 DEF AcquireNew, Unmade, Full, Becomes
  <1>20. ASSUME NEW r \in Requests, NEW b \in Backends, NEW victim \in Backends,
               AcquireEvict(r, b, victim)
        PROVE  TypeOK'
    BY <1>20 DEF AcquireEvict, Unmade, Full, Idle, Inflight, Becomes
  <1>21. ASSUME NEW b \in Backends, Crash(b) PROVE TypeOK'
    BY <1>21 DEF Crash
  <1>22. ASSUME NEW b \in Backends, Expire(b) PROVE TypeOK'
    BY <1>22 DEF Expire, Idle, Inflight
  <1>23. ASSUME NEW c \in Closers, NEW b \in Backends, StopBegins(c, b) PROVE TypeOK'
    BY <1>23 DEF StopBegins, Free
  <1>24. ASSUME NEW c \in Closers, NEW b \in Backends, NothingToStop(c, b) PROVE TypeOK'
    BY <1>24 DEF NothingToStop, Free
  <1>25. ASSUME NEW c \in Closers, NEW b \in Backends, StopEnds(c, b) PROVE TypeOK'
    BY <1>25 DEF StopEnds
  <1>26. CASE AcceptFails
    BY <1>26 DEF AcceptFails, PoolCloses
  <1>27. CASE ShutdownBegins
    BY <1>27 DEF ShutdownBegins
  <1>28. CASE Drained
    BY <1>28 DEF Drained, PoolCloses, Quiescent
  <1>29. CASE GivesUp
    BY <1>29 DEF GivesUp, PoolCloses
  <1>30. CASE Stops
    BY <1>30 DEF Stops, PoolClosed
  <1> HIDE DEF IInv, TypeOK, Holding, Closers, config, program, pool, requests
  <1>31. QED
    BY <1>1, <1>2, <1>3, <1>4, <1>5, <1>6, <1>7, <1>8, <1>9, <1>10, <1>11, <1>12, <1>13, <1>14,
       <1>15, <1>16, <1>17, <1>18, <1>19, <1>20, <1>21, <1>22, <1>23, <1>24, <1>25, <1>26,
       <1>27, <1>28, <1>29, <1>30 DEF Next, Startup, Serve, Request, Acquires, Calls, Stopping

LEMMA NextStages == IInv /\ Next => Stages'
  <1> SUFFICES ASSUME IInv, Next PROVE Stages'
    OBVIOUS
  <1>1. \/ UNCHANGED <<stage, exit, listening, entries, todo>>
        \/ Loads \/ LoadFails \/ StartFails \/ Listens \/ AcceptFails \/ ShutdownBegins \/
               Drained \/ GivesUp \/ Stops
        \/ \E r \in Requests, b \in Backends : AcquireNew(r, b)
        \/ \E r \in Requests, b, victim \in Backends : AcquireEvict(r, b, victim)
        \/ \E b \in Backends : Expire(b)
        \/ \E c \in Closers, b \in Backends : NothingToStop(c, b) \/ StopEnds(c, b)
    BY DEF Next, Startup, Serve, Request, Acquires, Calls, Stopping, Signal, Connects,
       Disconnects, Streams, StreamEnds, AcquireRefused, EvictionDone, SessionFound,
       SessionRefused, Starts, Started, NotStarted, Returns, AcquireHit, Crash, StopBegins,
       config, program, pool, requests
  <1> USE ShutdownAssumption DEF IInv, TypeOK, Stages, Blank, Closers, poolClosed, config,
        program, pool, requests
  <1>2. CASE UNCHANGED <<stage, exit, listening, entries, todo>>
    BY <1>2
  <1>3. CASE Loads
    BY <1>3 DEF Loads
  <1>4. CASE LoadFails
    BY <1>4 DEF LoadFails, Exits
  <1>5. CASE StartFails
    BY <1>5 DEF StartFails, Exits
  <1>6. CASE Listens
    BY <1>6 DEF Listens
  <1>7. ASSUME NEW r \in Requests, NEW b \in Backends, AcquireNew(r, b) PROVE Stages'
    BY <1>7 DEF AcquireNew, Unmade, Full, Becomes
  <1>8. ASSUME NEW r \in Requests, NEW b \in Backends, NEW victim \in Backends,
               AcquireEvict(r, b, victim)
        PROVE  Stages'
    BY <1>8 DEF AcquireEvict, Unmade, Full, Idle, Inflight, Becomes
  <1>9. ASSUME NEW b \in Backends, Expire(b) PROVE Stages'
    BY <1>9 DEF Expire, Idle, Inflight
  <1>10. ASSUME NEW c \in Closers, NEW b \in Backends, NothingToStop(c, b) PROVE Stages'
    BY <1>10 DEF NothingToStop, Free
  <1>11. ASSUME NEW c \in Closers, NEW b \in Backends, StopEnds(c, b) PROVE Stages'
    BY <1>11 DEF StopEnds
  <1>12. CASE AcceptFails
    BY <1>12 DEF AcceptFails, PoolCloses
  <1>13. CASE ShutdownBegins
    BY <1>13 DEF ShutdownBegins
  <1>14. CASE Drained
    BY <1>14 DEF Drained, PoolCloses, Quiescent
  <1>15. CASE GivesUp
    BY <1>15 DEF GivesUp, PoolCloses
  <1>16. CASE Stops
    BY <1>16 DEF Stops, PoolClosed
  <1> HIDE DEF IInv, TypeOK, Stages, Blank, Closers, poolClosed, config, program, pool, requests
  <1>17. QED
    BY <1>1, <1>2, <1>3, <1>4, <1>5, <1>6, <1>7, <1>8, <1>9, <1>10, <1>11, <1>12, <1>13, <1>14,
       <1>15, <1>16

LEMMA NextLoaded == IInv /\ Next => Loaded'
  <1> SUFFICES ASSUME IInv, Next PROVE Loaded'
    OBVIOUS
  <1>1. \/ UNCHANGED <<file, limits, stage, exit>>
        \/ Loads \/ LoadFails \/ StartFails \/ Listens \/ AcceptFails \/ ShutdownBegins \/
               Drained \/ GivesUp \/ Stops
    BY DEF Next, Startup, Serve, Request, Acquires, Calls, Stopping, Signal, Connects,
       Disconnects, Streams, StreamEnds, AcquireRefused, EvictionDone, SessionFound,
       SessionRefused, Starts, Started, NotStarted, Returns, AcquireHit, AcquireNew,
       AcquireEvict, Crash, Expire, StopBegins, NothingToStop, StopEnds, config, program, pool,
       requests
  <1> USE DEF IInv, TypeOK, Loaded, config, program, pool, requests
  <1>2. CASE UNCHANGED <<file, limits, stage, exit>>
    BY <1>2
  <1>3. CASE Loads
    BY <1>3 DEF Loads
  <1>4. CASE LoadFails
    BY <1>4 DEF LoadFails, Exits
  <1>5. CASE StartFails
    BY <1>5 DEF StartFails, Exits
  <1>6. CASE Listens
    BY <1>6 DEF Listens
  <1>7. CASE AcceptFails
    BY <1>7 DEF AcceptFails, PoolCloses
  <1>8. CASE ShutdownBegins
    BY <1>8 DEF ShutdownBegins
  <1>9. CASE Drained
    BY <1>9 DEF Drained, PoolCloses, Quiescent
  <1>10. CASE GivesUp
    BY <1>10 DEF GivesUp, PoolCloses
  <1>11. CASE Stops
    BY <1>11 DEF Stops, PoolClosed
  <1> HIDE DEF IInv, TypeOK, Loaded, config, program, pool, requests
  <1>12. QED
    BY <1>1, <1>2, <1>3, <1>4, <1>5, <1>6, <1>7, <1>8, <1>9, <1>10, <1>11

LEMMA NextBlank == IInv /\ Next => Blank'
  <1> SUFFICES ASSUME IInv, Next PROVE Blank'
    OBVIOUS
  <1>1. \/ UNCHANGED <<stage, exit, entries, todo, backend, conn>>
        \/ Loads \/ LoadFails \/ StartFails \/ Listens \/ AcceptFails \/ ShutdownBegins \/
               Drained \/ GivesUp \/ Stops
        \/ \E r \in Requests : Connects(r) \/ Disconnects(r) \/ Streams(r) \/ StreamEnds(r) \/
               AcquireRefused(r) \/ EvictionDone(r) \/ SessionFound(r) \/ SessionRefused(r) \/
               Starts(r) \/ Started(r) \/ NotStarted(r) \/ Returns(r)
        \/ \E r \in Requests, b \in Backends : AcquireHit(r, b) \/ AcquireNew(r, b)
        \/ \E r \in Requests, b, victim \in Backends : AcquireEvict(r, b, victim)
        \/ \E b \in Backends : Crash(b) \/ Expire(b)
        \/ \E c \in Closers, b \in Backends : StopBegins(c, b) \/ NothingToStop(c, b) \/
               StopEnds(c, b)
    BY DEF Next, Startup, Serve, Request, Acquires, Calls, Stopping, Signal, config, program,
       pool, requests
  <1> USE DEF IInv, TypeOK, Stages, Blank, Holding, poolClosed, config, program, pool, requests
  <1>2. CASE UNCHANGED <<stage, exit, entries, todo, backend, conn>>
    BY <1>2
  <1>3. CASE Loads
    BY <1>3 DEF Loads
  <1>4. CASE LoadFails
    BY <1>4 DEF LoadFails, Exits
  <1>5. CASE StartFails
    BY <1>5 DEF StartFails, Exits
  <1>6. CASE Listens
    BY <1>6 DEF Listens
  <1>7. ASSUME NEW r \in Requests, Connects(r) PROVE Blank'
    BY <1>7 DEF Connects, Becomes
  <1>8. ASSUME NEW r \in Requests, Disconnects(r) PROVE Blank'
    BY <1>8 DEF Disconnects, Becomes
  <1>9. ASSUME NEW r \in Requests, Streams(r) PROVE Blank'
    BY <1>9 DEF Streams, Becomes
  <1>10. ASSUME NEW r \in Requests, StreamEnds(r) PROVE Blank'
    BY <1>10 DEF StreamEnds, Becomes
  <1>11. ASSUME NEW r \in Requests, AcquireRefused(r) PROVE Blank'
    BY <1>11 DEF AcquireRefused, Full, Idle, Inflight, Becomes
  <1>12. ASSUME NEW r \in Requests, EvictionDone(r) PROVE Blank'
    BY <1>12 DEF EvictionDone, Becomes
  <1>13. ASSUME NEW r \in Requests, SessionFound(r) PROVE Blank'
    BY <1>13 DEF SessionFound, Free, Becomes
  <1>14. ASSUME NEW r \in Requests, SessionRefused(r) PROVE Blank'
    BY <1>14 DEF SessionRefused, Free, Becomes
  <1>15. ASSUME NEW r \in Requests, Starts(r) PROVE Blank'
    BY <1>15 DEF Starts, Free, Becomes
  <1>16. ASSUME NEW r \in Requests, Started(r) PROVE Blank'
    BY <1>16 DEF Started, LetsGo, Becomes
  <1>17. ASSUME NEW r \in Requests, NotStarted(r) PROVE Blank'
    BY <1>17 DEF NotStarted, LetsGo, Becomes
  <1>18. ASSUME NEW r \in Requests, Returns(r) PROVE Blank'
    BY <1>18 DEF Returns, Becomes
  <1>19. ASSUME NEW r \in Requests, NEW b \in Backends, AcquireHit(r, b) PROVE Blank'
    BY <1>19 DEF AcquireHit, Becomes
  <1>20. ASSUME NEW r \in Requests, NEW b \in Backends, AcquireNew(r, b) PROVE Blank'
    BY <1>20 DEF AcquireNew, Unmade, Full, Becomes
  <1>21. ASSUME NEW r \in Requests, NEW b \in Backends, NEW victim \in Backends,
               AcquireEvict(r, b, victim)
        PROVE  Blank'
    BY <1>21 DEF AcquireEvict, Unmade, Full, Idle, Inflight, Becomes
  <1>22. ASSUME NEW b \in Backends, Crash(b) PROVE Blank'
    BY <1>22 DEF Crash
  <1>23. ASSUME NEW b \in Backends, Expire(b) PROVE Blank'
    BY <1>23 DEF Expire, Idle, Inflight
  <1>24. ASSUME NEW c \in Closers, NEW b \in Backends, StopBegins(c, b) PROVE Blank'
    BY <1>24 DEF StopBegins, Free
  <1>25. ASSUME NEW c \in Closers, NEW b \in Backends, NothingToStop(c, b) PROVE Blank'
    BY <1>25 DEF NothingToStop, Free
  <1>26. ASSUME NEW c \in Closers, NEW b \in Backends, StopEnds(c, b) PROVE Blank'
    BY <1>26 DEF StopEnds
  <1>27. CASE AcceptFails
    BY <1>27 DEF AcceptFails, PoolCloses
  <1>28. CASE ShutdownBegins
    BY <1>28 DEF ShutdownBegins
  <1>29. CASE Drained
    BY <1>29 DEF Drained, PoolCloses, Quiescent
  <1>30. CASE GivesUp
    BY <1>30 DEF GivesUp, PoolCloses
  <1>31. CASE Stops
    BY <1>31 DEF Stops, PoolClosed
  <1> HIDE DEF IInv, TypeOK, Stages, Blank, Holding, poolClosed, config, program, pool, requests
  <1>32. QED
    BY <1>1, <1>2, <1>3, <1>4, <1>5, <1>6, <1>7, <1>8, <1>9, <1>10, <1>11, <1>12, <1>13, <1>14,
       <1>15, <1>16, <1>17, <1>18, <1>19, <1>20, <1>21, <1>22, <1>23, <1>24, <1>25, <1>26,
       <1>27, <1>28, <1>29, <1>30, <1>31

LEMMA NextOwned == IInv /\ Next => Owned'
  <1> SUFFICES ASSUME IInv, Next PROVE Owned'
    OBVIOUS
  <1>1. \/ UNCHANGED <<entries, todo, backend>>
        \/ \E r \in Requests : Starts(r) \/ NotStarted(r)
        \/ \E r \in Requests, b \in Backends : AcquireNew(r, b)
        \/ \E r \in Requests, b, victim \in Backends : AcquireEvict(r, b, victim)
        \/ \E b \in Backends : Crash(b) \/ Expire(b)
        \/ \E c \in Closers, b \in Backends : StopBegins(c, b) \/ NothingToStop(c, b) \/
               StopEnds(c, b)
        \/ AcceptFails \/ Drained \/ GivesUp
    BY DEF Next, Startup, Serve, Request, Acquires, Calls, Stopping, Loads, LoadFails,
       StartFails, Listens, Signal, Connects, Disconnects, Streams, StreamEnds, AcquireRefused,
       EvictionDone, SessionFound, SessionRefused, Started, Returns, AcquireHit, ShutdownBegins,
       Stops, config, program, pool, requests
  <1> USE DEF IInv, TypeOK, Stages, Owned, Victims, Held, Alive, Holding, poolClosed, Closers,
        config, program, pool, requests
  <1>2. CASE UNCHANGED <<entries, todo, backend>>
    BY <1>2
  <1>3. ASSUME NEW r \in Requests, Starts(r) PROVE Owned'
    BY <1>3 DEF Starts, Free, Becomes
  <1>4. ASSUME NEW r \in Requests, NotStarted(r) PROVE Owned'
    BY <1>4 DEF NotStarted, LetsGo, Becomes
  <1>5. ASSUME NEW r \in Requests, NEW b \in Backends, AcquireNew(r, b) PROVE Owned'
    BY <1>5 DEF AcquireNew, Unmade, Full, Becomes
  <1>6. ASSUME NEW r \in Requests, NEW b \in Backends, NEW victim \in Backends,
               AcquireEvict(r, b, victim)
        PROVE  Owned'
    BY <1>6 DEF AcquireEvict, Unmade, Full, Idle, Inflight, Becomes
  <1>7. ASSUME NEW b \in Backends, Crash(b) PROVE Owned'
    BY <1>7 DEF Crash
  <1>8. ASSUME NEW b \in Backends, Expire(b) PROVE Owned'
    BY <1>8 DEF Expire, Idle, Inflight
  <1>9. ASSUME NEW c \in Closers, NEW b \in Backends, StopBegins(c, b) PROVE Owned'
    BY <1>9 DEF StopBegins, Free
  <1>10. ASSUME NEW c \in Closers, NEW b \in Backends, NothingToStop(c, b) PROVE Owned'
    BY <1>10 DEF NothingToStop, Free
  <1>11. ASSUME NEW c \in Closers, NEW b \in Backends, StopEnds(c, b) PROVE Owned'
    BY <1>11 DEF StopEnds
  <1>12. CASE AcceptFails
    BY <1>12 DEF AcceptFails, PoolCloses
  <1>13. CASE Drained
    BY <1>13 DEF Drained, PoolCloses, Quiescent
  <1>14. CASE GivesUp
    BY <1>14 DEF GivesUp, PoolCloses
  <1> HIDE DEF IInv, TypeOK, Stages, Owned, Victims, Held, Alive, Holding, poolClosed, Closers,
           config, program, pool, requests
  <1>15. QED
    BY <1>1, <1>2, <1>3, <1>4, <1>5, <1>6, <1>7, <1>8, <1>9, <1>10, <1>11, <1>12, <1>13, <1>14

LEMMA NextPooled == IInv /\ Next => Pooled'
  <1> SUFFICES ASSUME IInv, Next PROVE Pooled'
    OBVIOUS
  <1>1. \/ UNCHANGED <<entries, todo, backend>>
        \/ \E r \in Requests : Starts(r) \/ NotStarted(r)
        \/ \E r \in Requests, b \in Backends : AcquireNew(r, b)
        \/ \E r \in Requests, b, victim \in Backends : AcquireEvict(r, b, victim)
        \/ \E b \in Backends : Crash(b) \/ Expire(b)
        \/ \E c \in Closers, b \in Backends : StopBegins(c, b) \/ NothingToStop(c, b) \/
               StopEnds(c, b)
        \/ AcceptFails \/ Drained \/ GivesUp
    BY DEF Next, Startup, Serve, Request, Acquires, Calls, Stopping, Loads, LoadFails,
       StartFails, Listens, Signal, Connects, Disconnects, Streams, StreamEnds, AcquireRefused,
       EvictionDone, SessionFound, SessionRefused, Started, Returns, AcquireHit, ShutdownBegins,
       Stops, config, program, pool, requests
  <1> USE DEF IInv, TypeOK, Stages, Pooled, Held, Starting, Holding, poolClosed, config,
        program, pool, requests
  <1>2. CASE UNCHANGED <<entries, todo, backend>>
    BY <1>2
  <1>3. ASSUME NEW r \in Requests, Starts(r) PROVE Pooled'
    BY <1>3 DEF Starts, Free, Becomes
  <1>4. ASSUME NEW r \in Requests, NotStarted(r) PROVE Pooled'
    BY <1>4 DEF NotStarted, LetsGo, Becomes
  <1>5. ASSUME NEW r \in Requests, NEW b \in Backends, AcquireNew(r, b) PROVE Pooled'
    BY <1>5 DEF AcquireNew, Unmade, Full, Becomes
  <1>6. ASSUME NEW r \in Requests, NEW b \in Backends, NEW victim \in Backends,
               AcquireEvict(r, b, victim)
        PROVE  Pooled'
    BY <1>6 DEF AcquireEvict, Unmade, Full, Idle, Inflight, Becomes
  <1>7. ASSUME NEW b \in Backends, Crash(b) PROVE Pooled'
    BY <1>7 DEF Crash
  <1>8. ASSUME NEW b \in Backends, Expire(b) PROVE Pooled'
    BY <1>8 DEF Expire, Idle, Inflight
  <1>9. ASSUME NEW c \in Closers, NEW b \in Backends, StopBegins(c, b) PROVE Pooled'
    BY <1>9 DEF StopBegins, Free
  <1>10. ASSUME NEW c \in Closers, NEW b \in Backends, NothingToStop(c, b) PROVE Pooled'
    BY <1>10 DEF NothingToStop, Free
  <1>11. ASSUME NEW c \in Closers, NEW b \in Backends, StopEnds(c, b) PROVE Pooled'
    BY <1>11 DEF StopEnds
  <1>12. CASE AcceptFails
    BY <1>12 DEF AcceptFails, PoolCloses
  <1>13. CASE Drained
    BY <1>13 DEF Drained, PoolCloses, Quiescent
  <1>14. CASE GivesUp
    BY <1>14 DEF GivesUp, PoolCloses
  <1> HIDE DEF IInv, TypeOK, Stages, Pooled, Held, Starting, Holding, poolClosed, config,
           program, pool, requests
  <1>15. QED
    BY <1>1, <1>2, <1>3, <1>4, <1>5, <1>6, <1>7, <1>8, <1>9, <1>10, <1>11, <1>12, <1>13, <1>14

LEMMA NextVictims == IInv /\ Next => Victims'
  <1> SUFFICES ASSUME IInv, Next PROVE Victims'
    OBVIOUS
  <1>1. \/ UNCHANGED <<todo, conn>>
        \/ \E r \in Requests : Connects(r) \/ Disconnects(r) \/ Streams(r) \/ StreamEnds(r) \/
               AcquireRefused(r) \/ EvictionDone(r) \/ SessionFound(r) \/ SessionRefused(r) \/
               Starts(r) \/ Started(r) \/ NotStarted(r) \/ Returns(r)
        \/ \E r \in Requests, b \in Backends : AcquireHit(r, b) \/ AcquireNew(r, b)
        \/ \E r \in Requests, b, victim \in Backends : AcquireEvict(r, b, victim)
        \/ \E b \in Backends : Expire(b)
        \/ \E c \in Closers, b \in Backends : NothingToStop(c, b) \/ StopEnds(c, b)
        \/ AcceptFails \/ Drained \/ GivesUp
    BY DEF Next, Startup, Serve, Request, Acquires, Calls, Stopping, Loads, LoadFails,
       StartFails, Listens, Signal, Crash, StopBegins, ShutdownBegins, Stops, config, program,
       pool, requests
  <1> USE ShutdownAssumption DEF IInv, TypeOK, Stages, Blank, Victims, Closers, Holding,
        poolClosed, config, program, pool, requests
  <1>2. CASE UNCHANGED <<todo, conn>>
    BY <1>2
  <1>3. ASSUME NEW r \in Requests, Connects(r) PROVE Victims'
    BY <1>3 DEF Connects, Becomes
  <1>4. ASSUME NEW r \in Requests, Disconnects(r) PROVE Victims'
    BY <1>4 DEF Disconnects, Becomes
  <1>5. ASSUME NEW r \in Requests, Streams(r) PROVE Victims'
    BY <1>5 DEF Streams, Becomes
  <1>6. ASSUME NEW r \in Requests, StreamEnds(r) PROVE Victims'
    BY <1>6 DEF StreamEnds, Becomes
  <1>7. ASSUME NEW r \in Requests, AcquireRefused(r) PROVE Victims'
    BY <1>7 DEF AcquireRefused, Full, Idle, Inflight, Becomes
  <1>8. ASSUME NEW r \in Requests, EvictionDone(r) PROVE Victims'
    BY <1>8 DEF EvictionDone, Becomes
  <1>9. ASSUME NEW r \in Requests, SessionFound(r) PROVE Victims'
    BY <1>9 DEF SessionFound, Free, Becomes
  <1>10. ASSUME NEW r \in Requests, SessionRefused(r) PROVE Victims'
    BY <1>10 DEF SessionRefused, Free, Becomes
  <1>11. ASSUME NEW r \in Requests, Starts(r) PROVE Victims'
    BY <1>11 DEF Starts, Free, Becomes
  <1>12. ASSUME NEW r \in Requests, Started(r) PROVE Victims'
    BY <1>12 DEF Started, LetsGo, Becomes
  <1>13. ASSUME NEW r \in Requests, NotStarted(r) PROVE Victims'
    BY <1>13 DEF NotStarted, LetsGo, Becomes
  <1>14. ASSUME NEW r \in Requests, Returns(r) PROVE Victims'
    BY <1>14 DEF Returns, Becomes
  <1>15. ASSUME NEW r \in Requests, NEW b \in Backends, AcquireHit(r, b) PROVE Victims'
    BY <1>15 DEF AcquireHit, Becomes
  <1>16. ASSUME NEW r \in Requests, NEW b \in Backends, AcquireNew(r, b) PROVE Victims'
    BY <1>16 DEF AcquireNew, Unmade, Full, Becomes
  <1>17. ASSUME NEW r \in Requests, NEW b \in Backends, NEW victim \in Backends,
               AcquireEvict(r, b, victim)
        PROVE  Victims'
    BY <1>17 DEF AcquireEvict, Unmade, Full, Idle, Inflight, Becomes
  <1>18. ASSUME NEW b \in Backends, Expire(b) PROVE Victims'
    BY <1>18 DEF Expire, Idle, Inflight
  <1>19. ASSUME NEW c \in Closers, NEW b \in Backends, NothingToStop(c, b) PROVE Victims'
    BY <1>19 DEF NothingToStop, Free
  <1>20. ASSUME NEW c \in Closers, NEW b \in Backends, StopEnds(c, b) PROVE Victims'
    BY <1>20 DEF StopEnds
  <1>21. CASE AcceptFails
    BY <1>21 DEF AcceptFails, PoolCloses
  <1>22. CASE Drained
    BY <1>22 DEF Drained, PoolCloses, Quiescent
  <1>23. CASE GivesUp
    BY <1>23 DEF GivesUp, PoolCloses
  <1> HIDE DEF IInv, TypeOK, Stages, Blank, Victims, Closers, Holding, poolClosed, config,
           program, pool, requests
  <1>24. QED
    BY <1>1, <1>2, <1>3, <1>4, <1>5, <1>6, <1>7, <1>8, <1>9, <1>10, <1>11, <1>12, <1>13, <1>14,
       <1>15, <1>16, <1>17, <1>18, <1>19, <1>20, <1>21, <1>22, <1>23

LEMMA NextHeld == IInv /\ Next => Held'
  <1> SUFFICES ASSUME IInv, Next PROVE Held'
    OBVIOUS
  <1>1. \/ UNCHANGED <<stage, entries, todo, backend, conn, on>>
        \/ Loads \/ LoadFails \/ StartFails \/ Listens \/ AcceptFails \/ ShutdownBegins \/
               Drained \/ GivesUp \/ Stops
        \/ \E r \in Requests : Connects(r) \/ Disconnects(r) \/ Streams(r) \/ StreamEnds(r) \/
               AcquireRefused(r) \/ EvictionDone(r) \/ SessionFound(r) \/ SessionRefused(r) \/
               Starts(r) \/ Started(r) \/ NotStarted(r) \/ Returns(r)
        \/ \E r \in Requests, b \in Backends : AcquireHit(r, b) \/ AcquireNew(r, b)
        \/ \E r \in Requests, b, victim \in Backends : AcquireEvict(r, b, victim)
        \/ \E b \in Backends : Crash(b) \/ Expire(b)
        \/ \E c \in Closers, b \in Backends : StopBegins(c, b) \/ NothingToStop(c, b) \/
               StopEnds(c, b)
    BY DEF Next, Startup, Serve, Request, Acquires, Calls, Stopping, Signal, config, program,
       pool, requests
  <1> USE DEF IInv, TypeOK, Stages, Blank, Pooled, Starting, Held, Closers, Holding, poolClosed,
        config, program, pool, requests
  <1>2. CASE UNCHANGED <<stage, entries, todo, backend, conn, on>>
    BY <1>2
  <1>3. CASE Loads
    BY <1>3 DEF Loads
  <1>4. CASE LoadFails
    BY <1>4 DEF LoadFails, Exits
  <1>5. CASE StartFails
    BY <1>5 DEF StartFails, Exits
  <1>6. CASE Listens
    BY <1>6 DEF Listens
  <1>7. ASSUME NEW r \in Requests, Connects(r) PROVE Held'
    BY <1>7 DEF Connects, Becomes
  <1>8. ASSUME NEW r \in Requests, Disconnects(r) PROVE Held'
    BY <1>8 DEF Disconnects, Becomes
  <1>9. ASSUME NEW r \in Requests, Streams(r) PROVE Held'
    BY <1>9 DEF Streams, Becomes
  <1>10. ASSUME NEW r \in Requests, StreamEnds(r) PROVE Held'
    BY <1>10 DEF StreamEnds, Becomes
  <1>11. ASSUME NEW r \in Requests, AcquireRefused(r) PROVE Held'
    BY <1>11 DEF AcquireRefused, Full, Idle, Inflight, Becomes
  <1>12. ASSUME NEW r \in Requests, EvictionDone(r) PROVE Held'
    BY <1>12 DEF EvictionDone, Becomes
  <1>13. ASSUME NEW r \in Requests, SessionFound(r) PROVE Held'
    BY <1>13 DEF SessionFound, Free, Becomes
  <1>14. ASSUME NEW r \in Requests, SessionRefused(r) PROVE Held'
    BY <1>14 DEF SessionRefused, Free, Becomes
  <1>15. ASSUME NEW r \in Requests, Starts(r) PROVE Held'
    BY <1>15 DEF Starts, Free, Becomes
  <1>16. ASSUME NEW r \in Requests, Started(r) PROVE Held'
    BY <1>16 DEF Started, LetsGo, Becomes
  <1>17. ASSUME NEW r \in Requests, NotStarted(r) PROVE Held'
    BY <1>17 DEF NotStarted, LetsGo, Becomes
  <1>18. ASSUME NEW r \in Requests, Returns(r) PROVE Held'
    BY <1>18 DEF Returns, Becomes
  <1>19. ASSUME NEW r \in Requests, NEW b \in Backends, AcquireHit(r, b) PROVE Held'
    BY <1>19 DEF AcquireHit, Becomes
  <1>20. ASSUME NEW r \in Requests, NEW b \in Backends, AcquireNew(r, b) PROVE Held'
    BY <1>20 DEF AcquireNew, Unmade, Full, Becomes
  <1>21. ASSUME NEW r \in Requests, NEW b \in Backends, NEW victim \in Backends,
               AcquireEvict(r, b, victim)
        PROVE  Held'
    BY <1>21 DEF AcquireEvict, Unmade, Full, Idle, Inflight, Becomes
  <1>22. ASSUME NEW b \in Backends, Crash(b) PROVE Held'
    BY <1>22 DEF Crash
  <1>23. ASSUME NEW b \in Backends, Expire(b) PROVE Held'
    BY <1>23 DEF Expire, Idle, Inflight
  <1>24. ASSUME NEW c \in Closers, NEW b \in Backends, StopBegins(c, b) PROVE Held'
    BY <1>24 DEF StopBegins, Free
  <1>25. ASSUME NEW c \in Closers, NEW b \in Backends, NothingToStop(c, b) PROVE Held'
    BY <1>25 DEF NothingToStop, Free
  <1>26. ASSUME NEW c \in Closers, NEW b \in Backends, StopEnds(c, b) PROVE Held'
    BY <1>26 DEF StopEnds
  <1>27. CASE AcceptFails
    BY <1>27 DEF AcceptFails, PoolCloses
  <1>28. CASE ShutdownBegins
    BY <1>28 DEF ShutdownBegins
  <1>29. CASE Drained
    BY <1>29 DEF Drained, PoolCloses, Quiescent
  <1>30. CASE GivesUp
    BY <1>30 DEF GivesUp, PoolCloses
  <1>31. CASE Stops
    BY <1>31 DEF Stops, PoolClosed
  <1> HIDE DEF IInv, TypeOK, Stages, Blank, Pooled, Starting, Held, Closers, Holding,
           poolClosed, config, program, pool, requests
  <1>32. QED
    BY <1>1, <1>2, <1>3, <1>4, <1>5, <1>6, <1>7, <1>8, <1>9, <1>10, <1>11, <1>12, <1>13, <1>14,
       <1>15, <1>16, <1>17, <1>18, <1>19, <1>20, <1>21, <1>22, <1>23, <1>24, <1>25, <1>26,
       <1>27, <1>28, <1>29, <1>30, <1>31

LEMMA NextStarting == IInv /\ Next => Starting'
  <1> SUFFICES ASSUME IInv, Next PROVE Starting'
    OBVIOUS
  <1>1. \/ UNCHANGED <<backend, lock, conn, on>>
        \/ \E r \in Requests : Connects(r) \/ Disconnects(r) \/ Streams(r) \/ StreamEnds(r) \/
               AcquireRefused(r) \/ EvictionDone(r) \/ SessionFound(r) \/ SessionRefused(r) \/
               Starts(r) \/ Started(r) \/ NotStarted(r) \/ Returns(r)
        \/ \E r \in Requests, b \in Backends : AcquireHit(r, b) \/ AcquireNew(r, b)
        \/ \E r \in Requests, b, victim \in Backends : AcquireEvict(r, b, victim)
        \/ \E b \in Backends : Crash(b)
        \/ \E c \in Closers, b \in Backends : StopBegins(c, b) \/ NothingToStop(c, b) \/
               StopEnds(c, b)
    BY DEF Next, Startup, Serve, Request, Acquires, Calls, Stopping, Loads, LoadFails,
       StartFails, Listens, Signal, Expire, AcceptFails, ShutdownBegins, Drained, GivesUp,
       Stops, config, program, pool, requests
  <1> USE ShutdownAssumption DEF IInv, TypeOK, Starting, Pooled, Held, Closers, Holding, config,
        program, pool, requests
  <1>2. CASE UNCHANGED <<backend, lock, conn, on>>
    BY <1>2
  <1>3. ASSUME NEW r \in Requests, Connects(r) PROVE Starting'
    BY <1>3 DEF Connects, Becomes
  <1>4. ASSUME NEW r \in Requests, Disconnects(r) PROVE Starting'
    BY <1>4 DEF Disconnects, Becomes
  <1>5. ASSUME NEW r \in Requests, Streams(r) PROVE Starting'
    BY <1>5 DEF Streams, Becomes
  <1>6. ASSUME NEW r \in Requests, StreamEnds(r) PROVE Starting'
    BY <1>6 DEF StreamEnds, Becomes
  <1>7. ASSUME NEW r \in Requests, AcquireRefused(r) PROVE Starting'
    BY <1>7 DEF AcquireRefused, Full, Idle, Inflight, Becomes
  <1>8. ASSUME NEW r \in Requests, EvictionDone(r) PROVE Starting'
    BY <1>8 DEF EvictionDone, Becomes
  <1>9. ASSUME NEW r \in Requests, SessionFound(r) PROVE Starting'
    BY <1>9 DEF SessionFound, Free, Becomes
  <1>10. ASSUME NEW r \in Requests, SessionRefused(r) PROVE Starting'
    BY <1>10 DEF SessionRefused, Free, Becomes
  <1>11. ASSUME NEW r \in Requests, Starts(r) PROVE Starting'
    BY <1>11 DEF Starts, Free, Becomes
  <1>12. ASSUME NEW r \in Requests, Started(r) PROVE Starting'
    BY <1>12 DEF Started, LetsGo, Becomes
  <1>13. ASSUME NEW r \in Requests, NotStarted(r) PROVE Starting'
    BY <1>13 DEF NotStarted, LetsGo, Becomes
  <1>14. ASSUME NEW r \in Requests, Returns(r) PROVE Starting'
    BY <1>14 DEF Returns, Becomes
  <1>15. ASSUME NEW r \in Requests, NEW b \in Backends, AcquireHit(r, b) PROVE Starting'
    BY <1>15 DEF AcquireHit, Becomes
  <1>16. ASSUME NEW r \in Requests, NEW b \in Backends, AcquireNew(r, b) PROVE Starting'
    BY <1>16 DEF AcquireNew, Unmade, Full, Becomes
  <1>17. ASSUME NEW r \in Requests, NEW b \in Backends, NEW victim \in Backends,
               AcquireEvict(r, b, victim)
        PROVE  Starting'
    BY <1>17 DEF AcquireEvict, Unmade, Full, Idle, Inflight, Becomes
  <1>18. ASSUME NEW b \in Backends, Crash(b) PROVE Starting'
    BY <1>18 DEF Crash
  <1>19. ASSUME NEW c \in Closers, NEW b \in Backends, StopBegins(c, b) PROVE Starting'
    BY <1>19 DEF StopBegins, Free
  <1>20. ASSUME NEW c \in Closers, NEW b \in Backends, NothingToStop(c, b) PROVE Starting'
    BY <1>20 DEF NothingToStop, Free
  <1>21. ASSUME NEW c \in Closers, NEW b \in Backends, StopEnds(c, b) PROVE Starting'
    BY <1>21 DEF StopEnds
  <1> HIDE DEF IInv, TypeOK, Starting, Pooled, Held, Closers, Holding, config, program, pool,
           requests
  <1>22. QED
    BY <1>1, <1>2, <1>3, <1>4, <1>5, <1>6, <1>7, <1>8, <1>9, <1>10, <1>11, <1>12, <1>13, <1>14,
       <1>15, <1>16, <1>17, <1>18, <1>19, <1>20, <1>21

LEMMA NextSettled == IInv /\ Next => Settled'
  <1> SUFFICES ASSUME IInv, Next PROVE Settled'
    OBVIOUS
  <1>1. \/ UNCHANGED <<exit, conn>>
        \/ LoadFails \/ StartFails \/ AcceptFails \/ Drained \/ GivesUp
        \/ \E r \in Requests : Connects(r) \/ Disconnects(r) \/ Streams(r) \/ StreamEnds(r) \/
               AcquireRefused(r) \/ EvictionDone(r) \/ SessionFound(r) \/ SessionRefused(r) \/
               Starts(r) \/ Started(r) \/ NotStarted(r) \/ Returns(r)
        \/ \E r \in Requests, b \in Backends : AcquireHit(r, b) \/ AcquireNew(r, b)
        \/ \E r \in Requests, b, victim \in Backends : AcquireEvict(r, b, victim)
    BY DEF Next, Startup, Serve, Request, Acquires, Calls, Stopping, Loads, Listens, Signal,
       Crash, Expire, StopBegins, NothingToStop, StopEnds, ShutdownBegins, Stops, config,
       program, pool, requests
  <1> USE DEF IInv, TypeOK, Stages, Settled, Holding, poolClosed, config, program, pool,
        requests
  <1>2. CASE UNCHANGED <<exit, conn>>
    BY <1>2
  <1>3. CASE LoadFails
    BY <1>3 DEF LoadFails, Exits
  <1>4. CASE StartFails
    BY <1>4 DEF StartFails, Exits
  <1>5. ASSUME NEW r \in Requests, Connects(r) PROVE Settled'
    BY <1>5 DEF Connects, Becomes
  <1>6. ASSUME NEW r \in Requests, Disconnects(r) PROVE Settled'
    BY <1>6 DEF Disconnects, Becomes
  <1>7. ASSUME NEW r \in Requests, Streams(r) PROVE Settled'
    BY <1>7 DEF Streams, Becomes
  <1>8. ASSUME NEW r \in Requests, StreamEnds(r) PROVE Settled'
    BY <1>8 DEF StreamEnds, Becomes
  <1>9. ASSUME NEW r \in Requests, AcquireRefused(r) PROVE Settled'
    BY <1>9 DEF AcquireRefused, Full, Idle, Inflight, Becomes
  <1>10. ASSUME NEW r \in Requests, EvictionDone(r) PROVE Settled'
    BY <1>10 DEF EvictionDone, Becomes
  <1>11. ASSUME NEW r \in Requests, SessionFound(r) PROVE Settled'
    BY <1>11 DEF SessionFound, Free, Becomes
  <1>12. ASSUME NEW r \in Requests, SessionRefused(r) PROVE Settled'
    BY <1>12 DEF SessionRefused, Free, Becomes
  <1>13. ASSUME NEW r \in Requests, Starts(r) PROVE Settled'
    BY <1>13 DEF Starts, Free, Becomes
  <1>14. ASSUME NEW r \in Requests, Started(r) PROVE Settled'
    BY <1>14 DEF Started, LetsGo, Becomes
  <1>15. ASSUME NEW r \in Requests, NotStarted(r) PROVE Settled'
    BY <1>15 DEF NotStarted, LetsGo, Becomes
  <1>16. ASSUME NEW r \in Requests, Returns(r) PROVE Settled'
    BY <1>16 DEF Returns, Becomes
  <1>17. ASSUME NEW r \in Requests, NEW b \in Backends, AcquireHit(r, b) PROVE Settled'
    BY <1>17 DEF AcquireHit, Becomes
  <1>18. ASSUME NEW r \in Requests, NEW b \in Backends, AcquireNew(r, b) PROVE Settled'
    BY <1>18 DEF AcquireNew, Unmade, Full, Becomes
  <1>19. ASSUME NEW r \in Requests, NEW b \in Backends, NEW victim \in Backends,
               AcquireEvict(r, b, victim)
        PROVE  Settled'
    BY <1>19 DEF AcquireEvict, Unmade, Full, Idle, Inflight, Becomes
  <1>20. CASE AcceptFails
    BY <1>20 DEF AcceptFails, PoolCloses
  <1>21. CASE Drained
    BY <1>21 DEF Drained, PoolCloses, Quiescent
  <1>22. CASE GivesUp
    BY <1>22 DEF GivesUp, PoolCloses
  <1> HIDE DEF IInv, TypeOK, Stages, Settled, Holding, poolClosed, config, program, pool,
           requests
  <1>23. QED
    BY <1>1, <1>2, <1>3, <1>4, <1>5, <1>6, <1>7, <1>8, <1>9, <1>10, <1>11, <1>12, <1>13, <1>14,
       <1>15, <1>16, <1>17, <1>18, <1>19, <1>20, <1>21, <1>22

LEMMA NextDone == IInv /\ Next => Done'
  <1> SUFFICES ASSUME IInv, Next PROVE Done'
    OBVIOUS
  <1>1. \/ UNCHANGED <<stage, todo>>
        \/ Loads \/ LoadFails \/ StartFails \/ Listens \/ AcceptFails \/ ShutdownBegins \/
               Drained \/ GivesUp \/ Stops
        \/ \E r \in Requests, b, victim \in Backends : AcquireEvict(r, b, victim)
        \/ \E b \in Backends : Expire(b)
        \/ \E c \in Closers, b \in Backends : NothingToStop(c, b) \/ StopEnds(c, b)
    BY DEF Next, Startup, Serve, Request, Acquires, Calls, Stopping, Signal, Connects,
       Disconnects, Streams, StreamEnds, AcquireRefused, EvictionDone, SessionFound,
       SessionRefused, Starts, Started, NotStarted, Returns, AcquireHit, AcquireNew, Crash,
       StopBegins, config, program, pool, requests
  <1> USE DEF IInv, TypeOK, Stages, Blank, Done, poolClosed, Closers, config, program, pool,
        requests
  <1>2. CASE UNCHANGED <<stage, todo>>
    BY <1>2
  <1>3. CASE Loads
    BY <1>3 DEF Loads
  <1>4. CASE LoadFails
    BY <1>4 DEF LoadFails, Exits
  <1>5. CASE StartFails
    BY <1>5 DEF StartFails, Exits
  <1>6. CASE Listens
    BY <1>6 DEF Listens
  <1>7. ASSUME NEW r \in Requests, NEW b \in Backends, NEW victim \in Backends,
               AcquireEvict(r, b, victim)
        PROVE  Done'
    BY <1>7 DEF AcquireEvict, Unmade, Full, Idle, Inflight, Becomes
  <1>8. ASSUME NEW b \in Backends, Expire(b) PROVE Done'
    BY <1>8 DEF Expire, Idle, Inflight
  <1>9. ASSUME NEW c \in Closers, NEW b \in Backends, NothingToStop(c, b) PROVE Done'
    BY <1>9 DEF NothingToStop, Free
  <1>10. ASSUME NEW c \in Closers, NEW b \in Backends, StopEnds(c, b) PROVE Done'
    BY <1>10 DEF StopEnds
  <1>11. CASE AcceptFails
    BY <1>11 DEF AcceptFails, PoolCloses
  <1>12. CASE ShutdownBegins
    BY <1>12 DEF ShutdownBegins
  <1>13. CASE Drained
    BY <1>13 DEF Drained, PoolCloses, Quiescent
  <1>14. CASE GivesUp
    BY <1>14 DEF GivesUp, PoolCloses
  <1>15. CASE Stops
    BY <1>15 DEF Stops, PoolClosed
  <1> HIDE DEF IInv, TypeOK, Stages, Blank, Done, poolClosed, Closers, config, program, pool,
           requests
  <1>16. QED
    BY <1>1, <1>2, <1>3, <1>4, <1>5, <1>6, <1>7, <1>8, <1>9, <1>10, <1>11, <1>12, <1>13, <1>14,
       <1>15

LEMMA StutterIInv == IInv /\ UNCHANGED vars => IInv'
  BY DEF IInv, TypeOK, Stages, Loaded, Blank, Owned, Pooled, Victims, Held, Starting,
         Settled, Done, Alive, Holding, poolClosed, vars, config, program, pool, requests

THEOREM ShutdownInvariant == Spec => []IInv
  <1>1. IInv /\ [Next]_vars => IInv'
    BY NextTypeOK, NextStages, NextLoaded, NextBlank, NextOwned, NextPooled, NextVictims,
       NextHeld, NextStarting, NextSettled, NextDone, StutterIInv DEF IInv
  <1>2. QED
    BY InitIInv, <1>1, PTL DEF Spec

-----------------------------------------------------------------------------
\* The variables keep to their types.
THEOREM ShutdownTypeOK == Spec => []TypeOK
  BY ShutdownInvariant, PTL DEF IInv

\* No request under way loses its backend to the reaper, to another request or to a
\* shutdown that has waited for it.
THEOREM ShutdownSpares == Spec => []InFlightSpared
  <1>1. ASSUME IInv, NEW r \in Requests, conn[r] \in Holding
        PROVE  \/ backend[on[r]] \in {"none", "running"}
               \/ stage \in {"closing", "exited"} /\ exit = "error"
    <2> USE <1>1 DEF IInv
    <2>1. exit # "ok" /\ exit # "invalid"
      BY DEF Settled, Blank, Holding
    <2>2. CASE exit = "error"
      BY <2>2 DEF Stages, TypeOK
    <2>3. CASE exit = "none"
      <3>1. on[r] \in entries
        BY <2>3 DEF Stages, poolClosed, Held
      <3>2. QED
        BY <3>1 DEF Pooled
    <2>4. QED
      BY <2>1, <2>2, <2>3 DEF TypeOK
  <1>2. IInv => InFlightSpared
    BY <1>1 DEF InFlightSpared
  <1>3. QED
    BY ShutdownInvariant, <1>2, PTL

\* The program leaves no process behind but the victims of evictions it cut short.
THEOREM ShutdownLeavesNothing == Spec => []NothingSurvives
  <1>1. ASSUME IInv, stage = "exited" PROVE NothingSurvives
    <2> USE <1>1 DEF IInv
    <2>1. entries = {} /\ todo[Main] = {} /\ todo[Reaper] = {}
      BY DEF Stages, Done, poolClosed
    <2>2. \A b \in Alive : \E r \in Requests : b \in todo[r]
      BY <2>1 DEF Owned, Closers
    <2>3. ASSUME exit # "error" PROVE Alive = {}
      <3>1. exit \in {"ok", "invalid"}
        BY <2>3 DEF TypeOK, Stages
      <3>2. CASE exit = "ok"
        BY <3>2, <2>2 DEF Victims, Settled
      <3>3. CASE exit = "invalid"
        BY <3>3 DEF Blank, Alive
      <3>4. QED
        BY <3>1, <3>2, <3>3
    <2>4. QED
      BY <2>2, <2>3 DEF NothingSurvives
  <1>2. IInv => NothingSurvives
    BY <1>1 DEF NothingSurvives
  <1>3. QED
    BY ShutdownInvariant, <1>2, PTL

\* The gateway runs with limits its pool can keep, and refuses no file for a limit
\* it does not mention.
THEOREM ShutdownStartedRight == Spec => []StartedRight
  <1>1. IInv => StartedRight
    <2> SUFFICES ASSUME IInv PROVE StartedRight
      OBVIOUS
    <2>1. file \in [LimitNames -> Int]
      BY ShutdownAssumption DEF IInv, TypeOK
    <2>2. Valid(Defaulted(file)) =>
             /\ \A n \in LimitNames : Defaulted(file)[n] > 0
             /\ Defaulted(file)["maxProcessesPerSubject"] <= Defaulted(file)["maxProcesses"]
      BY <2>1, LoadedLimitsKeepable
    <2>3. Lowers(file) => Valid(Defaulted(file))
      BY <2>1, LoweringIsValid
    <2>4. QED
      BY <2>2, <2>3 DEF IInv, Loaded, StartedRight
  <1>2. QED
    BY ShutdownInvariant, <1>1, PTL

\* Nothing happens to a backend that module Lifecycle does not allow.
THEOREM ShutdownBackendsLive == Spec => BackendsLive
  <1>1. ASSUME TypeOK, Starting, [Next]_vars, NEW x \in Backends
        PROVE  [Life(x)!Next]_(backend[x])
    <2> USE <1>1 DEF Life!Next, Life!Move, pool
    <2>1. ASSUME NEW r \in Requests, Starts(r) PROVE [Life(x)!Next]_(backend[x])
      BY <2>1 DEF Starts, TypeOK
    <2>2. ASSUME NEW r \in Requests, NotStarted(r) PROVE [Life(x)!Next]_(backend[x])
      BY <2>2 DEF NotStarted, TypeOK, Starting
    <2>3. ASSUME NEW c \in Closers, NEW b \in Backends, Stopping(c, b)
          PROVE  [Life(x)!Next]_(backend[x])
      BY <2>3 DEF Stopping, StopBegins, NothingToStop, StopEnds, TypeOK
    <2>4. ASSUME NEW b \in Backends, Crash(b) PROVE [Life(x)!Next]_(backend[x])
      BY <2>4 DEF Crash, TypeOK
    <2>5. CASE UNCHANGED backend
      BY <2>5
    <2>6. Next => \/ \E r \in Requests : Starts(r) \/ NotStarted(r)
                  \/ \E c \in Closers, b \in Backends : Stopping(c, b)
                  \/ \E b \in Backends : Crash(b)
                  \/ UNCHANGED backend
      BY DEF Next, Startup, Loads, LoadFails, StartFails, Listens, Signal, Serve, AcceptFails,
             ShutdownBegins, Drained, GivesUp, Stops, Request, Connects, Disconnects, Streams,
             StreamEnds, Acquires, AcquireHit, AcquireNew, AcquireEvict, AcquireRefused, Calls,
             EvictionDone, SessionFound, SessionRefused, Started, Returns, Expire
    <2>7. QED
      BY <2>1, <2>2, <2>3, <2>4, <2>5, <2>6 DEF vars
  <1>2. IInv /\ [Next]_vars => [LifeStep]_vars
    BY <1>1 DEF IInv, LifeStep
  <1>3. QED
    BY <1>2, ShutdownInvariant, PTL DEF Spec, BackendsLive
=============================================================================
