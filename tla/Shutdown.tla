------------------------------ MODULE Shutdown -------------------------------
(***************************************************************************)
(* The program from start to exit: main and run, the limits that Load of   *)
(* internal/config reads, build, and serve of cmd/mcp-reverse-proxy, with  *)
(* the requests that are under way while it stops.                         *)
(*                                                                         *)
(* A connection brings one request: a call of a backend, or a stream that  *)
(* is held open.  The pool is seen as module Pool has it, with b.mu of     *)
(* each backend, which a request keeps during a handshake and a goroutine  *)
(* while it stops the backend; a backend is in a state of module           *)
(* Lifecycle.  Subjects, and with them the limit of each, are left to      *)
(* module Pool.                                                            *)
(***************************************************************************)
EXTENDS Integers, FiniteSets

CONSTANTS
    Requests,        \* connections
    Backends,        \* entries the pool makes, none of them twice
    Main, Reaper,    \* the goroutines of serve and of reap
    Files,           \* the limits of configuration files, 0 for what is left out
    DefaultLimits,
    Nobody           \* what an unheld lock, and a request without an entry, has

LimitNames ==
    {"maxProcesses", "maxProcessesPerSubject", "idleTtl", "probeTimeout", "maxHeaderBytes"}

Closers == Requests \cup {Reaper, Main}

ASSUME ShutdownAssumption ==
    /\ IsFiniteSet(Requests) /\ IsFiniteSet(Backends)
    /\ Main \notin Requests /\ Reaper \notin Requests /\ Main # Reaper
    /\ Nobody \notin Backends \cup Closers
    /\ Files \subseteq [LimitNames -> Int]
    /\ DefaultLimits \in [LimitNames -> Nat \ {0}]

VARIABLES
    file, limits,    \* what the file says, and f.Limits
    stage,           \* of run
    exit,            \* what it returns, errors of pool.Close left out
    signalled,       \* the signal has come
    listening,       \* the listener accepts
    entries,         \* of the pool
    todo,            \* of each goroutine: what it has detached and must still stop
    backend, lock,   \* of each backend
    conn, on         \* of each request: how far it is, and the entry it holds

config == <<file, limits>>
program == <<stage, exit, signalled, listening>>
pool == <<entries, todo, backend, lock>>
requests == <<conn, on>>
vars == <<config, program, pool, requests>>

Alive == {b \in Backends : backend[b] \in {"running", "stopping"}}
Holding == {"evicting", "waiting", "starting", "calling"}
Inflight(b) == {r \in Requests : conn[r] \in Holding /\ on[r] = b}
Idle == {b \in entries : Inflight(b) = {}}
poolClosed == stage \in {"closing", "exited"}

TypeOK ==
    /\ file \in Files /\ limits \in [LimitNames -> Int]
    /\ stage \in {"loading", "built", "serving", "draining", "closing", "exited"}
    /\ exit \in {"none", "ok", "invalid", "error"}
    /\ signalled \in BOOLEAN /\ listening \in BOOLEAN
    /\ entries \subseteq Backends
    /\ todo \in [Closers -> SUBSET Backends]
    /\ backend \in [Backends -> {"none", "running", "stopping", "stopped"}]
    /\ lock \in [Backends -> Closers \cup {Nobody}]
    /\ conn \in [Requests -> {"away", "connected", "streaming", "over"} \cup Holding]
    /\ on \in [Requests -> Backends \cup {Nobody}]

Init ==
    /\ file \in Files /\ limits = file
    /\ stage = "loading" /\ exit = "none" /\ signalled = FALSE /\ listening = FALSE
    /\ entries = {} /\ todo = [c \in Closers |-> {}]
    /\ backend = [b \in Backends |-> "none"] /\ lock = [b \in Backends |-> Nobody]
    /\ conn = [r \in Requests |-> "away"] /\ on = [r \in Requests |-> Nobody]

-----------------------------------------------------------------------------
(* Start: Load, the rest of build, Listen and the report of the address.   *)

Lesser(m, n) == IF m < n THEN m ELSE n

\* Faulty variant: each limit that is left out has its own default.
EachDefault(given) == [n \in LimitNames |-> IF given[n] # 0 THEN given[n] ELSE DefaultLimits[n]]

\* applyDefaults, of a file's limits.
Defaulted(given) ==
    LET processes == IF given["maxProcesses"] # 0 THEN given["maxProcesses"]
                     ELSE DefaultLimits["maxProcesses"]
    IN [n \in LimitNames |->
          CASE given[n] # 0 -> given[n]
            [] given[n] = 0 /\ n = "maxProcessesPerSubject" -> Lesser(DefaultLimits[n], processes)
            [] OTHER -> DefaultLimits[n]]

\* validate.
Valid(given) ==
    /\ \A n \in LimitNames : given[n] >= 0
    /\ given["maxProcessesPerSubject"] <= given["maxProcesses"]

Exits(how) == stage' = "exited" /\ exit' = how

Loads ==
    /\ stage = "loading" /\ Valid(Defaulted(file))
    /\ limits' = Defaulted(file) /\ stage' = "built"
    /\ UNCHANGED <<file, exit, signalled, listening, pool, requests>>
LoadFails ==
    /\ stage = "loading" /\ ~Valid(Defaulted(file))
    /\ limits' = Defaulted(file) /\ Exits("invalid")
    /\ UNCHANGED <<file, signalled, listening, pool, requests>>

\* A signal that came before Load began, a file or a key that cannot be read, a
\* policy that is refused; an address that is taken, or nobody to report it to.
StartFails ==
    /\ stage \in {"loading", "built"} /\ Exits("error")
    /\ UNCHANGED <<config, signalled, listening, pool, requests>>
Listens ==
    /\ stage = "built"
    /\ stage' = "serving" /\ listening' = TRUE
    /\ UNCHANGED <<config, exit, signalled, pool, requests>>

\* signal.NotifyContext: another signal changes nothing.
Signal ==
    /\ ~signalled /\ signalled' = TRUE
    /\ UNCHANGED <<config, stage, exit, listening, pool, requests>>

-----------------------------------------------------------------------------
(* Requests.                                                               *)

Becomes(r, state) == conn' = [conn EXCEPT ![r] = state]

Connects(r) ==
    /\ listening /\ conn[r] = "away" /\ Becomes(r, "connected")
    /\ UNCHANGED <<config, program, pool, on>>

\* The client hangs up, or Shutdown finds the connection idle.
Disconnects(r) ==
    /\ conn[r] = "connected" /\ Becomes(r, "over")
    /\ UNCHANGED <<config, program, pool, on>>

\* A stream subscribes and starts no process; only its client ends it.
Streams(r) ==
    /\ conn[r] = "connected" /\ Becomes(r, "streaming")
    /\ UNCHANGED <<config, program, pool, on>>
StreamEnds(r) ==
    /\ conn[r] = "streaming" /\ Becomes(r, "over")
    /\ UNCHANGED <<config, program, pool, on>>

\* acquire: an entry there is, or a new one, with room for it or at the expense of
\* an idle one, or a refusal.
AcquireHit(r, b) ==
    /\ conn[r] = "connected" /\ ~poolClosed /\ b \in entries
    /\ on' = [on EXCEPT ![r] = b] /\ Becomes(r, "waiting")
    /\ UNCHANGED <<config, program, pool>>
Unmade(b) == b \notin entries /\ backend[b] = "none" /\ \A c \in Closers : b \notin todo[c]
Full == Cardinality(entries) >= limits["maxProcesses"]
AcquireNew(r, b) ==
    /\ conn[r] = "connected" /\ ~poolClosed /\ Unmade(b) /\ ~Full
    /\ entries' = entries \cup {b}
    /\ on' = [on EXCEPT ![r] = b] /\ Becomes(r, "waiting")
    /\ UNCHANGED <<config, program, todo, backend, lock>>
AcquireEvict(r, b, victim) ==
    /\ conn[r] = "connected" /\ ~poolClosed /\ Unmade(b) /\ Full /\ victim \in Idle
    /\ entries' = (entries \ {victim}) \cup {b}
    /\ todo' = [todo EXCEPT ![r] = {victim}]
    /\ on' = [on EXCEPT ![r] = b] /\ Becomes(r, "evicting")
    /\ UNCHANGED <<config, program, backend, lock>>
AcquireRefused(r) ==
    /\ conn[r] = "connected" /\ (poolClosed \/ (Full /\ Idle = {}))
    /\ Becomes(r, "over")
    /\ UNCHANGED <<config, program, pool, on>>
EvictionDone(r) ==
    /\ conn[r] = "evicting" /\ todo[r] = {} /\ Becomes(r, "waiting")
    /\ UNCHANGED <<config, program, pool, on>>

\* session.
Free(b) == lock[b] = Nobody
SessionFound(r) ==
    /\ conn[r] = "waiting" /\ Free(on[r]) /\ backend[on[r]] = "running" /\ Becomes(r, "calling")
    /\ UNCHANGED <<config, program, pool, on>>
SessionRefused(r) ==
    /\ conn[r] = "waiting" /\ Free(on[r]) /\ backend[on[r]] = "stopped" /\ Becomes(r, "over")
    /\ UNCHANGED <<config, program, pool, on>>
Starts(r) ==
    /\ conn[r] = "waiting" /\ Free(on[r]) /\ backend[on[r]] = "none"
    /\ lock' = [lock EXCEPT ![on[r]] = r]
    /\ backend' = [backend EXCEPT ![on[r]] = "running"]
    /\ Becomes(r, "starting")
    /\ UNCHANGED <<config, program, entries, todo, on>>
LetsGo(r) == lock' = [lock EXCEPT ![on[r]] = Nobody]
Started(r) ==
    /\ conn[r] = "starting" /\ backend[on[r]] = "running"
    /\ LetsGo(r) /\ Becomes(r, "calling")
    /\ UNCHANGED <<config, program, entries, todo, backend, on>>
\* The process has exited, or its client has gone.
NotStarted(r) ==
    /\ conn[r] = "starting"
    /\ LetsGo(r) /\ backend' = [backend EXCEPT ![on[r]] = "none"]
    /\ Becomes(r, "over")
    /\ UNCHANGED <<config, program, entries, todo, on>>
Returns(r) ==
    /\ conn[r] = "calling" /\ Becomes(r, "over")
    /\ UNCHANGED <<config, program, pool, on>>

Crash(b) ==
    /\ backend[b] = "running"
    /\ backend' = [backend EXCEPT ![b] = "none"]
    /\ UNCHANGED <<config, program, entries, todo, lock, requests>>

-----------------------------------------------------------------------------
(* Stopping backends: a request its victim, the reaper what was idle, and  *)
(* Close, once the reaper has returned, the rest.                          *)

Expire(b) ==
    /\ todo[Reaper] = {} /\ ~poolClosed /\ b \in Idle
    /\ entries' = entries \ {b}
    /\ todo' = [todo EXCEPT ![Reaper] = {b}]
    /\ UNCHANGED <<config, program, backend, lock, requests>>

\* One after the other, and Close not before wg.Wait.
Turn(c) == (c = Main => todo[Reaper] = {}) /\ \A b \in todo[c] : lock[b] # c

StopBegins(c, b) ==
    /\ b \in todo[c] /\ Free(b) /\ backend[b] = "running"
    /\ Turn(c)
    /\ backend' = [backend EXCEPT ![b] = "stopping"]
    /\ lock' = [lock EXCEPT ![b] = c]
    /\ UNCHANGED <<config, program, entries, todo, requests>>
NothingToStop(c, b) ==
    /\ b \in todo[c] /\ Free(b) /\ backend[b] = "none"
    /\ Turn(c)
    /\ backend' = [backend EXCEPT ![b] = "stopped"]
    /\ todo' = [todo EXCEPT ![c] = @ \ {b}]
    /\ UNCHANGED <<config, program, entries, lock, requests>>
StopEnds(c, b) ==
    /\ lock[b] = c /\ backend[b] = "stopping"
    /\ backend' = [backend EXCEPT ![b] = "stopped"]
    /\ lock' = [lock EXCEPT ![b] = Nobody]
    /\ todo' = [todo EXCEPT ![c] = @ \ {b}]
    /\ UNCHANGED <<config, program, entries, requests>>

-----------------------------------------------------------------------------
(* serve.                                                                  *)

\* The critical section of pool.Close.
PoolCloses == todo' = [todo EXCEPT ![Main] = entries] /\ entries' = {}

\* The listener breaks: nobody waits for the requests there are.
AcceptFails ==
    /\ listening /\ stage = "serving"
    /\ listening' = FALSE /\ exit' = "error" /\ stage' = "closing" /\ PoolCloses
    /\ UNCHANGED <<config, signalled, backend, lock, requests>>

\* server.Shutdown.
ShutdownBegins ==
    /\ stage = "serving" /\ signalled
    /\ listening' = FALSE /\ stage' = "draining"
    /\ UNCHANGED <<config, exit, signalled, pool, requests>>

\* Faulty variants: calls are not waited for, the end of each request is, whatever
\* it takes, and that of the backends is not.
CallsAside == \A r \in Requests : conn[r] \in {"away", "over", "calling"}
NoGrace == FALSE
InBackground == TRUE

Quiescent == \A r \in Requests : conn[r] \in {"away", "over"}
GraceEnds == TRUE

Drained ==
    /\ stage = "draining" /\ Quiescent
    /\ exit' = "ok" /\ stage' = "closing" /\ PoolCloses
    /\ UNCHANGED <<config, signalled, listening, backend, lock, requests>>
GivesUp ==
    /\ stage = "draining" /\ GraceEnds
    /\ exit' = "error" /\ stage' = "closing" /\ PoolCloses
    /\ UNCHANGED <<config, signalled, listening, backend, lock, requests>>

PoolClosed == todo[Main] = {} /\ todo[Reaper] = {}
Stops ==
    /\ stage = "closing" /\ PoolClosed
    /\ stage' = "exited"
    /\ UNCHANGED <<config, exit, signalled, listening, pool, requests>>

-----------------------------------------------------------------------------
Startup == Loads \/ LoadFails \/ StartFails \/ Listens
Acquires(r) ==
    \/ \E b \in Backends : AcquireHit(r, b) \/ AcquireNew(r, b)
    \/ \E b, victim \in Backends : AcquireEvict(r, b, victim)
    \/ AcquireRefused(r)
Calls(r) ==
    \/ EvictionDone(r) \/ SessionFound(r) \/ SessionRefused(r)
    \/ Starts(r) \/ Started(r) \/ NotStarted(r) \/ Returns(r)
Request(r) ==
    Connects(r) \/ Disconnects(r) \/ Streams(r) \/ StreamEnds(r) \/ Acquires(r) \/ Calls(r)
Stopping(c, b) == StopBegins(c, b) \/ NothingToStop(c, b) \/ StopEnds(c, b)
Serve == AcceptFails \/ ShutdownBegins \/ Drained \/ GivesUp \/ Stops

\* The gateway's goroutines end with it.
Next ==
    /\ stage # "exited"
    /\ \/ Startup \/ Signal \/ Serve
       \/ \E r \in Requests : Request(r)
       \/ \E b \in Backends : Crash(b) \/ Expire(b)
       \/ \E c \in Closers, b \in Backends : Stopping(c, b)

Spec == Init /\ [][Next]_vars

\* Goroutines get on, the grace period ends, a connection that brings no request is
\* closed, and a process that is stopped exits.  No client has to end its stream and
\* no backend has to answer, not even the handshake.
Fairness ==
    /\ WF_vars(Startup) /\ WF_vars(ShutdownBegins) /\ WF_vars(Drained \/ GivesUp) /\ WF_vars(Stops)
    /\ \A b \in Backends : WF_vars(Stopping(Main, b)) /\ WF_vars(Stopping(Reaper, b))

FairSpec == Spec /\ Fairness

-----------------------------------------------------------------------------
\* No request that is under way finds its backend stopped, neither by another that
\* needed room, nor by the reaper, nor by the shutdown, unless the grace period or
\* the listener has failed it ("the order is the point", gateway.go:115).
InFlightSpared ==
    \A r \in Requests : conn[r] \in Holding =>
        \/ backend[on[r]] \in {"none", "running"}
        \/ stage \in {"closing", "exited"} /\ exit = "error"

\* The program leaves no process behind, except, when requests were not waited for,
\* those that some of them were stopping to make room.
NothingSurvives ==
    stage = "exited" =>
        /\ Alive \subseteq UNION {todo[r] : r \in Requests}
        /\ exit # "error" => Alive = {}

\* The limits the gateway runs with are such as the pool can keep (PoolAssumption of
\* module Pool), and a file that says nothing, or only lowers the number of processes,
\* is not refused ("a deployment that lowers only the global limit must not then be
\* rejected over a per-subject limit it never wrote", config.go:246).
Lowers(given) == \A n \in LimitNames : given[n] = 0 \/ (n = "maxProcesses" /\ given[n] > 0)
StartedRight ==
    /\ stage \in {"built", "serving", "draining", "closing"} =>
         /\ \A n \in LimitNames : limits[n] > 0
         /\ limits["maxProcessesPerSubject"] <= limits["maxProcesses"]
    /\ Lowers(file) => exit # "invalid"

\* What happens to a backend is what module Lifecycle allows: closed, it stays so.
Life(b) == INSTANCE Lifecycle WITH state <- backend[b]
LifeStep == \A b \in Backends : [Life(b)!Next]_(backend[b])
BackendsLive == [][LifeStep]_vars

\* A signal ends the program, whatever its clients and backends do, unless a
\* handshake never ends: Close waits for that request's lock, and no deadline does.
ShutdownEnds ==
    (\A r \in Requests : []<>(conn[r] # "starting")) => (signalled ~> stage = "exited")
=============================================================================
