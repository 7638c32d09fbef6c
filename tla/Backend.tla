------------------------------ MODULE Backend -------------------------------
(***************************************************************************)
(* One backend of internal/pool/backend.go: a configured server and the    *)
(* child process that currently serves it.  Requests share the process;    *)
(* session starts it, reuses it, or replaces it when it is gone, holding   *)
(* b.mu across the stop of the old process, the spawn and the handshake of *)
(* the new one.  Calls run outside the lock, on the connection they were   *)
(* handed, and classify what became of them afterwards.                    *)
(*                                                                         *)
(* A process dies in two steps, as Go sees it: it exits, and later the     *)
(* goroutine in cmd.Wait closes done, which is what Exited reads.  Its     *)
(* connection is lost at a moment of its own, before or after.             *)
(*                                                                         *)
(* A process is named by the order of its start; its connection has the    *)
(* same name.  Connect and the calls on a connection are the SDK's.        *)
(***************************************************************************)
EXTENDS Naturals

CONSTANTS
    Requests,     \* goroutines that call the Backend's methods
    Closer,       \* the goroutine that calls Close, once
    Nobody,       \* holder of the free lock
    Listeners,    \* subscriptions
    MaxStarts     \* bound: processes spawned in one behaviour

ASSUME BackendAssumption ==
    /\ Closer \notin Requests
    /\ Nobody \notin Requests \cup {Closer}
    /\ MaxStarts \in Nat

Processes == 1..MaxStarts
Nil == 0
Pointers == Processes \cup {Nil}

VARIABLES
    lock,         \* the holder of b.mu
    closed,       \* b.closed
    proc,         \* b.proc
    conn,         \* b.conn
    started,      \* processes spawned so far
    status,       \* of each process: "unborn", "up", "exited", "reaped" (done closed)
    link,         \* of its connection: "none", "opening", "open", "lost", "closed"
    reader,       \* of the connection's reading goroutine: "reading", "change", "publishing"
    due,          \* the callbacks publish has copied and not called yet
    listeners,    \* b.listeners
    pc,           \* where each request is
    using,        \* the process the request works on
    over,         \* the connection session handed it
    closing,      \* where Close is: "not yet", "waiting", "discard", "done"
    blamed        \* history: processes some request was told had gone away

pointers == <<closed, proc, conn>>
processes == <<started, status, link>>
publication == <<reader, due, listeners>>
requests == <<pc, using, over>>
vars == <<lock, pointers, processes, publication, requests, closing, blamed>>

TypeOK ==
    /\ lock \in Requests \cup {Closer, Nobody}
    /\ closed \in BOOLEAN
    /\ proc \in Pointers /\ conn \in {Nil, proc}
    /\ started \in 0..MaxStarts
    /\ status \in [Processes -> {"unborn", "up", "exited", "reaped"}]
    /\ link \in [Processes -> {"none", "opening", "open", "lost", "closed"}]
    /\ reader \in [Processes -> {"reading", "change", "publishing"}]
    /\ due \in [Processes -> SUBSET Listeners]
    /\ listeners \in SUBSET Listeners
    /\ pc \in [Requests -> {"idle", "session", "discard", "spawn", "connect", "undo",
                            "call", "lost", "rejected", "broken", "forget"}]
    /\ using \in [Requests -> Pointers]
    /\ over \in [Requests -> Pointers]
    /\ closing \in {"not yet", "waiting", "discard", "done"}
    /\ blamed \in SUBSET Processes

Init ==
    /\ lock = Nobody /\ closed = FALSE /\ proc = Nil /\ conn = Nil /\ started = 0
    /\ status = [p \in Processes |-> "unborn"]
    /\ link = [p \in Processes |-> "none"]
    /\ reader = [p \in Processes |-> "reading"]
    /\ due = [p \in Processes |-> {}]
    /\ listeners = {}
    /\ pc = [r \in Requests |-> "idle"]
    /\ using = [r \in Requests |-> Nil]
    /\ over = [r \in Requests |-> Nil]
    /\ closing = "not yet"
    /\ blamed = {}

Exited(p) == status[p] = "reaped"

-----------------------------------------------------------------------------
(* session, up to the moment it lets go of b.mu.                           *)

\* Faulty variants: starting before the old process is gone, not looking at closed,
\* and an early return with the lock held.
GoneAtOnce(p) == TRUE
Unclosed == TRUE
SpawnFailsLocked(r) ==
    /\ pc[r] = "spawn"
    /\ pc' = [pc EXCEPT ![r] = "idle"]
    /\ UNCHANGED <<lock, pointers, processes, publication, using, over, closing, blamed>>

\* A process with a connection that is not known to have exited.
Usable == proc # Nil /\ conn # Nil /\ ~Exited(proc)

\* Stop has returned: it waits for the goroutine that reaps the process.
Gone(p) == Exited(p)

MayServe == ~closed

\* A Backend method is called and waits for b.mu.
Ask(r) ==
    /\ pc[r] = "idle"
    /\ pc' = [pc EXCEPT ![r] = "session"]
    /\ UNCHANGED <<lock, pointers, processes, publication, using, over, closing, blamed>>

\* session on a closed backend: ErrNotConnected.
Refused(r) ==
    /\ pc[r] = "session" /\ lock = Nobody /\ ~MayServe
    /\ pc' = [pc EXCEPT ![r] = "idle"]
    /\ UNCHANGED <<lock, pointers, processes, publication, using, over, closing, blamed>>

\* session hands out what there is.
Reuse(r) ==
    /\ pc[r] = "session" /\ lock = Nobody /\ MayServe /\ Usable
    /\ pc' = [pc EXCEPT ![r] = "call"]
    /\ using' = [using EXCEPT ![r] = proc]
    /\ over' = [over EXCEPT ![r] = conn]
    /\ UNCHANGED <<lock, pointers, processes, publication, closing, blamed>>

\* discardLocked up to the wait in Process.Stop: the connection is closed first.
CloseLink ==
    /\ link' = IF conn = Nil THEN link ELSE [link EXCEPT ![conn] = "closed"]
    /\ conn' = Nil

\* session finds nothing usable.  The context of this request bounds the stop.
Replace(r) ==
    /\ pc[r] = "session" /\ lock = Nobody /\ MayServe /\ ~Usable
    /\ lock' = r
    /\ IF proc = Nil
       THEN pc' = [pc EXCEPT ![r] = "spawn"] /\ UNCHANGED <<conn, link>>
       ELSE pc' = [pc EXCEPT ![r] = "discard"] /\ CloseLink
    /\ UNCHANGED <<closed, proc, started, status, publication, using, over, closing, blamed>>

Discarded(r) ==
    /\ pc[r] = "discard" /\ Gone(proc)
    /\ proc' = Nil
    /\ pc' = [pc EXCEPT ![r] = "spawn"]
    /\ UNCHANGED <<lock, closed, conn, processes, publication, using, over, closing, blamed>>

\* Spawn fails: the request was cancelled, or the command does not start.
SpawnFails(r) ==
    /\ pc[r] = "spawn"
    /\ lock' = Nobody
    /\ pc' = [pc EXCEPT ![r] = "idle"]
    /\ UNCHANGED <<pointers, processes, publication, using, over, closing, blamed>>

\* Spawn; the process belongs to the request until Connect has succeeded.
Spawn(r) ==
    /\ pc[r] = "spawn" /\ started < MaxStarts
    /\ started' = started + 1
    /\ status' = [status EXCEPT ![started + 1] = "up"]
    /\ link' = [link EXCEPT ![started + 1] = "opening"]
    /\ using' = [using EXCEPT ![r] = started + 1]
    /\ pc' = [pc EXCEPT ![r] = "connect"]
    /\ UNCHANGED <<lock, pointers, publication, over, closing, blamed>>

\* Connect succeeds: the answer got through to the reading goroutine.
Connected(r) ==
    /\ pc[r] = "connect" /\ link[using[r]] = "opening" /\ reader[using[r]] = "reading"
    /\ link' = [link EXCEPT ![using[r]] = "open"]
    /\ proc' = using[r] /\ conn' = using[r]
    /\ over' = [over EXCEPT ![r] = using[r]]
    /\ lock' = Nobody
    /\ pc' = [pc EXCEPT ![r] = "call"]
    /\ UNCHANGED <<closed, started, status, publication, using, closing, blamed>>

\* Connect fails, or the request is cancelled: the process is stopped again.
ConnectFails(r) ==
    /\ pc[r] = "connect"
    /\ link' = [link EXCEPT ![using[r]] = "closed"]
    /\ pc' = [pc EXCEPT ![r] = "undo"]
    /\ UNCHANGED <<lock, pointers, started, status, publication, using, over, closing, blamed>>

Undone(r) ==
    /\ pc[r] = "undo" /\ Gone(using[r])
    /\ lock' = Nobody
    /\ pc' = [pc EXCEPT ![r] = "idle"]
    /\ using' = [using EXCEPT ![r] = Nil]
    /\ UNCHANGED <<pointers, processes, publication, over, closing, blamed>>

-----------------------------------------------------------------------------
(* The call itself, and classify.                                          *)

Return(r) ==
    /\ pc' = [pc EXCEPT ![r] = "idle"]
    /\ using' = [using EXCEPT ![r] = Nil]
    /\ over' = [over EXCEPT ![r] = Nil]

Answered(r) ==
    /\ pc[r] = "call" /\ link[over[r]] = "open" /\ reader[over[r]] = "reading"
    /\ Return(r)
    /\ UNCHANGED <<lock, pointers, processes, publication, closing, blamed>>

\* The backend answers with a protocol error.
CallRejected(r) ==
    /\ pc[r] = "call" /\ link[over[r]] = "open" /\ reader[over[r]] = "reading"
    /\ pc' = [pc EXCEPT ![r] = "rejected"]
    /\ UNCHANGED <<lock, pointers, processes, publication, using, over, closing, blamed>>

\* An error normalizeError has no name for: the request's context is over, or
\* writing to a process that is gone.
CallBreaks(r) ==
    /\ pc[r] = "call"
    /\ pc' = [pc EXCEPT ![r] = "broken"]
    /\ UNCHANGED <<lock, pointers, processes, publication, using, over, closing, blamed>>

\* ErrConnectionLost.
CallLost(r) ==
    /\ pc[r] = "call" /\ link[over[r]] \in {"lost", "closed"}
    /\ pc' = [pc EXCEPT ![r] = "lost"]
    /\ UNCHANGED <<lock, pointers, processes, publication, using, over, closing, blamed>>

\* classify passes the error on: the process is there and the connection is not
\* known to be lost.
PassedOn(r) ==
    /\ pc[r] \in {"rejected", "broken"} /\ ~Exited(using[r])
    /\ Return(r)
    /\ UNCHANGED <<lock, pointers, processes, publication, closing, blamed>>

\* classify blames the process; it reads Exited without b.mu.
Blame(r) ==
    /\ pc[r] = "lost" \/ (pc[r] \in {"rejected", "broken"} /\ Exited(using[r]))
    /\ pc' = [pc EXCEPT ![r] = "forget"]
    /\ UNCHANGED <<lock, pointers, processes, publication, using, over, closing, blamed>>

\* Faulty variants: forgetting whatever connection there is by now, or none.
ForgetAny(r) == conn' = Nil
ForgetNone(r) == UNCHANGED conn

\* Only the connection of the process that is to blame is forgotten: somebody
\* may have replaced it in the meantime.
ForgetConn(r) == conn' = IF proc = using[r] THEN Nil ELSE conn

\* classify under b.mu, and the retryable error.
Forget(r) ==
    /\ pc[r] = "forget" /\ lock = Nobody
    /\ ForgetConn(r)
    /\ blamed' = blamed \cup {using[r]}
    /\ Return(r)
    /\ UNCHANGED <<lock, closed, proc, processes, publication, closing>>

-----------------------------------------------------------------------------
(* Close.                                                                  *)

CloseCalled ==
    /\ closing = "not yet"
    /\ closing' = "waiting"
    /\ UNCHANGED <<lock, pointers, processes, publication, requests, blamed>>

CloseLocked ==
    /\ closing = "waiting" /\ lock = Nobody
    /\ closed' = TRUE
    /\ CloseLink
    /\ IF proc = Nil THEN closing' = "done" /\ UNCHANGED lock
                     ELSE closing' = "discard" /\ lock' = Closer
    /\ UNCHANGED <<proc, started, status, publication, requests, blamed>>

CloseDone ==
    /\ closing = "discard" /\ Gone(proc)
    /\ proc' = Nil
    /\ lock' = Nobody
    /\ closing' = "done"
    /\ UNCHANGED <<closed, conn, processes, publication, requests, blamed>>

-----------------------------------------------------------------------------
(* Processes, connections and changes.                                     *)

\* The processes somebody is waiting for in Process.Stop.
Stopping ==
    {p \in Processes : \/ proc = p /\ (closing = "discard" \/ \E r \in Requests : pc[r] = "discard")
                       \/ \E r \in Requests : pc[r] = "undo" /\ using[r] = p}

\* A process exits, of itself or because it is being stopped.
Exit(p) ==
    /\ status[p] = "up"
    /\ status' = [status EXCEPT ![p] = "exited"]
    /\ UNCHANGED <<lock, pointers, started, link, publication, requests, closing, blamed>>

\* cmd.Wait returns and reap closes done.
Reap(p) ==
    /\ status[p] = "exited"
    /\ status' = [status EXCEPT ![p] = "reaped"]
    /\ UNCHANGED <<lock, pointers, started, link, publication, requests, closing, blamed>>

\* The reading goroutine finds the end of the backend's output, which a process
\* that is still up may close too.
Lose(p) ==
    /\ link[p] \in {"opening", "open"} /\ reader[p] = "reading"
    /\ link' = [link EXCEPT ![p] = "lost"]
    /\ UNCHANGED <<lock, pointers, started, status, publication, requests, closing, blamed>>

Subscribe(l) ==
    /\ l \notin listeners
    /\ listeners' = listeners \cup {l}
    /\ UNCHANGED <<lock, pointers, processes, reader, due, requests, closing, blamed>>

Release(l) ==
    /\ l \in listeners
    /\ listeners' = listeners \ {l}
    /\ UNCHANGED <<lock, pointers, processes, reader, due, requests, closing, blamed>>

\* The reading goroutine comes across a change, before the handshake is answered
\* or after it.
Announce(p) ==
    /\ link[p] \in {"opening", "open"} /\ reader[p] = "reading"
    /\ reader' = [reader EXCEPT ![p] = "change"]
    /\ UNCHANGED <<lock, pointers, processes, due, listeners, requests, closing, blamed>>

\* Faulty variant: listeners guarded by b.mu.
UnderBackendLock == lock = Nobody

\* listenMu is held for the copy only, and nobody waits for anything with it.
ListenersFree == TRUE

\* publish copies the listeners ...
Publish(p) ==
    /\ reader[p] = "change" /\ ListenersFree
    /\ reader' = [reader EXCEPT ![p] = "publishing"]
    /\ due' = [due EXCEPT ![p] = listeners]
    /\ UNCHANGED <<lock, pointers, processes, listeners, requests, closing, blamed>>

\* ... and calls them one by one.
Deliver(p, l) ==
    /\ l \in due[p]
    /\ due' = [due EXCEPT ![p] = @ \ {l}]
    /\ UNCHANGED <<lock, pointers, processes, reader, listeners, requests, closing, blamed>>

Published(p) ==
    /\ reader[p] = "publishing" /\ due[p] = {}
    /\ reader' = [reader EXCEPT ![p] = "reading"]
    /\ UNCHANGED <<lock, pointers, processes, due, listeners, requests, closing, blamed>>

-----------------------------------------------------------------------------
Session(r) ==
    Refused(r) \/ Reuse(r) \/ Replace(r) \/ Discarded(r) \/ SpawnFails(r) \/ Spawn(r)
    \/ Connected(r) \/ ConnectFails(r) \/ Undone(r)
Classify(r) == PassedOn(r) \/ Blame(r) \/ Forget(r)
Publication(p) == Publish(p) \/ (\E l \in Listeners : Deliver(p, l)) \/ Published(p)

Next ==
    \/ \E r \in Requests : \/ Ask(r) \/ Session(r)
                           \/ Answered(r) \/ CallRejected(r) \/ CallBreaks(r) \/ CallLost(r)
                           \/ Classify(r)
    \/ CloseCalled \/ CloseLocked \/ CloseDone
    \/ \E p \in Processes : Exit(p) \/ Reap(p) \/ Lose(p) \/ Announce(p) \/ Publication(p)
    \/ \E l \in Listeners : Subscribe(l) \/ Release(l)

Spec == Init /\ [][Next]_vars

\* A mutex hands itself to whoever waits for it long enough; a process that is
\* being stopped exits and is reaped; a reader gets on, and finds out about a
\* process that is gone.  The backend answers the handshake while its output is
\* open, as far as its reader lets it; a backend that never does is left to the
\* request's context.  Nothing obliges it to answer a call.
HandshakeLost(r) == ConnectFails(r) /\ link[using[r]] = "lost"
EndOfOutput(p) == Lose(p) /\ status[p] # "up"
Stopped(p) == Exit(p) /\ p \in Stopping
Fairness ==
    /\ \A r \in Requests :
         /\ SF_vars(Refused(r) \/ Reuse(r) \/ Replace(r)) /\ WF_vars(Discarded(r))
         /\ WF_vars(Spawn(r) \/ SpawnFails(r)) /\ WF_vars(Undone(r)) /\ WF_vars(CallLost(r))
         /\ SF_vars(Connected(r)) /\ WF_vars(HandshakeLost(r))
         /\ WF_vars(PassedOn(r)) /\ WF_vars(Blame(r)) /\ SF_vars(Forget(r))
    /\ SF_vars(CloseLocked) /\ WF_vars(CloseDone)
    /\ \A p \in Processes :
         /\ WF_vars(Stopped(p)) /\ WF_vars(Reap(p)) /\ WF_vars(Publication(p))
         /\ SF_vars(EndOfOutput(p))

FairSpec == Spec /\ Fairness

-----------------------------------------------------------------------------
(* Safety.                                                                 *)

\* However requests, classifications and Close interleave, there is never more
\* than one child process.
OneProcess == \A p, q \in Processes : status[p] = "up" /\ status[q] = "up" => p = q

\* No process is lost track of: until it is reaped it is b.proc, or in the hands
\* of the request that holds the lock to connect it.
Owned ==
    \A p \in 1..started : status[p] # "reaped" =>
        \/ p = proc
        \/ \E r \in Requests : lock = r /\ pc[r] \in {"connect", "undo"} /\ using[r] = p

\* A call gets a connection, and the one over the process it will blame.
HandedPair == \A r \in Requests : pc[r] = "call" => over[r] # Nil /\ over[r] = using[r]

\* When Close has returned no process is left, and none comes.
ClosedForGood == closing = "done" => \A p \in 1..started : status[p] = "reaped"

\* Whoever repeats a request after a retryable error is never handed the process
\* that error was about.
RetryGetsAnother ==
    [][\A r \in Requests : pc[r] # "call" /\ pc'[r] = "call" => using'[r] \notin blamed]_vars

\* Requests never stop a process that is up and whose connection is open, be it
\* for what became of an earlier process: only Close does.
HealthySpared ==
    [][\A p \in Stopping' \ Stopping : status[p] = "up" /\ link[p] = "open" => closed']_vars

\* The backend implements module Lifecycle, at the grain the pool sees.
Life == INSTANCE Lifecycle WITH
    state <- IF \E p \in Processes : status[p] = "up"
             THEN IF closed THEN "stopping" ELSE "running"
             ELSE IF closed THEN "stopped" ELSE "none"
LifeKept == Life!Spec

-----------------------------------------------------------------------------
(* Liveness, under Fairness.                                               *)

SessionReturns == \A r \in Requests : pc[r] = "session" ~> pc[r] \in {"idle", "call"}

LostCallEnds ==
    \A r \in Requests : (pc[r] = "call" /\ link[over[r]] = "lost") ~> pc[r] = "idle"

\* A request comes back to its caller: from session, though that holds the lock while
\* the backend may announce changes before it answers the handshake, and from a call
\* whose connection is gone.
RequestReturns == SessionReturns /\ LostCallEnds

\* Close returns.
CloseEnds == closing = "waiting" ~> closing = "done"

=============================================================================
