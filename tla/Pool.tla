-------------------------------- MODULE Pool --------------------------------
(***************************************************************************)
(* The backend pool of internal/pool/pool.go: one entry per key (subject   *)
(* and configuration fingerprint), a global and a per-subject limit, LRU   *)
(* eviction of idle entries, idle expiry by a reaper, change subscriptions *)
(* that outlive entries, and Close.                                        *)
(*                                                                         *)
(* Every p.mu critical section is one step.  What the code does outside    *)
(* the lock is a step of its own: a request that evicted somebody stops    *)
(* the victim before it is served, the reaper stops what it expired one    *)
(* after the other, and Close stops the entries it took once the reaper    *)
(* has returned.                                                           *)
(*                                                                         *)
(* An entry is a Go pointer; it is named by its value of stats.Created.    *)
(* Its backend is seen at the grain of module Lifecycle: no process yet    *)
(* ("none"), a process ("running"), Close stopping it ("stopping"), and    *)
(* closed for good ("stopped").  Of b.mu the model keeps that a request    *)
(* holds it from the spawn to the end of the handshake, and whoever stops  *)
(* the backend until its process is gone.                                  *)
(***************************************************************************)
EXTENDS Naturals, FiniteSets

CONSTANTS
    Subjects,        \* auth.Subject.Key() values
    Fingerprints,    \* config.Fingerprinter values of resolved servers
    Requests,        \* goroutines that call Handle methods
    Listeners,       \* identifiers handed out by subscribe (p.nextListen)
    Reaper,          \* the goroutine of reap
    Closer,          \* the goroutine that calls Close
    NoKey,           \* what an idle request wants, and the key of no entry
    MaxProcesses,    \* limits.MaxProcesses
    MaxPerSubject,   \* limits.MaxProcessesPerSubject
    IdleTTL,         \* limits.IdleTTL, in clock ticks
    AgeCap,          \* bound: idle times from here on are not told apart
    MaxStarts,       \* bound: entries created in one behaviour
    MaxRejected      \* bound: refusals counted in one behaviour

Keys == [subject : Subjects, fingerprint : Fingerprints]

\* config.validate rejects other limits; the bounds must leave room for expiry.
ASSUME PoolAssumption ==
    /\ IsFiniteSet(Subjects) /\ IsFiniteSet(Fingerprints) /\ IsFiniteSet(Requests)
    /\ NoKey \notin Keys
    /\ Reaper \notin Requests /\ Closer \notin Requests /\ Reaper # Closer
    /\ MaxProcesses \in Nat \ {0} /\ MaxPerSubject \in 1..MaxProcesses
    /\ IdleTTL \in Nat \ {0} /\ AgeCap \in Nat /\ IdleTTL <= AgeCap
    /\ MaxStarts \in Nat /\ MaxRejected \in Nat

Entries == 1..MaxStarts
NoEntry == 0
Closers == Requests \cup {Reaper, Closer}

VARIABLES
    entries,      \* p.entries: the entry of each key, or NoEntry
    perSubject,   \* p.perSubject: an absent Go key is 0
    listeners,    \* p.listeners
    stats,        \* p.stats
    closing,      \* Close: "open", then "waiting" (wg.Wait), "stopping", "closed"
    keyOf,        \* e.key
    inflight,     \* e.inflight
    idleFor,      \* time.Now() - e.lastUsed, up to AgeCap
    releases,     \* e.releases: the listeners subscribed to e's backend
    backend,      \* e.backend
    pc,           \* where each request is in a Handle method
    want,         \* h.key of the request
    held,         \* the entry the request acquired
    todo,         \* entries each goroutine has detached and must still stop
    reaping       \* TRUE until reap returns

tables  == <<entries, perSubject>>
objects == <<keyOf, inflight, idleFor, releases>>
callers == <<pc, want, held>>
vars == <<tables, listeners, stats, closing, objects, backend, callers, todo, reaping>>

\* p.closed
closed == closing # "open"

Pooled == {e \in Entries : \E k \in Keys : entries[k] = e}
UsedKeys == {k \in Keys : entries[k] # NoEntry}
KeysOf(s) == {k \in UsedKeys : k.subject = s}
Holders(e) == {r \in Requests : held[r] = e}
\* The child processes that exist.
Alive == {e \in Entries : backend[e] \in {"running", "stopping"}}

TypeOK ==
    /\ entries \in [Keys -> Entries \cup {NoEntry}]
    /\ perSubject \in [Subjects -> Nat]
    /\ listeners \in [Keys -> SUBSET Listeners]
    /\ stats \in [created : 0..MaxStarts, evicted : Nat, idleExpired : Nat,
                  rejected : 0..MaxRejected]
    /\ closing \in {"open", "waiting", "stopping", "closed"}
    /\ keyOf \in [Entries -> Keys \cup {NoKey}]
    /\ inflight \in [Entries -> Nat]
    /\ idleFor \in [Entries -> 0..AgeCap]
    /\ releases \in [Entries -> SUBSET Listeners]
    /\ backend \in [Entries -> {"none", "running", "stopping", "stopped"}]
    /\ pc \in [Requests -> {"idle", "evicting", "serving", "starting", "calling",
                            "returning"}]
    /\ want \in [Requests -> Keys \cup {NoKey}]
    /\ held \in [Requests -> Entries \cup {NoEntry}]
    /\ todo \in [Closers -> SUBSET Entries]
    /\ reaping \in BOOLEAN

Init ==
    /\ entries = [k \in Keys |-> NoEntry]
    /\ perSubject = [s \in Subjects |-> 0]
    /\ listeners = [k \in Keys |-> {}]
    /\ stats = [created |-> 0, evicted |-> 0, idleExpired |-> 0, rejected |-> 0]
    /\ closing = "open"
    /\ keyOf = [e \in Entries |-> NoKey]
    /\ inflight = [e \in Entries |-> 0]
    /\ idleFor = [e \in Entries |-> 0]
    /\ releases = [e \in Entries |-> {}]
    /\ backend = [e \in Entries |-> "none"]
    /\ pc = [r \in Requests |-> "idle"]
    /\ want = [r \in Requests |-> NoKey]
    /\ held = [r \in Requests |-> NoEntry]
    /\ todo = [c \in Closers |-> {}]
    /\ reaping = TRUE

-----------------------------------------------------------------------------
(* tryAcquire and the helpers it runs under p.mu.  A request that finds    *)
(* the pool closed gets ErrPoolClosed and changes nothing.                 *)

\* Faulty variants, put in the place of definitions below to show that the
\* properties notice: lookup by configuration alone, a limit overrun by one,
\* evicting the busy, and subscriptions forgotten.
SameFingerprint(k) == {e \in Pooled : keyOf[e].fingerprint = k.fingerprint}
OffByOne == Cardinality(UsedKeys) > MaxProcesses
BusyVictim == Pooled
NobodySubscribed(k) == {}

\* entries[k]: at most one entry answers for a key.
EntryFor(k) == {e \in Pooled : entries[k] = e}

SubjectFull(k) == perSubject[k.subject] >= MaxPerSubject
PoolFull == Cardinality(UsedKeys) >= MaxProcesses

\* leastRecentlyUsedLocked: idle entries that no idle entry is older than.  Go
\* iterates the map in random order, so among equals any may be chosen.
leastRecentlyUsed ==
    {e \in Pooled : /\ inflight[e] = 0
                    /\ \A f \in Pooled : inflight[f] = 0 => idleFor[f] <= idleFor[e]}

\* detachLocked, for every entry of S.
detachEntries(S) ==
    [k \in Keys |-> IF \E e \in S : keyOf[e] = k THEN NoEntry ELSE entries[k]]
detachPerSubject(S) ==
    [s \in Subjects |->
        LET n == Cardinality({e \in S : keyOf[e].subject = s})
        IN  IF perSubject[s] <= n THEN 0 ELSE perSubject[s] - n]

\* Who a new backend is subscribed to on behalf of.
subscribedAtStart(k) == listeners[k]

\* insertLocked, after the entries of S were detached.  The new entry is busy
\* from the start.
insertLocked(r, k, S) ==
    LET e == stats.created + 1 IN
    /\ stats.created < MaxStarts
    /\ entries' = [detachEntries(S) EXCEPT ![k] = e]
    /\ perSubject' = [detachPerSubject(S) EXCEPT ![k.subject] = @ + 1]
    /\ keyOf' = [keyOf EXCEPT ![e] = k]
    /\ inflight' = [inflight EXCEPT ![e] = 1]
    /\ idleFor' = [idleFor EXCEPT ![e] = 0]
    /\ releases' = [releases EXCEPT ![e] = subscribedAtStart(k)]
    /\ held' = [held EXCEPT ![r] = e]
    /\ want' = [want EXCEPT ![r] = k]

\* tryAcquire on a key that has an entry.
AcquireHit(r, k) ==
    /\ pc[r] = "idle" /\ ~closed
    /\ \E e \in EntryFor(k) :
        /\ inflight' = [inflight EXCEPT ![e] = @ + 1]
        /\ idleFor' = [idleFor EXCEPT ![e] = 0]
        /\ held' = [held EXCEPT ![r] = e]
    /\ want' = [want EXCEPT ![r] = k]
    /\ pc' = [pc EXCEPT ![r] = "serving"]
    /\ UNCHANGED <<tables, listeners, stats, closing, keyOf, releases, backend, todo, reaping>>

\* tryAcquire refusing: the subject's quota, or a full pool with nobody idle.
AcquireRefused(r, k) ==
    /\ pc[r] = "idle" /\ ~closed
    /\ EntryFor(k) = {}
    /\ SubjectFull(k) \/ (PoolFull /\ leastRecentlyUsed = {})
    /\ stats.rejected < MaxRejected
    /\ stats' = [stats EXCEPT !.rejected = @ + 1]
    /\ UNCHANGED <<tables, listeners, closing, objects, backend, callers, todo, reaping>>

\* tryAcquire with room: a new entry.
AcquireNew(r, k) ==
    /\ pc[r] = "idle" /\ ~closed
    /\ EntryFor(k) = {} /\ ~SubjectFull(k) /\ ~PoolFull
    /\ insertLocked(r, k, {})
    /\ stats' = [stats EXCEPT !.created = @ + 1]
    /\ pc' = [pc EXCEPT ![r] = "serving"]
    /\ UNCHANGED <<listeners, closing, backend, todo, reaping>>

\* tryAcquire on a full pool: the victim's slot changes hands in one step, and
\* the caller has the victim to stop before it goes on.
AcquireEvict(r, k) ==
    /\ pc[r] = "idle" /\ ~closed
    /\ EntryFor(k) = {} /\ ~SubjectFull(k) /\ PoolFull
    /\ \E v \in leastRecentlyUsed :
        /\ insertLocked(r, k, {v})
        /\ todo' = [todo EXCEPT ![r] = {v}]
    /\ stats' = [stats EXCEPT !.created = @ + 1, !.evicted = @ + 1]
    /\ pc' = [pc EXCEPT ![r] = "evicting"]
    /\ UNCHANGED <<listeners, closing, backend, reaping>>

-----------------------------------------------------------------------------
(* What requests do outside p.mu.                                          *)

\* acquire returns once the victim is stopped.
EvictionDone(r) ==
    /\ pc[r] = "evicting" /\ todo[r] = {}
    /\ pc' = [pc EXCEPT ![r] = "serving"]
    /\ UNCHANGED <<tables, listeners, stats, closing, objects, backend, want, held, todo, reaping>>

\* Nobody holds b.mu of the entry: neither a request in its handshake, nor who stops it.
Free(e) ==
    /\ \A r \in Holders(e) : pc[r] # "starting"
    /\ backend[e] # "stopping"

\* session finds a process.
SessionFound(r) ==
    /\ pc[r] = "serving" /\ Free(held[r]) /\ backend[held[r]] = "running"
    /\ pc' = [pc EXCEPT ![r] = "calling"]
    /\ UNCHANGED <<tables, listeners, stats, closing, objects, backend, want, held, todo, reaping>>

\* session spawns one, and keeps the lock while it connects.
Spawn(r) ==
    /\ pc' = [pc EXCEPT ![r] = "starting"]
    /\ backend' = [backend EXCEPT ![held[r]] = "running"]
    /\ UNCHANGED <<tables, listeners, stats, closing, objects, want, held, todo, reaping>>

\* Faulty variant: a closed backend starts its process again.
StartsThoughClosed(r) ==
    pc[r] = "serving" /\ Free(held[r]) /\ backend[held[r]] # "running" /\ Spawn(r)

Starts(r) == pc[r] = "serving" /\ Free(held[r]) /\ backend[held[r]] = "none" /\ Spawn(r)

\* The handshake succeeds.
Started(r) ==
    /\ pc[r] = "starting" /\ backend[held[r]] = "running"
    /\ pc' = [pc EXCEPT ![r] = "calling"]
    /\ UNCHANGED <<tables, listeners, stats, closing, objects, backend, want, held, todo, reaping>>

\* It fails, or the client has gone: session stops the process it spawned.
NotStarted(r) ==
    /\ pc[r] = "starting"
    /\ backend' = [backend EXCEPT ![held[r]] = "none"]
    /\ pc' = [pc EXCEPT ![r] = "returning"]
    /\ UNCHANGED <<tables, listeners, stats, closing, objects, want, held, todo, reaping>>

\* No process: the backend is closed, or none can be spawned.
SessionFails(r) ==
    /\ pc[r] = "serving" /\ Free(held[r]) /\ backend[held[r]] \in {"none", "stopped"}
    /\ pc' = [pc EXCEPT ![r] = "returning"]
    /\ UNCHANGED <<tables, listeners, stats, closing, objects, backend, want, held, todo, reaping>>

\* The call on the session ends: an answer, or the connection was lost.
CallReturns(r) ==
    /\ pc[r] = "calling"
    /\ pc' = [pc EXCEPT ![r] = "returning"]
    /\ UNCHANGED <<tables, listeners, stats, closing, objects, backend, want, held, todo, reaping>>

\* release, deferred by every Handle method; also on an entry Close took.
Release(r) ==
    /\ pc[r] = "returning"
    /\ inflight' = [inflight EXCEPT ![held[r]] = @ - 1]
    /\ idleFor' = [idleFor EXCEPT ![held[r]] = 0]
    /\ held' = [held EXCEPT ![r] = NoEntry]
    /\ want' = [want EXCEPT ![r] = NoKey]
    /\ pc' = [pc EXCEPT ![r] = "idle"]
    /\ UNCHANGED <<tables, listeners, stats, closing, keyOf, releases, backend, todo, reaping>>

-----------------------------------------------------------------------------
(* Subscriptions.                                                          *)

Subscribe(k, l) ==
    /\ \A j \in Keys : l \notin listeners[j]
    /\ \A e \in Entries : l \notin releases[e]
    /\ listeners' = [listeners EXCEPT ![k] = @ \cup {l}]
    /\ releases' = [e \in Entries |->
                        IF entries[k] = e THEN releases[e] \cup {l} ELSE releases[e]]
    /\ UNCHANGED <<tables, stats, closing, keyOf, inflight, idleFor, backend, callers, todo, reaping>>

Unsubscribe(k, l) ==
    /\ l \in listeners[k]
    /\ listeners' = [listeners EXCEPT ![k] = @ \ {l}]
    /\ releases' = [e \in Entries |->
                        IF entries[k] = e THEN releases[e] \ {l} ELSE releases[e]]
    /\ UNCHANGED <<tables, stats, closing, keyOf, inflight, idleFor, backend, callers, todo, reaping>>

-----------------------------------------------------------------------------
(* Stopping backends: closeEntry, and the loops of reap and Close.         *)

\* Faulty variant: stopping cut short when the pool's context is cancelled.
StopCancelled(c) == IF c = Closer THEN closing = "stopping" ELSE ~closed

\* Who may be stopping what it holds: a request in acquire, the reaper at any
\* time, Close only after wg.Wait.
MayStop(c) == c = Closer => closing = "stopping"

\* Backend.Close waits for the backend's lock, then keeps it.  With no process it is
\* over at once.
StopBegins(c, e) ==
    /\ MayStop(c) /\ e \in todo[c] /\ Free(e)
    /\ \A f \in todo[c] : backend[f] # "stopping"
    /\ \/ /\ backend[e] = "running"
          /\ backend' = [backend EXCEPT ![e] = "stopping"]
          /\ UNCHANGED todo
       \/ /\ backend[e] = "none"
          /\ backend' = [backend EXCEPT ![e] = "stopped"]
          /\ todo' = [todo EXCEPT ![c] = @ \ {e}]
    /\ UNCHANGED <<tables, listeners, stats, closing, objects, callers, reaping>>

\* The process is gone and Backend.Close returns.
StopEnds(c, e) ==
    /\ e \in todo[c] /\ backend[e] = "stopping"
    /\ backend' = [backend EXCEPT ![e] = "stopped"]
    /\ todo' = [todo EXCEPT ![c] = @ \ {e}]
    /\ UNCHANGED <<tables, listeners, stats, closing, objects, callers, reaping>>

\* A process exits on its own; the backend starts another when next asked.
Crash(e) ==
    /\ backend[e] = "running"
    /\ backend' = [backend EXCEPT ![e] = "none"]
    /\ UNCHANGED <<tables, listeners, stats, closing, objects, callers, todo, reaping>>

-----------------------------------------------------------------------------
(* The reaper and Close.                                                   *)

\* Faulty variants: expiry that ignores requests in flight, or spares whoever
\* has listeners; Close that does not wait for the reaper.
StaleThoughBusy == {e \in Pooled : idleFor[e] >= IdleTTL}
StaleUnheard ==
    {e \in Pooled : inflight[e] = 0 /\ idleFor[e] >= IdleTTL /\ releases[e] = {}}
ReaperIgnored == TRUE

stale == {e \in Pooled : inflight[e] = 0 /\ idleFor[e] >= IdleTTL}

\* A tick of reap that finds something: expired detaches every stale entry.
Expire ==
    /\ reaping /\ todo[Reaper] = {} /\ ~closed
    /\ stale # {}
    /\ entries' = detachEntries(stale)
    /\ perSubject' = detachPerSubject(stale)
    /\ stats' = [stats EXCEPT !.idleExpired = @ + Cardinality(stale)]
    /\ todo' = [todo EXCEPT ![Reaper] = stale]
    /\ UNCHANGED <<listeners, closing, objects, backend, callers, reaping>>

\* reap sees stopReap's cancellation, never in the middle of a batch.
ReaperReturns ==
    /\ reaping /\ closed /\ todo[Reaper] = {}
    /\ reaping' = FALSE
    /\ UNCHANGED <<tables, listeners, stats, closing, objects, backend, callers, todo>>

\* What Close takes for itself to stop.
TakenByClose == Pooled

\* Close's critical section, and stopReap.
CloseBegins ==
    /\ ~closed
    /\ closing' = "waiting"
    /\ todo' = [todo EXCEPT ![Closer] = TakenByClose]
    /\ entries' = [k \in Keys |-> NoEntry]
    /\ perSubject' = [s \in Subjects |-> 0]
    /\ UNCHANGED <<listeners, stats, objects, backend, callers, reaping>>

ReaperGone == ~reaping

\* p.wg.Wait returns.
CloseWaited ==
    /\ closing = "waiting" /\ ReaperGone
    /\ closing' = "stopping"
    /\ UNCHANGED <<tables, listeners, stats, objects, backend, callers, todo, reaping>>

CloseReturns ==
    /\ closing = "stopping" /\ todo[Closer] = {}
    /\ closing' = "closed"
    /\ UNCHANGED <<tables, listeners, stats, objects, backend, callers, todo, reaping>>

\* Time passes for the entries whose lastUsed is still read.
Tick ==
    /\ \E e \in Pooled : idleFor[e] < AgeCap
    /\ idleFor' = [e \in Entries |->
                     IF e \in Pooled /\ idleFor[e] < AgeCap THEN idleFor[e] + 1 ELSE idleFor[e]]
    /\ UNCHANGED <<tables, listeners, stats, closing, keyOf, inflight, releases, backend,
                   callers, todo, reaping>>

-----------------------------------------------------------------------------
RequestStep(r) ==
    \/ \E k \in Keys : \/ AcquireHit(r, k) \/ AcquireRefused(r, k)
                       \/ AcquireNew(r, k) \/ AcquireEvict(r, k)
    \/ EvictionDone(r)
    \/ SessionFound(r) \/ Starts(r) \/ Started(r) \/ NotStarted(r) \/ SessionFails(r)
    \/ CallReturns(r) \/ Release(r)

Next ==
    \/ \E r \in Requests : RequestStep(r)
    \/ \E k \in Keys, l \in Listeners : Subscribe(k, l) \/ Unsubscribe(k, l)
    \/ \E c \in Closers, e \in Entries : StopBegins(c, e) \/ StopEnds(c, e)
    \/ \E e \in Entries : Crash(e)
    \/ Expire \/ ReaperReturns
    \/ CloseBegins \/ CloseWaited \/ CloseReturns
    \/ Tick

Spec == Init /\ [][Next]_vars

\* The goroutines are scheduled, time passes, and a killed process exits.  A
\* backend need not answer, neither a call nor the handshake, but a call whose process
\* is gone comes back, once classify has had b.mu.  Nothing obliges clients to send
\* requests or anybody to call Close.
LostCallReturns(r) == CallReturns(r) /\ backend[held[r]] # "running" /\ Free(held[r])
Fairness ==
    /\ \A r \in Requests :
         /\ WF_vars(EvictionDone(r)) /\ WF_vars(SessionFound(r) \/ Starts(r) \/ SessionFails(r))
         /\ WF_vars(Release(r)) /\ WF_vars(LostCallReturns(r))
    /\ \A c \in Closers :
         /\ WF_vars(\E e \in Entries : StopBegins(c, e))
         /\ WF_vars(\E e \in Entries : StopEnds(c, e))
    /\ WF_vars(Expire) /\ WF_vars(ReaperReturns)
    /\ WF_vars(CloseWaited) /\ WF_vars(CloseReturns)
    /\ WF_vars(Tick)

FairSpec == Spec /\ Fairness

-----------------------------------------------------------------------------
(* Safety.                                                                 *)

\* The counters the pool decides by are what they stand for: inflight is the
\* number of requests that hold the entry, perSubject the number of the
\* subject's entries, and what was created and not evicted or expired is live.
Accounting ==
    /\ \A e \in Entries : inflight[e] = Cardinality(Holders(e))
    /\ \A s \in Subjects : perSubject[s] = Cardinality(KeysOf(s))
    /\ ~closed => stats.created = Cardinality(UsedKeys) + stats.evicted + stats.idleExpired

\* The limits of config.Limits hold of the pool's entries, whatever mixture of
\* insertion, eviction and expiry led there, and of the processes too, but for those
\* that some goroutine has detached and is stopping.
Kept == {e \in Alive : \A c \in Closers : e \notin todo[c]}
WithinLimits ==
    /\ Cardinality(UsedKeys) <= MaxProcesses
    /\ \A s \in Subjects : Cardinality(KeysOf(s)) <= MaxPerSubject
    /\ Cardinality(Kept) <= MaxProcesses

\* Per-subject isolation: the entry a request holds was made for the request's
\* own subject and configuration.
Isolation == \A r \in Requests : held[r] # NoEntry => keyOf[held[r]] = want[r]

\* A backend serving a request is never evicted or expired: until the pool is
\* closed, the entry a request holds is its key's entry, nobody is about to
\* stop it, and its backend is not closed under the call.
BusyKept ==
    \A r \in Requests : held[r] # NoEntry /\ ~closed =>
        /\ entries[want[r]] = held[r]
        /\ \A c \in Closers : held[r] \notin todo[c]
        /\ backend[held[r]] \in {"none", "running"}

\* No backend is lost track of: an entry that may still have or start a process
\* is in the table or is some goroutine's to stop, and never two goroutines'.
OneOwner ==
    \A e \in 1..stats.created : backend[e] # "stopped" =>
        \/ e \in Pooled /\ \A c \in Closers : e \notin todo[c]
        \/ /\ e \notin Pooled
           /\ \E c \in Closers : e \in todo[c] /\ \A d \in Closers \ {c} : e \notin todo[d]

\* A subscription is to the server: whatever happened to the backends of a key
\* before, its present backend is subscribed to for the key's listeners.
SubscriptionsFollow ==
    \A k \in Keys : entries[k] # NoEntry => releases[entries[k]] = listeners[k]

\* When Close has returned, the only processes left are the victims of
\* evictions that requests were in the middle of.
OnlyEvictedSurviveClose ==
    closing = "closed" => Alive \subseteq UNION {todo[r] : r \in Requests}

\* After Close has returned no process is started, not even for a request that
\* had acquired its entry before.
NoStartAfterClose == [][closing = "closed" => Alive' \subseteq Alive]_vars

SubjectOf(k) == k.subject

\* The pool implements its promise: see module Slots.
Promise == INSTANCE Slots WITH
    SubjectOf <- SubjectOf,
    slots <- UsedKeys,
    users <- [k \in Keys |-> {r \in Requests : want[r] = k}],
    shut <- closed
PromiseKept == Promise!Spec

\* The pool sees each backend as module Backend shows it to be: what it assumes
\* its requests, the reaper, Close and crashes do to one is what Lifecycle allows.
Life(e) == INSTANCE Lifecycle WITH state <- backend[e]
LifeStep == \A e \in Entries : [Life(e)!Next]_(backend[e])
BackendsLive == [][LifeStep]_vars

-----------------------------------------------------------------------------
(* Liveness, under Fairness.                                               *)

\* The deadline nothing in the code sets: what pool.Close waits for includes b.mu of a
\* request whose handshake may last as long as its client's patience (hazard at
\* backend.go:149).
HandshakesEnd == \A r \in Requests : []<>(pc[r] # "starting")

AcquireCompletes == \A r \in Requests : pc[r] = "evicting" ~> pc[r] = "serving"
CloseCompletes ==
    closed ~> (closing = "closed" /\ \A r \in Requests : pc[r] = "idle")

\* Nobody waits for ever for a backend to stop: a request that evicted one gets on,
\* whatever the handshakes of others do; and Close returns, with the requests it found
\* back at their callers, unless one of these is in a handshake that does not end.
NobodyWaits == AcquireCompletes /\ (HandshakesEnd => CloseCompletes)

IdleExpires ==
    \A e \in Entries :
        (e \in Pooled /\ inflight[e] = 0) ~> (e \notin Pooled \/ inflight[e] > 0)
LetGoIsStopped ==
    \A e \in Entries : (e \in Alive \ (Pooled \cup todo[Closer])) ~> (e \notin Alive)
TakenIsStopped == \A e \in Entries : (e \in Alive \cap todo[Closer]) ~> (e \notin Alive)

\* A process that nobody uses goes: an idle entry is used again or expires, and what
\* eviction or the reaper has let go of is stopped, with no regard to anybody's
\* handshake; what Close has taken is stopped if the handshakes end.
UnusedGoes == IdleExpires /\ LetGoIsStopped /\ (HandshakesEnd => TakenIsStopped)
=============================================================================
