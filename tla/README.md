# Verification of mcp-reverse-proxy

mcp-reverse-proxy is a gateway: it serves one HTTP endpoint that speaks MCP and
multiplexes it over MCP servers that speak over stdin and stdout. Each
authenticated subject has its own child process per configured server. This
directory holds TLA+ models of the parts of the gateway where order, failure and
limits matter, the TLC runs that check them, and TLAPS proofs about them.

Paths below are relative to the repository (`internal/...`, `cmd/...`).

## 1. Inventory

### The parts and how they interact

A request comes in over HTTP and goes through these parts in order:

    auth.Require -> frontend.Resolve (policy, config) -> frontend (SDK server)
        -> frontend.Tenant -> aggregate.Gateway -> pool.Handle -> pool.Pool -> pool.Backend
            -> backend.SDKConnector / interposedConn -> pool.Process -> child

Changes go the other way: the reading goroutine of a connection calls `report`,
then `Backend.publish`, then `aggregate.Listener.deliver`, which wakes
`frontend.fanIn` of every open listen stream of that subject.

| part | source | state it keeps | operations |
|---|---|---|---|
| backend pool | `internal/pool/pool.go` | entries by key, LRU order, per-subject counters, listeners, statistics, closed | acquire (hit, insert, evict, refuse), release, Subscribe, reap/expire, Close |
| backend session | `internal/pool/backend.go` | `proc`, `conn`, `closed` under `mu`; listeners under `listenMu` | session, twelve calls, classify, discardLocked, Close, Subscribe, publish |
| process stop | `internal/pool/stop.go`, `process*.go` | the process group, `done`, two goroutines | Spawn, reap, drainStderr, signal, Stop |
| era policy | `internal/backend/interpose.go`, `sdk.go` | probe (id, generation, probing, expired), detected era, mismatch, three channels | Connect, Write, Read, readLoop, watchProbe, Close |
| result normalisation | `internal/backend/normalize.go`, `sdk.go` | none | error codes, lifetimes, result translation |
| aggregation | `internal/aggregate/gateway.go`, `surface.go` | per-request gateway | list (concurrent, one per server), CallTool, GetPrompt, ReadResource |
| names and URIs | `internal/aggregate/name.go`, `uri.go` | none | Qualify, Route, WrapURI, UnwrapURI, WrapURITemplate |
| change streams | `internal/aggregate/listen.go`, `internal/frontend/listen.go` | pending changes per listener, wake-up channel | Listen, deliver, Next, Close, fanIn, pump, announce |
| front end | `internal/frontend/*.go` | none between requests | gate, Resolve, Tenant, serve, dispatchError, shape |
| header policy | `internal/policy/policy.go`, `internal/config/header.go` | mode, allowlist, denylist | New, Scopes, CheckHeader, Resolve, CheckResolved, ParseHeader |
| configuration | `internal/config/*.go` | the loaded file | Load, applyDefaults, validate, Fingerprint |
| authentication | `internal/auth/*.go` | JWKS cache (library) | Require, Verify |
| command | `cmd/mcp-reverse-proxy/*.go` | process life | main, run, build, serve |
| test fixtures | `internal/testfixtures/*.go` | | test support only |

### What is hard, and what correctness means

- **Pool.** One lock guards the tables, but stopping a process takes seconds and
  is done outside it. So a victim of eviction lives on after its slot was given
  away; the reaper and Close and requests all stop backends concurrently; a
  request may hold an entry that Close has taken. Correct: limits hold, the
  counters mean what they say, a subject only ever reaches its own backends,
  busy backends are never evicted, every entry has exactly one owner that will
  stop it, subscriptions survive their backend, and the pool closes.
- **Backend.** `b.mu` is held across stop, spawn and handshake, calls run
  outside it, exits are noticed late and in pieces (exit, lost connection,
  reaping), and classify acts on knowledge that may be out of date. Correct: one
  process at a time, none lost, a retry never meets the process it lost, a
  healthy replacement is never hurt for its predecessor's death, nothing starts
  after Close, and nobody waits for ever.
- **Process stop.** Timers, the context, the reaping goroutine and the process
  tree race. Correct: Stop returns, when it returns the process is collected and
  no goroutine is left, and nothing of a killed tree survives.
- **Era policy.** Four goroutines and a timer meet on one connection; a late
  answer races its own deadline, and a second probe races the first one's timer.
  Correct: a probe is decided once and by its own deadline, a pin is never
  violated, the reported era is the one in use, silence is bounded, Close ends.
- **Aggregation and change streams.** A listing waits for all servers and
  degrades; changes are coalesced between deliver and Next. Correct: no server's
  failure fails the listing, no change is lost while a stream is open.
- **Header policy.** Sequential, but in stages whose verdicts are about different
  things: the patches first, what applying them made of the servers afterwards.
  Correct: no request is served with servers that its token and the deployment do
  not both permit, and one step-up is enough.
- **Gate, names, URIs and errors.** A client that speaks another revision has to
  be led to the one spoken here; a name or a URI is encoded for the client, decoded
  by a library, and expanded by the client in between; an error passes through
  four translations, some of which replace it, while the process it is about may
  exit. Correct: a refusal says what is wrong and leads on, what a client knows an
  entry by leads back to it, and what it is told is what happened.
- **Command.** On a signal the listener goes first, then the requests, then the
  pool, while requests start, evict and wait, the reaper stops what was idle, and
  a grace period runs. Correct: no request loses its backend to the shutdown unless
  the grace period is over, nothing survives the program, and the program ends.

PROJECT.json lists each hazard at its line, with the properties that cover it or
the reason why none does.

## 2. Modules

| module | models | relation to the others |
|---|---|---|
| `Slots` | what the pool promises its callers: a bounded set of slots that requests occupy | abstract; `Pool` implements it (`PromiseKept`) |
| `Pool` | `pool.go` | sees each backend at the grain of `Lifecycle` (`BackendsLive`) |
| `Lifecycle` | what one backend promises whoever owns it | abstract; `Backend` implements it (`LifeKept`) |
| `Backend` | `backend.go` | relies on what `ProcessStop` and `EraProbe` show |
| `ProcessStop` | `stop.go`, `process.go`, `process_unix.go` | `NothingRuns` is `Backend`'s `Gone`; `StopEnds` is its fairness for stopped processes |
| `EraProbe` | `interpose.go`, `Connect` of `sdk.go` | `ProbeBounded` is why `Connected` or `ConnectFails` comes for a backend that is merely silent on the probe |
| `ChangeStream` | `listen.go` of `aggregate` and of `frontend` | its reading goroutines are those that publish in `Backend` |
| `HeaderPolicy` | `policy.go` and the layering of `config/header.go`, as operators | extended by `Serving` |
| `Surface` | `name.go` and `Assemble` of `surface.go`, as operators | extended by `Dispatch` |
| `Uri` | `uri.go`, with `url.Parse` and a client's expansion of a template, as operators | extended by `Dispatch` |
| `Dispatch` | a request for one entry: `gate.go`, `serve` and `dispatchError` of `frontend/aggregate.go`, `CallTool`, `GetPrompt` and `ReadResource` of `gateway.go`, the errors of `normalize.go` and `classify` | extended by `Serving`, which gives it its deployment |
| `Serving` | a request through `Require`, `Resolve`, `Tenant` and `Gateway.Surface`, next to the one of `Dispatch` | sees a backend as its lock and its session, and the pool as its refusals |
| `Shutdown` | `main`, `run`, `build` and `serve` of `cmd/mcp-reverse-proxy`, and the limits of `config.go` | drives each backend through `Lifecycle`'s steps; the limits it loads satisfy `Pool`'s assumption |
| `PoolProofs`, `BackendProofs`, `ProcessStopProofs`, `EraProbeProofs`, `ChangeStreamProofs`, `ServingProofs`, `ShutdownProofs` | theorems | extend the module they are about |
| `OperatorProofs` | what the operators of `HeaderPolicy`, `Surface` and `Uri` compute, for every input | extended by `ServingProofs` |
| `MCPool`, `MCBackend` | symmetry for TLC | extend the module they check |
| `MCProcessOrphans` | `ProcessStop` with a note of how the backend went, for the run `process_orphans` | extends `ProcessStop` |
| `MCServing`, `MCShutdown` | the settings, and the configuration files, of the runs | extend the module they check |

The composition is by assume and guarantee: `Pool` treats a backend as the four
states of `Lifecycle`, `BackendsLive` says that it drives each one only through
`Lifecycle`'s steps, and `LifeKept` says that the detailed `Backend` takes no
other step either. A product of the two modules would not fit into TLC.

### Pool

An entry is a Go pointer, numbered by `stats.Created` at its creation. Each
`p.mu` critical section is one action: `AcquireHit`, `AcquireRefused`,
`AcquireNew` and `AcquireEvict` are the four outcomes of `tryAcquire` with
`detachLocked` and `insertLocked` inside them; `Release`, `Subscribe`,
`Unsubscribe`, `Expire` (one tick of `reap`) and `CloseBegins` are the others.
What the code does without the lock is a step of its own: `StopBegins` and
`StopEnds` are `closeEntry`, `EvictionDone` lets a request go on once its victim
is gone, `ReaperReturns`, `CloseWaited`, `CloseReturns` are the rest of Close.
Of `session` the pool sees what it does to the process and for how long it keeps
`b.mu`: it finds one (`SessionFound`), has none to offer (`SessionFails`), or spawns one
(`Starts`) and is then in a handshake, `pc` `"starting"`, until it is over (`Started`,
`NotStarted`). Whoever stops a backend waits for its lock first (`Free`), so a request
in its handshake keeps Close waiting for as long as the handshake takes.
`todo[c]` is the local variable in which goroutine `c` keeps what it must stop.
Time is `idleFor`, the age of `lastUsed`, advanced by `Tick` up to `AgeCap`; two
equal ages are equal stamps, and then any of them may be the victim.

### Backend

A process is numbered by its start; its connection has the same number. A
process dies in two steps, `Exit` and `Reap` (`done` closed, what `Exited`
reads); its connection is lost by a third, `Lose`, in any order with them.
`Replace`, `Discarded`, `Spawn`, `Connected`, `ConnectFails`, `Undone` are
`session` cut at the points where it waits while holding `b.mu`. A call has four
outcomes: answered, rejected by the backend, broken without a name
(`CallBreaks`), or lost. `Blame` is classify's unlocked look at the process,
`Forget` its critical section. `Announce`, `Publish`, `Deliver`, `Published` are a
change on the reading goroutine, which reads nothing else meanwhile.

### ProcessStop

The backend leads a process group, may fork helpers into it, and nobody has to
react to anything but SIGKILL. `stage` is the position in `stop`; the two
selects of `waitFor` are `GoneInTime` and `GraceOver`, which may both be enabled.
`signal` looks at `Exited` first (`SignalSpared`, `SignalDue`) and sends
afterwards (`TermSent`, `KillSent`, `SignalFails` when the group is empty).

### EraProbe

The SDK client is external: it probes with `server/discover`, may be asked to
probe again with another version (`MaxProbes`), falls back to `initialize` on any
other error, and ignores answers it is not waiting for. `Write` is cut between
`armProbe`'s critical section, the send on `armed` and the write to the backend.
`Read` polls `injected` and then waits in its select. `watchProbe` is `WatchArm`,
`Expire` and `Inject`. `onProbeAnswer` is `ProbeAnswered` and `PassOn`; its test
of `expired` is part of `PassOn` but never decides anything, because expiry
clears `probing` (see the findings).

### ChangeStream

One listen stream: `fanIn` with its pump, and the listener it reads from. The
reading goroutine of a backend looks at `pending` and marks it under the lock
(`DeliverKnown`, `DeliverNew`), and sends to the channel after it (`Queue`). `Next`
is `Take`, the receive, and `Mark`, the clearing of `pending`; `Announce` is what the
pump tells the client. The SDK is external: it registers the stream some time
after `fanIn` has returned (`Registered`), cancels, and calls the release.
`unheard` is history: the changes on an open stream the client was not told of.

### HeaderPolicy, Surface and Serving

A *setting* is what one behaviour is about: a deployment, a header, what the
client's token says, what it asks for, and what the backends have to offer. The
verdicts are operators named after the functions (`CheckHeader`, `Resolved`,
`CheckResolved`), and `BadHeader`, `Challenge`, `Refuse` and `Admit` are the ways
through the middleware. The client is external: it obtains a token when it is told
to, and the scopes it was challenged for.

A field a patch leaves alone is the empty set, one it sets a singleton, so `args:
[]` and no `args` stay apart. Of an environment the model keeps who set each key,
of arguments whether they are the deployment's, of the era that and whether it is
one there is: no property tells more apart. Each is set by itself, so a later patch
that sets arguments leaves an invalid era as it was. `IsStrictPrefix` is `CutPrefix` with something left.

`SurfaceBegins` starts one goroutine per server. `phase[b]` says whether it waits
for `b.mu`, starts the backend while it holds it, or has asked for `Lists[next[b]]`.
Each list is answered with a lifetime of its own; the listing has room for one, and
`ListAnswered` keeps that of the tools, as `list` does.
The timeout (`TimeoutExpires`) does nothing itself: it makes the failure of a
start or of a question due, and only these. The other request, which calls one of
the same names and contends for the same lock, is that of `Dispatch`. `faults` is
history.

### Uri and Dispatch

A text is a sequence of characters, because the properties are about escaping. The
two hexadecimal digits of an encoded byte are one character, which is unreserved,
so a text that is encoded or decoded once too often is another text. A URI is its
scheme and what follows `://`. A partial operator (`UnwrapURI`, `Routes`) returns
the set of its at most one result.

`ask` is what a client sends: under which revision, in the header and in the body,
and for which entry, which it knows from a listing under `Shown`. `Gate` is the
order of the cases of `gate.go`; the client is external and follows what it is
told (`Repost`). `Routed` and `NotRouted` look at the name alone, as the code does.
`CallReaches`, `CallStarts`, `CallStarted`, `CallStartFails` are `session` as this
request sees it, `CallReturns`, `CallRefused`, `CallBreaks` the ends of a call,
`Classified` all that happens to an error afterwards, in order. An error is the
set of what `errors.Is` and `errors.As` find in it, and the code of a JSON-RPC error
among that: `Normalize` replaces that error, `Classify` and `MarkUnavailable` join
another to it, `Sent` is the SDK.

### Shutdown

`stage` is the position in `run`: loading, built, serving, draining (`server.Shutdown`),
closing (`pool.Close`), exited. A connection brings one request, which calls a
backend (`evicting`, `waiting` for `b.mu`, `starting` with it, `calling`) or holds a
stream. `todo[c]` is, as in `Pool`, what goroutine `c` has detached and must stop, and
`lock[b]` is `b.mu`, held through a handshake and through a stop. The critical section
of `pool.Close` is part of the step that ends the drain (`PoolCloses`). `Defaulted` and
`Valid` are `applyDefaults` and `validate` for the integers of a file.

## 3. Runs

| run | instance | what it shows |
|---|---|---|
| `pool` | 3 subjects, 2 fingerprints, 2 requests, 2 processes, 1 per subject, 3 entries created; symmetric | safety of the pool: `WithinLimits`, `Isolation`, `BusyKept`, `OnlyEvictedSurviveClose`, and that it uses its backends as `Lifecycle` allows (`BackendsLive`) |
| `pool_live` | 2 subjects, 1 process, 1 listener, 2 entries | `SubscriptionsFollow`; the pool implements `Slots` (`PromiseKept`); acquiring completes, and Close if the handshakes it waits for end (`NobodyWaits`); idle entries expire and what was let go is stopped, what Close took under the same condition (`UnusedGoes`) |
| `backend` | 3 requests, Close, 1 listener, 2 processes; symmetric | `OneProcess`, `ClosedForGood`, `RetryGetsAnother`, `HealthySpared`, and that the backend implements `Lifecycle` (`LifeKept`) |
| `backend_live` | 2 requests, 1 process | `RequestReturns` (a session is found or refused, a call whose process is gone returns) and `CloseEnds` |
| `process_stop` | 2 helpers | `NothingRuns`, of which `KillReachesTree` is a part, and `StopEnds` |
| `process_orphans` | 1 helper | violated on purpose: a backend that Stop finds up, and that goes when its input is closed, leaves a helper that is sent nothing |
| `era_probe` | every pin, 2 probes | `TypeOK`, `OneVerdict`, `PinHonoured`, `EraRight`, `ProbeBounded`, `CloseEnds` |
| `era_settled` | 1 probe | violated on purpose: a modern session without an era |
| `change_stream` | 2 backends, 2 kinds | `NeverBlocks`, `NothingLost`, `ChangeTold`, `StreamEnds` |
| `serving` | three families of settings, 3 backends, 2 lists | `TypeOK`, `StepUpHelps`, `WithinPrivileges`, `SurfaceRight`, `EntryFound`, `Negotiates`, `ToldRight`, `ListingSettles` |
| `refusal_code` | as `serving` | violated on purpose: the code of a resource that a backend does not have is lost on the way |
| `shutdown` | 3 requests, 3 backends, 18 files | `InFlightSpared`, `NothingSurvives`, `StartedRight`, `ShutdownEnds` |

Every type invariant is proved, those of `EraProbe` and `Serving` also checked.

### Bounds, and why they are enough

- `MaxStarts` in `Pool` bounds entries per behaviour. Three entries in a pool of
  two make the limit bind, an eviction happen, and an entry be created afterwards
  while another is still being stopped; one more subject than slots makes the
  global limit bind before the subject's own, and the second fingerprint makes the
  subject's own bind first.
- `IdleTTL = AgeCap = 1`: ages are only compared with each other and with the
  TTL; fresh and stale are the two cases. The LRU order among more than two ages
  is only seen to that grain.
- `MaxRejected` counts refusals; it is 0 in the safety run, where a refusal
  changes nothing else, and 1 in the live one.
- Two processes in `Backend` are one and its replacement, which is all that
  classify can confuse; three requests are one that starts it, one whose
  call is stale, and one that waits. The live run has one process: what has to be
  shown is that nobody holding or awaiting `b.mu` is stuck.
- Two helpers in `ProcessStop` are one before the kill and one after it. Two
  probes in `EraProbe` are the first one and one whose predecessor's timer
  still runs.

- In `ChangeStream` two kinds are enough for one to be queued while the other has
  been taken, and two backends for the same change to be announced twice at once.
  Announcements are not bounded.
- In `Serving` one family of settings varies the header: up to two patches, of a
  server the deployment has and of one it has not, so that a patch may follow one
  for the same server, known or just defined. Nothing is listed in these. The second
  family varies the names: two servers, one identifier a prefix of the other up to
  the separator (`a` and `a__b`), with a name that clashes, one that is shadowed, one
  that is too long, and one given twice. In the third only the other request runs:
  every way of naming a revision for a client of this revision, of an older one, and
  of one that knows the handshake only; and names, URIs and templates with the
  characters that encoding and decoding tell apart, with every end of a call. One
  supported revision, as in the code. The four lists of the code are two, one that
  goes by name and whose lifetime is kept, and one that does neither. A backend offers
  a lifetime with each, or none. `MaxName` is 7
  characters and not 128 bytes, so that the limit binds.
- In `Shutdown` there are more backends than slots (one or two), so that a request may
  evict; of three requests one can call, one evict and one hold a stream while the
  program stops. The files give each limit a value that is left out, too small,
  and fitting or in conflict with the other; the limits that nothing is compared
  with share a value, and each default is 2.

### Fairness, and why the code justifies it

- `Pool`: goroutines are scheduled; time passes; a process that is being stopped
  goes away (`ProcessStop!StopEnds`); a call whose process is gone returns
  (`LostCallEnds` of `Backend`). Clients need not call, backends need not answer,
  neither a call nor the handshake, and nobody has to close. Since `Connect` has no
  deadline of its own, `Started` and `NotStarted` are not fair, and the two properties
  that depend on them say so: `HandshakesEnd` is the condition under which Close returns
  (`NobodyWaits`) and what it took is stopped (`UnusedGoes`). Evictions, expiry and the
  stops these ask for need no such condition, because their victims are in use by
  nobody, so that nobody can be in a handshake with one.
- `Backend`: Go's mutex hands itself over to a waiter it has starved, hence strong
  fairness of taking `b.mu`; a stopped process exits and is reaped; a reading
  goroutine gets on with what it has read and finds the end of a dead process's
  output. The handshake is answered while the output is open: a backend that
  keeps it open and never answers is left to the caller's context, which the run
  does not model.
- `ProcessStop`: timers fire, a killed process dies. No context has to end.
- `EraProbe`: goroutines run and timers fire. The backend owes nothing.
- `ChangeStream`: the goroutines of the gateway and of the SDK run. No backend has
  to announce anything and no client to end its stream.
- `Serving`: goroutines run, timeouts expire and are noticed by whoever listens to
  its context, a starved mutex is handed over. No backend answers anything it does
  not want to, and the other request is not fair at all: its context is that of an
  HTTP request, and the only deadlines in the code are those of a listing and of
  the shutdown. So `ListingSettles` excepts a listing that waits for `b.mu` while
  the other request starts that backend.
- `Shutdown`: the goroutines of `serve`, `Close` and `reap` get on, the grace period
  ends, a process that is stopped goes away. No client has to end a stream or take its
  answer, and no backend has to answer, so `ShutdownEnds` is conditional on one thing:
  that no handshake lasts for ever, because `pool.Close` waits for the lock that the
  request in it holds, under a context without a deadline.

No liveness run uses symmetry. `CHECK_DEADLOCK FALSE` in all: a closed pool, a
closed backend, a stopped process and a closed connection are ends, and the
bounds on starts end behaviours too. That nobody hangs is what the liveness
properties say.

## 4. Proofs

All of these hold for every value of the constants, under the named assumption
of the module (none for `ProcessStop`).

**Pool.** The inductive invariant has three layers, proved one on the other.
`Bookkeeping` (`TypeOK`, `HandleInv`, `TableInv`, `InflightExact`): a request
holds an entry exactly while it is in a Handle method, the table maps a key to an
entry of that key, and `inflight` counts the holders; `Isolation` follows.
`Safekeeping` (`BusyInv`, `OwnerInv`, `BackendInv`, `PhaseInv`): a held entry is
pooled until the pool is closed, an entry is in the table or in one `todo`, and
its backend is stopped only by its owner (`BackendsLive` follows from that, with
`StartingInv`: while a request is in its handshake the process it spawned runs or has
exited, and nobody has begun to stop the backend). It is
needed because `BusyKept` alone is not inductive: that nobody stops a held entry
depends on who owns it. `BusyKept` and `OnlyEvictedSurviveClose` follow, and two
facts no run checks by themselves: `OneOwner`, that every entry not yet stopped is
in the table or in exactly one `todo`, and `NoStartAfterClose`. `QuotaInv`: the counters are the cardinalities they stand for
(`Accounting`); `WithinLimits` follows, the cardinality arguments coming from
`FiniteSetTheorems`: no subject and no pool exceeds its limit in entries, nor the
pool in processes that nobody is stopping. `SubscriptionsFollow` is proved too, and
`PromiseKept`: initial states map to initial states of `Slots`, and every step
maps to a step or a stutter.

**Backend.** `IInv` (`TypeOK`, `Locking`, `Born`, `Working`, `Owned`): the lock is
held exactly by who is between two waits of `session` or Close, numbers above
`started` are unborn, and a process that is not reaped belongs to somebody.
`OneProcess` and `ClosedForGood` follow: a request may only spawn when there is
nothing left to own. `History` adds what calls remember (`Paired`, `Faults`,
`Dropped`, `Connecting`, `Blamed`): a blamed process is never the present
connection, and a process without connection is unfit. `RetryGetsAnother` and
`HealthySpared` follow. `LifeKept` is the refinement of
`Lifecycle`.

**ProcessStop.** `Seen`: `done` comes after the wait, success after `done`, and
the return after both goroutines. With it `TypeOK`, `NothingRuns` and
`KillReachesTree` are inductive, and `NothingRuns` contains the latter.

**ChangeStream.** `NeverBlocks` says that the channel, whose capacity is the number
of kinds, has room for whoever has marked a kind. Its invariant counts: the kinds
in the channel, in the hands of reading goroutines and just taken are all
different, and all but the last are pending. `NothingLost` adds where a change
may be between a backend and the client.

**EraProbe.** `IInv` (`TypeOK`, `Asking`, `Open`, `Substitutes`, `Written`, `Verdicts`,
`Found`), for any number of probes. The facts that carry it are that a probe which is open is
the client's own and unanswered (`Open`), and that an answer in the backend's place,
queued or still owed, is an error for a probe that is no longer open
(`Substitutes`). None of the three properties is inductive without them: that the timer of
an earlier probe cannot decide a later one (`OneVerdict`) is a fact about
`probeGen`, which no property mentions.

**Operators.** The folds and `FlattenSeq` are defined by recursion inside the
community modules, and the provers cannot instantiate the induction theorems of
the library. Induction is therefore derived (`Least`, `Induction`, `TextInduction`)
with a set in place of the property: finite subsets of a set are well-founded
under inclusion, which the library has without such a parameter. With it, for
every input: resolving a header keeps the deployment's servers in place, changes of each
what some patch names and adds what needs `define-new` (`ResolvedIsLayered`); a
qualified name is routed back to its backend and cut back to its own name, unless a
longer identifier owns it too (`RouteInverts`; two identifiers of one length that own
the same name are the same one, which is why the order among equals in `NewRouter`
does not matter); decoding undoes encoding (`EscapeInverts`); unwrapping undoes
wrapping, through everything `url.Parse` does to the URI (`UnwrapInverts`); and a client
that expands a wrapped template has what wrapping the expanded one gives
(`ExpandCommutes`). The last compares the two texts place by place: the wrapped
template has the expressions of the template and no other (`WrapsKeep`, `InsideKept`,
`InsideCame`), although which braces belong to an expression depends on the whole text.

**Serving.** The safety properties of the run `serving` hold of any deployments, headers, tokens,
backends, answers and revisions; `ListingSettles` is checked. Each of these invariants is
inductive together with those named before it.
`Met`: after the first challenge the scopes include all that the header demands,
since the setting does not change between the client's two attempts; hence
`StepUpHelps`.
`Known`: at each place of the call, what the error carries is what has happened to
the call so far, whichever translations it has passed; hence `ToldRight`. An exit
between the failure and `classify`'s look at the process is the case that makes it
more than a case distinction.
`Attempts`: what a request that was refused so often can look like; hence
`Negotiates`, for any list of supported revisions.
`RoutedRight`: a call that was led somewhere was led by its own name, over the
servers of the request, and an answer that denies the entry was given where nothing
led on. With `ExpandCommutes`, `UnwrapInverts` and `RouteInverts`: `EntryFound`.
`Admitted`: the servers of an admitted request are what `Resolved` made of the
header, and the verdicts were right of them; with `ResolvedIsLayered`:
`WithinPrivileges`. The point is that the patches are judged before they are applied, and what
they add up to afterwards.
`Gathered`: goroutines of a listing only run while the request waits for them, and those
that failed are over; the lifetime a listing has is the one offered with its tools, and
one that has tools has a lifetime (`LifetimeKept`, `ToolsListed`); hence `SurfaceRight`,
with the minimum of the lifetimes, and for no other list than the tools: of the others
it does not hold (section 5). `TypeOK` needs
all of them: that an admitted server has a command is a fact about the verdicts.

**Shutdown.** `IInv` (`TypeOK`, `Stages`, `Loaded`, `Blank`, `Owned`, `Pooled`, `Victims`,
`Held`, `Starting`, `Settled`, `Done`): the stages follow the order of `serve`, a backend
that lives is pooled or in somebody's `todo`, nobody is about to stop what is pooled,
a handshake keeps the lock, and what a request holds is pooled while the pool
is open. `InFlightSpared` follows, since only an idle backend leaves the pool before it
is closed, and a drain that succeeds leaves no request; `NothingSurvives`, since what
is detached at the end is all that is pooled; `StartedRight` and `BackendsLive`.
`LoadedLimitsKeepable` is about the operators alone: the limits of a valid file are
such as `Pool` assumes them.

**Only model-checked.** Liveness under fairness is out of the proof system's reach, and
so is ENABLED: `NobodyWaits`, `UnusedGoes`, `RequestReturns`, `StopEnds`, `ProbeBounded`,
both `CloseEnds`, `ChangeTold`, `StreamEnds`, `ListingSettles` and `ShutdownEnds`. Every
invariant and every action property of the passing runs is proved.

Trying to prove something has corrected the models in two places. `Reversible` asked
for an entry that is not empty, where what has to be non-empty is what it expands
to: an expansion to nothing is no URI. And `UNION S \cap T`, without parentheses,
is read in two ways by the two tools; it is written with them.

## 5. Findings

1. `process_orphans`: a backend that exits when Stop closes its input leaves its
   descendants unsignalled. (One that exited by itself before does too, but there
   `signal` has nobody to ask; the property is about the polite stop.)
2. `era_settled`: an answer that comes after its probe's deadline is passed on to
   the client, which makes a modern session with an unknown era, or an orphan.
3. `refusal_code`: the code -32602 that a missing resource is given does not reach
   the client, because the error that carries it is not one the SDK looks into.

PROJECT.json quotes the lines each one contradicts.

Seen while modelling, without a run:

- `maxProcesses` limits entries. A victim's process is stopped outside the lock, after
  its slot was given away, so two processes may live with `maxProcesses: 1`
  (`config.go:58`, `docs/deployment.md:114`). `WithinLimits` counts those nobody is
  stopping.
- Close of the pool does not wait for a request that is still stopping its victim;
  `OnlyEvictedSurviveClose` and `NothingSurvives` say exactly which processes survive.
- A listing waits past its timeout for `b.mu` while another request starts that
  backend (`gateway.go:84`); `ListingSettles` excepts this.
- A shutdown outlasts its grace period when a request holds `b.mu` in a handshake
  (`flags.go:86`, `docs/deployment.md:28`), and an open listen stream makes every
  shutdown use all of it and exit with an error. A second signal changes nothing.
- The expansions `{?v}` and `{#v}` of a template, and values that need encoding, do not
  unwrap to what the backend's own template gives (`uri.go:53`); an identifier that
  contains `/` wraps to what unwraps to another (`uri.go:20`). `Reversible` excepts them.
- A name that falls under a longer identifier is listed when it clashes with nothing,
  and routed to the other backend; when `a__b` has been removed from the deployment,
  its names may be routed to `a`.
- `classify` joins `ErrRetryable` to a refusal when the process has exited by the time it
  looks. A broken pipe is not called retryable when the exit is not seen in time.
- Each of a backend's four lists arrives with a lifetime of its own (`sdk.go:150`, `209`,
  `255`, `280`), but only that of the tools is kept (`gateway.go:113`), and the prompts,
  resources and templates are dated by it as well (`frontend/aggregate.go:105`, `144`,
  `164`); a backend without tools counts as one that offered nothing, and if none has
  tools the default of a minute is used. `surface.go:83-84` says "the assembled listing
  is only as fresh as its most impatient contributor", and `surface.go:28` "the lifetime
  this backend offered". In the settings of `serving` a backend offers 200 ms with its
  resources, and 1000 ms is the least that any offers with its tools: TLC finds a client
  told to keep the resources for 1000 ms when it is asked whether an entry is ever kept
  for longer than was offered with its list. `SurfaceRight` therefore bounds the surface
  by what was offered with tools, which is what the code does, and claims no more.
- The lifetime of a degraded listing may be longer than what a backend in it offered.
- An idle TTL below two nanoseconds means that no reaper runs.

## 6. Plan

Done: `Slots`, `Pool`, `Lifecycle`, `Backend`, `ProcessStop`, `EraProbe`,
`ChangeStream`, `HeaderPolicy`, `Surface`, `Uri`, `Dispatch`, `Serving`, `Shutdown`, and the
proofs of every safety property the passing runs check.

What would add most next, in this order:

1. A deadline of the caller in `Backend`: the context of a call and of a handshake.
2. Abstract specifications: a stream as the set of changes its client has yet to
   hear of, which `ChangeStream` implements; a probe as one decision, for `EraProbe`.
3. Proofs: the refinements of 2; `ResolvedIsLayered` with what each patch does to a
   server in place of what may change of it; that `Shutdown`'s pool implements `Slots`.

## 7. What is not modelled, and why

- Wire formats, JSON, HTTP, OAuth token verification: library code, and pure
  translation on the gateway's side. What the SDK answers to anything but a POST of
  one request is its own.
- The field-by-field conversions of `sdk.go` and `shape.go`, and the constants they set:
  no state, and no property is about them.
- Reading a file, secrets and their redaction, the fingerprint's encoding, the parsing
  of flags and keys: pure conversion. Their failure is `StartFails`, and that equal
  servers have equal fingerprints is how `Pool` uses them.
- `process_other.go`: the build for systems without process groups.
- The order of entries in a surface, and their contents. The order is a sort.
- Subjects in `Shutdown`, which `Pool` has; the errors that `pool.Close` returns, which
  only the log and the exit code show; the race in net/http between the closing of
  an idle connection and a request that arrives on it.
- Pipe capacities and what the SDK does inside `conn.Close`: the first are listed as
  hazards with the reason. Reuse of process group numbers between the look at a
  process and its signal.
- Test fixtures: no part of the gateway.
