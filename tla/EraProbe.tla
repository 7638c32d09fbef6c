------------------------------ MODULE EraProbe ------------------------------
(***************************************************************************)
(* Finding out a backend's era: the connection that                        *)
(* internal/backend/interpose.go puts between the SDK client and the       *)
(* backend's pipes.  The client probes with server/discover and falls back *)
(* to initialize on an error; the connection bounds the probe by a         *)
(* deadline, skips it for a pinned legacy backend, and forbids the         *)
(* fallback for a pinned modern one.                                       *)
(*                                                                         *)
(* Four goroutines meet here: the caller of Connect, which writes; the     *)
(* SDK's reader, which calls Read; readLoop, which feeds it; and           *)
(* watchProbe, which answers for a silent backend.  The SDK client is      *)
(* external: its actions are what the code and its tests rely on.          *)
(*                                                                         *)
(* A request is named by its number: probes count from 1, and initialize   *)
(* comes after them.  Writing to the backend never blocks here.            *)
(***************************************************************************)
EXTENDS Naturals, Sequences, FiniteSets

CONSTANT MaxProbes    \* bound: probes version negotiation sends

ASSUME EraAssumption == MaxProbes \in Nat \ {0}

Probes == 1..MaxProbes
Handshake == MaxProbes + 1
Requests == 1..Handshake
None == 0

\* What answers a request: a result, an error that asks for another version
\* (-32022), or another error.  A masked request is the backend's own.
Answers == [id : Requests, what : {"result", "version", "error"}]
Masked == [id |-> None, what |-> "masked"]
Silent(n) == [id |-> n, what |-> "error"]    \* probeUnsupported

VARIABLES
    era,         \* opts.era, the configured pin: "auto", "modern" or "legacy"
    client,      \* the SDK client: what it is up to, or the era it speaks
    writing,     \* its Write: "none", "arming" the deadline, "sending"
    asked,       \* the request it waits for an answer to
    got,         \* the answer it got
    returned,    \* what Connect returned: "none", "session", "mismatch", "error"
    sent,        \* requests written to the backend
    answered,    \* those the backend has answered
    inbound,     \* what the backend wrote and Read has not taken
    injected,    \* what watchProbe or Write put in its place (capacity 1)
    reading,     \* Read: "polling" injected, "waiting" in its select, "over"
    loop,        \* readLoop: "reading" or "over"
    probing, probeGen, expired, detected, mismatch,   \* under c.mu
    armed,       \* the channel of deadlines (capacity 1), or None
    expiry,      \* the probe whose timer runs in watchProbe, or None
    watch,       \* watchProbe: "select", "injecting" its answer, "over"
    owed,        \* the probe it is answering for, or None
    closing,     \* conn.Close: "open", "closing", "closed"
    ruled,       \* history: how each probe was decided, "answered" or "expired"
    fired        \* history: the probes whose own deadline has passed

sdk == <<client, writing, asked, got, returned>>
wire == <<sent, answered, inbound>>
policy == <<probing, probeGen, expired, detected, mismatch>>
deadline == <<armed, expiry, watch, owed>>
history == <<ruled, fired>>
vars == <<era, sdk, wire, injected, reading, loop, policy, deadline, closing, history>>

SdkTypeOK ==
    /\ client \in {"start", "probing", "retry", "refused", "handshake", "modern",
                   "legacy", "failed"}
    /\ writing \in {"none", "arming", "sending"}
    /\ asked \in Requests \cup {None}
    /\ got \in {"none", "result", "version", "error"}
    /\ returned \in {"none", "session", "mismatch", "error"}
WireTypeOK ==
    /\ sent \in SUBSET Requests /\ answered \in SUBSET sent
    /\ inbound \in Seq(Answers \cup {Masked})
    /\ injected \in Seq(Answers) /\ Len(injected) <= 1
PolicyTypeOK ==
    /\ probing \in BOOLEAN /\ expired \in BOOLEAN /\ mismatch \in BOOLEAN
    /\ probeGen \in 0..MaxProbes
    /\ detected \in {"none", "modern", "legacy"}
DeadlineTypeOK ==
    /\ armed \in Probes \cup {None} /\ expiry \in Probes \cup {None}
    /\ watch \in {"select", "injecting", "over"} /\ owed \in Probes \cup {None}
HistoryTypeOK ==
    /\ ruled \in [Probes -> SUBSET {"answered", "expired"}]
    /\ fired \in SUBSET Probes
ConnTypeOK ==
    /\ era \in {"auto", "modern", "legacy"}
    /\ reading \in {"polling", "waiting", "over"} /\ loop \in {"reading", "over"}
    /\ closing \in {"open", "closing", "closed"}
TypeOK ==
    ConnTypeOK /\ SdkTypeOK /\ WireTypeOK /\ PolicyTypeOK /\ DeadlineTypeOK /\ HistoryTypeOK

Init ==
    /\ era \in {"auto", "modern", "legacy"}
    /\ client = "start" /\ writing = "none" /\ asked = None /\ got = "none"
    /\ returned = "none"
    /\ sent = {} /\ answered = {} /\ inbound = <<>> /\ injected = <<>>
    /\ reading = "polling" /\ loop = "reading"
    /\ probing = FALSE /\ probeGen = 0 /\ expired = FALSE
    /\ detected = "none" /\ mismatch = FALSE
    /\ armed = None /\ expiry = None /\ watch = "select" /\ owed = None
    /\ closing = "open"
    /\ ruled = [n \in Probes |-> {}] /\ fired = {}

-----------------------------------------------------------------------------
(* Write, by the caller of Connect.                                        *)

\* Faulty variants: the fallback not forbidden, the era of a fallback not
\* recorded, any deadline expiring the present probe, a deadline compared with the
\* wrong generation, an answer put where there is no room, and a watcher that does
\* not look at the connection closing.
AlwaysFallBack == TRUE
EraKept == UNCHANGED detected
AnyDeadline(n) == probing
LaterDeadline(n) == probing /\ n > probeGen
NoLimit == TRUE
OnlyWhenIdle == closing # "open" /\ watch = "select"

Ask(n) == asked' = n /\ got' = "none"
NextProbe == IF client = "start" THEN 1 ELSE asked + 1

\* server/discover under era: legacy is answered here.
SkipProbe ==
    /\ client \in {"start", "retry"} /\ era = "legacy" /\ injected = <<>>
    /\ detected' = "legacy"
    /\ injected' = <<Silent(NextProbe)>>
    /\ client' = "probing" /\ Ask(NextProbe)
    /\ UNCHANGED <<era, writing, returned, wire, reading, loop, probing, probeGen, expired,
                   mismatch, deadline, closing, history>>

\* armProbe under c.mu, then the deadline handed to watchProbe, then the probe.
ArmProbe ==
    /\ client \in {"start", "retry"} /\ era # "legacy"
    /\ probing' = TRUE /\ expired' = FALSE /\ probeGen' = NextProbe
    /\ client' = "probing" /\ Ask(NextProbe)
    /\ writing' = "arming"
    /\ UNCHANGED <<era, returned, wire, injected, reading, loop, detected, mismatch,
                   deadline, closing, history>>
ArmDeadline ==
    /\ writing = "arming" /\ armed = None
    /\ armed' = probeGen
    /\ writing' = "sending"
    /\ UNCHANGED <<era, client, asked, got, returned, wire, injected, reading, loop, policy,
                   expiry, watch, owed, closing, history>>
Send ==
    /\ writing = "sending"
    /\ sent' = sent \cup {asked}
    /\ writing' = "none"
    /\ UNCHANGED <<era, client, asked, got, returned, answered, inbound, injected, reading,
                   loop, policy, deadline, closing, history>>

\* refuseFallback.
MayFallBack == era # "modern"
DetectLegacy == detected' = "legacy"

WriteHandshake ==
    /\ client = "refused" /\ MayFallBack
    /\ DetectLegacy
    /\ client' = "handshake" /\ Ask(Handshake)
    /\ writing' = "sending"
    /\ UNCHANGED <<era, returned, wire, injected, reading, loop, probing, probeGen, expired,
                   mismatch, deadline, closing, history>>
RefuseFallback ==
    /\ client = "refused" /\ ~MayFallBack
    /\ mismatch' = TRUE
    /\ client' = "failed"
    /\ UNCHANGED <<era, writing, asked, got, returned, wire, injected, reading, loop,
                   probing, probeGen, expired, detected, deadline, closing, history>>

-----------------------------------------------------------------------------
(* Read, by the SDK's reading goroutine.                                   *)

\* The client takes the answer it waits for; anything else is an orphan.
Deliver(m) ==
    got' = IF m.id = asked /\ got = "none" /\ client \in {"probing", "handshake"}
           THEN m.what ELSE got

\* Read looks at injected before it waits for either channel; once it waits it
\* may take from any that is ready.
Poll ==
    /\ reading = "polling" /\ injected = <<>>
    /\ reading' = "waiting"
    /\ UNCHANGED <<era, sdk, wire, injected, loop, policy, deadline, closing, history>>
TakeInjected ==
    /\ reading \in {"polling", "waiting"} /\ injected # <<>>
    /\ Deliver(Head(injected))
    /\ injected' = <<>>
    /\ reading' = "polling"
    /\ UNCHANGED <<era, client, writing, asked, returned, wire, loop, policy, deadline,
                   closing, history>>

Taken(m) ==
    /\ reading = "waiting" /\ loop = "reading" /\ inbound # <<>> /\ m = Head(inbound)
    /\ inbound' = Tail(inbound)
    /\ reading' = "polling"
    /\ UNCHANGED <<era, client, writing, asked, returned, sent, answered, injected, loop,
                   probeGen, expired, deadline, closing, fired>>

\* refuse: the backend gets an error, the client hears nothing.
Refuse(m) ==
    /\ Taken(m) /\ m = Masked
    /\ UNCHANGED <<got, probing, detected, mismatch, ruled>>

\* onProbeAnswer for an answer that is not the open probe's: passed on, unless
\* it is for a probe both open and expired.
AnswersProbe(m) == probing /\ m.id = probeGen
PassOn(m) ==
    /\ Taken(m) /\ m # Masked /\ (AnswersProbe(m) => expired)
    /\ IF AnswersProbe(m) THEN UNCHANGED got ELSE Deliver(m)
    /\ UNCHANGED <<probing, detected, mismatch, ruled>>

ProbeOver == probing' = FALSE
\* onProbeAnswer in time.
ProbeAnswered(m) ==
    /\ Taken(m) /\ m # Masked /\ AnswersProbe(m) /\ ~expired
    /\ ProbeOver
    /\ detected' = IF m.what = "result" THEN "modern" ELSE detected
    /\ mismatch' = (mismatch \/ (m.what # "result" /\ era = "modern"))
    /\ ruled' = [ruled EXCEPT ![m.id] = @ \cup {"answered"}]
    /\ Deliver(m)

\* The backend's output has ended, or the connection is being closed, or a
\* refusal could not be written.
ReadEnds ==
    /\ reading # "over"
    /\ \/ loop = "over" /\ reading = "waiting"
       \/ reading = "waiting" /\ inbound # <<>> /\ Head(inbound) = Masked
    /\ reading' = "over"
    /\ UNCHANGED <<era, sdk, wire, injected, loop, policy, deadline, closing, history>>

-----------------------------------------------------------------------------
(* watchProbe.                                                             *)

WatchArm ==
    /\ watch = "select" /\ armed # None
    /\ expiry' = armed /\ armed' = None
    /\ UNCHANGED <<era, sdk, wire, injected, reading, loop, policy, watch, owed, closing,
                   history>>

\* onProbeExpired: the deadline is this probe's, and the backend has not answered.
Overdue(n) == probing /\ probeGen = n

Expire ==
    /\ watch = "select" /\ expiry # None
    /\ fired' = fired \cup {expiry}
    /\ expiry' = None
    /\ IF Overdue(expiry)
       THEN /\ probing' = FALSE /\ expired' = TRUE
            /\ mismatch' = (mismatch \/ era = "modern")
            /\ watch' = "injecting" /\ owed' = probeGen
            /\ ruled' = [ruled EXCEPT ![probeGen] = @ \cup {"expired"}]
       ELSE UNCHANGED <<probing, expired, mismatch, watch, owed, ruled>>
    /\ UNCHANGED <<era, sdk, wire, injected, reading, loop, probeGen, detected, armed, closing>>

Room == injected = <<>>
Inject ==
    /\ watch = "injecting" /\ Room
    /\ injected' = Append(injected, Silent(owed))
    /\ watch' = "select" /\ owed' = None
    /\ UNCHANGED <<era, sdk, wire, reading, loop, policy, armed, expiry, closing, history>>

-----------------------------------------------------------------------------
(* The SDK client, Connect and Close.                                      *)

\* Write has returned and the answer is there.
GoOn ==
    /\ writing = "none" /\ got # "none"
    /\ \/ client = "probing" /\ got = "result" /\ client' = "modern"
       \/ client = "probing" /\ got = "version" /\ asked < MaxProbes /\ client' = "retry"
       \/ client = "probing" /\ got # "result" /\ client' = "refused"
       \/ client = "handshake" /\ got = "result" /\ client' = "legacy"
       \/ client = "handshake" /\ got # "result" /\ client' = "failed"
    /\ got' = "none"
    /\ UNCHANGED <<era, writing, asked, returned, wire, injected, reading, loop, policy,
                   deadline, closing, history>>

Connected ==
    /\ returned = "none" /\ client \in {"modern", "legacy"} /\ closing = "open"
    /\ returned' = "session"
    /\ UNCHANGED <<era, client, writing, asked, got, wire, injected, reading, loop, policy,
                   deadline, closing, history>>

\* The client gives up, for a reason of its own or because the context is over.
ConnectFails ==
    /\ returned = "none" /\ writing # "arming"
    /\ returned' = IF mismatch THEN "mismatch" ELSE "error"
    /\ client' = "failed" /\ writing' = "none"
    /\ closing' = "closing"
    /\ UNCHANGED <<era, asked, got, wire, injected, reading, loop, policy, deadline, history>>

CloseCalled ==
    /\ returned = "session" /\ closing = "open"
    /\ closing' = "closing"
    /\ UNCHANGED <<era, sdk, wire, injected, reading, loop, policy, deadline, history>>

\* inner.Close and stopReader end both goroutines, wherever they are.
WatchMayEnd == closing # "open"
LoopEnds ==
    /\ loop = "reading" /\ (closing # "open" \/ inbound = <<>>)
    /\ loop' = "over"
    /\ UNCHANGED <<era, sdk, wire, injected, reading, policy, deadline, closing, history>>
WatchEnds ==
    /\ watch # "over" /\ WatchMayEnd
    /\ watch' = "over"
    /\ UNCHANGED <<era, sdk, wire, injected, reading, loop, policy, armed, expiry, owed,
                   closing, history>>
CloseReturns ==
    /\ closing = "closing" /\ loop = "over" /\ watch = "over"
    /\ closing' = "closed"
    /\ UNCHANGED <<era, sdk, wire, injected, reading, loop, policy, deadline, history>>

-----------------------------------------------------------------------------
(* The backend.                                                            *)

BackendAnswers(n, what) ==
    /\ n \in sent \ answered /\ loop = "reading"
    /\ inbound' = Append(inbound, [id |-> n, what |-> what])
    /\ answered' = answered \cup {n}
    /\ UNCHANGED <<era, sdk, sent, injected, reading, loop, policy, deadline, closing, history>>

\* sampling/createMessage and the like, uninvited; one at a time is enough.
BackendAsks ==
    /\ loop = "reading" /\ \A i \in 1..Len(inbound) : inbound[i] # Masked
    /\ inbound' = Append(inbound, Masked)
    /\ UNCHANGED <<era, sdk, sent, answered, injected, reading, loop, policy, deadline,
                   closing, history>>

Write == SkipProbe \/ ArmProbe \/ ArmDeadline \/ Send \/ WriteHandshake \/ RefuseFallback
TakeInbound ==
    \E m \in Answers \cup {Masked} :
        Refuse(m) \/ PassOn(m) \/ ProbeAnswered(m)
Read == Poll \/ TakeInjected \/ TakeInbound
Watch == WatchArm \/ Expire \/ Inject

Next ==
    \/ Write \/ Read \/ ReadEnds \/ Watch
    \/ GoOn \/ Connected \/ ConnectFails \/ CloseCalled
    \/ LoopEnds \/ WatchEnds \/ CloseReturns
    \/ \E n \in Requests, what \in {"result", "version", "error"} : BackendAnswers(n, what)
    \/ BackendAsks

Spec == Init /\ [][Next]_vars

\* The goroutines get on and deadlines pass.  The backend owes nothing, and
\* Connect fails for certain only once nobody reads.
Fairness ==
    /\ WF_vars(Write) /\ WF_vars(GoOn) /\ WF_vars(Connected)
    /\ WF_vars(Poll) /\ WF_vars(TakeInjected) /\ WF_vars(TakeInbound)
    /\ WF_vars(WatchArm) /\ WF_vars(Expire) /\ WF_vars(Inject)
    /\ WF_vars(ConnectFails /\ (reading = "over" \/ client = "failed"))
    /\ WF_vars(ReadEnds /\ loop = "over")
    /\ WF_vars(LoopEnds /\ closing # "open") /\ WF_vars(WatchEnds) /\ WF_vars(CloseReturns)

FairSpec == Spec /\ Fairness

-----------------------------------------------------------------------------
(* Properties.                                                             *)

\* A probe is decided once, by the backend's answer or by its own deadline,
\* whatever timer an earlier probe on the connection left behind.
OneVerdict ==
    \A n \in Probes :
        /\ Cardinality(ruled[n]) <= 1
        /\ "expired" \in ruled[n] => n \in fired

\* A backend pinned legacy is never probed, one pinned modern never gets an
\* initialize, and an answer given in the backend's place changes nothing of it.
PinHonoured ==
    /\ era = "legacy" => sent \subseteq {Handshake}
    /\ era = "modern" => sent \subseteq Probes
    /\ returned = "session" /\ era # "auto" => client = era

\* The era of a session is what its client speaks; it is unknown only when the
\* answer raced the deadline of its probe.
EraRight ==
    returned = "session" =>
        \/ detected = client
        \/ client = "modern" /\ detected = "none" /\ asked \in fired

\* The probe is bounded, however silent the backend is.
ProbeBounded == client = "probing" ~> client # "probing"

\* Closing the connection does not hang on its goroutines.
CloseEnds == closing = "closing" ~> closing = "closed"

\* "Era reports the protocol era this session settled on" (backend.go:153).
EraSettled == returned = "session" => detected = client
=============================================================================
