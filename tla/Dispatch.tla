------------------------------- MODULE Dispatch --------------------------------
(***************************************************************************)
(* A request for one entry of the surface, from the client that sends it   *)
(* to what the client is told: the gate of internal/frontend/gate.go,      *)
(* serve and dispatchError of frontend/aggregate.go, CallTool, GetPrompt   *)
(* and ReadResource of internal/aggregate/gateway.go, the errors of        *)
(* internal/backend/normalize.go, and of internal/pool/backend.go what     *)
(* session and classify do to this request.                                *)
(*                                                                         *)
(* An error is the set of what errors.Is and errors.As find in it, and the *)
(* code of the JSON-RPC error among that.  Of a backend are kept whether   *)
(* it is up, and b.mu, held by whoever starts it until its handshake is    *)
(* over.                                                                   *)
(***************************************************************************)
EXTENDS Surface, Uri

CONSTANTS
    Characters,          \* of names and URIs
    Backends,            \* identifiers, of the backends of any deployment
    Revisions,           \* of the protocol
    SupportedVersions    \* the first is the one refusals name

ASSUME CharactersAssumption == Reserved \cup Bytes \cup ToSet(Separator) \subseteq Characters
ASSUME BackendsAssumption == Backends \subseteq Seq(Characters)
\* What a request names that names none.
NoVersion == ""

ASSUME VersionsAssumption ==
    SupportedVersions \in Seq(Revisions) /\ SupportedVersions # <<>> /\ NoVersion \notin Revisions

VARIABLES
    ask,                 \* the request as it was last sent, and what may become of it
    call,                \* how far it is
    target, own,         \* the backend it is routed to, and what is asked of that
    heard,               \* what the backend has answered
    gone,                \* the process that was called has exited
    failure,             \* the error of the connection
    told,                \* the answer to the client
    refusals,            \* history: how often the gate refused it
    session, lock        \* of each backend

dispatch == <<ask, call, target, own, heard, gone, failure, told, refusals>>
backends == <<session, lock>>

Error(marks) == [is |-> marks, code |-> "none"]
Nothing == Error({})
NoAsk == [method |-> "none"]

\* Requests for an entry: what the client wants, and the revision it names in either
\* place, speaks, and knew when it came.
AskType ==
    [method : {"call", "initialize", "removed"}, header : Revisions \cup {NoVersion},
     body : Revisions \cup {NoVersion}, speaks : Revisions, knew : Revisions \cup {"handshake"},
     form : {"name", "resource", "template"},
     backend : Seq(Characters), entry : Seq(Characters), value : Seq(Characters),
     ends : SUBSET {"result", "missing", "refusal", "closed", "broken pipe"}]
\* A client that knows nothing else begins with the handshake.
FirstAsks == {a \in AskType : a.knew = "handshake" => a.method = "initialize"}

DispatchTypeOK ==
    /\ call \in {"none", "posted", "waiting", "starting", "calling", "failed", "answered"}
    /\ target \in SUBSET Backends /\ Cardinality(target) <= 1
    /\ heard \in {"nothing", "result", "missing", "refusal"} /\ gone \in BOOLEAN
    /\ refusals \in Nat
    /\ session \in [Backends -> {"none", "up"}]
    /\ lock \in [Backends -> {"free", "listing", "call"}]

DispatchInit ==
    /\ ask = NoAsk /\ call = "none" /\ target = {} /\ own = <<>>
    /\ heard = "nothing" /\ gone = FALSE /\ failure = Nothing /\ told = Nothing /\ refusals = 0
    /\ session = [b \in Backends |-> "none"] /\ lock = [b \in Backends |-> "free"]

Answer(what) == call' = "answered" /\ told' = what

Post(a) ==
    /\ call = "none"
    /\ ask' = a /\ call' = "posted"
    /\ UNCHANGED <<target, own, heard, gone, failure, told, refusals, backends>>

-----------------------------------------------------------------------------
(* The gate.                                                               *)

Latest == SupportedVersions[1]
Supported(revision) == revision \in ToSet(SupportedVersions)

\* requested: the body is authoritative.
Requested(a) == IF a.body # NoVersion THEN a.body ELSE a.header

\* Faulty variant: two revisions that differ are not told apart from one that is not
\* spoken.
OneVersionAssumed(a) ==
    IF a.method = "initialize" THEN "handshake removed"
    ELSE IF a.method = "removed" THEN "method removed"
    ELSE IF a.header = NoVersion THEN "header mismatch"
    ELSE IF ~Supported(Requested(a)) THEN "unsupported version" ELSE "pass"

\* What is no POST of a single request is the SDK's to answer, and never sent here.
Gate(a) ==
    IF a.method = "initialize" THEN "handshake removed"
    ELSE IF a.method = "removed" THEN "method removed"
    ELSE IF a.header = NoVersion \/ a.body \notin {NoVersion, a.header} THEN "header mismatch"
    ELSE IF ~Supported(Requested(a)) THEN "unsupported version"
    ELSE "pass"
Refusals == {"handshake removed", "method removed", "header mismatch", "unsupported version"}

GateRefuses ==
    /\ call = "posted" /\ Gate(ask) # "pass"
    /\ Answer(Error({Gate(ask)})) /\ refusals' = refusals + 1
    /\ UNCHANGED <<ask, target, own, heard, gone, failure, backends>>

\* The client follows the answer: it sends what it wanted in the first place under
\* the revision it was told of, or it names its own one in both places.  From a
\* method that is gone nothing leads on.
Follow(a) ==
    IF told.is = {"header mismatch"} THEN [a EXCEPT !.header = a.speaks, !.body = a.speaks]
    ELSE [a EXCEPT !.method = "call", !.speaks = Latest, !.header = Latest, !.body = Latest]
Repost ==
    /\ call = "answered" /\ told.is \cap (Refusals \ {"method removed"}) # {}
    /\ ask' = Follow(ask) /\ call' = "posted" /\ told' = Nothing
    /\ UNCHANGED <<target, own, heard, gone, failure, refusals, backends>>

-----------------------------------------------------------------------------
(* Routing, by the name alone: no listing is looked at.                    *)

\* What the client knows the entry by, from a listing.
Shown(a) ==
    CASE a.form = "name" -> Qualify(a.backend, a.entry)
      [] a.form = "resource" -> WrapURI(a.backend, a.entry)
      [] a.form = "template" ->
           [WrapURITemplate(a.backend, a.entry) EXCEPT !.rest = Expand(@, a.value)]
\* What it means by that, in the backend's own terms.
Meant(a) == IF a.form = "template" THEN Expand(a.entry, a.value) ELSE a.entry

\* The sources a request leads to, with the backend's own name or URI.
Routes(ids, a) ==
    IF a.form = "name"
    THEN {[backend |-> b, own |-> OwnName(b, Shown(a))] : b \in Route(ids, Shown(a))}
    ELSE {r \in UnwrapURI(Shown(a)) : r.backend \in ids}

\* dispatchError: an answer with a code of its own, as a jsonrpc.Error.
RoutingError(ids, a) ==
    LET kind == IF a.form = "name" THEN "not found"
                ELSE IF UnwrapURI(Shown(a)) = {} THEN "bad URI" ELSE "unknown backend"
    IN [is |-> {"wire", kind}, code |-> "invalid params"]
RoutingErrors == {"not found", "bad URI", "unknown backend"}

NotRouted(ids) ==
    /\ call = "posted" /\ Gate(ask) = "pass" /\ Routes(ids, ask) = {}
    /\ Answer(RoutingError(ids, ask))
    /\ UNCHANGED <<ask, target, own, heard, gone, failure, refusals, backends>>
Routed(ids) ==
    /\ call = "posted" /\ Gate(ask) = "pass"
    /\ \E r \in Routes(ids, ask) : target' = {r.backend} /\ own' = r.own
    /\ call' = "waiting"
    /\ UNCHANGED <<ask, heard, gone, failure, told, refusals, backends>>

-----------------------------------------------------------------------------
(* Errors on their way to the client.                                      *)

\* Codes: that of a resource a legacy backend does not have is retired.
NormalizeCode(code) == IF code = "resource not found" THEN "invalid params" ELSE code

\* normalizeError: the JSON-RPC error is not wrapped but replaced.
Normalize(e) ==
    IF "wire" \in e.is THEN [is |-> {"protocol"}, code |-> NormalizeCode(e.code)]
    ELSE IF "closed" \in e.is THEN [e EXCEPT !.is = @ \cup {"connection lost"}] ELSE e

\* Faulty variant: a lost connection does not say that the call may be repeated.
OnlyExits(e, exited) == IF exited THEN [e EXCEPT !.is = @ \cup {"retryable"}] ELSE e

Retryable(e, exited) == exited \/ "connection lost" \in e.is
Classify(e, exited) ==
    IF Retryable(e, exited) THEN [e EXCEPT !.is = @ \cup {"retryable"}] ELSE e

MarkUnavailable(e) ==
    IF "protocol" \in e.is THEN e ELSE [e EXCEPT !.is = @ \cup {"unavailable"}]

\* The SDK finds the code of a jsonrpc.Error, and has its own for other errors.
Sent(e) == IF "wire" \in e.is THEN e ELSE [e EXCEPT !.code = "internal"]

-----------------------------------------------------------------------------
(* The call.                                                               *)

\* The error of a request that has not reached its backend does not pass classify.
NotServed == Answer(Sent(MarkUnavailable(Error({"not served"}))))

PoolRefuses ==
    /\ call = "waiting" /\ NotServed
    /\ UNCHANGED <<ask, target, own, heard, gone, failure, refusals, backends>>

\* session.
CallReaches ==
    /\ call = "waiting" /\ \A b \in target : lock[b] = "free" /\ session[b] = "up"
    /\ call' = "calling"
    /\ UNCHANGED <<ask, target, own, heard, gone, failure, told, refusals, backends>>
CallStarts ==
    /\ call = "waiting" /\ \A b \in target : lock[b] = "free" /\ session[b] = "none"
    /\ call' = "starting"
    /\ lock' = [b \in Backends |-> IF b \in target THEN "call" ELSE lock[b]]
    /\ UNCHANGED <<ask, target, own, heard, gone, failure, told, refusals, session>>
CallLetsGo(s) ==
    /\ call = "starting"
    /\ lock' = [b \in Backends |-> IF b \in target THEN "free" ELSE lock[b]]
    /\ session' = [b \in Backends |-> IF b \in target THEN s ELSE session[b]]
    /\ UNCHANGED <<ask, target, own, heard, gone, failure, refusals>>
CallStarted == CallLetsGo("up") /\ call' = "calling" /\ UNCHANGED told
CallStartFails == CallLetsGo("none") /\ NotServed

\* The connection's answer.  One written before an exit may be read after it.
CallReturns ==
    /\ call = "calling" /\ "result" \in ask.ends
    /\ heard' = "result" /\ Answer(Error({"result"}))
    /\ UNCHANGED <<ask, target, own, gone, failure, refusals, backends>>
CallRefused(how) ==
    /\ call = "calling" /\ how \in ask.ends \cap {"missing", "refusal"}
    /\ heard' = how /\ call' = "failed"
    /\ failure' = Normalize([is |-> {"wire"}, code |-> IF how = "missing" THEN "resource not found"
                                                       ELSE "backend's"])
    /\ UNCHANGED <<ask, target, own, gone, told, refusals, backends>>

\* The session is over, or writing failed, which no name is given to.
CallBreaks(how) ==
    /\ call = "calling" /\ how \in ask.ends \cap {"closed", "broken pipe"}
    /\ call' = "failed" /\ failure' = Normalize(Error({how}))
    /\ UNCHANGED <<ask, target, own, heard, gone, told, refusals, backends>>

\* classify forgets the connection, unless it has been replaced.
Classified ==
    /\ call = "failed"
    /\ Answer(Sent(MarkUnavailable(Classify(failure, gone))))
    /\ session' = [b \in Backends |->
           IF b \in target /\ ~gone /\ Retryable(failure, gone) THEN "none" ELSE session[b]]
    /\ UNCHANGED <<ask, target, own, heard, gone, failure, refusals, lock>>

BackendDies(b) ==
    /\ session[b] = "up"
    /\ session' = [session EXCEPT ![b] = "none"]
    /\ gone' = (gone \/ (b \in target /\ call \in {"calling", "failed"}))
    /\ UNCHANGED <<ask, call, target, own, heard, failure, told, refusals, lock>>

Calls(ids) ==
    \/ GateRefuses \/ Repost \/ NotRouted(ids) \/ Routed(ids)
    \/ PoolRefuses \/ CallReaches \/ CallStarts \/ CallStarted \/ CallStartFails
    \/ CallReturns \/ Classified
    \/ \E how \in {"missing", "refusal"} : CallRefused(how)
    \/ \E how \in {"closed", "broken pipe"} : CallBreaks(how)

-----------------------------------------------------------------------------
\* What the gate says is wrong with a request is wrong with it, nothing of what it
\* lets through is, and a client that does what it is told gets through: at the third
\* attempt at the latest, or, of those that only know the handshake, at the second.
Versions(a) == {a.header, a.body} \ {NoVersion}
Negotiates ==
    /\ refusals <= 2
    /\ told.is = {"unsupported version"} =>
         /\ ask.method = "call"
         /\ \E v \in Versions(ask) : Versions(ask) = {v} /\ ~Supported(v)
    /\ target # {} \/ told.is \cap RoutingErrors # {} =>
         /\ ask.method = "call" /\ Supported(ask.header) /\ Versions(ask) = {ask.header}
         /\ ask.knew = "handshake" => refusals = 1

\* What the client is told is what happened: that an entry does not exist, when no
\* backend's name or URI it is; that the call may be repeated, when the process or
\* the connection was lost; that a backend is unavailable, when it did not answer,
\* and never in place of its refusal.
ToldRight ==
    call = "answered" /\ told.is \cap Refusals = {} =>
        /\ told.is \cap RoutingErrors # {} <=> target = {}
        /\ target = {} => told.code = "invalid params"
        /\ "retryable" \in told.is <=>
             failure.is # {} /\ (gone \/ "connection lost" \in failure.is)
        /\ "unavailable" \in told.is <=> target # {} /\ heard = "nothing"
        /\ "protocol" \in told.is <=> heard \in {"missing", "refusal"}

\* What a client knows an entry by leads back to the backend that has it, under the
\* backend's own name, and never to another.  Not meant are names that a longer
\* identifier owns too, identifiers that are no host, and expansions that carry a
\* query, a fragment or an encoded value.
OwnedByOther(ids, a) ==
    \E other \in ids \ {a.backend} :
        Owns(other, Shown(a)) /\ (a.backend \in ids => Len(other) > Len(a.backend))
Plain(text) == ToSet(text) \cap Reserved = {}
Reversible(ids, a) ==
    /\ Meant(a) # <<>>
    /\ IF a.form = "name" THEN ~OwnedByOther(ids, a) ELSE Plain(a.backend) /\ a.backend # <<>>
    /\ a.form = "template" =>
         /\ Plain(a.value)
         /\ \A i \in DOMAIN a.entry : Inside(a.entry, i) => a.entry[i] \notin {"?", "#"}
LeadsBack(ids) ==
    call # "none" /\ Reversible(ids, ask) =>
        /\ told.is \cap RoutingErrors # {} => ask.backend \notin ids
        /\ target # {} => target = {ask.backend} /\ own = Meant(ask)

\* "WHEN a legacy backend returns an error with code -32002 for a missing resource
\* THEN the client receives an error with code -32602"
\* (openspec/specs/backend-connections/spec.md:107): what it receives has the SDK's
\* code for errors that carry none.
MissingTold == call = "answered" /\ heard = "missing" => told.code = "invalid params"
=============================================================================
