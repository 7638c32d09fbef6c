------------------------------ MODULE Serving --------------------------------
(***************************************************************************)
(* One request on its way through the gateway: auth.Require, Resolve of    *)
(* internal/frontend/policy.go, and, if it lists, Tenant and               *)
(* aggregate.Gateway.Surface, with one goroutine and one timeout for each  *)
(* backend.  A client that is challenged comes back with what it was       *)
(* challenged for.                                                         *)
(*                                                                         *)
(* Another request of the subject, which is module Dispatch, is for an     *)
(* entry of one of the same backends.  Both reach it through               *)
(* pool.Backend.session, and wait for b.mu with no regard to a deadline.   *)
(***************************************************************************)
EXTENDS HeaderPolicy, Dispatch

CONSTANT Settings      \* what a behaviour is about

\* policy.New has refused any other mode, and config has read the servers.
ASSUME SettingsAssumption ==
    \A s \in Settings :
        /\ s.deployment.mode \in ToSet(Modes) /\ s.scopes \subseteq Scopes /\ s.token \in BOOLEAN
        /\ s.deployment.servers \in Seq(DeployedOf(Backends))
        /\ s.deployment.deny \subseteq EnvKeys
        /\ s.header.servers \in Seq(PatchesOf(Backends))
        /\ s.header.form = "none" => s.header.servers = <<>>

\* With each list a backend may offer any lifetime at all, or none, which is 0.
ASSUME OffersAssumption ==
    \A s \in Settings :
        s.offers \in [Backends ->
                        [entries : [ToSet(Lists) -> Seq(Seq(Characters))],
                         ttl : [ToSet(Lists) -> Int]]]
ASSUME AsksAssumption == \A s \in Settings : s.asks \subseteq FirstAsks

VARIABLES
    setting,           \* the deployment, the client's header, its authorization at
                       \* first, what it wants, what its backends have to offer, and
                       \* what the other request may ask
    token, scopes,     \* what the client's authorization says
    stage, answer,     \* of the request
    challenges,        \* history: how often scopes were found missing
    servers,           \* config.WithResolved
    phase, next,       \* of each listing goroutine: what it does, for which list
    expired,           \* the goroutines whose timeout is over
    listings,
    faults             \* history: the backends that did not serve the listing

client == <<token, scopes>>
request == <<stage, answer, challenges, servers>>
gathering == <<phase, next, expired, listings, faults>>
vars == <<setting, client, request, gathering, backends, dispatch>>

Ids == IdsOf(servers)
ListSet == ToSet(Lists)

TypeOK ==
    /\ setting \in Settings
    /\ token \in BOOLEAN /\ scopes \subseteq Scopes
    /\ stage \in {"client", "arrived", "admitted", "listing", "answered"}
    /\ answer \in {"none", "unauthorized", "bad request", "forbidden", "challenge",
                   "served", "surface", "names clash"}
    /\ challenges \in 0..Cardinality(Scopes)
    /\ \A s \in ToSet(servers) : s.command \in Commands /\ s.era \in {"kept", "replaced"}
    /\ phase \in [Backends -> {"none", "waiting", "starting", "asking", "over"}]
    /\ next \in [Backends -> DOMAIN Lists]
    /\ expired \subseteq Backends /\ faults \subseteq Backends
    /\ \A b \in Backends : DOMAIN listings[b].entries = ListSet
    /\ DispatchTypeOK

Init ==
    /\ setting \in Settings /\ Starts(setting.deployment)
    /\ token = setting.token /\ scopes = setting.scopes
    /\ stage = "client" /\ answer = "none" /\ challenges = 0 /\ servers = <<>>
    /\ phase = [b \in Backends |-> "none"] /\ next = [b \in Backends |-> 1]
    /\ expired = {} /\ listings = [b \in Backends |-> NoListing] /\ faults = {}
    /\ DispatchInit

-----------------------------------------------------------------------------
(* The client.                                                             *)

Send ==
    /\ stage = "client"
    /\ stage' = "arrived" /\ answer' = "none"
    /\ UNCHANGED <<setting, client, challenges, servers, gathering, backends, dispatch>>
Authorize ==
    /\ stage = "answered" /\ answer = "unauthorized"
    /\ token' = TRUE /\ stage' = "client"
    /\ UNCHANGED <<setting, scopes, answer, challenges, servers, gathering, backends, dispatch>>
StepUp ==
    /\ stage = "answered" /\ answer = "challenge"
    /\ scopes' = scopes \cup Missing(setting.deployment, setting.header, scopes)
    /\ stage' = "client"
    /\ UNCHANGED <<setting, token, answer, challenges, servers, gathering, backends, dispatch>>

-----------------------------------------------------------------------------
(* auth.Require and Resolve.                                               *)

Respond(what) == stage' = "answered" /\ answer' = what

Unauthorized ==
    /\ stage = "arrived" /\ ~token
    /\ Respond("unauthorized")
    /\ UNCHANGED <<setting, client, challenges, servers, gathering, backends, dispatch>>

Verdict ==
    LET d == setting.deployment
        h == setting.header
        first == CheckHeader(d, h, scopes)
    IN IF first # "ok" THEN first
       ELSE IF ~Usable(Resolved(d, h)) THEN "unusable"
       ELSE CheckResolved(d, Resolved(d, h), h)

BadHeader ==
    /\ stage = "arrived" /\ token /\ setting.header.form = "bad"
    /\ Respond("bad request")
    /\ UNCHANGED <<setting, client, challenges, servers, gathering, backends, dispatch>>
Challenge ==
    /\ stage = "arrived" /\ token /\ setting.header.form # "bad" /\ Verdict = "scopes"
    /\ Respond("challenge") /\ challenges' = challenges + 1
    /\ UNCHANGED <<setting, client, servers, gathering, backends, dispatch>>
Refuse ==
    /\ stage = "arrived" /\ token /\ setting.header.form # "bad"
    /\ Verdict \notin {"ok", "scopes"}
    /\ Respond(IF Verdict = "unusable" THEN "bad request" ELSE "forbidden")
    /\ UNCHANGED <<setting, client, challenges, servers, gathering, backends, dispatch>>
Admit ==
    /\ stage = "arrived" /\ token /\ setting.header.form # "bad" /\ Verdict = "ok"
    /\ servers' = Resolved(setting.deployment, setting.header)
    /\ stage' = "admitted"
    /\ UNCHANGED <<setting, client, answer, challenges, gathering, backends, dispatch>>

\* What the SDK answers without a backend, server/discover for one.
ServeItself ==
    /\ stage = "admitted" /\ setting.wants = "discover"
    /\ Respond("served")
    /\ UNCHANGED <<setting, client, challenges, servers, gathering, backends, dispatch>>

-----------------------------------------------------------------------------
(* Gateway.Surface.                                                        *)

SurfaceBegins ==
    /\ stage = "admitted" /\ setting.wants = "listing"
    /\ stage' = "listing"
    /\ phase' = [b \in Backends |-> IF b \in Ids THEN "waiting" ELSE "none"]
    /\ UNCHANGED <<setting, client, answer, challenges, servers, next, expired, listings,
                   faults, backends, dispatch>>

Move(b, to) == phase' = [phase EXCEPT ![b] = to]

\* session finds the backend, or starts it.
Reach(b) ==
    /\ phase[b] = "waiting" /\ lock[b] = "free" /\ session[b] = "up"
    /\ Move(b, "asking")
    /\ UNCHANGED <<setting, client, request, next, expired, listings, faults, backends, dispatch>>
Start(b) ==
    /\ phase[b] = "waiting" /\ lock[b] = "free" /\ session[b] = "none"
    /\ lock' = [lock EXCEPT ![b] = "listing"]
    /\ Move(b, "starting")
    /\ UNCHANGED <<setting, client, request, next, expired, listings, faults, session, dispatch>>
Started(b) ==
    /\ phase[b] = "starting"
    /\ lock' = [lock EXCEPT ![b] = "free"] /\ session' = [session EXCEPT ![b] = "up"]
    /\ Move(b, "asking")
    /\ UNCHANGED <<setting, client, request, next, expired, listings, faults, dispatch>>

\* list stops at the first failure.
Fail(b) ==
    /\ listings' = [listings EXCEPT ![b].failed = TRUE]
    /\ faults' = faults \cup {b}
    /\ Move(b, "over")
    /\ UNCHANGED <<setting, client, request, next, expired, dispatch>>

\* The pool has no room for it, before session waits for its lock.
ListRefused(b) ==
    /\ phase[b] = "waiting" /\ Fail(b)
    /\ UNCHANGED backends
StartFails(b) ==
    /\ phase[b] = "starting" /\ Fail(b)
    /\ lock' = [lock EXCEPT ![b] = "free"]
    /\ UNCHANGED session
ListFails(b) ==
    /\ phase[b] = "asking" /\ Fail(b)
    /\ UNCHANGED backends

NextList(b) ==
    /\ IF next[b] = Len(Lists) THEN Move(b, "over") /\ UNCHANGED next
       ELSE Move(b, "waiting") /\ next' = [next EXCEPT ![b] = @ + 1]
    /\ UNCHANGED <<setting, client, request, expired, backends, dispatch>>

\* Each list comes with a lifetime of its own, and only that of the tools is kept.
ListAnswered(b) ==
    /\ phase[b] = "asking" /\ session[b] = "up"
    /\ LET offer == setting.offers[b]
           list == Lists[next[b]]
       IN listings' = [listings EXCEPT
              ![b].entries[list] = offer.entries[list],
              ![b].ttl = IF list = "tools" THEN Lifetime(offer.ttl[list]) ELSE @]
    /\ NextList(b)
    /\ UNCHANGED faults

\* "Method not found": the backend has none of these.
ListAbsent(b) ==
    /\ phase[b] = "asking" /\ session[b] = "up"
    /\ NextList(b)
    /\ UNCHANGED <<listings, faults>>

TimeoutExpires(b) ==
    /\ stage = "listing" /\ phase[b] \in {"waiting", "starting", "asking"} /\ b \notin expired
    /\ expired' = expired \cup {b}
    /\ UNCHANGED <<setting, client, request, phase, next, listings, faults, backends, dispatch>>

SurfaceDone ==
    /\ stage = "listing" /\ \A b \in Ids : phase[b] = "over"
    /\ Respond(IF Assembles([b \in Ids |-> listings[b]]) THEN "surface" ELSE "names clash")
    /\ UNCHANGED <<setting, client, challenges, servers, gathering, backends, dispatch>>

-----------------------------------------------------------------------------
(* The other request, of the same client: it has passed Require and        *)
(* Resolve with the same servers.                                          *)

Dispatches(action) == action /\ UNCHANGED <<setting, client, request, gathering>>

Ask(a) == stage \in {"admitted", "listing"} /\ Dispatches(Post(a))

-----------------------------------------------------------------------------
Admission == Unauthorized \/ BadHeader \/ Challenge \/ Refuse \/ Admit
Gathers(b) ==
    Reach(b) \/ Start(b) \/ Started(b) \/ ListRefused(b) \/ StartFails(b)
    \/ ListFails(b) \/ ListAnswered(b) \/ ListAbsent(b)

Next ==
    \/ Send \/ Authorize \/ StepUp
    \/ Admission \/ ServeItself \/ SurfaceBegins \/ SurfaceDone
    \/ \E b \in Backends : Gathers(b) \/ TimeoutExpires(b) \/ Dispatches(BackendDies(b))
    \/ \E a \in setting.asks : Ask(a)
    \/ Dispatches(Calls(Ids))

Spec == Init /\ [][Next]_vars

\* Faulty: the timeout is only looked at while a list is being asked for.
AskingTimesOut(b) == b \in expired /\ phase[b] = "asking"

\* The timeout ends a start and a question, but not the wait for a lock.
TimesOut(b) == b \in expired
Cut(b) == TimesOut(b) /\ (StartFails(b) \/ ListFails(b))

\* Goroutines get on, timeouts come, and a mutex hands itself to whoever waits for
\* it long enough.  No backend has to answer anything, and the other request has
\* no deadline of its own.
Fairness ==
    /\ WF_vars(Admission) /\ WF_vars(SurfaceBegins) /\ WF_vars(SurfaceDone)
    /\ \A b \in Backends :
         WF_vars(TimeoutExpires(b)) /\ WF_vars(Cut(b)) /\ SF_vars(Reach(b) \/ Start(b))

FairSpec == Spec /\ Fairness

-----------------------------------------------------------------------------
\* A challenge asks for what the deployment's metadata offers, and for all of it:
\* whoever comes back with what was missing is not challenged again.
StepUpHelps ==
    /\ challenges <= 1
    /\ stage = "answered" /\ answer = "challenge" =>
         Missing(setting.deployment, setting.header, scopes)
           \subseteq OfferedScopes(setting.deployment)

\* The servers a request is admitted with differ from the deployment's only in
\* what its mode and the token's scopes permit, although both were judged on the
\* patches, before these were applied one over the other.
Permitted(mode) == mode \in scopes \cap OfferedScopes(setting.deployment)
Differs(s, base) ==
    /\ \/ s.command # base.command \/ s.args # base.args \/ s.era # base.era
       => Permitted("override-known")
    /\ s.env # base.env => Permitted("env-only")
WithinPrivileges ==
    LET d == setting.deployment
    IN servers # <<>> =>
         /\ IdsOf(d.servers) \subseteq Ids
         /\ \A s \in ToSet(servers) :
              /\ d.allow # {} => s.command \in d.allow
              /\ \A k \in d.deny : s.env[k] # "header"
              /\ IF s.id \notin IdsOf(d.servers) THEN Permitted("define-new")
                 ELSE \A base \in ToSet(d.servers) : base.id = s.id => Differs(s, base)

\* A backend that fails costs its own entries and nothing else, not even when all
\* do, and one that merely has none of a kind costs nothing.  What a client sees of
\* the entries tells them apart.  It may keep them for DegradedTTL if a backend is
\* missing, and otherwise no longer than any backend that answered for its tools
\* offered with these.  Of the other lists this does not hold, although surface.go:83
\* speaks of the most impatient contributor: gateway.go:113 has dropped their lifetimes.
ToldTools(b) == listings[b].ttl # 0 \/ listings[b].entries["tools"] # <<>>
SurfaceRight ==
    LET found == [b \in Ids |-> listings[b]]
    IN /\ stage = "answered" /\ answer = "names clash" => faults # Ids
       /\ stage = "answered" /\ answer = "surface" =>
            /\ Unavailable(found) = faults
            /\ IF faults # {} THEN Lifetime(TTL(found)) = DegradedTTL
               ELSE \A b \in Ids : ToldTools(b) =>
                      Lifetime(TTL(found)) <= Lifetime(setting.offers[b].ttl["tools"])
            /\ \A l \in Named : \A e, f \in Entries(found, l) :
                 e # f => Qualify(e[1], e[2]) # Qualify(f[1], f[2])

\* What the client sees of an entry leads back to it (module Dispatch).
EntryFound == LeadsBack(Ids)

\* A listing ends, however its backends behave, unless it has to wait for another
\* request to start one of them.
ListingSettles == stage = "listing" ~> (stage # "listing" \/ call = "starting")
=============================================================================
