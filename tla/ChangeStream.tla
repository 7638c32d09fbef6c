---------------------------- MODULE ChangeStream -----------------------------
(***************************************************************************)
(* One client's subscriptions/listen stream: aggregate.Listener of         *)
(* internal/aggregate/listen.go, and fanIn and its pump in                 *)
(* internal/frontend/listen.go, which carry the backends' changes to the   *)
(* SDK's stream.                                                           *)
(*                                                                         *)
(* A backend's reading goroutine calls deliver itself, so deliver must     *)
(* never block; a burst of changes of one kind is queued once.  deliver    *)
(* and Next agree on what is queued through pending, which both touch      *)
(* under l.mu and neither together with the channel.                       *)
(*                                                                         *)
(* The SDK's handler is external: it registers the stream, or agrees to    *)
(* nothing and returns at once, and returns when the request is over.      *)
(***************************************************************************)
EXTENDS Naturals, FiniteSets, SequencesExt

CONSTANTS
    Sources,       \* the subject's backends, as Subscribers
    Kinds,         \* what can change: tools, prompts, resources
    NoKind,
    MaxChanges     \* bound: changes announced in one behaviour

ASSUME ChangeAssumption ==
    IsFiniteSet(Sources) /\ IsFiniteSet(Kinds) /\ NoKind \notin Kinds /\ MaxChanges \in Nat

VARIABLES
    ctx,           \* the client's request: "live" or "over"
    stream,        \* fanIn: "new", "subscribing", "starting" (the SDK's handler
                   \* was called), "open" (it registered the stream), "stopping"
                   \* (stop, wg.Wait), "releasing" (listener.Close), "closed"
    subscribed,    \* the sources that call deliver
    reader,        \* of each source's connection: "reading", "publishing", "queueing"
    change,        \* the change it is delivering
    pending,       \* l.pending
    changes,       \* l.changes, a channel of one slot for each kind
    pump,          \* "none", "waiting", "taken", "announcing", "over"
    hand,          \* the change the pump has taken
    announced,     \* history: the changes so far
    owed           \* history: kinds that changed on the open stream and of
                   \* which the client has not heard since

client == <<ctx, stream, subscribed>>
delivery == <<reader, change>>
queue == <<pending, changes>>
pumping == <<pump, hand>>
history == <<announced, owed>>
vars == <<client, delivery, queue, pumping, history>>

TypeOK ==
    /\ ctx \in {"live", "over"}
    /\ stream \in {"new", "subscribing", "starting", "open", "stopping", "releasing", "closed"}
    /\ subscribed \in SUBSET Sources
    /\ reader \in [Sources -> {"reading", "publishing", "queueing"}]
    /\ change \in [Sources -> Kinds \cup {NoKind}]
    /\ pending \in SUBSET Kinds
    /\ changes \in Seq(Kinds)
    /\ pump \in {"none", "waiting", "taken", "announcing", "over"}
    /\ hand \in Kinds \cup {NoKind}
    /\ announced \in 0..MaxChanges
    /\ owed \in SUBSET Kinds

Init ==
    /\ ctx = "live" /\ stream = "new" /\ subscribed = {}
    /\ reader = [s \in Sources |-> "reading"]
    /\ change = [s \in Sources |-> NoKind]
    /\ pending = {} /\ changes = <<>>
    /\ pump = "none" /\ hand = NoKind
    /\ announced = 0 /\ owed = {}

-----------------------------------------------------------------------------
(* Faulty variants: a burst queued as it comes, a kind that counts as       *)
(* queued for good, and a pump that only the client can end.                *)
QueueAll(k) == FALSE
StillQueued(k) == pending
ClientOnly == ctx = "over"

-----------------------------------------------------------------------------
(* fanIn.                                                                  *)

\* Listen, once Tenant has found the subject and its servers.
ListenBegins ==
    /\ stream = "new"
    /\ stream' = "subscribing"
    /\ UNCHANGED <<ctx, subscribed, delivery, queue, pumping, history>>
ListenFails ==
    /\ stream = "new"
    /\ stream' = "closed"
    /\ UNCHANGED <<ctx, subscribed, delivery, queue, pumping, history>>
SubscribeTo(s) ==
    /\ stream = "subscribing" /\ s \notin subscribed
    /\ subscribed' = subscribed \cup {s}
    /\ UNCHANGED <<ctx, stream, delivery, queue, pumping, history>>

\* The pump is started, and the SDK's handler called.
PumpStarts ==
    /\ stream = "subscribing" /\ subscribed = Sources
    /\ stream' = "starting"
    /\ pump' = "waiting"
    /\ UNCHANGED <<ctx, subscribed, delivery, queue, hand, history>>

Registered ==
    /\ stream = "starting"
    /\ stream' = "open"
    /\ UNCHANGED <<ctx, subscribed, delivery, queue, pumping, history>>

\* The SDK's handler returns: it agreed to nothing, or the request is over.
HandlerReturns ==
    /\ stream = "starting" \/ (stream = "open" /\ ctx = "over")
    /\ stream' = "stopping"
    /\ UNCHANGED <<ctx, subscribed, delivery, queue, pumping, history>>

PumpGone ==
    /\ stream = "stopping" /\ pump = "over"
    /\ stream' = "releasing"
    /\ UNCHANGED <<ctx, subscribed, delivery, queue, pumping, history>>

\* l.release, one source after the other.
Release(s) ==
    /\ stream = "releasing" /\ s \in subscribed
    /\ subscribed' = subscribed \ {s}
    /\ UNCHANGED <<ctx, stream, delivery, queue, pumping, history>>
StreamCloses ==
    /\ stream = "releasing" /\ subscribed = {}
    /\ stream' = "closed"
    /\ UNCHANGED <<ctx, subscribed, delivery, queue, pumping, history>>

RequestEnds ==
    /\ ctx = "live"
    /\ ctx' = "over"
    /\ UNCHANGED <<stream, subscribed, delivery, queue, pumping, history>>

-----------------------------------------------------------------------------
(* deliver, on the reading goroutine of a source.                          *)

\* publish copies its listeners, this stream among them.
Changes(s, k) ==
    /\ s \in subscribed /\ reader[s] = "reading" /\ announced < MaxChanges
    /\ reader' = [reader EXCEPT ![s] = "publishing"]
    /\ change' = [change EXCEPT ![s] = k]
    /\ announced' = announced + 1
    /\ owed' = IF stream = "open" THEN owed \cup {k} ELSE owed
    /\ UNCHANGED <<client, queue, pumping>>

Queued(k) == k \in pending

\* deliver under l.mu.
DeliverKnown(s) ==
    /\ reader[s] = "publishing" /\ Queued(change[s])
    /\ reader' = [reader EXCEPT ![s] = "reading"]
    /\ change' = [change EXCEPT ![s] = NoKind]
    /\ UNCHANGED <<client, queue, pumping, history>>
DeliverNew(s) ==
    /\ reader[s] = "publishing" /\ ~Queued(change[s])
    /\ reader' = [reader EXCEPT ![s] = "queueing"]
    /\ pending' = pending \cup {change[s]}
    /\ UNCHANGED <<client, change, changes, pumping, history>>

Room == Len(changes) < Cardinality(Kinds)

\* deliver's send, after it has let go of l.mu.
Queue(s) ==
    /\ reader[s] = "queueing" /\ Room
    /\ changes' = Append(changes, change[s])
    /\ reader' = [reader EXCEPT ![s] = "reading"]
    /\ change' = [change EXCEPT ![s] = NoKind]
    /\ UNCHANGED <<client, pending, pumping, history>>

-----------------------------------------------------------------------------
(* The pump.                                                               *)

\* Next receives, and then notes under l.mu that it did.
Take ==
    /\ pump = "waiting" /\ changes # <<>>
    /\ hand' = Head(changes) /\ changes' = Tail(changes)
    /\ pump' = "taken"
    /\ UNCHANGED <<client, delivery, pending, history>>
NoLongerQueued(k) == pending \ {k}
Mark ==
    /\ pump = "taken"
    /\ pending' = NoLongerQueued(hand)
    /\ pump' = "announcing"
    /\ UNCHANGED <<client, delivery, changes, hand, history>>

\* announce: the client is told, if the SDK has its stream.
Announce ==
    /\ pump = "announcing"
    /\ owed' = IF stream = "open" THEN owed \ {hand} ELSE owed
    /\ pump' = "waiting" /\ hand' = NoKind
    /\ UNCHANGED <<client, delivery, queue, announced>>

\* Next sees pumpCtx end; with a change in the channel it may see either.
Cancelled == ctx = "over" \/ stream = "stopping"
PumpEnds ==
    /\ pump = "waiting" /\ Cancelled
    /\ pump' = "over"
    /\ UNCHANGED <<client, delivery, queue, hand, history>>

-----------------------------------------------------------------------------
FanIn ==
    \/ ListenBegins \/ ListenFails \/ PumpStarts \/ Registered \/ HandlerReturns
    \/ PumpGone \/ StreamCloses
    \/ \E s \in Sources : SubscribeTo(s) \/ Release(s)
Deliver(s) == DeliverKnown(s) \/ DeliverNew(s) \/ Queue(s)
Pump == Take \/ Mark \/ Announce \/ PumpEnds

Next ==
    \/ FanIn \/ RequestEnds \/ Pump
    \/ \E s \in Sources : Deliver(s) \/ \E k \in Kinds : Changes(s, k)

Spec == Init /\ [][Next]_vars

\* Goroutines get on.  Backends need not change, nor the client's request end.
Fairness == WF_vars(FanIn) /\ WF_vars(Pump) /\ \A s \in Sources : WF_vars(Deliver(s))

FairSpec == Spec /\ Fairness

-----------------------------------------------------------------------------
\* deliver never waits for the pump, not even for one that is gone: whoever has
\* something to queue finds room for it.  Otherwise a client that went away
\* would stop a backend being read.
NeverBlocks == \A s \in Sources : reader[s] = "queueing" => Len(changes) < Cardinality(Kinds)

\* Coalescing loses nothing: a change the client has yet to hear of is on its
\* way, though it may be another's that will tell of it.
OnItsWay(k) ==
    \/ \E s \in Sources : reader[s] # "reading" /\ change[s] = k
    \/ k \in ToSet(changes)
    \/ pump \in {"taken", "announcing"} /\ hand = k
NothingLost == stream = "open" /\ pump # "over" => \A k \in owed : OnItsWay(k)

\* Who listens is told, for as long as the stream is open.
ChangeTold == \A k \in Kinds : k \in owed ~> (k \notin owed \/ stream # "open" \/ ctx = "over")

\* However the stream ends, nothing of it is left: the pump is over, no source
\* calls it, and every reading goroutine is back to its connection.
Released ==
    /\ stream = "closed" /\ pump = "over" /\ subscribed = {}
    /\ \A s \in Sources : reader[s] = "reading"
StreamEnds == stream = "stopping" ~> Released
=============================================================================
