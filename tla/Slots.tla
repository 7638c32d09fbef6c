------------------------------- MODULE Slots --------------------------------
(***************************************************************************)
(* What internal/pool promises its callers, without its bookkeeping: a     *)
(* bounded set of slots, one per key, that a request occupies while it is  *)
(* served.  A slot somebody occupies is never taken away, except by        *)
(* shutting the pool down.                                                 *)
(***************************************************************************)
EXTENDS Naturals, FiniteSets

CONSTANTS Keys, SubjectOf(_), Requests, MaxProcesses, MaxPerSubject

VARIABLES
    slots,    \* the keys that own a slot
    users,    \* the requests being served for each key
    shut      \* the pool takes no more requests

vars == <<slots, users, shut>>

Idle(k) == users[k] = {}
Fits(S) == /\ Cardinality(S) <= MaxProcesses
           /\ \A s \in {SubjectOf(k) : k \in S} :
                 Cardinality({k \in S : SubjectOf(k) = s}) <= MaxPerSubject

Init == slots = {} /\ users = [k \in Keys |-> {}] /\ shut = FALSE

\* A request is let in: it shares its key's slot, or takes a new one, at the
\* price of at most one idle slot, and only if there was no free one.
Enter(r, k) ==
    /\ ~shut /\ \A j \in Keys : r \notin users[j]
    /\ users' = [users EXCEPT ![k] = @ \cup {r}]
    /\ \/ k \in slots /\ UNCHANGED slots
       \/ /\ k \notin slots
          /\ \E drop \in SUBSET slots :
                /\ \A j \in drop : Idle(j)
                /\ drop = {} \/ (Cardinality(slots) = MaxProcesses /\ Cardinality(drop) = 1)
                /\ slots' = (slots \ drop) \cup {k}
                /\ Fits(slots')
    /\ UNCHANGED shut

Leave(r, k) ==
    /\ r \in users[k]
    /\ users' = [users EXCEPT ![k] = @ \ {r}]
    /\ UNCHANGED <<slots, shut>>

\* Slots nobody occupies may be given up at any time.
Expire(S) ==
    /\ \A k \in S : Idle(k)
    /\ slots' = slots \ S
    /\ UNCHANGED <<users, shut>>

Shut ==
    /\ ~shut /\ shut' = TRUE /\ slots' = {}
    /\ UNCHANGED users

Next ==
    \/ \E r \in Requests, k \in Keys : Enter(r, k) \/ Leave(r, k)
    \/ \E S \in SUBSET slots : Expire(S)
    \/ Shut

Spec == Init /\ [][Next]_vars
=============================================================================
