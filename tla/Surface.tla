------------------------------ MODULE Surface --------------------------------
(***************************************************************************)
(* Names and the merged listing: internal/aggregate/name.go and            *)
(* surface.go.                                                             *)
(*                                                                         *)
(* A name is a sequence of characters, because an identifier may itself    *)
(* contain the separator.  What a surface holds is the entries, as pairs   *)
(* of a backend and the backend's name; what the client sees of one is     *)
(* Qualify of the pair.  The order within a surface is left out.           *)
(***************************************************************************)
EXTENDS Naturals, FiniteSets, SequencesExt

CONSTANTS
    Lists,           \* what is asked of a backend, in this order
    MaxName,         \* MaxNameBytes
    DegradedTTL,     \* DegradedTTLMs
    DefaultTTL       \* DefaultTTLMs, of a result whose backend offered none

ASSUME ListsAssumption ==
    Lists \in Seq({"tools", "resources", "templates", "prompts"}) /\ "tools" \in ToSet(Lists)
ASSUME LifetimesAssumption == DegradedTTL \in Nat \ {0} /\ DefaultTTL \in Nat \ {0}

Separator == <<"_", "_">>

Qualify(id, name) == id \o Separator \o name

Owns(id, qualified) == IsStrictPrefix(id \o Separator, qualified)

\* Router.Route: the backend a name leads to, if any.  The ids are tried longest
\* first, and something has to be left for the backend's own name.
Route(ids, qualified) ==
    {id \in ids : /\ Owns(id, qualified)
                  /\ \A other \in ids : Owns(other, qualified) => Len(other) <= Len(id)}
OwnName(id, qualified) == SubSeq(qualified, Len(id) + 3, Len(qualified))

-----------------------------------------------------------------------------
(* Assemble, over a listing [failed, ttl, entries] of each backend, where  *)
(* entries holds the names of each list, as the backend gave them, and     *)
(* there is one ttl for all lists, as in the code.                         *)

NoListing == [failed |-> FALSE, ttl |-> 0, entries |-> [l \in ToSet(Lists) |-> <<>>]]

Answered(listings) == {id \in DOMAIN listings : ~listings[id].failed}
Unavailable(listings) == DOMAIN listings \ Answered(listings)

\* Resources are told apart by their URIs, which carry the backend.
Named == ToSet(Lists) \ {"resources"}

\* claim: every entry of a kind that goes by name, repetitions included.
Claims(listings) ==
    UNION {[id : {id}, kind : {l}, at : DOMAIN listings[id].entries[l]] :
             id \in Answered(listings), l \in Named}
NameOf(listings, c) == Qualify(c.id, listings[c.id].entries[c.kind][c.at])

\* Faulty: a name is only compared with its own backend's.
CollidesAtHome(listings) ==
    \E c, e \in Claims(listings) :
        c # e /\ c.kind = e.kind /\ c.id = e.id /\ NameOf(listings, c) = NameOf(listings, e)

Collides(listings) ==
    \E c, e \in Claims(listings) :
        c # e /\ c.kind = e.kind /\ NameOf(listings, c) = NameOf(listings, e)
TooLong(listings) == \E c \in Claims(listings) : Len(NameOf(listings, c)) > MaxName

Assembles(listings) == ~Collides(listings) /\ ~TooLong(listings)

Entries(listings, l) ==
    UNION {{<<id, name>> : name \in ToSet(listings[id].entries[l])} : id \in Answered(listings)}

\* normalizeCache on the way in, and cacheable on the way out.
Lifetime(ttl) == IF ttl > 0 THEN ttl ELSE DefaultTTL

\* The shortest offer, unless a backend is missing.
TTL(listings) ==
    LET offers == {listings[id].ttl : id \in Answered(listings)} \ {0}
    IN IF Unavailable(listings) # {} THEN DegradedTTL
       ELSE IF offers = {} THEN 0 ELSE Min(offers)
=============================================================================
