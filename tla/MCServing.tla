------------------------------ MODULE MCServing ------------------------------
(***************************************************************************)
(* Three families of settings for TLC: what a header may ask for, with a   *)
(* request that no backend answers; listings of backends whose names are   *)
(* told apart or are not, while another request calls one of them; and     *)
(* that other request on its own, in every form and with every end.        *)
(***************************************************************************)
EXTENDS Serving

CONSTANTS git, sh, TOKEN, PATH

MCCommands == {git, sh}
MCEnvKeys == {TOKEN, PATH}
MCCharacters == {"a", "b", "c", "f", "v", "x"} \cup ToSet(Separator) \cup Reserved \cup Bytes
MCLists == <<"tools", "resources">>
MCRevisions == {"old", "now"}
MCVersions == <<"now">>

A == <<"a">>
B == <<"b">>
AB == <<"a", "_", "_", "b">>
C == <<"c">>
BC == <<"b", "_", "_", "c">>
Long == <<"c", "c", "c", "c">>

Server(id, command) ==
    [id |-> id, command |-> command, args |-> "kept", era |-> "kept",
     env |-> [k \in EnvKeys |-> IF k = TOKEN THEN "base" ELSE "none"]]
NoOffer == [entries |-> [l \in ListSet |-> <<>>], ttl |-> [l \in ListSet |-> 0]]
MCBackends == {A, B, AB}
Quiet == [b \in MCBackends |-> NoOffer]
NoHeader == [form |-> "none", servers |-> <<>>]

Patches ==
    [id : {A, B}, command : {{}, {git}, {sh}}, args : {"kept", "replaced"}, era : {"kept"},
     env : {{}, {{}}, {{TOKEN}}}]
    \cup [id : {A}, command : {{}}, args : {"kept"}, era : {"replaced", "invalid"}, env : {{}}]
Headers ==
    {NoHeader, [form |-> "bad", servers |-> <<>>], [form |-> "read", servers |-> <<>>]}
    \cup [form : {"read"}, servers : {<<p>> : p \in Patches} \cup {<<p, q>> : p, q \in Patches}]
Deployments ==
    [servers : {<<Server(A, git)>>}, mode : {"off", "env-only", "override-known", "define-new"},
     allow : {{}, {git}}, deny : {{}, {TOKEN}}]

Judged ==
    [deployment : Deployments, header : Headers, token : {TRUE},
     scopes : {{}, {"define-new"}, {"override-known", "env-only"}},
     wants : {"discover"}, offers : {Quiet}, asks : {{}}]

Offer(names, ttl) == [NoOffer EXCEPT !.entries["tools"] = names, !.ttl["tools"] = ttl]
WithResources(offer, uris, ttl) ==
    [offer EXCEPT !.entries["resources"] = uris, !.ttl["resources"] = ttl]
Open(ids) ==
    [servers |-> [i \in DOMAIN ids |-> Server(ids[i], git)], mode |-> "off",
     allow |-> {}, deny |-> {}]
\* A client of the revision spoken here asks for an entry it has seen.
Plainly == [method |-> "call", header |-> "now", body |-> "now", speaks |-> "now", knew |-> "now"]
For(form, backend, entry, value, ends) ==
    [form |-> form, backend |-> backend, entry |-> entry, value |-> value, ends |-> ends]
Setting(ids, wants, offers, asks) ==
    [deployment |-> Open(ids), header |-> NoHeader, token |-> FALSE, scopes |-> {}, wants |-> wants,
     offers |-> [b \in MCBackends |-> IF b \in DOMAIN offers THEN offers[b] ELSE NoOffer],
     asks |-> asks]
Listing(ids, offers, asks) == Setting(ids, "listing", offers, asks)
Called(b, name) == {Plainly @@ For("name", b, name, <<>>, {"result"})}

Listed ==
    {Listing(<<A, B>>, A :> WithResources(Offer(<<C>>, 60000), <<C>>, 200)
                       @@ B :> Offer(<<C, BC>>, 1000), Called(B, C)),
     Listing(<<A, AB>>, A :> Offer(<<BC>>, 0) @@ AB :> Offer(<<C>>, 60000), Called(AB, C)),
     Listing(<<A, AB>>, A :> Offer(<<BC>>, 0) @@ AB :> Offer(<<Long>>, 60000), {}),
     Listing(<<A, AB>>, A :> Offer(<<C, C>>, 0) @@ AB :> Offer(<<>>, 0), {})}

\* Clients that know the handshake only, or name a revision badly or in one place.
Clients ==
    {Plainly}
    \cup [method : {"initialize"}, header : {"", "old"}, body : {""}, speaks : {"old"},
          knew : {"handshake"}]
    \cup [method : {"call"}, header : {"", "old", "now"}, body : {"", "old", "now"},
          speaks : {"old", "now"}, knew : {"now"}]
    \cup [method : {"removed"}, header : {"now"}, body : {"now"}, speaks : {"now"}, knew : {"now"}]
Ends == {"result", "missing", "refusal", "closed", "broken pipe"}

Encoded == <<"f", ":", "/", "/", "x", "%", "20", "?", "c", "#", " ">>
Template == <<"f", ":", "{", "v", "}", "/", "x">>
Slash == <<"a", "/", "b">>
Entities ==
    {For("name", b, n, <<>>, Ends) : b \in {A, AB}, n \in {<<>>, C, BC}}
    \cup {For("resource", b, u, <<>>, Ends) : b \in {A, B, Slash}, u \in {<<>>, C, Encoded}}
    \cup {For("template", A, t, v, Ends) :
            t \in {Template, <<"x", "{", "?", "v", "}">>, <<"x", "{", "#", "v", "}">>,
                   <<"{", "x">>, <<"{", "v", "}">>},
            v \in {<<>>, <<"c">>, <<"/">>}}
Dispatched ==
    {Setting(<<A, AB>>, "discover", <<>>, {c @@ e : c \in {Plainly}, e \in Entities}),
     Setting(<<A>>, "discover", <<>>, {c @@ For("name", A, C, <<>>, {"result"}) : c \in Clients})}

MCSettings == Judged \cup Listed \cup Dispatched
=============================================================================
