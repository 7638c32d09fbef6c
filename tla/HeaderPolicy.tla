---------------------------- MODULE HeaderPolicy -----------------------------
(***************************************************************************)
(* What one request's x-mcp-config header may do: internal/policy/         *)
(* policy.go, and the layering of internal/config/header.go.               *)
(*                                                                         *)
(* A scope is named by the mode it is for.  A field that a patch may leave *)
(* alone is a set of at most one element: "left alone" is not the same as  *)
(* "set to nothing".  Of an environment only who set a key is kept, of     *)
(* arguments and era only whether they are the deployment's.               *)
(***************************************************************************)
EXTENDS Naturals, FiniteSets, SequencesExt

CONSTANTS
    Commands,
    EnvKeys

Modes == <<"off", "env-only", "override-known", "define-new">>
Rank(mode) == CHOOSE i \in DOMAIN Modes : Modes[i] = mode
Scopes == {"env-only", "override-known", "define-new"}

\* Policy.Scopes: what the protected resource metadata offers.
OfferedScopes(d) == {s \in Scopes : Rank(s) <= Rank(d.mode)}

NoCommand == ""
OwnEnv == [k \in EnvKeys |-> "none"]
NewServer(id) == [id |-> id, command |-> NoCommand, args |-> "kept", era |-> "kept",
                   env |-> OwnEnv]

TouchesEnv(patch) == patch.env # {}
TouchesProcess(patch) ==
    patch.command # {} \/ patch.args # "kept" \/ patch.era # "kept"

IdsOf(servers) == {s.id : s \in ToSet(servers)}

\* What servers and patches can be, whose identifiers are among ids.
ArgsValues == {"kept", "replaced"}
Eras == {"kept", "replaced", "invalid"}
ServersOf(ids) ==
    [id : ids, command : Commands \cup {NoCommand}, args : ArgsValues, era : Eras,
     env : [EnvKeys -> {"none", "base", "header"}]]
DeployedOf(ids) ==
    [id : ids, command : Commands, args : {"kept"}, era : {"kept"},
     env : [EnvKeys -> {"none", "base"}]]
PatchesOf(ids) ==
    [id : ids, command : {c \in SUBSET Commands : Cardinality(c) <= 1},
     args : ArgsValues, era : Eras, env : {e \in SUBSET SUBSET EnvKeys : Cardinality(e) <= 1}]

-----------------------------------------------------------------------------
(* Before the header is applied.                                           *)

Needs(d, patch, mode) ==
    IF patch.id \notin IdsOf(d.servers) THEN mode = "define-new"
    ELSE \/ mode = "override-known" /\ TouchesProcess(patch)
         \/ mode = "env-only" /\ TouchesEnv(patch)
\* Every mode the header exercises, the lowest of them or not.
Demands(d, header) == {m \in Scopes : \E patch \in ToSet(header.servers) : Needs(d, patch, m)}

\* Faulty variants: the challenge names one scope at a time, and the scopes are
\* only looked at when the header goes beyond the environment.
FirstMissing(d, header, scopes) ==
    {m \in Demands(d, header) \ scopes :
        \A other \in Demands(d, header) \ scopes : Rank(m) <= Rank(other)}
HighMissing(d, header, scopes) == Demands(d, header) \ (scopes \cup {"env-only"})

Missing(d, header, scopes) == Demands(d, header) \ scopes

\* A header that touches nothing still asks for what the lowest mode permits.
AsksTooMuch(d, header) ==
    \E m \in Demands(d, header) \cup {"env-only"} : Rank(m) > Rank(d.mode)

CheckHeader(d, header, scopes) ==
    IF header.form = "none" THEN "ok"
    ELSE IF d.mode = "off" THEN "disabled"
    ELSE IF AsksTooMuch(d, header) THEN "privileges"
    ELSE IF Missing(d, header, scopes) # {} THEN "scopes"
    ELSE "ok"

-----------------------------------------------------------------------------
(* Applying the header to the deployment's servers.                        *)

Apply(server, patch) ==
    [server EXCEPT
        !.command = IF patch.command = {} THEN @ ELSE CHOOSE c \in patch.command : TRUE,
        !.args = IF patch.args = "kept" THEN @ ELSE patch.args,
        !.era = IF patch.era = "kept" THEN @ ELSE patch.era,
        !.env = [k \in EnvKeys |-> IF k \in UNION patch.env THEN "header" ELSE @[k]]]

\* A server the header defines is known to the patches after it.
Layer(servers, patch) ==
    IF patch.id \in IdsOf(servers)
    THEN [i \in DOMAIN servers |->
            IF servers[i].id = patch.id THEN Apply(servers[i], patch) ELSE servers[i]]
    ELSE Append(servers, Apply(NewServer(patch.id), patch))

Resolved(d, header) == FoldLeft(Layer, d.servers, header.servers)

\* Faulty: whatever the header made of the servers is taken for usable.
AnyServers(servers) == TRUE

Usable(servers) ==
    /\ \A s \in ToSet(servers) : s.command # NoCommand /\ s.era # "invalid"
    /\ \A i, j \in DOMAIN servers : servers[i].id = servers[j].id => i = j

\* Of the result every command is judged, of the header the keys it sets.
CheckResolved(d, servers, header) ==
    IF d.allow # {} /\ \E s \in ToSet(servers) : s.command \notin d.allow THEN "command"
    ELSE IF \E patch \in ToSet(header.servers) : (UNION patch.env) \cap d.deny # {} THEN "env key"
    ELSE "ok"

\* policy.New: deployments that start.
Starts(d) == d.mode = "define-new" => d.allow # {}
=============================================================================
