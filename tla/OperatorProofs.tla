--------------------------- MODULE OperatorProofs ---------------------------
(***************************************************************************)
(* What the operators of HeaderPolicy, Surface and Uri do, for every input:*)
(* patches are layered over servers, routing a name finds the identifier   *)
(* it was made with, encoding and wrapping a URI are undone, and wrapping  *)
(* a template commutes with expanding it.                                  *)
(*                                                                         *)
(* The operators are folds and flattenings of sequences.  Induction is     *)
(* obtained as a lemma, with a set in place of the property, from the      *)
(* well-foundedness of the finite subsets of a set.                        *)
(***************************************************************************)
EXTENDS HeaderPolicy, Surface, Uri, FiniteSetTheorems, SequenceTheorems, TLAPS

-----------------------------------------------------------------------------
(* Induction, over the numbers and over the sequences.                     *)

\* A set of numbers that is not empty has a least element: among the intervals 1..n
\* of its elements there is a minimal one.
LEMMA Least ==
  ASSUME NEW T \in SUBSET Nat, T # {}
  PROVE  \E n \in T : \A m \in T : n <= m
  <1> DEFINE U == {1..n : n \in T}
  <1>1. IsWellFoundedOn(StrictSubsetOrdering(Nat), FiniteSubsetsOf(Nat))
    BY FS_StrictSubsetOrderingWellFounded
  <1>2. ASSUME NEW n \in T PROVE 1..n \in FiniteSubsetsOf(Nat)
    <2>1. IsFiniteSet(1..n)
      BY FS_Interval
    <2>2. 1..n \in SUBSET Nat
      OBVIOUS
    <2>3. QED
      BY <2>1, <2>2 DEF FiniteSubsetsOf
  <1>3. PICK s \in U : \A t \in U : <<t, s>> \notin StrictSubsetOrdering(Nat)
    <2>1. U \subseteq FiniteSubsetsOf(Nat) /\ U # {}
      BY <1>2
    <2> HIDE DEF U
    <2>2. QED
      BY <1>1, <2>1, WFMin
  <1>4. PICK n \in T : s = 1..n
    BY <1>3
  <1>5. ASSUME NEW m \in T, m < n PROVE FALSE
    <2>1. 1..m \in SUBSET Nat /\ 1..n \in SUBSET Nat /\ 1..m \subseteq 1..n
      BY <1>5
    <2>2. n \in 1..n /\ n \notin 1..m
      BY <1>5
    <2>3. <<1..m, s>> \in StrictSubsetOrdering(Nat)
      BY <2>1, <2>2, <1>4 DEF StrictSubsetOrdering
    <2>4. QED
      BY <2>3, <1>3
  <1>6. QED
    BY <1>5

\* A set that has 0, and with each number the next, has every number.
LEMMA Induction ==
  ASSUME NEW S, 0 \in S, \A n \in Nat : n \in S => n + 1 \in S
  PROVE  Nat \subseteq S
  <1> SUFFICES ASSUME Nat \ S # {} PROVE FALSE
    OBVIOUS
  <1>1. PICK n \in Nat \ S : \A m \in Nat \ S : n <= m
    BY Least
  <1>2. n # 0 /\ n - 1 \in Nat /\ n = (n - 1) + 1 /\ ~(n <= n - 1)
    OBVIOUS
  <1>3. n - 1 \in S
    BY <1>1, <1>2
  <1>4. QED
    BY <1>2, <1>3

\* A set that has the empty sequence, and with each sequence its
\* extensions by one element, has every sequence.
LEMMA TextInduction ==
  ASSUME NEW Char, NEW S, <<>> \in S,
         \A t \in Seq(Char) : t \in S => \A c \in Char : Append(t, c) \in S
  PROVE  Seq(Char) \subseteq S
  <1> DEFINE N == {n \in Nat : \A t \in Seq(Char) : Len(t) = n => t \in S}
  <1>1. 0 \in N
    BY EmptySeq
  <1>2. ASSUME NEW n \in Nat, n \in N PROVE n + 1 \in N
    <2>1. ASSUME NEW t \in Seq(Char), Len(t) = n + 1 PROVE t \in S
      <3> DEFINE u == SubSeq(t, 1, n)
      <3>1. u \in Seq(Char) /\ Len(u) = n /\ t[n + 1] \in Char
        BY <2>1
      <3>2. t = Append(u, t[n + 1])
        BY <2>1
      <3>3. u \in S
        BY <1>2, <3>1
      <3> HIDE DEF u
      <3>4. QED
        BY <3>1, <3>2, <3>3
    <2>2. QED
      BY <2>1
  <1>3. Nat \subseteq N
    <2> HIDE DEF N
    <2>1. QED
      BY <1>1, <1>2, Induction
  <1>4. QED
    BY <1>3

\* The maximum, which the library chooses, of a set of numbers with a bound.
LEMMA MaxIsGreatest ==
  ASSUME NEW n \in Nat, NEW s \in SUBSET (1..n), s # {}
  PROVE  Max(s) \in s /\ \A m \in s : m <= Max(s)
  <1> DEFINE T == {n - m : m \in s}
  <1>1. T \in SUBSET Nat /\ T # {}
    <2>1. \A m \in s : n - m \in Nat
      OBVIOUS
    <2>2. QED
      BY <2>1
  <1>2. PICK k \in T : \A m \in T : k <= m
    BY <1>1, Least
  <1>3. PICK top \in s : k = n - top
    BY <1>2
  <1>4. \A m \in s : top >= m
    <2>1. ASSUME NEW m \in s PROVE top >= m
      <3>1. k <= n - m
        BY <1>2
      <3>2. m \in Int /\ top \in Int
        OBVIOUS
      <3>3. QED
        BY <3>1, <3>2, <1>3
    <2>2. QED
      BY <2>1
  <1>5. \E x \in s : \A y \in s : x >= y
    BY <1>4
  <1>6. Max(s) \in s /\ \A y \in s : Max(s) >= y
    <2> DEFINE M == CHOOSE x \in s : \A y \in s : x >= y
    <2>1. M \in s /\ \A y \in s : M >= y
      BY <1>5
    <2>2. Max(s) = M
      BY DEF Max
    <2> HIDE DEF M
    <2>3. QED
      BY <2>1, <2>2
  <1>7. QED
    BY <1>6

\* The minimum, which the library chooses, of a set of numbers.
LEMMA MinIsLeast ==
  ASSUME NEW T \in SUBSET Nat, T # {}
  PROVE  Min(T) \in T /\ \A m \in T : Min(T) <= m
  <1> DEFINE M == CHOOSE x \in T : \A y \in T : x =< y
  <1>1. M \in T /\ \A m \in T : M <= m
    <2>1. \E x \in T : \A y \in T : x =< y
      BY Least
    <2>2. QED
      BY <2>1
  <1>2. Min(T) = M
    BY DEF Min
  <1> HIDE DEF M
  <1>3. QED
    BY <1>1, <1>2

-----------------------------------------------------------------------------
(* Folds.                                                                  *)

\* The function that FoldLeft(Layer, base, patches) looks up, for n patches.
Folds(g, base, patches, n) ==
    g = [s \in SUBSET (1..n) |->
            IF s = {} THEN base ELSE Layer(g[s \ {Max(s)}], patches[Max(s)])]

\* The library's fold over a sequence is defined by recursion on its index; a
\* function that satisfies the recursion exists.
LEMMA FoldExists ==
  ASSUME NEW base, NEW patches, NEW n \in Nat
  PROVE  \E g : Folds(g, base, patches, n)
  <1> DEFINE N == {k \in Nat : \E g : Folds(g, base, patches, k)}
  <1>1. 0 \in N
    <2> DEFINE g == [s \in SUBSET (1..0) |-> base]
    <2>1. \A s \in SUBSET (1..0) : s = {}
      OBVIOUS
    <2>2. Folds(g, base, patches, 0)
      BY <2>1 DEF Folds
    <2>3. QED
      BY <2>2
  <1>2. ASSUME NEW k \in Nat, k \in N PROVE k + 1 \in N
    <2>1. PICK g : Folds(g, base, patches, k)
      BY <1>2
    <2> DEFINE h == [s \in SUBSET (1..(k + 1)) |->
                       IF k + 1 \in s THEN Layer(g[s \ {k + 1}], patches[k + 1]) ELSE g[s]]
               Value(s) == IF s = {} THEN base ELSE Layer(h[s \ {Max(s)}], patches[Max(s)])
    <2>2. ASSUME NEW s \in SUBSET (1..(k + 1)) PROVE h[s] = Value(s)
      <3>1. CASE k + 1 \in s
        <4>1. Max(s) \in s /\ k + 1 <= Max(s)
          BY <3>1, MaxIsGreatest, SMTT(30)
        <4>2. Max(s) = k + 1
          <5>1. Max(s) \in 1..(k + 1)
            BY <4>1
          <5>2. QED
            BY <5>1, <4>1
        <4>3. s \ {k + 1} \in SUBSET (1..(k + 1)) /\ k + 1 \notin s \ {k + 1}
          OBVIOUS
        <4>4. h[s \ {k + 1}] = g[s \ {k + 1}] /\ h[s] = Layer(g[s \ {k + 1}], patches[k + 1])
          BY <4>3, <3>1
        <4> HIDE DEF h
        <4>5. QED
          BY <4>2, <4>4, <3>1
      <3>2. CASE k + 1 \notin s
        <4>1. s \in SUBSET (1..k)
          BY <3>2
        <4>2. h[s] = g[s]
          BY <3>2
        <4>3. g[s] = IF s = {} THEN base ELSE Layer(g[s \ {Max(s)}], patches[Max(s)])
          BY <2>1, <4>1 DEF Folds
        <4>4. ASSUME s # {} PROVE h[s \ {Max(s)}] = g[s \ {Max(s)}]
          <5>1. s \ {Max(s)} \in SUBSET (1..(k + 1)) /\ k + 1 \notin s \ {Max(s)}
            BY <3>2
          <5>2. QED
            BY <5>1
        <4> HIDE DEF h
        <4>5. QED
          BY <4>2, <4>3, <4>4
      <3>3. QED
        BY <3>1, <3>2
    <2>3. h = [s \in SUBSET (1..(k + 1)) |-> Value(s)]
      <3>1. h = [s \in SUBSET (1..(k + 1)) |-> h[s]]
        OBVIOUS
      <3> HIDE DEF h
      <3>2. QED
        BY <3>1, <2>2
    <2>4. Folds(h, base, patches, k + 1)
      <3> HIDE DEF h
      <3>1. QED
        BY <2>3 DEF Folds
    <2>5. QED
      BY <2>4
  <1>3. Nat \subseteq N
    <2> HIDE DEF N
    <2>1. QED
      BY <1>1, <1>2, Induction
  <1>4. QED
    BY <1>3

\* What one layer keeps, a header of any length keeps.
LEMMA FoldKeeps ==
  ASSUME NEW S, NEW base \in S, NEW Patch, NEW patches \in Seq(Patch),
         \A s \in S, i \in DOMAIN patches : Layer(s, patches[i]) \in S
  PROVE  FoldLeft(Layer, base, patches) \in S
  <1> DEFINE n == Len(patches)
             Eqn(g) == Folds(g, base, patches, n)
             f == CHOOSE g : Eqn(g)
  <1>1. n \in Nat /\ DOMAIN patches = 1..n
    OBVIOUS
  <1>2. Eqn(f)
    <2>1. \E g : Eqn(g)
      BY <1>1, FoldExists
    <2> HIDE DEF Eqn
    <2>2. QED
      BY <2>1
  <1>3. FoldLeft(Layer, base, patches) = f[1..n]
    <2> HIDE DEF n
    <2>1. FoldLeft(Layer, base, patches) = f[DOMAIN patches]
      BY <1>1 DEF FoldLeft, MapThenFoldSet, Folds
    <2>2. QED
      BY <1>1, <2>1
  <1> HIDE DEF f, n
  <1> DEFINE K == {k \in Nat : k <= n => f[1..k] \in S}
  <1>4. 0 \in K
    BY <1>1, <1>2 DEF Folds
  <1>5. ASSUME NEW k \in Nat, k \in K PROVE k + 1 \in K
    <2> SUFFICES ASSUME k + 1 <= n PROVE f[1..(k + 1)] \in S
      OBVIOUS
    <2> DEFINE s == 1..(k + 1)
    <2>1. s \in SUBSET (1..n) /\ s # {} /\ k + 1 \in s
      BY <1>1
    <2>2. Max(s) \in s /\ k + 1 <= Max(s)
      BY <2>1, <1>1, MaxIsGreatest
    <2>3. Max(s) = k + 1
      BY <2>2
    <2>4. s \ {k + 1} = 1..k
      OBVIOUS
    <2> HIDE DEF s
    <2>5. f[s] = Layer(f[1..k], patches[k + 1])
      BY <2>1, <2>3, <2>4, <1>2 DEF Folds
    <2>6. f[1..k] \in S /\ k + 1 \in DOMAIN patches
      BY <1>1, <1>5
    <2>7. QED
      BY <2>5, <2>6 DEF s
  <1>6. Nat \subseteq K
    <2> HIDE DEF K
    <2>1. QED
      BY <1>4, <1>5, Induction
  <1>7. QED
    BY <1>1, <1>3, <1>6
-----------------------------------------------------------------------------
(* What a header makes of the deployment's servers.                        *)

\* The deployment's servers stay in their places, changed only where the header was
\* judged to change something; what comes after them the header was judged to define.
Layered(d, header, servers) ==
    /\ Len(d.servers) <= Len(servers)
    /\ \A i \in DOMAIN servers :
         /\ IF i <= Len(d.servers)
            THEN /\ servers[i].id = d.servers[i].id
                 /\ \/ servers[i].command # d.servers[i].command
                    \/ servers[i].args # d.servers[i].args
                    \/ servers[i].era # d.servers[i].era
                    => "override-known" \in Demands(d, header)
                 /\ servers[i].env # d.servers[i].env => "env-only" \in Demands(d, header)
            ELSE servers[i].id \notin IdsOf(d.servers) /\ "define-new" \in Demands(d, header)
         /\ \A k \in EnvKeys : servers[i].env[k] = "header" =>
              \E patch \in ToSet(header.servers) : k \in UNION patch.env

\* A patch makes a server of a server.
LEMMA ApplyIsServer ==
  ASSUME NEW ids, NEW server \in ServersOf(ids), NEW patch \in PatchesOf(ids)
  PROVE  /\ Apply(server, patch) \in ServersOf(ids)
         /\ Apply(server, patch).id = server.id
         /\ Apply(server, patch).command # server.command
             \/ Apply(server, patch).args # server.args
             \/ Apply(server, patch).era # server.era => TouchesProcess(patch)
         /\ Apply(server, patch).env # server.env => TouchesEnv(patch)
         /\ \A k \in EnvKeys : Apply(server, patch).env[k] = "header" =>
              k \in UNION patch.env \/ server.env[k] = "header"
  <1> DEFINE command == IF patch.command = {} THEN server.command
                        ELSE CHOOSE c \in patch.command : TRUE
             args == IF patch.args = "kept" THEN server.args ELSE patch.args
             era == IF patch.era = "kept" THEN server.era ELSE patch.era
             env == [k \in EnvKeys |-> IF k \in UNION patch.env THEN "header" ELSE server.env[k]]
  <1>1. server = [id |-> server.id, command |-> server.command, args |-> server.args,
                  era |-> server.era, env |-> server.env]
    BY DEF ServersOf
  <1>2. Apply(server, patch) = [id |-> server.id, command |-> command, args |-> args,
                                era |-> era, env |-> env]
    <2>1. Apply(server, patch) = [server EXCEPT !.command = command, !.args = args,
                                               !.era = era, !.env = env]
      BY DEF Apply
    <2> HIDE DEF command, args, era, env
    <2>2. QED
      BY <1>1, <2>1
  <1>3. command \in Commands \cup {NoCommand} /\ (command # server.command => patch.command # {})
    BY DEF ServersOf, PatchesOf
  <1>4. /\ args \in ArgsValues /\ (args # server.args => patch.args # "kept")
        /\ era \in Eras /\ (era # server.era => patch.era # "kept")
    BY DEF ServersOf, PatchesOf, ArgsValues, Eras
  <1>5. server.env \in [EnvKeys -> {"none", "base", "header"}]
    BY DEF ServersOf
  <1>6. env \in [EnvKeys -> {"none", "base", "header"}]
    BY <1>5
  <1>7. env # server.env => patch.env # {}
    <2>1. patch.env = {} => UNION patch.env = {}
      OBVIOUS
    <2>2. patch.env = {} => env = [k \in EnvKeys |-> server.env[k]]
      BY <2>1
    <2>3. QED
      BY <2>2, <1>5
  <1>8. \A k \in EnvKeys : env[k] = "header" => k \in UNION patch.env \/ server.env[k] = "header"
    OBVIOUS
  <1> HIDE DEF command, args, era, env
  <1>9. Apply(server, patch) \in ServersOf(ids)
    BY <1>2, <1>3, <1>4, <1>6 DEF ServersOf
  <1>10. QED
    BY <1>2, <1>3, <1>4, <1>7, <1>8, <1>9 DEF TouchesProcess, TouchesEnv

\* One patch, over whatever the patches before it have made.
LEMMA LayerKeeps ==
  ASSUME NEW ids, NEW d, NEW header, d.servers \in Seq(ServersOf(ids)),
         NEW servers \in Seq(ServersOf(ids)), Layered(d, header, servers),
         NEW patch \in PatchesOf(ids), patch \in ToSet(header.servers)
  PROVE  /\ Layer(servers, patch) \in Seq(ServersOf(ids))
         /\ Layered(d, header, Layer(servers, patch))
  <1> DEFINE result == Layer(servers, patch)
             Judged(i, s) ==
               /\ IF i <= Len(d.servers)
                  THEN /\ s.id = d.servers[i].id
                       /\ \/ s.command # d.servers[i].command
                          \/ s.args # d.servers[i].args
                          \/ s.era # d.servers[i].era
                          => "override-known" \in Demands(d, header)
                       /\ s.env # d.servers[i].env => "env-only" \in Demands(d, header)
                  ELSE s.id \notin IdsOf(d.servers) /\ "define-new" \in Demands(d, header)
               /\ \A k \in EnvKeys : s.env[k] = "header" =>
                    \E p \in ToSet(header.servers) : k \in UNION p.env
  <1>1. \A m \in Scopes : Needs(d, patch, m) => m \in Demands(d, header)
    BY DEF Demands
  <1>2. /\ patch.id \in IdsOf(d.servers) /\ TouchesProcess(patch)
              => "override-known" \in Demands(d, header)
        /\ patch.id \in IdsOf(d.servers) /\ TouchesEnv(patch) => "env-only" \in Demands(d, header)
        /\ patch.id \notin IdsOf(d.servers) => "define-new" \in Demands(d, header)
    BY <1>1 DEF Needs, Scopes
  <1>3. \A i \in DOMAIN servers : Judged(i, servers[i]) /\ servers[i] \in ServersOf(ids)
    BY DEF Layered
  <1>4. Len(d.servers) <= Len(servers) /\ Len(servers) \in Nat /\ Len(d.servers) \in Nat
        /\ DOMAIN servers = 1..Len(servers) /\ DOMAIN d.servers = 1..Len(d.servers)
    BY DEF Layered
  <1>5. \A i \in DOMAIN d.servers : d.servers[i].id \in IdsOf(d.servers)
    BY DEF IdsOf, ToSet
  <1>6. \A i \in DOMAIN servers : servers[i].id \in IdsOf(servers)
    BY DEF IdsOf, ToSet
  <1> HIDE DEF Judged
  <1>7. CASE patch.id \in IdsOf(servers)
    <2>1. result = [i \in DOMAIN servers |->
                      IF servers[i].id = patch.id THEN Apply(servers[i], patch) ELSE servers[i]]
      BY <1>7 DEF Layer
    <2>2. ASSUME NEW i \in DOMAIN servers
          PROVE  result[i] \in ServersOf(ids) /\ Judged(i, result[i])
      <3>1. CASE servers[i].id # patch.id
        BY <3>1, <2>1, <1>3
      <3>2. CASE servers[i].id = patch.id
        <4> DEFINE s == servers[i]
                   t == Apply(servers[i], patch)
        <4>1. result[i] = t /\ s \in ServersOf(ids) /\ Judged(i, s)
          BY <2>1, <3>2, <1>3
        <4>2. /\ t \in ServersOf(ids) /\ t.id = s.id
              /\ t.command # s.command \/ t.args # s.args \/ t.era # s.era => TouchesProcess(patch)
              /\ t.env # s.env => TouchesEnv(patch)
              /\ \A k \in EnvKeys : t.env[k] = "header" =>
                   k \in UNION patch.env \/ s.env[k] = "header"
          BY <4>1, ApplyIsServer
        <4>3. s.id = patch.id
          BY <3>2
        <4> HIDE DEF s, t
        <4>4. i <= Len(d.servers) => patch.id \in IdsOf(d.servers)
          <5>1. i <= Len(d.servers) => i \in DOMAIN d.servers
            BY <1>4
          <5>2. QED
            BY <5>1, <4>1, <4>3, <1>5 DEF Judged
        <4>5. Judged(i, t)
          <5>1. \A k \in EnvKeys : t.env[k] = "header" =>
                   \E p \in ToSet(header.servers) : k \in UNION p.env
            BY <4>1, <4>2 DEF Judged
          <5>2. CASE i <= Len(d.servers)
            BY <5>1, <5>2, <4>1, <4>2, <4>4, <1>2 DEF Judged
          <5>3. CASE ~(i <= Len(d.servers))
            BY <5>1, <5>3, <4>1, <4>2 DEF Judged
          <5>4. QED
            BY <5>2, <5>3
        <4>6. QED
          BY <4>1, <4>2, <4>5
      <3>3. QED
        BY <3>1, <3>2
    <2> HIDE DEF result
    <2>3. result \in Seq(ServersOf(ids)) /\ Len(result) = Len(servers)
          /\ DOMAIN result = DOMAIN servers
      BY <2>1, <2>2, <1>4
    <2>4. Layered(d, header, result)
      BY <2>2, <2>3, <1>4 DEF Layered, Judged
    <2>5. QED
      BY <2>3, <2>4 DEF result
  <1>8. CASE patch.id \notin IdsOf(servers)
    <2> DEFINE new == Apply(NewServer(patch.id), patch)
               n == Len(servers)
    <2>1. NewServer(patch.id) \in ServersOf(ids)
      BY DEF NewServer, ServersOf, PatchesOf, ArgsValues, Eras, OwnEnv
    <2>2. /\ new \in ServersOf(ids) /\ new.id = patch.id
          /\ \A k \in EnvKeys : new.env[k] = "header" => k \in UNION patch.env
      <3>1. NewServer(patch.id).id = patch.id
            /\ \A k \in EnvKeys : NewServer(patch.id).env[k] # "header"
        BY DEF NewServer, OwnEnv
      <3>2. QED
        BY <2>1, <3>1, ApplyIsServer
    <2>3. result = Append(servers, new)
      BY <1>8 DEF Layer
    <2> HIDE DEF new, result
    <2>4. /\ result \in Seq(ServersOf(ids)) /\ Len(result) = n + 1
          /\ DOMAIN result = 1..(n + 1)
          /\ \A i \in 1..n : result[i] = servers[i]
          /\ result[n + 1] = new
      BY <2>2, <2>3, <1>4
    <2>5. patch.id \notin IdsOf(d.servers)
      <3>1. ASSUME patch.id \in IdsOf(d.servers) PROVE FALSE
        <4>1. PICK i \in DOMAIN d.servers : d.servers[i].id = patch.id
          BY <3>1 DEF IdsOf, ToSet
        <4>2. i \in DOMAIN servers /\ i <= Len(d.servers)
          BY <1>4
        <4>3. servers[i].id = patch.id
          BY <4>1, <4>2, <1>3 DEF Judged
        <4>4. QED
          BY <4>2, <4>3, <1>6, <1>8
      <3>2. QED
        BY <3>1
    <2>6. Judged(n + 1, new)
      BY <2>2, <2>5, <1>2, <1>4 DEF Judged
    <2>7. \A i \in 1..(n + 1) : Judged(i, result[i])
      BY <2>4, <2>6, <1>3, <1>4
    <2>8. Layered(d, header, result)
      BY <2>4, <2>7, <1>4 DEF Layered, Judged
    <2>9. QED
      BY <2>4, <2>8 DEF result
  <1>9. QED
    BY <1>7, <1>8

\* Whatever the header, and however many patches it has for one server.
THEOREM ResolvedIsLayered ==
  ASSUME NEW ids, NEW d, NEW header, d.servers \in Seq(ServersOf(ids)),
         header.servers \in Seq(PatchesOf(ids)),
         \A i \in DOMAIN d.servers, k \in EnvKeys : d.servers[i].env[k] # "header"
  PROVE  /\ Resolved(d, header) \in Seq(ServersOf(ids))
         /\ Layered(d, header, Resolved(d, header))
  <1> DEFINE S == {s \in Seq(ServersOf(ids)) : Layered(d, header, s)}
  <1>1. d.servers \in S
    BY DEF Layered
  <1>2. ASSUME NEW s \in S, NEW i \in DOMAIN header.servers
        PROVE  Layer(s, header.servers[i]) \in S
    <2>1. header.servers[i] \in PatchesOf(ids) /\ header.servers[i] \in ToSet(header.servers)
      BY DEF ToSet
    <2>2. QED
      BY <2>1, LayerKeeps
  <1> HIDE DEF S
  <1>3. Resolved(d, header) \in S
    BY <1>1, <1>2, FoldKeeps DEF Resolved
  <1>4. QED
    BY <1>3 DEF S
-----------------------------------------------------------------------------
(* Texts that are put together from pieces.                                *)

\* The function that FlattenSeq looks up, for n pieces.
Flattens(f, pieces, n) ==
    f = [i \in 1..n |-> IF i = 1 THEN pieces[i] ELSE f[i - 1] \o pieces[i]]

\* A function that satisfies the recursion of FlattenSeq exists,
LEMMA FlattenExists ==
  ASSUME NEW pieces, NEW n \in Nat
  PROVE  \E f : Flattens(f, pieces, n)
  <1> DEFINE N == {k \in Nat : \E f : Flattens(f, pieces, k)}
  <1>1. 0 \in N
    <2>1. Flattens([i \in 1..0 |-> pieces[i]], pieces, 0)
      BY DEF Flattens
    <2>2. QED
      BY <2>1
  <1>2. ASSUME NEW k \in Nat, k \in N PROVE k + 1 \in N
    <2>1. PICK f : Flattens(f, pieces, k)
      BY <1>2
    <2> DEFINE Value(g, i) == IF i = 1 THEN pieces[i] ELSE g[i - 1] \o pieces[i]
               h == [i \in 1..(k + 1) |-> IF i = k + 1 THEN Value(f, i) ELSE f[i]]
    <2>2. ASSUME NEW i \in 1..(k + 1) PROVE h[i] = Value(h, i)
      <3>1. i # 1 => i - 1 \in 1..k /\ i - 1 \in 1..(k + 1) /\ i - 1 # k + 1
        OBVIOUS
      <3>2. i # 1 => h[i - 1] = f[i - 1]
        BY <3>1
      <3>3. Value(h, i) = Value(f, i)
        <4> HIDE DEF h
        <4>1. QED
          BY <3>2
      <3>4. i # k + 1 => i \in 1..k
        OBVIOUS
      <3>5. i # k + 1 => f[i] = Value(f, i)
        BY <3>4, <2>1 DEF Flattens
      <3>6. h[i] = Value(f, i)
        <4> HIDE DEF Value
        <4>1. QED
          BY <3>5
      <3>7. QED
        BY <3>3, <3>6
    <2>3. h = [i \in 1..(k + 1) |-> Value(h, i)]
      <3>1. h = [i \in 1..(k + 1) |-> h[i]]
        OBVIOUS
      <3> HIDE DEF h
      <3>2. QED
        BY <3>1, <2>2
    <2>4. Flattens(h, pieces, k + 1)
      <3> HIDE DEF h
      <3>1. QED
        BY <2>3 DEF Flattens
    <2>5. QED
      BY <2>4
  <1>3. Nat \subseteq N
    <2> HIDE DEF N
    <2>1. QED
      BY <1>1, <1>2, Induction
  <1>4. QED
    BY <1>3

\* and it is the one the library chooses.
LEMMA FlattenFound ==
  ASSUME NEW Char, NEW pieces \in Seq(Seq(Char)), pieces # <<>>
  PROVE  \E f : Flattens(f, pieces, Len(pieces)) /\ FlattenSeq(pieces) = f[Len(pieces)]
  <1> DEFINE Eqn(f) == Flattens(f, pieces, Len(pieces))
             g == CHOOSE f : Eqn(f)
  <1>1. Eqn(g)
    <2>1. \E f : Eqn(f)
      <3>1. Len(pieces) \in Nat
        OBVIOUS
      <3>2. QED
        BY <3>1, FlattenExists
    <2> HIDE DEF Eqn
    <2>2. QED
      BY <2>1
  <1>2. Len(pieces) # 0
    BY EmptySeq
  <1>3. FlattenSeq(pieces) = g[Len(pieces)]
    BY <1>2 DEF FlattenSeq, Flattens
  <1> HIDE DEF g
  <1>4. QED
    BY <1>1, <1>3

\* Two functions agree up to a number.
Agree(f, g, k) == \A i \in 1..k : f[i] = g[i]

\* Pieces that agree so far are put together alike so far.
LEMMA FlattenAgrees ==
  ASSUME NEW m \in Nat, NEW n \in Nat, NEW k \in Nat, k <= m, k <= n, NEW p, NEW q, NEW f, NEW g,
         Flattens(f, p, m), Flattens(g, q, n), Agree(p, q, k)
  PROVE  Agree(f, g, k)
  <1> DEFINE N == {j \in Nat : j \in 1..k => f[j] = g[j]}
  <1>1. 0 \in N
    OBVIOUS
  <1>2. ASSUME NEW j \in Nat, j \in N PROVE j + 1 \in N
    <2> SUFFICES ASSUME j + 1 \in 1..k PROVE f[j + 1] = g[j + 1]
      OBVIOUS
    <2>1. j + 1 \in 1..m /\ j + 1 \in 1..n /\ p[j + 1] = q[j + 1] /\ (j + 1) - 1 = j
      BY DEF Agree
    <2>2. /\ f[j + 1] = IF j + 1 = 1 THEN p[j + 1] ELSE f[(j + 1) - 1] \o p[j + 1]
          /\ g[j + 1] = IF j + 1 = 1 THEN q[j + 1] ELSE g[(j + 1) - 1] \o q[j + 1]
      BY <2>1 DEF Flattens
    <2>3. j + 1 # 1 => f[j] = g[j]
      BY <1>2
    <2>4. QED
      BY <2>1, <2>2, <2>3
  <1>3. Nat \subseteq N
    <2> HIDE DEF N
    <2>1. QED
      BY <1>1, <1>2, Induction
  <1>4. QED
    BY <1>3 DEF Agree

\* What texts are flattened to is a text.
LEMMA FlattenIsText ==
  ASSUME NEW Char, NEW pieces \in Seq(Seq(Char))
  PROVE  FlattenSeq(pieces) \in Seq(Char)
  <1>1. CASE pieces = <<>>
    BY <1>1 DEF FlattenSeq
  <1>2. CASE pieces # <<>>
    <2> DEFINE n == Len(pieces)
    <2>1. PICK f : Flattens(f, pieces, n) /\ FlattenSeq(pieces) = f[n]
      BY <1>2, FlattenFound
    <2>2. n \in Nat /\ n # 0
      BY <1>2, EmptySeq
    <2> DEFINE N == {j \in Nat : j \in 1..n => f[j] \in Seq(Char)}
    <2>3. 0 \in N
      OBVIOUS
    <2>4. ASSUME NEW j \in Nat, j \in N PROVE j + 1 \in N
      <3> SUFFICES ASSUME j + 1 \in 1..n PROVE f[j + 1] \in Seq(Char)
        OBVIOUS
      <3>1. f[j + 1] = IF j + 1 = 1 THEN pieces[j + 1] ELSE f[(j + 1) - 1] \o pieces[j + 1]
        BY <2>1 DEF Flattens
      <3>2. pieces[j + 1] \in Seq(Char) /\ (j + 1) - 1 = j
        OBVIOUS
      <3>3. j + 1 # 1 => f[j] \in Seq(Char)
        BY <2>4, <2>2
      <3>4. QED
        BY <3>1, <3>2, <3>3
    <2>5. Nat \subseteq N
      <3> HIDE DEF N
      <3>1. QED
        BY <2>3, <2>4, Induction
    <2>6. QED
      BY <2>1, <2>2, <2>5
  <1>3. QED
    BY <1>1, <1>2

\* One more piece comes last.
LEMMA FlattenAppend ==
  ASSUME NEW Char, NEW pieces \in Seq(Seq(Char)), NEW piece \in Seq(Char)
  PROVE  FlattenSeq(Append(pieces, piece)) = FlattenSeq(pieces) \o piece
  <1> DEFINE more == Append(pieces, piece)
             n == Len(pieces)
  <1>1. /\ more \in Seq(Seq(Char)) /\ more # <<>> /\ Len(more) = n + 1 /\ n \in Nat
        /\ more[n + 1] = piece /\ \A i \in 1..n : more[i] = pieces[i]
    <2>1. /\ more \in Seq(Seq(Char)) /\ Len(more) = n + 1 /\ n \in Nat
          /\ more[n + 1] = piece /\ \A i \in 1..n : more[i] = pieces[i]
      OBVIOUS
    <2> HIDE DEF more
    <2>2. QED
      BY <2>1, EmptySeq
  <1>2. PICK f : Flattens(f, more, n + 1) /\ FlattenSeq(more) = f[n + 1]
    <2> HIDE DEF more
    <2>1. QED
      BY <1>1, FlattenFound
  <1> HIDE DEF more
  <1>3. f[n + 1] = IF n + 1 = 1 THEN piece ELSE f[n] \o piece
    <2>1. n + 1 \in 1..(n + 1) /\ (n + 1) - 1 = n
      BY <1>1
    <2>2. QED
      BY <2>1, <1>1, <1>2 DEF Flattens
  <1>4. CASE pieces = <<>>
    <2>1. FlattenSeq(pieces) = <<>> /\ n = 0
      BY <1>4 DEF FlattenSeq
    <2>2. <<>> \o piece = piece
      OBVIOUS
    <2>3. QED
      BY <2>1, <2>2, <1>2, <1>3 DEF more
  <1>5. CASE pieces # <<>>
    <2>1. PICK g : Flattens(g, pieces, n) /\ FlattenSeq(pieces) = g[n]
      BY <1>5, FlattenFound
    <2>2. n # 0
      BY <1>5, EmptySeq
    <2>3. f[n] = g[n]
      <3>1. \A i \in 1..n : f[i] = g[i]
        <4>1. n <= n + 1 /\ n <= n /\ n + 1 \in Nat /\ n \in Nat
          BY <1>1
        <4>2. Agree(more, pieces, n)
          BY <1>1 DEF Agree
        <4>3. Flattens(f, more, n + 1) /\ Flattens(g, pieces, n)
          BY <1>2, <2>1
        <4> DEFINE top == n + 1
        <4>4. /\ top \in Nat /\ n \in Nat /\ n <= top /\ n <= n
              /\ Flattens(f, more, top) /\ Flattens(g, pieces, n)
          BY <4>1, <4>3
        <4> HIDE DEF n, top
        <4>5. Agree(f, g, n)
          BY <4>2, <4>4, FlattenAgrees
        <4>6. QED
          BY <4>5 DEF Agree
      <3>2. QED
        BY <3>1, <2>2, <1>1
    <2>4. QED
      BY <2>1, <2>2, <2>3, <1>1, <1>2, <1>3, SMTT(30) DEF more
  <1>6. QED
    BY <1>4, <1>5
-----------------------------------------------------------------------------
(* Names.                                                                  *)

\* A prefix is the other sequence's, place by place.
LEMMA PrefixPlaces ==
  ASSUME NEW Char, NEW s \in Seq(Char), NEW t \in Seq(Char), IsPrefix(s, t),
         NEW i \in 1..Len(s)
  PROVE  s[i] = t[i]
  <1>1. SubSeq(s, 1, Len(s)) = SubSeq(t, 1, Len(s)) /\ Len(s) <= Len(t)
    BY DEF IsPrefix
  <1>2. SubSeq(s, 1, Len(s))[i] = s[i] /\ SubSeq(t, 1, Len(s))[i] = t[i]
    BY <1>1
  <1>3. QED
    BY <1>1, <1>2

\* What is put before a name is its prefix, and what is left is the name.
LEMMA QualifiedIsOwned ==
  ASSUME NEW Char, Separator \in Seq(Char), NEW id \in Seq(Char), NEW name \in Seq(Char),
         name # <<>>
  PROVE  Owns(id, Qualify(id, name)) /\ OwnName(id, Qualify(id, name)) = name
  <1> DEFINE p == id \o Separator
             q == Qualify(id, name)
  <1>1. p \in Seq(Char) /\ Len(p) = Len(id) + 2
    <2>1. Len(Separator) = 2
      BY DEF Separator
    <2>2. p \in Seq(Char) /\ Len(p) = Len(id) + Len(Separator)
      BY ConcatProperties
    <2>3. QED
      BY <2>1, <2>2
  <1>2. q = p \o name
    BY DEF Qualify
  <1> HIDE DEF p, q
  <1>3. Len(name) \in Nat /\ Len(name) # 0 /\ Len(id) \in Nat
    BY EmptySeq
  <1>4. SubSeq(q, 1, Len(p)) = p /\ SubSeq(q, Len(p) + 1, Len(p) + Len(name)) = name
    BY <1>1, <1>2, SubSeqOfConcat1, SubSeqOfConcat2
  <1>5. Len(q) = Len(p) + Len(name)
    BY <1>1, <1>2, ConcatProperties
  <1>6. SubSeq(p, 1, Len(p)) = p
    BY <1>1, SubSeqFull
  <1> USE DEF p, q
  <1>7. Owns(id, q)
    <2> HIDE DEF p, q
    <2>1. IsPrefix(p, q)
      BY <1>1, <1>3, <1>4, <1>5, <1>6 DEF IsPrefix
    <2>2. p # q
      BY <1>1, <1>3, <1>5
    <2>3. QED
      BY <2>1, <2>2 DEF Owns, IsStrictPrefix, p
  <1>8. OwnName(id, q) = name
    <2>1. Len(id) + 3 = Len(p) + 1
      BY <1>1, <1>3
    <2>2. QED
      BY <2>1, <1>4, <1>5 DEF OwnName
  <1>9. QED
    BY <1>7, <1>8

\* Two identifiers of one length cannot both own a name.
LEMMA OneOwnerOfALength ==
  ASSUME NEW Char, Separator \in Seq(Char), NEW a \in Seq(Char), NEW b \in Seq(Char),
         NEW q \in Seq(Char), Owns(a, q), Owns(b, q), Len(a) = Len(b)
  PROVE  a = b
  <1> DEFINE Put(s) == s \o Separator
  <1>1. IsPrefix(Put(a), q) /\ IsPrefix(Put(b), q)
    BY DEF Owns, IsStrictPrefix
  <1>2. /\ Put(a) \in Seq(Char) /\ Len(Put(a)) = Len(a) + Len(Separator)
        /\ Put(b) \in Seq(Char) /\ Len(Put(b)) = Len(b) + Len(Separator)
    BY ConcatProperties
  <1>3. Len(a) \in Nat /\ Len(Separator) \in Nat
    OBVIOUS
  <1>4. ASSUME NEW i \in 1..Len(a)
        PROVE  a[i] = b[i]
    <2>1. i \in 1..Len(Put(a)) /\ i \in 1..Len(Put(b))
      BY <1>2, <1>3
    <2>2. Put(a)[i] = q[i] /\ Put(b)[i] = q[i]
      BY <2>1, <1>1, <1>2, PrefixPlaces
    <2>3. Put(a)[i] = a[i] /\ Put(b)[i] = b[i]
      <3>1. i \in 1..Len(a) + Len(Separator) /\ i <= Len(a)
        BY <1>3
      <3>2. QED
        BY <3>1, ConcatProperties
    <2>4. QED
      BY <2>2, <2>3
  <1>5. QED
    BY <1>4, SeqEqual

\* For any identifiers, separators in them or not: the name that the client sees for
\* a backend's name leads back to that backend and that name, and to nobody else,
\* unless a longer identifier owns it too.
THEOREM RouteInverts ==
  ASSUME NEW Char, Separator \in Seq(Char), NEW ids \in SUBSET Seq(Char), NEW id \in ids,
         NEW name \in Seq(Char), name # <<>>,
         \A longer \in ids : Owns(longer, Qualify(id, name)) => Len(longer) <= Len(id)
  PROVE  /\ Route(ids, Qualify(id, name)) = {id}
         /\ OwnName(id, Qualify(id, name)) = name
  <1> DEFINE q == Qualify(id, name)
  <1>1. q \in Seq(Char)
    <2>1. id \o Separator \in Seq(Char)
      BY ConcatProperties
    <2>2. QED
      BY <2>1, ConcatProperties DEF Qualify
  <1>2. Owns(id, q) /\ OwnName(id, q) = name
    BY QualifiedIsOwned
  <1>3. id \in Route(ids, q)
    BY <1>2 DEF Route
  <1>4. ASSUME NEW found \in Route(ids, q)
        PROVE  found = id
    <2>1. found \in ids /\ Owns(found, q) /\ Len(id) <= Len(found) /\ Len(found) <= Len(id)
      BY <1>2, <1>4 DEF Route
    <2>2. Len(found) = Len(id)
      BY <2>1
    <2>3. QED
      BY <2>1, <2>2, <1>1, <1>2, OneOwnerOfALength
  <1>5. QED
    BY <1>2, <1>3, <1>4

-----------------------------------------------------------------------------
(* Encoding, and decoding what was encoded.                                *)

\* What a character is encoded as, and what a position of an encoded text stands for.
Coded(char) == IF char \in Reserved THEN <<"%", ByteOf(char)>> ELSE <<char>>
Decoded(text, i) ==
    IF text[i] = "%" THEN <<CharOf(text[i + 1])>>
    ELSE IF i > 1 /\ text[i - 1] = "%" THEN <<>> ELSE <<text[i]>>

\* No two characters have the same byte, and no byte is a character that is encoded.
LEMMA CodesInvert ==
  /\ \A c \in Reserved : ByteOf(c) \in Bytes /\ CharOf(ByteOf(c)) = c
  /\ \A b \in Bytes : b \notin Reserved
  /\ "%" \in Reserved
  <1> DEFINE Pair(c, b) == <<c, b>> \in Codes
  <1>1. \A c, b : Pair(c, b) <=>
          \/ c = "/" /\ b = "2F"
          \/ c = ":" /\ b = "3A"
          \/ c = "?" /\ b = "3F"
          \/ c = "#" /\ b = "23"
          \/ c = "@" /\ b = "40"
          \/ c = "=" /\ b = "3D"
          \/ c = "%" /\ b = "25"
          \/ c = "{" /\ b = "7B"
          \/ c = "}" /\ b = "7D"
          \/ c = " " /\ b = "20"
    BY DEF Codes
  <1>2. ASSUME NEW p \in Codes PROVE p = <<p[1], p[2]>>
    <2>1. PICK c, b : p = <<c, b>>
      BY DEF Codes
    <2>2. QED
      BY <2>1
  <1>3. \A c : c \in Reserved <=> \E b : Pair(c, b)
    BY <1>2 DEF Reserved
  <1>4. \A b : b \in Bytes <=> \E c : Pair(c, b)
    BY <1>2 DEF Bytes
  <1>5. \A p \in Codes : Pair(p[1], p[2])
    BY <1>2
  <1> HIDE DEF Pair
  <1>6. \A c, b, d : Pair(c, b) /\ Pair(d, b) => c = d
    BY <1>1
  <1>7. \A c, b, d : Pair(c, b) /\ Pair(c, d) => b = d
    BY <1>1
  <1>8. \A c, b, d : Pair(c, b) => ~Pair(b, d)
    BY <1>1
  <1>9. ASSUME NEW c, NEW b, Pair(c, b) PROVE ByteOf(c) = b /\ CharOf(b) = c
    <2>1. <<c, b>> \in Codes
      BY <1>9 DEF Pair
    <2> DEFINE byC == CHOOSE p \in Codes : p[1] = c
               byB == CHOOSE p \in Codes : p[2] = b
    <2>2. byC \in Codes /\ byC[1] = c
      BY <2>1
    <2>3. byB \in Codes /\ byB[2] = b
      BY <2>1
    <2>4. ByteOf(c) = byC[2] /\ CharOf(b) = byB[1]
      BY DEF ByteOf, CharOf
    <2> HIDE DEF byC, byB
    <2>5. Pair(c, byC[2]) /\ Pair(byB[1], b)
      BY <2>2, <2>3, <1>5
    <2>6. QED
      BY <2>4, <2>5, <1>6, <1>7, <1>9
  <1>10. Pair("%", "25")
    BY <1>1
  <1>11. QED
    BY <1>3, <1>4, <1>8, <1>9, <1>10

\* Encoding goes character by character,
LEMMA EscapeAppend ==
  ASSUME NEW Char, Reserved \cup Bytes \subseteq Char, NEW t \in Seq(Char), NEW c \in Char
  PROVE  /\ Coded(c) \in Seq(Char)
         /\ Escape(t) \in Seq(Char)
         /\ Escape(Append(t, c)) = Escape(t) \o Coded(c)
  <1> DEFINE Pieces(u) == [i \in DOMAIN u |-> Coded(u[i])]
             v == Append(t, c)
  <1>1. \A d \in Char : Coded(d) \in Seq(Char)
    BY CodesInvert DEF Coded
  <1>2. ASSUME NEW u \in Seq(Char) PROVE Pieces(u) \in Seq(Seq(Char))
    <2>1. DOMAIN u = 1..Len(u) /\ Len(u) \in Nat /\ \A i \in DOMAIN u : u[i] \in Char
      OBVIOUS
    <2>2. \A i \in DOMAIN u : Coded(u[i]) \in Seq(Char)
      BY <2>1, <1>1
    <2>3. QED
      BY <2>1, <2>2
  <1>3. \A u : Escape(u) = FlattenSeq(Pieces(u))
    BY DEF Escape, Coded
  <1>4. Pieces(v) = Append(Pieces(t), Coded(c))
    OBVIOUS
  <1>5. Pieces(t) \in Seq(Seq(Char)) /\ Coded(c) \in Seq(Char)
    BY <1>1, <1>2
  <1> HIDE DEF Pieces
  <1>6. QED
    BY <1>3, <1>4, <1>5, FlattenAppend, FlattenIsText

\* and so does decoding, of what has been encoded.
LEMMA UnescapeAppend ==
  ASSUME NEW Char, Reserved \cup Bytes \subseteq Char, NEW e \in Seq(Char), Unescapes(e),
         NEW c \in Char
  PROVE  /\ Unescapes(e \o Coded(c))
         /\ Unescape(e \o Coded(c)) = Append(Unescape(e), c)
  <1> DEFINE Pieces(u) == [i \in DOMAIN u |-> Decoded(u, i)]
             n == Len(e)
  <1>1. \A u : Unescape(u) = FlattenSeq(Pieces(u))
    BY DEF Unescape, Decoded
  <1>2. n \in Nat /\ DOMAIN e = 1..n
    OBVIOUS
  <1>3. \A i \in 1..n : e[i] \in Char /\ (e[i] = "%" => i < n /\ e[i + 1] \in Bytes)
    BY DEF Unescapes
  <1>4. ASSUME NEW i \in 1..n PROVE Decoded(e, i) \in Seq(Char)
    <2>1. ASSUME NEW b \in Bytes PROVE CharOf(b) \in Char
      <3>1. PICK p \in Codes : p[2] = b
        BY DEF Bytes
      <3> DEFINE q == CHOOSE p2 \in Codes : p2[2] = b
      <3>2. q \in Codes
        BY <3>1
      <3>3. CharOf(b) = q[1]
        BY DEF CharOf
      <3> HIDE DEF q
      <3>4. CharOf(b) \in Reserved
        BY <3>2, <3>3 DEF Reserved
      <3>5. QED
        BY <3>4, CodesInvert
    <2>2. QED
      BY <2>1, <1>3 DEF Decoded
  <1>5. Pieces(e) \in Seq(Seq(Char))
    BY <1>4
  <1>6. CASE c \notin Reserved
    <2> DEFINE v == Append(e, c)
    <2>1. Coded(c) = <<c>> /\ c # "%"
      BY <1>6, CodesInvert DEF Coded
    <2>2. e \o Coded(c) = v
      BY <2>1
    <2>3. /\ DOMAIN v = 1..(n + 1) /\ Len(v) = n + 1 /\ v[n + 1] = c
          /\ \A i \in 1..n : v[i] = e[i]
      BY <1>2
    <2> HIDE DEF v, n
    <2>4. Unescapes(v)
      <3>1. \A i \in 1..n : e[i] = "%" => i + 1 \in 1..n /\ i < n + 1
        BY <1>2, <1>3
      <3>2. QED
        BY <2>1, <2>3, <1>2, <1>3, <3>1 DEF Unescapes
    <2>5. \A i \in 1..n : Decoded(v, i) = Decoded(e, i)
      <3>1. \A i \in 1..n : e[i] = "%" => i + 1 \in 1..n
        BY <1>2, <1>3
      <3>2. \A i \in 1..n : i > 1 => i - 1 \in 1..n
        BY <1>2
      <3>3. QED
        BY <2>3, <3>1, <3>2 DEF Decoded
    <2>6. Decoded(v, n + 1) = <<c>>
      <3>1. n + 1 > 1 => n \in 1..n /\ (n + 1) - 1 = n
        BY <1>2
      <3>2. n \in 1..n => e[n] # "%"
        BY <1>2, <1>3
      <3>3. QED
        BY <2>1, <2>3, <3>1, <3>2 DEF Decoded
    <2>7. Pieces(v) = Append(Pieces(e), <<c>>)
      BY <2>3, <2>5, <2>6, <1>2 DEF n
    <2>8. <<c>> \in Seq(Char)
      OBVIOUS
    <2> HIDE DEF Pieces
    <2>9. Unescape(v) = Unescape(e) \o <<c>> /\ Unescape(e) \in Seq(Char)
      BY <2>7, <2>8, <1>1, <1>5, FlattenAppend, FlattenIsText
    <2>10. QED
      BY <2>2, <2>4, <2>9
  <1>7. CASE c \in Reserved
    <2> DEFINE b == ByteOf(c)
               v == e \o <<"%", b>>
    <2>1. Coded(c) = <<"%", b>>
      BY <1>7 DEF Coded
    <2>2. b \in Bytes /\ b \in Char /\ CharOf(b) = c /\ b # "%"
      BY <1>7, CodesInvert
    <2> HIDE DEF b
    <2>3. /\ DOMAIN v = 1..(n + 2) /\ Len(v) = n + 2 /\ v[n + 1] = "%" /\ v[n + 2] = b
          /\ \A i \in 1..n : v[i] = e[i]
      BY <1>2, <2>2
    <2> HIDE DEF v, n
    <2>4. Unescapes(v)
      <3>1. \A i \in 1..n : e[i] = "%" => i + 1 \in 1..n /\ i < n + 2
        BY <1>2, <1>3
      <3>2. \A i \in 1..(n + 2) : i \in 1..n \/ i = n + 1 \/ i = n + 2
        BY <1>2
      <3>3. n + 1 < n + 2 /\ (n + 1) + 1 = n + 2
        BY <1>2
      <3>4. QED
        BY <2>2, <2>3, <1>2, <1>3, <3>1, <3>2, <3>3 DEF Unescapes
    <2>5. \A i \in 1..n : Decoded(v, i) = Decoded(e, i)
      <3>1. \A i \in 1..n : e[i] = "%" => i + 1 \in 1..n
        BY <1>2, <1>3
      <3>2. \A i \in 1..n : i > 1 => i - 1 \in 1..n
        BY <1>2
      <3>3. QED
        BY <2>3, <3>1, <3>2 DEF Decoded
    <2>6. Decoded(v, n + 1) = <<c>> /\ Decoded(v, n + 2) = <<>>
      <3>1. (n + 1) + 1 = n + 2 /\ (n + 2) - 1 = n + 1 /\ n + 2 > 1
        BY <1>2
      <3>2. QED
        BY <2>2, <2>3, <3>1 DEF Decoded
    <2>7. Pieces(v) = Append(Append(Pieces(e), <<c>>), <<>>)
      BY <2>3, <2>5, <2>6, <1>2 DEF n
    <2>8. <<c>> \in Seq(Char) /\ <<>> \in Seq(Char)
          /\ Append(Pieces(e), <<c>>) \in Seq(Seq(Char))
      BY <1>5
    <2> HIDE DEF Pieces
    <2>9. /\ Unescape(v) = FlattenSeq(Append(Pieces(e), <<c>>)) \o <<>>
          /\ FlattenSeq(Append(Pieces(e), <<c>>)) = Unescape(e) \o <<c>>
          /\ Unescape(e) \in Seq(Char)
      BY <2>7, <2>8, <1>1, <1>5, FlattenAppend, FlattenIsText
    <2>10. QED
      BY <2>1, <2>4, <2>9, SMTT(30) DEF v
  <1>8. QED
    BY <1>6, <1>7

\* What was encoded decodes to itself, and nothing is left in it that means anything
\* in a URI.
THEOREM EscapeInverts ==
  ASSUME NEW Char, Reserved \cup Bytes \subseteq Char, NEW text \in Seq(Char)
  PROVE  /\ Escape(text) \in Seq(Char)
         /\ Unescapes(Escape(text)) /\ Unescape(Escape(text)) = text
         /\ ToSet(Escape(text)) \cap Reserved \subseteq {"%"}
  <1> DEFINE S == {t \in Seq(Char) :
                     /\ Escape(t) \in Seq(Char)
                     /\ Unescapes(Escape(t)) /\ Unescape(Escape(t)) = t
                     /\ \A i \in DOMAIN Escape(t) :
                          Escape(t)[i] \in Reserved => Escape(t)[i] = "%"}
  <1>1. <<>> \in S
    <2>1. Escape(<<>>) = <<>> /\ Unescape(<<>>) = <<>>
      BY DEF Escape, Unescape, FlattenSeq
    <2>2. DOMAIN <<>> = {} /\ <<>> \in Seq(Char)
      OBVIOUS
    <2>3. Unescapes(<<>>)
      BY <2>2 DEF Unescapes
    <2>4. QED
      BY <2>1, <2>2, <2>3
  <1>2. ASSUME NEW t \in Seq(Char), t \in S, NEW c \in Char
        PROVE  Append(t, c) \in S
    <2> DEFINE e == Escape(t)
               f == e \o Coded(c)
    <2>1. /\ Escape(Append(t, c)) = f /\ e \in Seq(Char) /\ Coded(c) \in Seq(Char)
          /\ Append(t, c) \in Seq(Char)
      BY EscapeAppend
    <2>2. Unescapes(f) /\ Unescape(f) = Append(t, c)
      BY <1>2, UnescapeAppend
    <2>3. \A i \in DOMAIN Coded(c) : Coded(c)[i] \in Reserved => Coded(c)[i] = "%"
      BY CodesInvert DEF Coded
    <2>4. \A i \in DOMAIN e : e[i] \in Reserved => e[i] = "%"
      BY <1>2
    <2> HIDE DEF e
    <2>5. ASSUME NEW i \in DOMAIN f, f[i] \in Reserved PROVE f[i] = "%"
      <3>1. CASE i \in DOMAIN e
        BY <2>1, <2>4, <2>5, <3>1
      <3>2. CASE i \notin DOMAIN e
        <4> DEFINE j == i - Len(e)
        <4>1. j \in DOMAIN Coded(c) /\ f[i] = Coded(c)[j]
          BY <2>1, <3>2
        <4>2. QED
          BY <4>1, <2>3, <2>5
      <3>3. QED
        BY <3>1, <3>2
    <2> HIDE DEF f
    <2>6. f \in Seq(Char)
      BY <2>1 DEF f
    <2>7. QED
      BY <2>1, <2>2, <2>5, <2>6
  <1> HIDE DEF S
  <1>3. Seq(Char) \subseteq S
    BY <1>1, <1>2, TextInduction
  <1>4. QED
    BY <1>3 DEF S, ToSet
-----------------------------------------------------------------------------
(* Gateway URIs.                                                           *)

\* Before a character that does not occur comes all of the text,
LEMMA BeforeNone ==
  ASSUME NEW text, NEW char, char \notin ToSet(text)
  PROVE  Before(char, text) = text
  BY DEF Before, ToSet

\* and before one that does, what precedes its first occurrence.
LEMMA BeforeFirst ==
  ASSUME NEW Char, NEW a \in Seq(Char), NEW b \in Seq(Char), NEW char \in Char,
         char \notin ToSet(a)
  PROVE  Before(char, a \o <<char>> \o b) = a
  <1> DEFINE text == a \o <<char>> \o b
             at == {i \in DOMAIN text : text[i] = char}
             n == Len(a)
  <1>1. /\ n \in Nat /\ DOMAIN text = 1..Len(text) /\ Len(text) \in Nat
        /\ n + 1 \in DOMAIN text /\ text[n + 1] = char
        /\ \A i \in 1..n : text[i] = a[i] /\ i \in DOMAIN a
    OBVIOUS
  <1>2. SubSeq(text, 1, n) = a
    OBVIOUS
  <1>3. \A i \in 1..n : text[i] # char
    BY <1>1 DEF ToSet
  <1> HIDE DEF text, n
  <1>4. at \in SUBSET Nat /\ n + 1 \in at /\ \A i \in at : n + 1 <= i
    BY <1>1, <1>3
  <1> HIDE DEF at
  <1>5. Min(at) \in at /\ \A i \in at : Min(at) <= i
    BY <1>4, MinIsLeast
  <1>6. Min(at) = n + 1
    <2>1. Min(at) \in Nat /\ n + 1 \in Nat /\ n + 1 <= Min(at) /\ Min(at) <= n + 1
      BY <1>1, <1>4, <1>5
    <2>2. QED
      BY <2>1
  <1>7. Before(char, text) = SubSeq(text, 1, Min(at) - 1)
    BY <1>4 DEF Before, at
  <1>8. QED
    BY <1>1, <1>2, <1>6, <1>7 DEF text

\* A character in front leaves a text decodable.
LEMMA UnescapesAfter ==
  ASSUME NEW Char, NEW p \in Seq(Char), Unescapes(p), NEW char \in Char, char # "%"
  PROVE  Unescapes(<<char>> \o p)
  <1> DEFINE q == <<char>> \o p
             n == Len(p)
  <1>1. /\ n \in Nat /\ DOMAIN q = 1..(n + 1) /\ Len(q) = n + 1 /\ q[1] = char
        /\ DOMAIN p = 1..n /\ \A i \in 1..n : q[i + 1] = p[i]
    OBVIOUS
  <1>2. \A i \in 1..n : p[i] = "%" => i < n /\ p[i + 1] \in Bytes
    BY <1>1 DEF Unescapes
  <1> HIDE DEF q, n
  <1>3. ASSUME NEW i \in DOMAIN q, q[i] = "%" PROVE i < Len(q) /\ q[i + 1] \in Bytes
    <2>1. i # 1
      BY <1>1, <1>3
    <2> DEFINE j == i - 1
    <2>2. j \in 1..n /\ i = j + 1
      BY <1>1, <2>1
    <2> HIDE DEF j
    <2>3. p[j] = "%"
      BY <1>1, <1>3, <2>2
    <2>4. j < n /\ p[j + 1] \in Bytes
      BY <1>2, <2>2, <2>3
    <2>5. j + 1 \in 1..n
      BY <1>1, <2>2, <2>4
    <2>6. QED
      BY <1>1, <2>2, <2>4, <2>5
  <1>4. QED
    BY <1>3 DEF Unescapes, q

\* A host that url.Parse leaves alone, and a path that decodes: UnwrapURI takes both
\* apart where they were put together.
LEMMA UnwrapsPath ==
  ASSUME NEW Char, "/" \in Char, NEW id \in Seq(Char), id # <<>>, ToSet(id) \cap Reserved = {},
         NEW p \in Seq(Char), p # <<>>, Unescapes(p), ToSet(p) \cap {"?", "#"} = {}
  PROVE  UnwrapURI([scheme |-> Scheme, rest |-> id \o <<"/">> \o p])
           = {[backend |-> id, own |-> Unescape(p)]}
  <1> DEFINE rest == id \o <<"/">> \o p
             path == <<"/">> \o p
             uri == [scheme |-> Scheme, rest |-> rest]
  <1>1. {"/", ":", "?", "#", "@", "%", "{", "}", " "} \subseteq Reserved
    <2>1. \A c, b : <<c, b>> \in Codes => c \in Reserved
      BY DEF Reserved
    <2>2. /\ <<"/", "2F">> \in Codes /\ <<":", "3A">> \in Codes /\ <<"?", "3F">> \in Codes
          /\ <<"#", "23">> \in Codes /\ <<"@", "40">> \in Codes /\ <<"%", "25">> \in Codes
          /\ <<"{", "7B">> \in Codes /\ <<"}", "7D">> \in Codes /\ <<" ", "20">> \in Codes
      BY DEF Codes
    <2>3. QED
      BY <2>1, <2>2
  <1>2. /\ rest \in Seq(Char) /\ path \in Seq(Char) /\ Len(path) = Len(p) + 1
        /\ Len(p) \in Nat /\ Len(id) \in Nat /\ Len(rest) = Len(id) + Len(path)
        /\ Tail(path) = p /\ rest = id \o path
    <2>1. rest \in Seq(Char) /\ path \in Seq(Char) /\ Len(path) = Len(p) + 1
      OBVIOUS
    <2>2. Len(p) \in Nat /\ Len(id) \in Nat /\ Len(rest) = Len(id) + Len(path)
      OBVIOUS
    <2>3. Tail(path) = p
      OBVIOUS
    <2>4. rest = id \o path
      OBVIOUS
    <2>5. QED
      BY <2>1, <2>2, <2>3, <2>4
  <1>3. SubSeq(rest, Len(id) + 1, Len(rest)) = path
    OBVIOUS
  <1>4. ToSet(rest) \cap {"?", "#"} = {}
    <2>1. ASSUME NEW i \in DOMAIN rest PROVE rest[i] \notin {"?", "#"}
      <3>1. CASE i \in DOMAIN id
        <4>1. rest[i] = id[i]
          BY <3>1
        <4>2. QED
          BY <4>1, <3>1, <1>1 DEF ToSet
      <3>2. CASE i = Len(id) + 1
        <4>1. rest[i] = "/"
          BY <3>2
        <4>2. QED
          BY <4>1
      <3>3. CASE i > Len(id) + 1
        <4> DEFINE j == i - (Len(id) + 1)
        <4>1. j \in DOMAIN p /\ rest[i] = p[j]
          BY <3>3
        <4> HIDE DEF rest
        <4>2. QED
          BY <4>1 DEF ToSet
      <3>4. QED
        BY <3>1, <3>2, <3>3
    <2>2. QED
      BY <2>1 DEF ToSet
  <1>5. Before("/", rest) = id
    BY <1>1, BeforeFirst
  <1>6. Len(p) # 0
    BY EmptySeq
  <1>7. Unescapes(path)
    BY UnescapesAfter
  <1> HIDE DEF rest, path
  <1>8. Location(rest) = rest
    BY <1>4, BeforeNone DEF Location
  <1>9. Authority(rest) = id /\ Path(rest) = path
    BY <1>3, <1>5, <1>8 DEF Authority, Path, From
  <1>10. Host(id) = id /\ HostParses(id)
    <2>1. \A i \in DOMAIN id : id[i] \notin Reserved
      BY DEF ToSet
    <2>2. QED
      BY <1>1, <2>1 DEF Host, HostParses, ToSet
  <1>11. Unescapes(From("#", rest))
    <2>1. Before("#", rest) = rest
      BY <1>4, BeforeNone
    <2>2. From("#", rest) = SubSeq(rest, Len(rest) + 1, Len(rest))
      BY <2>1 DEF From
    <2>3. SubSeq(rest, Len(rest) + 1, Len(rest)) = <<>>
      BY <1>2
    <2>4. QED
      BY <2>2, <2>3 DEF Unescapes
  <1>12. uri.rest = rest /\ uri.scheme = Scheme
    OBVIOUS
  <1> HIDE DEF uri
  <1>13. IsGatewayURI(uri)
    <2>1. Len(path) > 1
      BY <1>2, <1>6
    <2>2. QED
      BY <2>1, <1>7, <1>9, <1>10, <1>11, <1>12 DEF IsGatewayURI
  <1>14. UnwrapURI(uri) = {[backend |-> id, own |-> Unescape(p)]}
    BY <1>2, <1>9, <1>10, <1>12, <1>13 DEF UnwrapURI
  <1>15. QED
    BY <1>14 DEF uri, rest

\* For identifiers that are hosts: the URI that the client sees for a backend's URI
\* leads back to that backend and to that URI.
THEOREM UnwrapInverts ==
  ASSUME NEW Char, Reserved \cup Bytes \subseteq Char,
         NEW id \in Seq(Char), id # <<>>, ToSet(id) \cap Reserved = {},
         NEW uri \in Seq(Char), uri # <<>>
  PROVE  UnwrapURI(WrapURI(id, uri)) = {[backend |-> id, own |-> uri]}
  <1> DEFINE p == Escape(uri)
  <1>1. /\ p \in Seq(Char) /\ Unescapes(p) /\ Unescape(p) = uri
        /\ ToSet(p) \cap Reserved \subseteq {"%"}
    BY EscapeInverts
  <1>2. p # <<>>
    <2>1. Unescape(<<>>) = <<>>
      BY DEF Unescape, FlattenSeq
    <2>2. QED
      BY <2>1, <1>1
  <1>3. "/" \in Reserved /\ "?" \in Reserved /\ "#" \in Reserved
    <2>1. \A c, b : <<c, b>> \in Codes => c \in Reserved
      BY DEF Reserved
    <2>2. <<"/", "2F">> \in Codes /\ <<"?", "3F">> \in Codes /\ <<"#", "23">> \in Codes
      BY DEF Codes
    <2>3. QED
      BY <2>1, <2>2
  <1>4. WrapURI(id, uri) = [scheme |-> Scheme, rest |-> id \o <<"/">> \o p]
    BY DEF WrapURI
  <1> HIDE DEF p
  <1>5. ToSet(p) \cap {"?", "#"} = {} /\ "/" \in Char
    BY <1>1, <1>3
  <1>6. QED
    BY <1>1, <1>2, <1>4, <1>5, UnwrapsPath

-----------------------------------------------------------------------------
(* Templates: what the client makes of a wrapped one.                     *)

\* Encoding two texts is encoding one after the other.
LEMMA EscapeConcat ==
  ASSUME NEW Char, Reserved \cup Bytes \subseteq Char, NEW a \in Seq(Char), NEW b \in Seq(Char)
  PROVE  Escape(a \o b) = Escape(a) \o Escape(b)
  <1> DEFINE S == {t \in Seq(Char) : Escape(a \o t) = Escape(a) \o Escape(t)}
  <1>1. Escape(a) \in Seq(Char)
    BY EscapeInverts
  <1>2. <<>> \in S
    <2>1. Escape(<<>>) = <<>>
      BY DEF Escape, FlattenSeq
    <2>2. a \o <<>> = a /\ Escape(a) \o <<>> = Escape(a)
      BY <1>1
    <2>3. <<>> \in Seq(Char)
      OBVIOUS
    <2>4. Escape(a \o <<>>) = Escape(a) \o Escape(<<>>)
      <3>1. Escape(a \o <<>>) = Escape(a)
        BY <2>2
      <3>2. QED
        BY <2>1, <2>2, <3>1
    <2>5. QED
      BY <2>3, <2>4
  <1>3. ASSUME NEW t \in Seq(Char), t \in S, NEW c \in Char PROVE Append(t, c) \in S
    <2>1. a \o Append(t, c) = Append(a \o t, c) /\ a \o t \in Seq(Char)
      OBVIOUS
    <2>2. Escape(Append(a \o t, c)) = Escape(a \o t) \o Coded(c)
      BY <2>1, EscapeAppend
    <2>3. /\ Escape(Append(t, c)) = Escape(t) \o Coded(c)
          /\ Coded(c) \in Seq(Char) /\ Escape(t) \in Seq(Char)
      BY EscapeAppend
    <2>4. (Escape(a) \o Escape(t)) \o Coded(c) = Escape(a) \o (Escape(t) \o Coded(c))
      BY <1>1, <2>3, SMTT(30)
    <2>5. Escape(a \o t) = Escape(a) \o Escape(t)
      BY <1>3
    <2>6. Escape(a \o Append(t, c)) = Escape(a) \o Escape(Append(t, c))
      BY <2>1, <2>2, <2>3, <2>4, <2>5
    <2>7. Append(t, c) \in Seq(Char)
      OBVIOUS
    <2>8. QED
      BY <2>6, <2>7
  <1> HIDE DEF S
  <1>4. Seq(Char) \subseteq S
    BY <1>2, <1>3, TextInduction
  <1>5. QED
    BY <1>4 DEF S

\* Nothing of a text without reserved characters is encoded.
LEMMA EscapePlain ==
  ASSUME NEW Char, Reserved \cup Bytes \subseteq Char, NEW text \in Seq(Char),
         ToSet(text) \cap Reserved = {}
  PROVE  Escape(text) = text
  <1> DEFINE S == {t \in Seq(Char) :
                     (\A i \in DOMAIN t : t[i] \notin Reserved) => Escape(t) = t}
  <1>1. <<>> \in S
    BY DEF Escape, FlattenSeq
  <1>2. ASSUME NEW t \in Seq(Char), t \in S, NEW c \in Char PROVE Append(t, c) \in S
    <2> DEFINE u == Append(t, c)
    <2>1. u \in Seq(Char) /\ \A i \in DOMAIN t : i \in DOMAIN u /\ u[i] = t[i]
      OBVIOUS
    <2>2. Len(u) \in DOMAIN u /\ u[Len(u)] = c
      OBVIOUS
    <2>3. Escape(u) = Escape(t) \o Coded(c)
      BY EscapeAppend
    <2>4. t \o <<c>> = u
      OBVIOUS
    <2> HIDE DEF u
    <2>5. ASSUME \A i \in DOMAIN u : u[i] \notin Reserved PROVE Escape(u) = u
      <3>1. Escape(t) = t
        BY <1>2, <2>1, <2>5
      <3>2. Coded(c) = <<c>>
        BY <2>2, <2>5 DEF Coded
      <3>3. QED
        BY <2>3, <2>4, <3>1, <3>2
    <2>6. u \in S
      BY <2>1, <2>5
    <2>7. QED
      BY <2>6 DEF u
  <1> HIDE DEF S
  <1>3. Seq(Char) \subseteq S
    BY <1>1, <1>2, TextInduction
  <1>4. QED
    BY <1>3 DEF S, ToSet

\* Encoding one character.
LEMMA EscapeOne ==
  ASSUME NEW Char, Reserved \cup Bytes \subseteq Char, NEW c \in Char
  PROVE  Escape(<<c>>) = Coded(c) /\ Coded(c) \in Seq(Char)
  <1>1. <<>> \in Seq(Char) /\ <<c>> = Append(<<>>, c)
    OBVIOUS
  <1>2. Escape(<<>>) = <<>>
    BY DEF Escape, FlattenSeq
  <1>3. Escape(<<c>>) = <<>> \o Coded(c) /\ Coded(c) \in Seq(Char)
    BY <1>1, <1>2, EscapeAppend
  <1>4. QED
    BY <1>3

\* Where each piece of a text begins.
Places(m, pieces) ==
    /\ m \in [1..(Len(pieces) + 1) -> Nat] /\ m[1] = 1
    /\ m[Len(pieces) + 1] = Len(FlattenSeq(pieces)) + 1
    /\ \A i \in 1..Len(pieces) : m[i + 1] = m[i] + Len(pieces[i])
    /\ \A i \in 1..Len(pieces) : \A k \in 1..Len(pieces[i]) :
         FlattenSeq(pieces)[m[i] + k - 1] = pieces[i][k]
    /\ \A j \in 1..Len(FlattenSeq(pieces)) : \E i \in 1..Len(pieces) : m[i] <= j /\ j < m[i + 1]
    /\ \A i, k \in 1..(Len(pieces) + 1) : i <= k => m[i] <= m[k]

\* Every piece of a flattened text has its place in it.
LEMMA PlacesExist ==
  ASSUME NEW Char, NEW pieces \in Seq(Seq(Char))
  PROVE  \E m : Places(m, pieces)
  <1> DEFINE S == {p \in Seq(Seq(Char)) : \E m : Places(m, p)}
  <1>1. <<>> \in S
    <2> DEFINE m == [i \in 1..1 |-> 1]
    <2>1. FlattenSeq(<<>>) = <<>>
      BY DEF FlattenSeq
    <2>2. Len(<<>>) = 0 /\ 1..0 = {} /\ 1..(0 + 1) = {1} /\ m \in [1..1 -> Nat] /\ m[1] = 1
      OBVIOUS
    <2> HIDE DEF m
    <2>3. Places(m, <<>>)
      BY <2>1, <2>2 DEF Places
    <2>4. QED
      BY <2>3
  <1>2. ASSUME NEW p \in Seq(Seq(Char)), p \in S, NEW piece \in Seq(Char)
        PROVE  Append(p, piece) \in S
    <2> DEFINE n == Len(p)
               r == Append(p, piece)
               f == FlattenSeq(p)
               g == FlattenSeq(r)
    <2>1. PICK m : Places(m, p)
      BY <1>2
    <2>2. n \in Nat /\ f \in Seq(Char) /\ r \in Seq(Seq(Char)) /\ Len(r) = n + 1 /\ r[n + 1] = piece
          /\ \A i \in 1..n : r[i] = p[i]
      BY FlattenIsText
    <2>3. g = f \o piece
      BY FlattenAppend
    <2> HIDE DEF r, f, g
    <2>4. /\ Len(f) \in Nat /\ Len(piece) \in Nat /\ Len(g) = Len(f) + Len(piece)
          /\ \A j \in 1..Len(f) : g[j] = f[j]
          /\ \A k \in 1..Len(piece) : g[Len(f) + k] = piece[k]
      BY <2>2, <2>3
    <2>5. /\ m \in [1..(n + 1) -> Nat] /\ m[1] = 1 /\ m[n + 1] = Len(f) + 1
          /\ \A i \in 1..n : m[i + 1] = m[i] + Len(p[i])
          /\ \A i \in 1..n : \A k \in 1..Len(p[i]) : f[m[i] + k - 1] = p[i][k]
          /\ \A j \in 1..Len(f) : \E i \in 1..n : m[i] <= j /\ j < m[i + 1]
          /\ \A i, k \in 1..(n + 1) : i <= k => m[i] <= m[k]
      BY <2>1 DEF Places, f
    <2> DEFINE w == [i \in 1..(n + 2) |-> IF i = n + 2 THEN Len(g) + 1 ELSE m[i]]
    <2> HIDE DEF n
    <2>6. w \in [1..(n + 2) -> Nat] /\ w[n + 2] = Len(g) + 1 /\ \A i \in 1..(n + 1) : w[i] = m[i]
      <3>1. n \in Nat
        BY <2>2
      <3>2. \A i \in 1..(n + 2) : i # n + 2 => i \in 1..(n + 1)
        BY <3>1
      <3>3. \A i \in 1..(n + 1) : i \in 1..(n + 2) /\ i # n + 2
        BY <3>1
      <3>4. n + 2 \in 1..(n + 2) /\ Len(g) + 1 \in Nat
        BY <2>2, <2>4
      <3>5. QED
        BY <2>5, <3>2, <3>3, <3>4
    <2> HIDE DEF w
    <2>7. w[1] = 1 /\ (n + 1) + 1 = n + 2
      BY <2>2, <2>5, <2>6
    <2>8. \A i \in 1..(n + 1) : w[i + 1] = w[i] + Len(r[i])
      <3>1. ASSUME NEW i \in 1..n PROVE w[i + 1] = w[i] + Len(r[i])
        <4>1. i \in 1..(n + 1) /\ i + 1 \in 1..(n + 1)
          BY <2>2
        <4>2. QED
          BY <4>1, <2>2, <2>5, <2>6
      <3>2. w[(n + 1) + 1] = w[n + 1] + Len(r[n + 1])
        <4>1. n + 1 \in 1..(n + 1)
          BY <2>2
        <4>2. QED
          BY <4>1, <2>2, <2>4, <2>5, <2>6, <2>7
      <3>3. \A i \in 1..(n + 1) : i \in 1..n \/ i = n + 1
        BY <2>2
      <3>4. QED
        BY <3>1, <3>2, <3>3
    <2>9. \A i \in 1..(n + 1) : \A k \in 1..Len(r[i]) : g[w[i] + k - 1] = r[i][k]
      <3>1. ASSUME NEW i \in 1..n, NEW k \in 1..Len(r[i]) PROVE g[w[i] + k - 1] = r[i][k]
        <4>1. i \in 1..(n + 1) /\ i + 1 \in 1..(n + 1) /\ n + 1 \in 1..(n + 1) /\ i + 1 <= n + 1
          BY <2>2
        <4>2. w[i] = m[i] /\ r[i] = p[i] /\ m[i + 1] = m[i] + Len(p[i]) /\ k \in 1..Len(p[i])
          BY <4>1, <2>2, <2>5, <2>6
        <4>3. f[m[i] + k - 1] = p[i][k]
          BY <4>2, <2>5
        <4>4. m[i] \in Nat /\ m[1] <= m[i]
          <5>1. 1 \in 1..(n + 1) /\ 1 <= i
            BY <4>1, <2>2
          <5>2. QED
            BY <4>1, <5>1, <2>5
        <4>5. m[i + 1] <= Len(f) + 1
          BY <4>1, <2>5
        <4>6. Len(p[i]) \in Nat
          BY <2>2
        <4>7. m[i] + k - 1 \in 1..Len(f)
          <5>1. Len(f) \in Nat /\ m[1] = 1
            BY <2>4, <2>5
          <5>2. QED
            BY <5>1, <4>2, <4>4, <4>5, <4>6, SMTT(30)
        <4>8. QED
          BY <4>2, <4>3, <4>7, <2>4
      <3>2. ASSUME NEW k \in 1..Len(r[n + 1]) PROVE g[w[n + 1] + k - 1] = r[n + 1][k]
        <4>1. w[n + 1] = Len(f) + 1 /\ k \in 1..Len(piece)
          BY <2>2, <2>5, <2>6, SMTT(30)
        <4>2. w[n + 1] + k - 1 = Len(f) + k
          BY <4>1, <2>4
        <4>3. QED
          BY <4>1, <4>2, <2>2, <2>4
      <3>3. \A i \in 1..(n + 1) : i \in 1..n \/ i = n + 1
        BY <2>2
      <3>4. QED
        BY <3>1, <3>2, <3>3
    <2>10. \A j \in 1..Len(g) : \E i \in 1..(n + 1) : w[i] <= j /\ j < w[i + 1]
      <3>1. ASSUME NEW j \in 1..Len(f) PROVE \E i \in 1..(n + 1) : w[i] <= j /\ j < w[i + 1]
        <4>1. PICK i \in 1..n : m[i] <= j /\ j < m[i + 1]
          BY <2>5
        <4>2. i \in 1..(n + 1) /\ i + 1 \in 1..(n + 1)
          BY <2>2
        <4>3. QED
          BY <4>1, <4>2, <2>6
      <3>2. ASSUME NEW j \in 1..Len(g), j \notin 1..Len(f) PROVE w[n + 1] <= j /\ j < w[(n + 1) + 1]
        <4>1. w[n + 1] = Len(f) + 1 /\ w[(n + 1) + 1] = Len(g) + 1
          BY <2>2, <2>5, <2>6, <2>7
        <4>2. QED
          BY <4>1, <3>2, <2>4
      <3>3. n + 1 \in 1..(n + 1)
        BY <2>2
      <3>4. QED
        BY <3>1, <3>2, <3>3
    <2>11. \A i, k \in 1..(n + 2) : i <= k => w[i] <= w[k]
      <3>1. ASSUME NEW i \in 1..(n + 1), NEW k \in 1..(n + 1), i <= k PROVE w[i] <= w[k]
        BY <3>1, <2>5, <2>6
      <3>2. ASSUME NEW i \in 1..(n + 1) PROVE w[i] <= w[n + 2]
        <4>1. n + 1 \in 1..(n + 1) /\ i <= n + 1
          BY <2>2
        <4>2. w[i] <= Len(f) + 1 /\ w[n + 2] = Len(g) + 1 /\ w[i] \in Nat
          BY <4>1, <2>5, <2>6
        <4>3. QED
          BY <4>2, <2>4
      <3>3. \A i \in 1..(n + 2) : i \in 1..(n + 1) \/ i = n + 2
        BY <2>2
      <3>4. w[n + 2] <= w[n + 2]
        BY <2>6, <2>4
      <3>5. \A i \in 1..(n + 1) : ~(n + 2 <= i)
        BY <2>2
      <3>6. QED
        BY <3>1, <3>2, <3>3, <3>4, <3>5
    <2>12. Places(w, r)
      BY <2>2, <2>6, <2>7, <2>8, <2>9, <2>10, <2>11 DEF Places, g
    <2>13. QED
      BY <2>2, <2>12 DEF r
  <1> HIDE DEF S
  <1>3. Seq(Seq(Char)) \subseteq S
    BY <1>1, <1>2, TextInduction
  <1>4. QED
    BY <1>3 DEF S

\* The positions that belong to an expression.
Insides(t) == {i \in 1..Len(t) : Inside(t, i)}

\* Which positions belong to an expression, of anything that has a length.
LEMMA InsideAre ==
  ASSUME NEW t, Len(t) \in Nat
  PROVE  \A i : i \in Insides(t) <=>
           /\ i \in 1..Len(t)
           /\ \E a \in 1..i : t[a] = "{" /\ \A k \in a..(i - 1) : t[k] # "}"
           /\ \E b \in i..Len(t) : t[b] = "}"
  BY DEF Insides, Inside

\* The map keeps the order of the positions.
Rising(pos) == \A i, k \in DOMAIN pos : i < k => pos[i] < pos[k]

\* A position of t is kept where it belongs to an expression, and no brace is there
\* that is not one of t's.
Keeps(t, r, pos) ==
    /\ Len(t) \in Nat /\ Len(r) \in Nat /\ pos \in [1..Len(t) -> 1..Len(r)]
    /\ Rising(pos)
    /\ \A i \in Insides(t) : r[pos[i]] = t[i]
    /\ \A j \in 1..Len(r) : r[j] \in {"{", "}"} => \E i \in Insides(t) : pos[i] = j

\* A rising map keeps the order both ways.
LEMMA RisingBack ==
  ASSUME NEW n \in Nat, NEW top \in Nat, NEW pos \in [1..n -> 1..top], Rising(pos),
         NEW i \in 1..n, NEW k \in 1..n
  PROVE  /\ i <= k => pos[i] <= pos[k]
         /\ pos[i] < pos[k] => i < k
         /\ pos[i] <= pos[k] => i <= k
         /\ i < k => pos[i] < pos[k]
  <1>1. pos[i] \in Nat /\ pos[k] \in Nat
    OBVIOUS
  <1>2. i < k => pos[i] < pos[k]
    BY DEF Rising
  <1>3. k < i => pos[k] < pos[i]
    BY DEF Rising
  <1>4. QED
    BY <1>1, <1>2, <1>3

\* The first of the positions from m on that has a character, if one has.
Has(t, c, m, n) == \E x \in m..n : t[x] = c
HasFirst(t, c, m, n) == \E b \in m..n : t[b] = c /\ \A k \in m..(b - 1) : t[k] # c

\* If a character occurs, it occurs for the first time somewhere.
LEMMA FirstPlace ==
  ASSUME NEW t, NEW c, NEW m \in Nat, NEW n \in Nat, Has(t, c, m, n)
  PROVE  HasFirst(t, c, m, n)
  <1>1. PICK x \in m..n : t[x] = c
    BY DEF Has
  <1> DEFINE S == {k \in m..n : t[k] = c}
  <1>2. \A k : k \in S <=> k \in m..n /\ t[k] = c
    OBVIOUS
  <1> HIDE DEF S
  <1>3. S \in SUBSET Nat /\ S # {}
    <2>1. \A k \in m..n : k \in Nat
      OBVIOUS
    <2>2. QED
      BY <1>1, <1>2, <2>1
  <1>4. PICK b \in S : \A k \in S : b <= k
    BY <1>3, Least
  <1>5. b \in m..n /\ t[b] = c
    BY <1>2, <1>4
  <1>6. ASSUME NEW k \in m..(b - 1), t[k] = c PROVE FALSE
    <2>1. k \in m..n /\ ~(b <= k)
      BY <1>5
    <2>2. QED
      BY <1>2, <1>4, <1>6, <2>1
  <1>7. QED
    BY <1>5, <1>6 DEF HasFirst

\* What begins an expression, and the first brace that ends it, belong to it.
LEMMA InsideEnds ==
  ASSUME NEW t, Len(t) \in Nat, NEW i \in Insides(t)
  PROVE  \E a \in Insides(t), b \in Insides(t) :
            /\ a <= i /\ i <= b /\ t[a] = "{" /\ t[b] = "}"
            /\ \A k \in a..(i - 1) : t[k] # "}"
  <1>1. i \in 1..Len(t)
    BY InsideAre
  <1>2. PICK a \in 1..i : t[a] = "{" /\ \A k \in a..(i - 1) : t[k] # "}"
    BY InsideAre
  <1>3. PICK b \in i..Len(t) : t[b] = "}" /\ \A k \in i..(b - 1) : t[k] # "}"
    <2>1. Has(t, "}", i, Len(t))
      BY InsideAre DEF Has
    <2>2. i \in Nat
      BY <1>1
    <2>3. HasFirst(t, "}", i, Len(t))
      BY <2>1, <2>2, FirstPlace, Zenon
    <2>4. QED
      BY <2>3 DEF HasFirst
  <1>4. /\ a \in Nat /\ b \in Nat /\ a <= i /\ i <= b /\ b <= Len(t) /\ 1 <= a
        /\ a \in 1..Len(t) /\ b \in 1..Len(t) /\ i \in Nat
    <2>1. a \in 1..i /\ b \in i..Len(t)
      BY <1>2, <1>3
    <2>2. QED
      BY <1>1, <2>1
  <1>5. \A k \in a..(b - 1) : t[k] # "}"
    <2>1. \A k \in a..(b - 1) : k \in a..(i - 1) \/ k \in i..(b - 1)
      BY <1>1, <1>4
    <2>2. QED
      BY <1>2, <1>3, <2>1
  <1>6. b \in Insides(t)
    <2>1. a \in 1..b /\ b \in b..Len(t)
      BY <1>4
    <2>2. QED
      BY <2>1, <1>2, <1>3, <1>4, <1>5, InsideAre
  <1>7. a \in Insides(t)
    <2>1. a \in 1..a /\ b \in a..Len(t) /\ \A k \in a..(a - 1) : FALSE
      BY <1>1, <1>4
    <2>2. QED
      BY <2>1, <1>2, <1>3, <1>4, InsideAre
  <1>8. QED
    BY <1>2, <1>3, <1>4, <1>6, <1>7

\* What belongs to an expression of t belongs to one of r.
LEMMA InsideKept ==
  ASSUME NEW t, NEW r, NEW pos, Keeps(t, r, pos), NEW i \in Insides(t)
  PROVE  pos[i] \in Insides(r)
  <1>1. /\ Len(t) \in Nat /\ Len(r) \in Nat /\ pos \in [1..Len(t) -> 1..Len(r)] /\ Rising(pos)
    BY DEF Keeps
  <1>2. PICK a \in Insides(t), b \in Insides(t) :
            /\ a <= i /\ i <= b /\ t[a] = "{" /\ t[b] = "}"
            /\ \A k \in a..(i - 1) : t[k] # "}"
    BY <1>1, InsideEnds
  <1>3. a \in 1..Len(t) /\ b \in 1..Len(t) /\ i \in 1..Len(t)
    BY <1>1, InsideAre
  <1>4. r[pos[a]] = "{" /\ r[pos[b]] = "}"
    BY <1>2 DEF Keeps
  <1>5. pos[a] \in 1..Len(r) /\ pos[b] \in 1..Len(r) /\ pos[i] \in 1..Len(r)
    BY <1>1, <1>3
  <1>6. pos[a] <= pos[i] /\ pos[i] <= pos[b]
    BY <1>1, <1>2, <1>3, RisingBack
  <1>7. pos[a] \in 1..pos[i] /\ pos[b] \in pos[i]..Len(r)
    BY <1>1, <1>5, <1>6
  <1>8. ASSUME NEW j \in pos[a]..(pos[i] - 1), r[j] = "}" PROVE FALSE
    <2>1. j \in 1..Len(r) /\ pos[a] <= j /\ j < pos[i]
      BY <1>1, <1>5
    <2>2. PICK x \in Insides(t) : pos[x] = j
      BY <1>8, <2>1 DEF Keeps
    <2>3. t[x] = "}"
      BY <1>8, <2>2 DEF Keeps
    <2>4. x \in 1..Len(t)
      BY <1>1, InsideAre
    <2>5. a <= x /\ x < i
      BY <1>1, <1>3, <2>1, <2>2, <2>4, RisingBack
    <2>6. x \in a..(i - 1)
      BY <1>1, <1>3, <2>4, <2>5
    <2>7. QED
      BY <1>2, <2>3, <2>6
  <1>9. QED
    BY <1>1, <1>4, <1>5, <1>7, <1>8, InsideAre

\* Whatever of r belongs to an expression is a position of t that does.
LEMMA InsideCame ==
  ASSUME NEW t, NEW r, NEW pos, Keeps(t, r, pos), NEW j \in Insides(r)
  PROVE  \E a \in 1..Len(t) :
            /\ pos[a] <= j
            /\ \A i \in 1..Len(t) : a <= i /\ pos[i] <= j => i \in Insides(t)
  <1>1. /\ Len(t) \in Nat /\ Len(r) \in Nat /\ pos \in [1..Len(t) -> 1..Len(r)] /\ Rising(pos)
        /\ j \in 1..Len(r)
    BY InsideAre DEF Keeps
  <1>2. PICK p \in 1..j : r[p] = "{" /\ \A k \in p..(j - 1) : r[k] # "}"
    BY <1>1, InsideAre
  <1>3. PICK q \in j..Len(r) : r[q] = "}"
    BY <1>1, InsideAre
  <1>4. p \in 1..Len(r) /\ q \in 1..Len(r) /\ p <= j /\ j <= q
    <2>1. p \in 1..j /\ q \in j..Len(r) /\ j \in 1..Len(r) /\ Len(r) \in Nat
      BY <1>1, <1>2, <1>3
    <2>2. QED
      BY <2>1
  <1>5. PICK a \in Insides(t) : pos[a] = p
    BY <1>2, <1>4 DEF Keeps
  <1>6. PICK b \in Insides(t) : pos[b] = q
    BY <1>3, <1>4 DEF Keeps
  <1>7. t[a] = "{" /\ t[b] = "}"
    BY <1>2, <1>3, <1>5, <1>6 DEF Keeps
  <1>8. a \in 1..Len(t) /\ b \in 1..Len(t)
    BY <1>1, InsideAre
  <1>9. ASSUME NEW i \in 1..Len(t), a <= i, pos[i] <= j PROVE i \in Insides(t)
    <2>1. pos[i] \in 1..Len(r)
      BY <1>1
    <2>2. pos[i] <= pos[b]
      BY <1>1, <1>4, <1>6, <1>9, <2>1
    <2>3. i <= b
      BY <1>1, <1>8, <2>2, RisingBack
    <2>4. ASSUME NEW k \in a..(i - 1), t[k] = "}" PROVE FALSE
      <3>1. a \in Nat /\ i - 1 \in Nat /\ i \in Nat
        BY <1>1, <1>8, <1>9
      <3>2. PICK x \in a..(i - 1) : t[x] = "}" /\ \A y \in a..(x - 1) : t[y] # "}"
        <4>1. Has(t, "}", a, i - 1)
          BY <2>4 DEF Has
        <4>2. HasFirst(t, "}", a, i - 1)
          BY <3>1, <4>1, FirstPlace, Zenon
        <4>3. QED
          BY <4>2 DEF HasFirst
      <3>3. x \in 1..Len(t) /\ x < i /\ a <= x /\ a \in 1..x /\ x \in x..Len(t)
        <4>1. x \in a..(i - 1)
          BY <3>2
        <4>2. QED
          BY <1>1, <1>8, <3>1, <4>1
      <3>4. x \in Insides(t)
        BY <1>1, <1>7, <3>2, <3>3, InsideAre
      <3>5. r[pos[x]] = "}"
        BY <3>2, <3>4 DEF Keeps
      <3>6. p <= pos[x] /\ pos[x] < pos[i] /\ pos[x] \in 1..Len(r)
        BY <1>1, <1>5, <1>8, <3>3, RisingBack
      <3>7. pos[x] \in p..(j - 1)
        BY <1>1, <1>4, <1>9, <2>1, <3>6
      <3>8. QED
        BY <1>2, <3>5, <3>7
    <2>5. b \in i..Len(t) /\ a \in 1..i
      BY <1>1, <1>8, <1>9, <2>3
    <2>6. QED
      BY <1>1, <1>7, <2>4, <2>5, InsideAre
  <1>10. pos[a] <= j
    BY <1>4, <1>5
  <1>11. QED
    BY <1>8, <1>9, <1>10

\* One more piece is flattened at the end.
LEMMA FlattenPrefix ==
  ASSUME NEW Char, NEW pieces \in Seq(Seq(Char)), NEW k \in Nat, k < Len(pieces)
  PROVE  /\ SubSeq(pieces, 1, k + 1) \in Seq(Seq(Char))
         /\ FlattenSeq(SubSeq(pieces, 1, k + 1)) = FlattenSeq(SubSeq(pieces, 1, k)) \o pieces[k + 1]
  <1> DEFINE p == SubSeq(pieces, 1, k)
             r == SubSeq(pieces, 1, k + 1)
             c == pieces[k + 1]
  <1>1. k + 1 \in DOMAIN pieces /\ k + 1 \in Nat
    OBVIOUS
  <1>2. p \in Seq(Seq(Char)) /\ r \in Seq(Seq(Char)) /\ c \in Seq(Char)
    BY <1>1
  <1>3. r = Append(p, c)
    BY <1>1
  <1> HIDE DEF p, r, c
  <1>4. FlattenSeq(r) = FlattenSeq(p) \o c
    BY <1>2, <1>3, FlattenAppend
  <1>5. QED
    BY <1>2, <1>4 DEF p, r, c

\* Concatenation, of three texts.
LEMMA Associative ==
  ASSUME NEW Char, NEW a \in Seq(Char), NEW b \in Seq(Char), NEW c \in Seq(Char)
  PROVE  (a \o b) \o c = a \o (b \o c) /\ a \o b \in Seq(Char)
  OBVIOUS

\* A text, cut into its characters, is a sequence of texts,
LEMMA SinglesAreTexts ==
  ASSUME NEW Char, NEW u \in Seq(Char)
  PROVE  [i \in DOMAIN u |-> <<u[i]>>] \in Seq(Seq(Char))
  <1> DEFINE f == [i \in 1..Len(u) |-> <<u[i]>>]
  <1>1. Len(u) \in Nat /\ DOMAIN u = 1..Len(u) /\ \A i \in 1..Len(u) : u[i] \in Char
    OBVIOUS
  <1>2. \A i \in 1..Len(u) : <<u[i]>> \in Seq(Char)
    BY <1>1
  <1> HIDE DEF f
  <1>3. \A i \in 1..Len(u) : f[i] \in Seq(Char)
    BY <1>2 DEF f
  <1>4. f \in [1..Len(u) -> Seq(Char)]
    BY <1>3 DEF f
  <1>5. f \in Seq(Seq(Char))
    BY <1>1, <1>4
  <1>6. QED
    BY <1>1, <1>5 DEF f

\* and flattened again it is the text.
LEMMA FlattenSingles ==
  ASSUME NEW Char, NEW t \in Seq(Char)
  PROVE  FlattenSeq([i \in DOMAIN t |-> <<t[i]>>]) = t
  <1> DEFINE Singles(u) == [i \in DOMAIN u |-> <<u[i]>>]
             S == {u \in Seq(Char) : FlattenSeq(Singles(u)) = u}
  <1>1. <<>> \in S
    <2>1. Singles(<<>>) = <<>> /\ <<>> \in Seq(Char)
      OBVIOUS
    <2>2. QED
      BY <2>1 DEF FlattenSeq
  <1>2. ASSUME NEW u \in Seq(Char), u \in S, NEW c \in Char PROVE Append(u, c) \in S
    <2>1. /\ Append(u, c) \in Seq(Char) /\ Append(u, c) = u \o <<c>>
          /\ Singles(u) \in Seq(Seq(Char)) /\ <<c>> \in Seq(Char)
      <3>1. \A d \in Char : <<d>> \in Seq(Char)
        OBVIOUS
      <3>2. Singles(u) \in Seq(Seq(Char))
        BY SinglesAreTexts
      <3>3. Append(u, c) \in Seq(Char) /\ Append(u, c) = u \o <<c>>
        OBVIOUS
      <3>4. QED
        BY <3>1, <3>2, <3>3
    <2>2. Singles(Append(u, c)) = Append(Singles(u), <<c>>)
      OBVIOUS
    <2> HIDE DEF Singles
    <2>3. FlattenSeq(Append(Singles(u), <<c>>)) = FlattenSeq(Singles(u)) \o <<c>>
      BY <2>1, FlattenAppend
    <2>4. QED
      BY <1>2, <2>1, <2>3, <2>2
  <1> HIDE DEF S
  <1>3. Seq(Char) \subseteq S
    BY <1>1, <1>2, TextInduction
  <1>4. QED
    BY <1>3 DEF S

\* The first pieces, flattened, and one piece more,
LEMMA OnePieceMore ==
  ASSUME NEW Char, NEW e \in Seq(Seq(Char)), NEW k \in Nat, k < Len(e), NEW u,
         FlattenSeq(SubSeq(e, 1, k)) = u
  PROVE  FlattenSeq(SubSeq(e, 1, k + 1)) = u \o e[k + 1]
  BY FlattenPrefix

\* or two.
LEMMA TwoPiecesMore ==
  ASSUME NEW Char, NEW e \in Seq(Seq(Char)), NEW k \in Nat, k + 1 < Len(e), NEW u \in Seq(Char)
  PROVE  FlattenSeq(SubSeq(e, 1, k)) = u =>
           FlattenSeq(SubSeq(e, 1, k + 2)) = u \o (e[k + 1] \o e[k + 2])
  <1> DEFINE l == k + 1
             b == e[k + 1]
             c == e[k + 2]
             v == u \o b
  <1>1. /\ l \in Nat /\ l < Len(e) /\ k < Len(e) /\ l + 1 = k + 2 /\ Len(e) \in Nat
        /\ k + 1 \in DOMAIN e /\ k + 2 \in DOMAIN e
    OBVIOUS
  <1>2. b \in Seq(Char) /\ c \in Seq(Char)
    BY <1>1
  <1>3. v \o c = u \o (b \o c)
    <2> HIDE DEF b, c
    <2>1. \A aa, bb, cc \in Seq(Char) : (aa \o bb) \o cc = aa \o (bb \o cc)
      BY Associative, SMTT(30)
    <2>2. QED
      BY <1>2, <2>1
  <1>4. FlattenSeq(SubSeq(e, 1, k)) = u => FlattenSeq(SubSeq(e, 1, l)) = v
    BY <1>1, OnePieceMore
  <1> HIDE DEF l, v
  <1>5. FlattenSeq(SubSeq(e, 1, l)) = v => FlattenSeq(SubSeq(e, 1, l + 1)) = v \o e[l + 1]
    BY <1>1, OnePieceMore
  <1>6. QED
    BY <1>1, <1>3, <1>4, <1>5

\* e is pre and then, block by block, x encoded, where m says where blocks begin.
Blocks(pre, m, x, e) ==
    /\ m \in [1..(Len(x) + 1) -> Nat] /\ m[1] = 1
    /\ \A i, k \in 1..(Len(x) + 1) : i <= k => m[i] <= m[k]
    /\ Len(e) + 1 = Len(pre) + m[Len(x) + 1]
    /\ \A j \in 1..Len(pre) : e[j] = <<pre[j]>>
    /\ \A i \in 1..Len(x) :
         \/ m[i + 1] = m[i] + 1 /\ e[Len(pre) + m[i]] = Escape(x[i])
         \/ /\ m[i + 1] = m[i] + 2
            /\ e[Len(pre) + m[i]] \o e[Len(pre) + m[i] + 1] = Escape(x[i])

\* A text that is made up of blocks, each the encoding of one piece.
LEMMA Blockwise ==
  ASSUME NEW Char, Reserved \cup Bytes \subseteq Char, NEW pre \in Seq(Char),
         NEW x \in Seq(Seq(Char)), NEW e \in Seq(Seq(Char)), NEW m, Blocks(pre, m, x, e)
  PROVE  FlattenSeq(e) = pre \o Escape(FlattenSeq(x))
  <1> DEFINE n == Len(x)
             q == Len(pre)
             E(k) == FlattenSeq(SubSeq(e, 1, k))
             X(k) == FlattenSeq(SubSeq(x, 1, k))
             N == {i \in Nat : i <= n => E(q + m[i + 1] - 1) = pre \o Escape(X(i))}
  <1>1. q \in Nat /\ n \in Nat /\ Len(e) \in Nat
    OBVIOUS
  <1>2. ASSUME NEW i \in 0..n
        PROVE  /\ m[i + 1] \in Nat /\ m[i + 1] >= 1 /\ q + m[i + 1] - 1 <= Len(e)
               /\ i + 1 \in 1..(n + 1)
    <2>1. /\ i + 1 \in 1..(n + 1) /\ 1 \in 1..(n + 1) /\ n + 1 \in 1..(n + 1)
          /\ 1 <= i + 1 /\ i + 1 <= n + 1
      BY <1>1
    <2>2. /\ m[i + 1] \in Nat /\ m[n + 1] \in Nat /\ m[1] <= m[i + 1] /\ m[i + 1] <= m[n + 1]
          /\ m[1] = 1 /\ Len(e) + 1 = q + m[n + 1]
      BY <2>1 DEF Blocks
    <2>3. QED
      BY <1>1, <2>1, <2>2
  <1>3. 0 \in N
    <2>1. X(0) = <<>>
      BY DEF FlattenSeq
    <2>2. Escape(<<>>) = <<>>
      BY DEF Escape, FlattenSeq
    <2>3. pre \o <<>> = pre
      OBVIOUS
    <2>4. 0 \in 0..n /\ 0 + 1 = 1 /\ m[1] = 1 /\ q + 1 - 1 = q
      BY <1>1 DEF Blocks
    <2>5. q <= Len(e)
      BY <1>1, <1>2, <2>4
    <2>6. \A j \in 1..q : e[j] = <<pre[j]>>
      BY DEF Blocks
    <2>7. SubSeq(e, 1, q) = [j \in DOMAIN pre |-> <<pre[j]>>]
      <3>1. SubSeq(e, 1, q) = [j \in 1..q |-> e[j]]
        BY <1>1, <2>5
      <3>2. DOMAIN pre = 1..q
        OBVIOUS
      <3> HIDE DEF q
      <3>3. QED
        BY <3>1, <3>2, <2>6
    <2>8. E(q) = pre
      BY <2>7, FlattenSingles
    <2> HIDE DEF E, X, q, n
    <2>9. E(q + m[0 + 1] - 1) = pre \o Escape(X(0))
      BY <2>1, <2>2, <2>3, <2>4, <2>8
    <2>10. QED
      BY <2>9
  <1>4. ASSUME NEW i \in Nat, i \in N PROVE i + 1 \in N
    <2> SUFFICES ASSUME i + 1 <= n PROVE E(q + m[(i + 1) + 1] - 1) = pre \o Escape(X(i + 1))
      OBVIOUS
    <2> DEFINE k == q + m[i + 1] - 1
               u == pre \o Escape(X(i))
               w == Escape(x[i + 1])
    <2>1. i \in 0..n /\ i + 1 \in 0..n /\ i + 1 \in 1..n /\ i < n
      BY <1>1
    <2>2. /\ m[i + 1] \in Nat /\ m[i + 1] >= 1 /\ m[(i + 1) + 1] \in Nat
          /\ q + m[(i + 1) + 1] - 1 <= Len(e)
      BY <1>2, <2>1
    <2>3. k \in Nat /\ k + 1 = q + m[i + 1] /\ k + 2 = q + m[i + 1] + 1
      <3> DEFINE z == m[i + 1]
      <3>1. z \in Nat /\ z >= 1
        BY <2>2
      <3> HIDE DEF z, q
      <3>2. q + z - 1 \in Nat /\ (q + z - 1) + 1 = q + z /\ (q + z - 1) + 2 = q + z + 1
        BY <1>1, <3>1
      <3>3. QED
        BY <3>2 DEF z
    <2>4. E(k) = u
      BY <1>4, <2>1
    <2>5. X(i) \in Seq(Char) /\ x[i + 1] \in Seq(Char) /\ X(i + 1) = X(i) \o x[i + 1]
      <3>1. SubSeq(x, 1, i) \in Seq(Seq(Char)) /\ x[i + 1] \in Seq(Char)
        BY <2>1
      <3>2. QED
        BY <2>1, <3>1, FlattenIsText, FlattenPrefix
    <2>6. Escape(X(i)) \in Seq(Char) /\ w \in Seq(Char) /\ Escape(X(i + 1)) = Escape(X(i)) \o w
      BY <2>5, EscapeConcat, EscapeInverts
    <2>7. u \in Seq(Char) /\ u \o w = pre \o Escape(X(i + 1))
      <3> DEFINE b == Escape(X(i))
      <3>1. b \in Seq(Char) /\ w \in Seq(Char) /\ Escape(X(i + 1)) = b \o w
        BY <2>6
      <3> HIDE DEF b, w
      <3>2. \A aa, bb, cc \in Seq(Char) :
              (aa \o bb) \o cc = aa \o (bb \o cc) /\ aa \o bb \in Seq(Char)
        BY Associative
      <3>3. pre \o b \in Seq(Char) /\ (pre \o b) \o w = pre \o (b \o w)
        BY <3>1, <3>2
      <3>4. QED
        BY <3>1, <3>3 DEF b
    <2>8. \/ m[(i + 1) + 1] = m[i + 1] + 1 /\ e[q + m[i + 1]] = w
          \/ m[(i + 1) + 1] = m[i + 1] + 2 /\ e[q + m[i + 1]] \o e[q + m[i + 1] + 1] = w
      BY <2>1 DEF Blocks
    <2> HIDE DEF u, w, X, N
    <2>9. CASE m[(i + 1) + 1] = m[i + 1] + 1 /\ e[q + m[i + 1]] = w
      <3>1. k < Len(e) /\ q + m[(i + 1) + 1] - 1 = k + 1
        <4> DEFINE z == m[i + 1]
                   y == m[(i + 1) + 1]
        <4>1. z \in Nat /\ y \in Nat /\ y = z + 1 /\ q + y - 1 <= Len(e)
          BY <2>2, <2>9
        <4> HIDE DEF z, y, q
        <4>2. q + z - 1 < Len(e) /\ q + y - 1 = (q + z - 1) + 1
          BY <1>1, <4>1
        <4>3. QED
          BY <4>2 DEF z, y
      <3>2. e[k + 1] = w
        BY <2>3, <2>9
      <3> HIDE DEF k
      <3>3. E(k + 1) = u \o w
        BY <2>3, <2>4, <3>1, <3>2, OnePieceMore
      <3>4. QED
        BY <2>7, <3>1, <3>3
    <2>10. CASE /\ m[(i + 1) + 1] = m[i + 1] + 2
                /\ e[q + m[i + 1]] \o e[q + m[i + 1] + 1] = w
      <3>1. k + 1 < Len(e) /\ q + m[(i + 1) + 1] - 1 = k + 2
        <4> DEFINE z == m[i + 1]
                   y == m[(i + 1) + 1]
        <4>1. z \in Nat /\ y \in Nat /\ y = z + 2 /\ q + y - 1 <= Len(e)
          BY <2>2, <2>10
        <4> HIDE DEF z, y, q
        <4>2. (q + z - 1) + 1 < Len(e) /\ q + y - 1 = (q + z - 1) + 2
          BY <1>1, <4>1
        <4>3. QED
          BY <4>2 DEF z, y
      <3>2. e[k + 1] \o e[k + 2] = w
        BY <2>3, <2>10
      <3> HIDE DEF k
      <3>3. E(k + 2) = u \o w
        BY <2>3, <2>4, <2>7, <3>1, <3>2, TwoPiecesMore
      <3>4. QED
        BY <2>7, <3>1, <3>3
    <2>11. QED
      BY <2>8, <2>9, <2>10
  <1>5. n \in N
    <2> HIDE DEF N
    <2>1. Nat \subseteq N
      BY <1>3, <1>4, Induction
    <2>2. QED
      BY <1>1, <2>1
  <1>6. q + m[n + 1] - 1 = Len(e)
    <2>1. m[n + 1] \in Nat /\ Len(e) + 1 = q + m[n + 1]
      <3>1. n \in 0..n
        BY <1>1
      <3>2. QED
        BY <3>1, <1>2 DEF Blocks
    <2>2. QED
      BY <1>1, <2>1
  <1>7. SubSeq(e, 1, Len(e)) = e /\ SubSeq(x, 1, n) = x
    OBVIOUS
  <1>8. E(q + m[n + 1] - 1) = pre \o Escape(X(n))
    <2> HIDE DEF E, X, q
    <2>1. n <= n
      BY <1>1
    <2>2. QED
      BY <1>5, <2>1
  <1>9. E(Len(e)) = pre \o Escape(X(n))
    <2> HIDE DEF E, X
    <2>1. QED
      BY <1>6, <1>8
  <1>10. QED
    BY <1>7, <1>9

\* The pieces a template is wrapped into, and what the client makes of each place.
Kept(t, i) == IF i \in Insides(t) THEN <<t[i]>> ELSE Coded(t[i])
Pieces(t) == [i \in DOMAIN t |-> Kept(t, i)]
ExpandedAt(t, v, i) ==
    IF i \notin Insides(t) THEN <<t[i]>>
    ELSE IF t[i] = "{" THEN Expansion(t[i + 1], v) ELSE <<>>

\* Wrapping a template, by its pieces.
LEMMA WrapForm ==
  ASSUME NEW Char, Reserved \cup Bytes \subseteq Char, NEW id, NEW t \in Seq(Char)
  PROVE  WrapURITemplate(id, t)
           = [scheme |-> Scheme, rest |-> (id \o <<"/">>) \o FlattenSeq(Pieces(t))]
  <1> DEFINE Of(i) == IF Inside(t, i) THEN <<t[i]>> ELSE Escape(<<t[i]>>)
  <1>1. DOMAIN t = 1..Len(t) /\ \A i \in DOMAIN t : t[i] \in Char
    OBVIOUS
  <1>2. \A i \in DOMAIN t : Inside(t, i) <=> i \in Insides(t)
    BY <1>1 DEF Insides
  <1>3. \A i \in DOMAIN t : Escape(<<t[i]>>) = Coded(t[i])
    BY <1>1, EscapeOne
  <1>4. \A i \in DOMAIN t : Of(i) = Kept(t, i)
    BY <1>2, <1>3, Zenon DEF Kept
  <1> HIDE DEF Of
  <1>5. [i \in DOMAIN t |-> Of(i)] = Pieces(t)
    BY <1>4, Zenon DEF Pieces
  <1>6. QED
    BY <1>5, Zenon DEF WrapURITemplate, Of

\* Expanding a template, by its places.
LEMMA ExpandForm ==
  ASSUME NEW Char, NEW t \in Seq(Char), NEW v
  PROVE  Expand(t, v) = FlattenSeq([i \in DOMAIN t |-> ExpandedAt(t, v, i)])
  <1> DEFINE Of(i) == IF ~Inside(t, i) THEN <<t[i]>>
                      ELSE IF t[i] = "{" THEN Expansion(t[i + 1], v) ELSE <<>>
  <1>1. DOMAIN t = 1..Len(t)
    OBVIOUS
  <1>2. \A i \in DOMAIN t : Inside(t, i) <=> i \in Insides(t)
    BY <1>1 DEF Insides
  <1>3. \A i \in DOMAIN t : Of(i) = ExpandedAt(t, v, i)
    BY <1>2, Zenon DEF ExpandedAt
  <1> HIDE DEF Of
  <1>4. [i \in DOMAIN t |-> Of(i)] = [i \in DOMAIN t |-> ExpandedAt(t, v, i)]
    BY <1>3, Zenon
  <1>5. QED
    BY <1>4, Zenon DEF Expand, Of

\* Each piece is the character, in an expression or not a brace, or its encoding,
\* in which there is no brace.
LEMMA KeptIs ==
  ASSUME NEW Char, Reserved \cup Bytes \subseteq Char, NEW t \in Seq(Char)
  PROVE  /\ Pieces(t) \in Seq(Seq(Char)) /\ Len(Pieces(t)) = Len(t)
         /\ \A i \in 1..Len(t) : Pieces(t)[i] = Kept(t, i)
         /\ \A i \in 1..Len(t) :
              \/ Kept(t, i) = <<t[i]>> /\ (i \in Insides(t) \/ t[i] \notin {"{", "}"})
              \/ /\ i \notin Insides(t) /\ Kept(t, i) = <<"%", ByteOf(t[i])>>
                 /\ ByteOf(t[i]) \notin {"{", "}"}
  <1>1. /\ DOMAIN t = 1..Len(t) /\ Len(t) \in Nat
        /\ \A i \in 1..Len(t) : t[i] \in Char /\ <<t[i]>> \in Seq(Char)
    <2>1. DOMAIN t = 1..Len(t) /\ Len(t) \in Nat /\ \A i \in 1..Len(t) : t[i] \in Char
      OBVIOUS
    <2>2. \A c \in Char : <<c>> \in Seq(Char)
      OBVIOUS
    <2>3. QED
      BY <2>1, <2>2
  <1>2. "{" \in Reserved /\ "}" \in Reserved
    <2>1. \A c, b : <<c, b>> \in Codes => c \in Reserved
      BY DEF Reserved
    <2>2. <<"{", "7B">> \in Codes /\ <<"}", "7D">> \in Codes
      BY DEF Codes
    <2>3. QED
      BY <2>1, <2>2
  <1>3. \A i \in 1..Len(t) :
           \/ Kept(t, i) = <<t[i]>> /\ (i \in Insides(t) \/ t[i] \notin {"{", "}"})
           \/ /\ i \notin Insides(t) /\ Kept(t, i) = <<"%", ByteOf(t[i])>>
              /\ ByteOf(t[i]) \notin {"{", "}"}
    <2>1. \A c \in Reserved : ByteOf(c) \notin {"{", "}"}
      BY <1>2, CodesInvert
    <2>2. QED
      BY <1>2, <2>1 DEF Kept, Coded
  <1>4. \A i \in 1..Len(t) : Kept(t, i) \in Seq(Char)
    <2>1. \A c \in Char : Coded(c) \in Seq(Char)
      BY EscapeOne
    <2>2. QED
      BY <1>1, <2>1 DEF Kept
  <1> DEFINE f == [i \in 1..Len(t) |-> Kept(t, i)]
  <1>5. f = Pieces(t)
    BY <1>1 DEF Pieces
  <1>6. f \in Seq(Seq(Char)) /\ Len(f) = Len(t)
    <2>1. f \in [1..Len(t) -> Seq(Char)]
      BY <1>4
    <2> HIDE DEF f
    <2>2. QED
      BY <1>1, <2>1
  <1>7. \A i \in 1..Len(t) : f[i] = Kept(t, i)
    OBVIOUS
  <1> HIDE DEF f
  <1>8. QED
    BY <1>3, <1>5, <1>6, <1>7

\* Where the wrapped template r keeps the characters of t.
Kind(t, r, m, q, i) ==
    /\ i \in Insides(t) => m[i + 1] = m[i] + 1 /\ r[q + m[i]] = t[i]
    /\ i \notin Insides(t) =>
         \/ m[i + 1] = m[i] + 1 /\ Coded(t[i]) = <<r[q + m[i]]>> /\ r[q + m[i]] \notin {"{", "}"}
         \/ /\ m[i + 1] = m[i] + 2 /\ Coded(t[i]) = <<r[q + m[i]], r[q + m[i] + 1]>>
            /\ {r[q + m[i]], r[q + m[i] + 1]} \cap {"{", "}"} = {}
Wraps(t, pre, m, r) ==
    /\ Len(pre) \in Nat /\ Len(t) \in Nat /\ Len(r) \in Nat
    /\ m \in [1..(Len(t) + 1) -> Nat] /\ m[1] = 1
    /\ \A i, k \in 1..(Len(t) + 1) : i <= k => m[i] <= m[k]
    /\ Len(r) + 1 = Len(pre) + m[Len(t) + 1]
    /\ \A j \in 1..Len(pre) : r[j] = pre[j]
    /\ \A j \in 1..Len(r) : j <= Len(pre) \/
         \E i \in 1..Len(t) : Len(pre) + m[i] <= j /\ j < Len(pre) + m[i + 1]
    /\ \A i \in 1..Len(t) : Kind(t, r, m, Len(pre), i)

\* A wrapped template is one that keeps the template, piece by piece.
LEMMA WrapsExist ==
  ASSUME NEW Char, Reserved \cup Bytes \subseteq Char, NEW t \in Seq(Char), NEW pre \in Seq(Char)
  PROVE  \E m : Wraps(t, pre, m, pre \o FlattenSeq(Pieces(t)))
  <1> DEFINE K == Pieces(t)
             n == Len(t)
             q == Len(pre)
             f == FlattenSeq(K)
             r == pre \o f
  <1>1. K \in Seq(Seq(Char)) /\ Len(K) = n /\ f \in Seq(Char)
    BY KeptIs, FlattenIsText
  <1>2. PICK m : Places(m, K)
    BY <1>1, PlacesExist
  <1> HIDE DEF K
  <1>3. n \in Nat /\ q \in Nat /\ Len(f) \in Nat /\ r \in Seq(Char)
    BY <1>1
  <1>4. /\ Len(r) = q + Len(f) /\ \A j \in 1..q : r[j] = pre[j]
        /\ \A j \in 1..Len(f) : r[q + j] = f[j]
    BY <1>1, <1>3
  <1>5. /\ m \in [1..(n + 1) -> Nat] /\ m[1] = 1 /\ m[n + 1] = Len(f) + 1
        /\ \A i \in 1..n : m[i + 1] = m[i] + Len(K[i])
        /\ \A i \in 1..n : \A k \in 1..Len(K[i]) : f[m[i] + k - 1] = K[i][k]
        /\ \A j \in 1..Len(f) : \E i \in 1..n : m[i] <= j /\ j < m[i + 1]
        /\ \A i, k \in 1..(n + 1) : i <= k => m[i] <= m[k]
    BY <1>1, <1>2 DEF Places
  <1> HIDE DEF f, r, q, n
  <1>6. Len(r) + 1 = q + m[n + 1]
    BY <1>3, <1>4, <1>5
  <1>7. ASSUME NEW j \in 1..Len(r), ~(j <= q)
        PROVE  \E i \in 1..n : q + m[i] <= j /\ j < q + m[i + 1]
    <2>1. j - q \in 1..Len(f)
      BY <1>3, <1>4, <1>7
    <2>2. PICK i \in 1..n : m[i] <= j - q /\ j - q < m[i + 1]
      BY <1>5, <2>1
    <2>3. m[i] \in Nat /\ m[i + 1] \in Nat
      <3>1. i \in 1..(n + 1) /\ i + 1 \in 1..(n + 1)
        BY <1>3
      <3>2. QED
        BY <3>1, <1>5
    <2>4. q + m[i] <= j /\ j < q + m[i + 1]
      BY <1>3, <2>2, <2>3
    <2>5. QED
      BY <2>4
  <1>8. ASSUME NEW i \in 1..n PROVE Kind(t, r, m, q, i)
    <2>1. i \in 1..(n + 1) /\ i + 1 \in 1..(n + 1) /\ n + 1 \in 1..(n + 1) /\ 1 \in 1..(n + 1)
          /\ 1 <= i /\ i + 1 <= n + 1
      BY <1>3
    <2>2. /\ m[i] \in Nat /\ m[i + 1] \in Nat /\ 1 <= m[i] /\ m[i + 1] <= Len(f) + 1
          /\ m[i + 1] = m[i] + Len(K[i])
      BY <2>1, <1>5
    <2>3. \A k \in 1..Len(K[i]) : f[m[i] + k - 1] = K[i][k]
      BY <1>5
    <2>4. K[i] = Kept(t, i)
      BY KeptIs DEF K, n
    <2>5. ASSUME NEW a, K[i] = <<a>> PROVE m[i + 1] = m[i] + 1 /\ r[q + m[i]] = a
      <3>1. Len(K[i]) = 1 /\ K[i][1] = a /\ 1 \in 1..1
        BY <2>5
      <3>2. m[i + 1] = m[i] + 1 /\ f[m[i] + 1 - 1] = a
        BY <2>2, <2>3, <3>1
      <3>3. m[i] + 1 - 1 = m[i] /\ m[i] \in 1..Len(f)
        BY <1>3, <2>2, <3>2
      <3>4. QED
        BY <1>4, <3>2, <3>3
    <2>6. ASSUME NEW a, NEW b, K[i] = <<a, b>>
          PROVE  m[i + 1] = m[i] + 2 /\ r[q + m[i]] = a /\ r[q + m[i] + 1] = b
      <3>1. Len(K[i]) = 2 /\ K[i][1] = a /\ K[i][2] = b /\ 1 \in 1..2 /\ 2 \in 1..2
        BY <2>6
      <3>2. m[i + 1] = m[i] + 2 /\ f[m[i] + 1 - 1] = a /\ f[m[i] + 2 - 1] = b
        BY <2>2, <2>3, <3>1
      <3>3. /\ m[i] + 1 - 1 = m[i] /\ m[i] + 2 - 1 = m[i] + 1 /\ m[i] \in 1..Len(f)
            /\ m[i] + 1 \in 1..Len(f) /\ q + (m[i] + 1) = q + m[i] + 1
        <4> DEFINE z == m[i]
                   y == m[i + 1]
        <4>1. z \in Nat /\ 1 <= z /\ y \in Nat /\ y <= Len(f) + 1 /\ y = z + 2
          BY <2>2, <3>2
        <4> HIDE DEF z, y
        <4>2. /\ z + 1 - 1 = z /\ z + 2 - 1 = z + 1 /\ z \in 1..Len(f)
              /\ z + 1 \in 1..Len(f) /\ q + (z + 1) = q + z + 1
          BY <1>3, <4>1
        <4>3. QED
          BY <4>2 DEF z
      <3>4. QED
        BY <1>4, <3>2, <3>3
    <2>7. \/ Kept(t, i) = <<t[i]>> /\ (i \in Insides(t) \/ t[i] \notin {"{", "}"})
          \/ /\ i \notin Insides(t) /\ Kept(t, i) = <<"%", ByteOf(t[i])>>
             /\ ByteOf(t[i]) \notin {"{", "}"}
      BY KeptIs DEF n
    <2>8. i \notin Insides(t) => Coded(t[i]) = K[i]
      BY <2>4 DEF Kept
    <2>9. CASE Kept(t, i) = <<t[i]>> /\ (i \in Insides(t) \/ t[i] \notin {"{", "}"})
      <3>1. m[i + 1] = m[i] + 1 /\ r[q + m[i]] = t[i]
        BY <2>4, <2>5, <2>9
      <3>2. i \notin Insides(t) => Coded(t[i]) = <<r[q + m[i]]>> /\ t[i] \notin {"{", "}"}
        BY <2>4, <2>8, <2>9, <3>1
      <3>3. QED
        BY <3>1, <3>2, Zenon DEF Kind
    <2>10. CASE /\ i \notin Insides(t) /\ Kept(t, i) = <<"%", ByteOf(t[i])>>
                /\ ByteOf(t[i]) \notin {"{", "}"}
      <3>1. m[i + 1] = m[i] + 2 /\ r[q + m[i]] = "%" /\ r[q + m[i] + 1] = ByteOf(t[i])
        BY <2>4, <2>6, <2>10
      <3>2. Coded(t[i]) = <<r[q + m[i]], r[q + m[i] + 1]>>
        BY <2>4, <2>8, <2>10, <3>1
      <3>3. {r[q + m[i]], r[q + m[i] + 1]} \cap {"{", "}"} = {}
        <4>1. "%" \notin {"{", "}"}
          OBVIOUS
        <4>2. QED
          BY <2>10, <3>1, <4>1
      <3>4. QED
        BY <2>10, <3>1, <3>2, <3>3, Zenon DEF Kind
    <2>11. QED
      BY <2>7, <2>9, <2>10
  <1>9. Wraps(t, pre, m, r)
    BY <1>3, <1>4, <1>5, <1>6, <1>7, <1>8 DEF Wraps, q, n
  <1>10. QED
    BY <1>9 DEF r, f, K

\* Each piece takes one place or two, of those there are.
LEMMA WrapSteps ==
  ASSUME NEW t, NEW pre, NEW m, NEW r, Wraps(t, pre, m, r), NEW i \in 1..Len(t)
  PROVE  /\ m[i] \in Nat /\ 1 <= m[i] /\ m[i + 1] \in Nat
         /\ m[i + 1] = m[i] + 1 \/ m[i + 1] = m[i] + 2
         /\ Len(pre) + m[i + 1] <= Len(r) + 1
         /\ Len(pre) + m[i] \in 1..Len(r)
         /\ i \in 1..(Len(t) + 1) /\ i + 1 \in 1..(Len(t) + 1)
  <1> DEFINE n == Len(t)
             q == Len(pre)
             top == Len(r)
  <1>1. /\ q \in Nat /\ n \in Nat /\ top \in Nat
        /\ m \in [1..(n + 1) -> Nat] /\ m[1] = 1
        /\ \A a, k \in 1..(n + 1) : a <= k => m[a] <= m[k]
        /\ top + 1 = q + m[n + 1]
        /\ i \in 1..n
    BY DEF Wraps
  <1>2. Kind(t, r, m, q, i)
    BY DEF Wraps
  <1>3. m[i + 1] = m[i] + 1 \/ m[i + 1] = m[i] + 2
    BY <1>2, Zenon DEF Kind
  <1> HIDE DEF n, q, top
  <1>4. i \in 1..(n + 1) /\ i + 1 \in 1..(n + 1) /\ n + 1 \in 1..(n + 1) /\ 1 \in 1..(n + 1)
        /\ 1 <= i /\ i + 1 <= n + 1
    BY <1>1
  <1>5. /\ m[i] \in Nat /\ m[i + 1] \in Nat /\ m[n + 1] \in Nat /\ 1 <= m[i]
        /\ m[i + 1] <= m[n + 1]
    BY <1>1, <1>4
  <1>6. q + m[i + 1] <= top + 1 /\ q + m[i] \in 1..top
    <2> DEFINE z == m[i]
               y == m[i + 1]
               w == m[n + 1]
    <2>1. /\ z \in Nat /\ y \in Nat /\ w \in Nat /\ 1 <= z /\ y <= w
          /\ y = z + 1 \/ y = z + 2
          /\ top + 1 = q + w
      BY <1>1, <1>3, <1>5
    <2> HIDE DEF z, y, w
    <2>2. q + y <= top + 1 /\ q + z \in 1..top
      BY <1>1, <2>1
    <2>3. QED
      BY <2>2 DEF y, z
  <1>7. QED
    BY <1>3, <1>4, <1>5, <1>6 DEF n, q, top

\* The place of each piece.
Positions(t, pre, m) == [i \in 1..Len(t) |-> Len(pre) + m[i]]

\* There is no brace in what comes before the pieces.
NoBrace(pre) == \A j \in 1..Len(pre) : pre[j] \notin {"{", "}"}

\* So the wrapped template has the expressions of the template and no others.
LEMMA WrapsKeep ==
  ASSUME NEW t, NEW pre, NEW m, NEW r, Wraps(t, pre, m, r), NoBrace(pre)
  PROVE  Keeps(t, r, Positions(t, pre, m))
  <1> DEFINE n == Len(t)
             q == Len(pre)
             pos == Positions(t, pre, m)
  <1>1. n \in Nat /\ q \in Nat /\ Len(r) \in Nat
    BY DEF Wraps
  <1>2. pos \in [1..n -> 1..Len(r)] /\ \A i \in 1..n : pos[i] = q + m[i]
    BY WrapSteps DEF Positions, n, q
  <1>3. \A i \in 1..n : m[i] \in Nat /\ m[i + 1] \in Nat /\ 1 <= m[i]
    BY WrapSteps
  <1> HIDE DEF n, q
  <1>4. Rising(pos)
    <2>1. ASSUME NEW i \in 1..n, NEW k \in 1..n, i < k PROVE pos[i] < pos[k]
      <3>1. i + 1 \in 1..(n + 1) /\ k \in 1..(n + 1) /\ i + 1 <= k
        BY <1>1, <2>1
      <3>2. m[i + 1] <= m[k]
        BY <3>1 DEF Wraps, n
      <3>3. m[i] \in Nat /\ m[i + 1] \in Nat /\ m[k] \in Nat /\ m[i] < m[i + 1]
        <4>1. m[k] \in Nat /\ m[i] \in Nat /\ m[i + 1] \in Nat
          BY <1>3
        <4>2. m[i + 1] = m[i] + 1 \/ m[i + 1] = m[i] + 2
          BY WrapSteps DEF n
        <4>3. QED
          BY <4>1, <4>2
      <3>4. QED
        BY <1>1, <1>2, <3>2, <3>3, SMTT(30)
    <2>2. DOMAIN pos = 1..n
      BY DEF pos, Positions, n
    <2> HIDE DEF pos
    <2>3. QED
      BY <2>1, <2>2 DEF Rising
  <1> HIDE DEF pos
  <1>5. ASSUME NEW i \in Insides(t) PROVE r[pos[i]] = t[i]
    <2>1. i \in 1..n
      BY <1>1, InsideAre DEF n
    <2>2. Kind(t, r, m, q, i)
      BY <2>1 DEF Wraps, n, q
    <2>3. r[q + m[i]] = t[i]
      BY <2>2, Zenon DEF Kind
    <2>4. QED
      BY <1>2, <2>1, <2>3
  <1>6. ASSUME NEW j \in 1..Len(r), r[j] \in {"{", "}"} PROVE \E i \in Insides(t) : pos[i] = j
    <2>1. ~(j <= q)
      <3>1. ASSUME j <= q PROVE FALSE
        <4>1. j \in 1..q
          BY <1>1, <3>1
        <4>2. r[j] = pre[j]
          BY <4>1 DEF Wraps, q
        <4>3. QED
          BY <1>6, <4>1, <4>2 DEF q, NoBrace
      <3>2. QED
        BY <3>1
    <2>2. PICK i \in 1..n : q + m[i] <= j /\ j < q + m[i + 1]
      BY <2>1, Zenon DEF Wraps, n, q
    <2>3. Kind(t, r, m, q, i)
      BY DEF Wraps, n, q
    <2>4. /\ m[i] \in Nat /\ m[i + 1] \in Nat
      BY <1>3
    <2>5. m[i + 1] = m[i] + 1 => j = q + m[i]
      BY <1>1, <2>2, <2>4, SMTT(30)
    <2>6. m[i + 1] = m[i] + 2 => j = q + m[i] \/ j = q + m[i] + 1
      BY <1>1, <2>2, <2>4, SMTT(30)
    <2>7. i \in Insides(t)
      <3>1. SUFFICES ASSUME i \notin Insides(t) PROVE FALSE
        OBVIOUS
      <3>2. CASE m[i + 1] = m[i] + 1 /\ r[q + m[i]] \notin {"{", "}"}
        BY <1>6, <2>5, <3>2
      <3>3. CASE m[i + 1] = m[i] + 2 /\ {r[q + m[i]], r[q + m[i] + 1]} \cap {"{", "}"} = {}
        BY <1>6, <2>6, <3>3
      <3>4. QED
        BY <2>3, <3>1, <3>2, <3>3, Zenon DEF Kind
    <2>8. m[i + 1] = m[i] + 1
      BY <2>3, <2>7, Zenon DEF Kind
    <2>9. QED
      BY <1>2, <2>5, <2>7, <2>8
  <1>7. QED
    BY <1>1, <1>2, <1>4, <1>5, <1>6, Zenon DEF Keeps, n, q, pos

\* Where pre ends nothing belongs to an expression yet, and the encoding of a
\* character that does not belong to one does not either.
LEMMA OutsideKept ==
  ASSUME NEW t, NEW pre, NEW m, NEW r, Wraps(t, pre, m, r), NoBrace(pre)
  PROVE  /\ \A j \in 1..Len(pre) : j \notin Insides(r)
         /\ \A i \in 1..Len(t) : i \in Insides(t) => Len(pre) + m[i] \in Insides(r)
         /\ \A i \in 1..Len(t) : \A j \in 1..Len(r) :
              i \notin Insides(t) /\ Len(pre) + m[i] <= j /\ j < Len(pre) + m[i + 1]
                => j \notin Insides(r)
  <1> DEFINE n == Len(t)
             q == Len(pre)
             pos == Positions(t, pre, m)
  <1>1. n \in Nat /\ q \in Nat /\ Len(r) \in Nat
    BY DEF Wraps
  <1>2. \A i \in 1..n : pos[i] = q + m[i]
    BY DEF Positions
  <1>3. Keeps(t, r, pos)
    BY WrapsKeep
  <1>4. \A i \in 1..n : m[i] \in Nat /\ m[i + 1] \in Nat /\ 1 <= m[i]
    BY WrapSteps
  <1> HIDE DEF pos, n, q
  <1>5. ASSUME NEW j \in 1..q, j \in Insides(r) PROVE FALSE
    <2>1. PICK a \in 1..n : pos[a] <= j
      BY <1>3, <1>5, InsideCame DEF n
    <2>2. m[a] \in Nat /\ 1 <= m[a]
      BY <1>4
    <2>3. QED
      BY <1>1, <1>2, <2>1, <2>2
  <1>6. ASSUME NEW i \in 1..n, i \in Insides(t) PROVE q + m[i] \in Insides(r)
    BY <1>2, <1>3, <1>6, InsideKept
  <1>7. ASSUME NEW i \in 1..n, NEW j \in 1..Len(r), i \notin Insides(t),
               q + m[i] <= j, j < q + m[i + 1], j \in Insides(r)
        PROVE  FALSE
    <2>1. PICK a \in 1..n :
            pos[a] <= j /\ \A k \in 1..n : a <= k /\ pos[k] <= j => k \in Insides(t)
      BY <1>3, <1>7, InsideCame DEF n
    <2>2. pos[i] <= j
      BY <1>2, <1>7
    <2>3. ~(a <= i)
      BY <1>7, <2>1, <2>2
    <2>4. i + 1 \in 1..(n + 1) /\ a \in 1..(n + 1) /\ i + 1 <= a
      BY <1>1, <2>3
    <2>5. m[i + 1] <= m[a]
      BY <2>4 DEF Wraps, n
    <2>6. m[i + 1] \in Nat /\ m[a] \in Nat
      BY <1>4
    <2>7. q + m[a] <= j
      BY <1>2, <2>1
    <2>8. QED
      BY <1>1, <1>7, <2>5, <2>6, <2>7
  <1>8. QED
    BY <1>5, <1>6, <1>7 DEF n, q

\* What is not at a position is after it.
LEMMA NextTo ==
  ASSUME NEW n \in Nat, NEW i \in 1..n, NEW b \in i..n, b # i
  PROVE  /\ i + 1 \in 1..n /\ b \in (i + 1)..n /\ i \in 1..(i + 1)
         /\ \A k \in i..((i + 1) - 1) : k = i
  OBVIOUS

\* What follows an opening brace that belongs to an expression does too.
LEMMA AfterOpen ==
  ASSUME NEW t, Len(t) \in Nat, NEW i \in Insides(t), t[i] = "{"
  PROVE  i + 1 \in Insides(t)
  <1> DEFINE n == Len(t)
  <1>1. n \in Nat /\ i \in 1..n
    BY InsideAre
  <1>2. PICK b \in i..n : t[b] = "}"
    BY InsideAre
  <1>3. b # i
    BY <1>2
  <1> HIDE DEF n
  <1>4. i + 1 \in 1..n /\ b \in (i + 1)..n /\ i \in 1..(i + 1) /\ \A k \in i..((i + 1) - 1) : k = i
    BY <1>1, <1>2, <1>3, NextTo
  <1>5. \A k \in i..((i + 1) - 1) : t[k] # "}"
    BY <1>4
  <1>6. QED
    BY <1>2, <1>4, <1>5, InsideAre DEF n

\* No expression has an operator that adds to the value.
Unmarked(t) == \A k \in Insides(t) : t[k] \notin {"?", "#"}
\* What the client puts at a place of an expression.
Filled(t, v, i) == IF t[i] = "{" THEN v ELSE <<>>
Expansions(t, v) == [i \in DOMAIN t |-> ExpandedAt(t, v, i)]

\* What an expression without such an operator gives way to.
LEMMA ExpandedInside ==
  ASSUME NEW t, Len(t) \in Nat, Unmarked(t), NEW v, Escape(v) = v, NEW i \in Insides(t)
  PROVE  ExpandedAt(t, v, i) = Filled(t, v, i)
  <1>1. CASE t[i] = "{"
    <2>1. i + 1 \in Insides(t)
      BY <1>1, AfterOpen
    <2>2. t[i + 1] # "?" /\ t[i + 1] # "#"
      BY <2>1 DEF Unmarked
    <2>3. Expansion(t[i + 1], v) = v
      BY <2>2 DEF Expansion
    <2>4. QED
      BY <1>1, <2>3 DEF ExpandedAt, Filled
  <1>2. CASE t[i] # "{"
    BY <1>2 DEF ExpandedAt, Filled
  <1>3. QED
    BY <1>1, <1>2

\* So the client fills the same values into the wrapped template.
LEMMA ExpandedKept ==
  ASSUME NEW t, NEW pre, NEW m, NEW r, Wraps(t, pre, m, r), NoBrace(pre), Unmarked(t),
         NEW v, Escape(v) = v, NEW i \in Insides(t)
  PROVE  ExpandedAt(r, v, Len(pre) + m[i]) = Filled(t, v, i)
  <1> DEFINE n == Len(t)
             q == Len(pre)
             j == q + m[i]
  <1>1. Len(t) \in Nat /\ Len(pre) \in Nat /\ i \in 1..n
    BY InsideAre DEF Wraps
  <1>2. j \in Insides(r)
    BY <1>1, OutsideKept
  <1>3. Kind(t, r, m, q, i)
    BY <1>1 DEF Wraps
  <1>4. m[i + 1] = m[i] + 1 /\ r[j] = t[i]
    BY <1>3, Zenon DEF Kind
  <1>5. CASE t[i] = "{"
    <2>1. i + 1 \in Insides(t)
      BY <1>1, <1>5, AfterOpen
    <2>2. t[i + 1] # "?" /\ t[i + 1] # "#"
      BY <2>1 DEF Unmarked
    <2>3. i + 1 \in 1..n
      BY <1>1, <2>1, InsideAre
    <2>4. Kind(t, r, m, q, i + 1)
      BY <2>3 DEF Wraps
    <2>5. r[q + m[i + 1]] = t[i + 1]
      BY <2>1, <2>4, Zenon DEF Kind
    <2>6. m[i] \in Nat
      BY <1>1, WrapSteps
    <2>7. q + m[i + 1] = j + 1
      <3> HIDE DEF n
      <3>1. q \in Nat /\ m[i + 1] = m[i] + 1
        BY <1>1, <1>4
      <3> HIDE DEF q
      <3>2. QED
        BY <2>6, <3>1
    <2>8. r[j + 1] # "?" /\ r[j + 1] # "#"
      BY <2>2, <2>5, <2>7
    <2> HIDE DEF j
    <2>9. Expansion(r[j + 1], v) = v
      BY <2>8 DEF Expansion
    <2>10. ExpandedAt(r, v, j) = v
      BY <1>2, <1>4, <1>5, <2>9 DEF ExpandedAt
    <2>11. QED
      BY <1>5, <2>10 DEF j, Filled
  <1>6. CASE t[i] # "{"
    <2> HIDE DEF j
    <2>1. ExpandedAt(r, v, j) = <<>>
      BY <1>2, <1>4, <1>6 DEF ExpandedAt
    <2>2. QED
      BY <1>6, <2>1 DEF j, Filled
  <1>7. QED
    BY <1>5, <1>6

\* Outside of expressions nothing is replaced.
LEMMA ExpandedOutside ==
  ASSUME NEW t, NEW v, NEW i, i \notin Insides(t)
  PROVE  ExpandedAt(t, v, i) = <<t[i]>>
  BY DEF ExpandedAt

\* The places of an expansion are texts.
LEMMA ExpansionsAre ==
  ASSUME NEW Char, NEW t \in Seq(Char), NEW v,
         \A i \in 1..Len(t) : ExpandedAt(t, v, i) \in Seq(Char)
  PROVE  /\ Expansions(t, v) \in Seq(Seq(Char)) /\ Len(Expansions(t, v)) = Len(t)
         /\ \A i \in 1..Len(t) : Expansions(t, v)[i] = ExpandedAt(t, v, i)
  <1> DEFINE f == [i \in 1..Len(t) |-> ExpandedAt(t, v, i)]
  <1>1. DOMAIN t = 1..Len(t) /\ Len(t) \in Nat
    OBVIOUS
  <1>2. f = Expansions(t, v)
    BY <1>1 DEF Expansions
  <1>3. \A i \in 1..Len(t) : f[i] = ExpandedAt(t, v, i)
    OBVIOUS
  <1>4. f \in [1..Len(t) -> Seq(Char)]
    OBVIOUS
  <1> HIDE DEF f
  <1>5. f \in Seq(Seq(Char)) /\ Len(f) = Len(t)
    BY <1>1, <1>4
  <1>6. QED
    BY <1>2, <1>3, <1>5

\* Two characters, one after the other.
LEMMA OneAndOne ==
  ASSUME NEW a, NEW b
  PROVE  <<a>> \o <<b>> = <<a, b>>
  <1> DEFINE S == {a, b}
             l == <<a>>
             r == <<b>>
             c == <<a, b>>
  <1>1. l \in Seq(S) /\ r \in Seq(S) /\ c \in Seq(S) /\ Len(l) = 1 /\ Len(r) = 1 /\ Len(c) = 2
        /\ l[1] = a /\ r[1] = b /\ c[1] = a /\ c[2] = b
    OBVIOUS
  <1> HIDE DEF l, r, c, S
  <1>2. l \o r \in Seq(S) /\ Len(l \o r) = 2 /\ (l \o r)[1] = a /\ (l \o r)[2] = b
    <2>1. l \o r \in Seq(S) /\ Len(l \o r) = Len(l) + Len(r)
          /\ \A i \in 1..(Len(l) + Len(r)) :
               (l \o r)[i] = IF i <= Len(l) THEN l[i] ELSE r[i - Len(l)]
      BY <1>1, ConcatProperties
    <2>2. 1 \in 1..(1 + 1) /\ 2 \in 1..(1 + 1) /\ 1 + 1 = 2 /\ 1 <= 1 /\ ~(2 <= 1) /\ 2 - 1 = 1
      OBVIOUS
    <2>3. QED
      BY <1>1, <2>1, <2>2
  <1>3. \A i \in 1..2 : (l \o r)[i] = c[i]
    BY <1>1, <1>2
  <1>4. l \o r = c
    BY <1>1, <1>2, <1>3, SeqEqual
  <1>5. QED
    BY <1>4 DEF l, r, c

\* Place by place, expanding the wrapped template gives the encoding of what
\* expanding the template gives.
LEMMA ExpandBlocks ==
  ASSUME NEW Char, Reserved \cup Bytes \subseteq Char, NEW t \in Seq(Char), NEW pre \in Seq(Char),
         NEW v \in Seq(Char), Escape(v) = v, NEW m, NEW r \in Seq(Char),
         Wraps(t, pre, m, r), NoBrace(pre), Unmarked(t)
  PROVE  /\ Expansions(t, v) \in Seq(Seq(Char)) /\ Expansions(r, v) \in Seq(Seq(Char))
         /\ Blocks(pre, m, Expansions(t, v), Expansions(r, v))
  <1> DEFINE n == Len(t)
             q == Len(pre)
             top == Len(r)
             x == Expansions(t, v)
             e == Expansions(r, v)
  <1>1. /\ n \in Nat /\ q \in Nat /\ top \in Nat
        /\ m \in [1..(n + 1) -> Nat] /\ m[1] = 1
        /\ \A a, k \in 1..(n + 1) : a <= k => m[a] <= m[k]
        /\ top + 1 = q + m[n + 1]
    BY DEF Wraps
  <1>2. \A i \in 1..n : Filled(t, v, i) \in Seq(Char) /\ <<t[i]>> \in Seq(Char) /\ t[i] \in Char
    <2>1. \A c \in Char : <<c>> \in Seq(Char)
      OBVIOUS
    <2>2. \A i \in 1..n : t[i] \in Char
      OBVIOUS
    <2>3. <<>> \in Seq(Char)
      OBVIOUS
    <2>4. \A i \in 1..n : Filled(t, v, i) \in Seq(Char)
      BY <2>3, Zenon DEF Filled
    <2>5. QED
      BY <2>1, <2>2, <2>4
  <1>3. x \in Seq(Seq(Char)) /\ Len(x) = n /\ \A i \in 1..n : x[i] = ExpandedAt(t, v, i)
    <2>1. \A i \in 1..n : ExpandedAt(t, v, i) \in Seq(Char)
      BY <1>1, <1>2, ExpandedInside, ExpandedOutside, ZenonT(60)
    <2>2. QED
      BY <2>1, ExpansionsAre
  <1>4. ASSUME NEW j \in 1..q PROVE j \in 1..top /\ ExpandedAt(r, v, j) = <<pre[j]>>
    <2>1. n + 1 \in 1..(n + 1) /\ 1 \in 1..(n + 1) /\ 1 <= n + 1
      <3> HIDE DEF n
      <3>1. QED
        BY <1>1
    <2>2. m[n + 1] \in Nat /\ 1 <= m[n + 1]
      BY <1>1, <2>1
    <2>3. j \in 1..top
      <3> DEFINE z == m[n + 1]
      <3>1. z \in Nat /\ 1 <= z /\ top + 1 = q + z
        BY <1>1, <2>2
      <3> HIDE DEF z, top, q
      <3>2. QED
        BY <1>1, <3>1
    <2>4. r[j] = pre[j]
      BY DEF Wraps
    <2>5. j \notin Insides(r)
      BY OutsideKept
    <2>6. QED
      BY <2>3, <2>4, <2>5, ExpandedOutside
  <1>5. ASSUME NEW i \in 1..n, i \in Insides(t)
        PROVE  m[i + 1] = m[i] + 1 /\ ExpandedAt(r, v, q + m[i]) = Filled(t, v, i)
    <2>1. Kind(t, r, m, q, i)
      BY DEF Wraps
    <2>2. m[i + 1] = m[i] + 1
      BY <1>5, <2>1, Zenon DEF Kind
    <2>3. ExpandedAt(r, v, q + m[i]) = Filled(t, v, i)
      BY <1>5, ExpandedKept
    <2>4. QED
      BY <2>2, <2>3
  <1>6. ASSUME NEW i \in 1..n, NEW j \in 1..top, i \notin Insides(t),
               q + m[i] <= j, j < q + m[i + 1]
        PROVE  ExpandedAt(r, v, j) = <<r[j]>>
    BY <1>6, OutsideKept, ExpandedOutside
  <1>7. \A j \in 1..top : r[j] \in Char /\ <<r[j]>> \in Seq(Char)
    <2>1. \A c \in Char : <<c>> \in Seq(Char)
      OBVIOUS
    <2>2. \A j \in 1..top : r[j] \in Char
      OBVIOUS
    <2>3. QED
      BY <2>1, <2>2
  <1>8. \A j \in 1..q : <<pre[j]>> \in Seq(Char)
    <2>1. \A c \in Char : <<c>> \in Seq(Char)
      OBVIOUS
    <2>2. \A j \in 1..q : pre[j] \in Char
      OBVIOUS
    <2>3. QED
      BY <2>1, <2>2
  <1>9. \A i \in 1..n : /\ m[i] \in Nat /\ m[i + 1] \in Nat /\ 1 <= m[i]
                        /\ m[i + 1] = m[i] + 1 \/ m[i + 1] = m[i] + 2
                        /\ q + m[i + 1] <= top + 1
    BY WrapSteps
  <1>10. \A j \in 1..top : j <= q \/ \E i \in 1..n : q + m[i] <= j /\ j < q + m[i + 1]
    BY DEF Wraps
  <1> HIDE DEF n, q, top
  <1>11. ASSUME NEW j \in 1..top PROVE ExpandedAt(r, v, j) \in Seq(Char)
    <2>1. CASE j <= q
      <3>1. j \in 1..q
        BY <1>1, <2>1
      <3>2. QED
        BY <3>1, <1>4, <1>8
    <2>2. ASSUME NEW i \in 1..n, q + m[i] <= j, j < q + m[i + 1]
          PROVE  ExpandedAt(r, v, j) \in Seq(Char)
      <3>1. CASE i \in Insides(t)
        <4>1. m[i + 1] = m[i] + 1 /\ ExpandedAt(r, v, q + m[i]) = Filled(t, v, i)
          BY <1>5, <3>1
        <4>2. m[i] \in Nat
          BY <1>9
        <4>3. j = q + m[i]
          <5> DEFINE z == m[i]
                     y == m[i + 1]
          <5>1. z \in Nat /\ y = z + 1 /\ q + z <= j /\ j < q + y
            BY <2>2, <4>1, <4>2
          <5> HIDE DEF z, y
          <5>2. j = q + z
            BY <1>1, <5>1
          <5>3. QED
            BY <5>2 DEF z
        <4>4. QED
          BY <1>2, <4>1, <4>3
      <3>2. CASE i \notin Insides(t)
        BY <1>6, <1>7, <2>2, <3>2
      <3>3. QED
        BY <3>1, <3>2
    <2>3. QED
      BY <1>10, <2>1, <2>2
  <1>12. e \in Seq(Seq(Char)) /\ Len(e) = top /\ \A j \in 1..top : e[j] = ExpandedAt(r, v, j)
    BY <1>11, ExpansionsAre DEF top
  <1> HIDE DEF x, e
  <1>13. ASSUME NEW i \in 1..n
         PROVE  \/ m[i + 1] = m[i] + 1 /\ e[q + m[i]] = Escape(x[i])
                \/ m[i + 1] = m[i] + 2 /\ e[q + m[i]] \o e[q + m[i] + 1] = Escape(x[i])
    <2> DEFINE z == m[i]
               y == m[i + 1]
    <2>1. z \in Nat /\ 1 <= z /\ y \in Nat /\ (y = z + 1 \/ y = z + 2) /\ q + y <= top + 1
      BY <1>9
    <2>2. q + z \in 1..top /\ q + z <= q + z /\ q + z < q + y
      <3> HIDE DEF z, y
      <3>1. QED
        BY <1>1, <2>1
    <2>3. CASE i \in Insides(t)
      <3>1. y = z + 1 /\ e[q + z] = Filled(t, v, i)
        BY <1>5, <1>12, <2>2, <2>3
      <3>2. x[i] = Filled(t, v, i)
        BY <1>1, <1>3, <2>3, ExpandedInside DEF n
      <3>3. Escape(Filled(t, v, i)) = Filled(t, v, i)
        <4>1. Escape(<<>>) = <<>>
          BY DEF Escape, FlattenSeq
        <4>2. QED
          BY <4>1 DEF Filled
      <3>4. QED
        BY <3>1, <3>2, <3>3
    <2>4. CASE i \notin Insides(t)
      <3>1. Escape(x[i]) = Coded(t[i])
        BY <1>2, <1>3, <2>4, ExpandedOutside, EscapeOne
      <3>2. e[q + z] = <<r[q + z]>>
        BY <1>6, <1>12, <2>2, <2>4
      <3>3. Kind(t, r, m, q, i)
        BY DEF Wraps, n, q
      <3>4. CASE y = z + 1 /\ Coded(t[i]) = <<r[q + z]>>
        BY <3>1, <3>2, <3>4
      <3>5. CASE y = z + 2 /\ Coded(t[i]) = <<r[q + z], r[q + z + 1]>>
        <4>1. q + z + 1 \in 1..top /\ q + z <= q + z + 1 /\ q + z + 1 < q + y
          <5>1. y = z + 2
            BY <3>5
          <5> HIDE DEF z, y
          <5>2. QED
            BY <1>1, <2>1, <5>1
        <4>2. e[q + z + 1] = <<r[q + z + 1]>>
          BY <1>6, <1>12, <2>4, <4>1
        <4>3. <<r[q + z]>> \o <<r[q + z + 1]>> = <<r[q + z], r[q + z + 1]>>
          BY OneAndOne
        <4>4. QED
          BY <3>1, <3>2, <3>5, <4>2, <4>3
      <3>6. QED
        BY <2>4, <3>3, <3>4, <3>5, Zenon DEF Kind
    <2>5. QED
      BY <2>3, <2>4
  <1>14. \A j \in 1..q : e[j] = <<pre[j]>>
    BY <1>4, <1>12
  <1>15. Blocks(pre, m, x, e)
    BY <1>1, <1>3, <1>12, <1>13, <1>14 DEF Blocks, q
  <1>16. QED
    BY <1>3, <1>12, <1>15 DEF x, e

\* To expand a wrapped template is to wrap what the template expands to.
THEOREM ExpandCommutes ==
  ASSUME NEW Char, Reserved \cup Bytes \subseteq Char,
         NEW id \in Seq(Char), ToSet(id) \cap Reserved = {},
         NEW t \in Seq(Char), NEW v \in Seq(Char), ToSet(v) \cap Reserved = {},
         \A i \in DOMAIN t : Inside(t, i) => t[i] \notin {"?", "#"}
  PROVE  /\ Expand(t, v) \in Seq(Char)
         /\ [WrapURITemplate(id, t) EXCEPT !.rest = Expand(@, v)] = WrapURI(id, Expand(t, v))
  <1> DEFINE pre == id \o <<"/">>
             f == FlattenSeq(Pieces(t))
             r == pre \o f
             x == Expansions(t, v)
             e == Expansions(r, v)
  <1>1. {"/", "{", "}"} \subseteq Reserved
    <2>1. \A c, b : <<c, b>> \in Codes => c \in Reserved
      BY DEF Reserved
    <2>2. <<"/", "2F">> \in Codes /\ <<"{", "7B">> \in Codes /\ <<"}", "7D">> \in Codes
      BY DEF Codes
    <2>3. QED
      BY <2>1, <2>2
  <1>2. pre \in Seq(Char) /\ f \in Seq(Char) /\ r \in Seq(Char)
    <2>1. <<"/">> \in Seq(Char)
      <3>1. \A c \in Char : <<c>> \in Seq(Char)
        OBVIOUS
      <3>2. QED
        BY <1>1, <3>1
    <2>2. f \in Seq(Char)
      BY KeptIs, FlattenIsText
    <2>3. QED
      BY <2>1, <2>2
  <1>3. NoBrace(pre)
    <2>1. ASSUME NEW j \in 1..Len(pre) PROVE pre[j] \in ToSet(id) \cup {"/"}
      <3>1. j \in 1..Len(id) => pre[j] = id[j] /\ j \in DOMAIN id
        OBVIOUS
      <3>2. j \notin 1..Len(id) => pre[j] = "/"
        <4>1. Len(pre) = Len(id) + 1 /\ pre[Len(id) + 1] = "/" /\ Len(id) \in Nat
          OBVIOUS
        <4>2. j \notin 1..Len(id) => j = Len(id) + 1
          BY <4>1
        <4>3. QED
          BY <4>1, <4>2
      <3>3. QED
        BY <3>1, <3>2 DEF ToSet
    <2> HIDE DEF pre
    <2>2. QED
      BY <1>1, <2>1 DEF NoBrace
  <1>4. Unmarked(t)
    <2>1. \A i \in Insides(t) : i \in DOMAIN t /\ Inside(t, i)
      BY DEF Insides
    <2>2. QED
      BY <2>1 DEF Unmarked
  <1>5. Escape(v) = v
    BY EscapePlain
  <1>6. PICK m : Wraps(t, pre, m, r)
    BY <1>2, WrapsExist
  <1> HIDE DEF pre, f, r, x, e
  <1>7. x \in Seq(Seq(Char)) /\ e \in Seq(Seq(Char)) /\ Blocks(pre, m, x, e)
    BY <1>2, <1>3, <1>4, <1>5, <1>6, ExpandBlocks DEF x, e
  <1>8. FlattenSeq(e) = pre \o Escape(FlattenSeq(x))
    BY <1>2, <1>7, Blockwise, ZenonT(60)
  <1>9. Expand(t, v) = FlattenSeq(x) /\ FlattenSeq(x) \in Seq(Char)
    BY <1>7, ExpandForm, FlattenIsText DEF x, Expansions
  <1>10. Expand(r, v) = FlattenSeq(e)
    BY <1>2, ExpandForm DEF e, Expansions
  <1>11. WrapURITemplate(id, t) = [scheme |-> Scheme, rest |-> r]
    BY WrapForm DEF r, f, pre
  <1>12. [WrapURITemplate(id, t) EXCEPT !.rest = Expand(@, v)]
           = [scheme |-> Scheme, rest |-> Expand(r, v)]
    BY <1>11
  <1>13. WrapURI(id, Expand(t, v)) = [scheme |-> Scheme, rest |-> pre \o Escape(Expand(t, v))]
    BY DEF WrapURI, pre
  <1>14. QED
    BY <1>8, <1>9, <1>10, <1>12, <1>13
=============================================================================
