------------------------------ MODULE PoolProofs -----------------------------
(***************************************************************************)
(* Proofs of the safety properties of module Pool, for every set of        *)
(* subjects, fingerprints and requests and every value of the limits.      *)
(*                                                                         *)
(* The inductive invariant is built in layers, each proved on top of the   *)
(* previous ones:                                                          *)
(*    Bookkeeping: types, what a request holds, and inflight;              *)
(*    StartingInv, Safekeeping: who answers for an entry's backend;        *)
(*    Quotas: perSubject, the limits and the statistics.                   *)
(***************************************************************************)
EXTENDS Pool, FiniteSetTheorems, TLAPS

\* A request holds an entry from acquire to release, and the entry was made for
\* the key it asked for.
HandleInv ==
    \A r \in Requests :
        /\ pc[r] = "idle" <=> held[r] = NoEntry
        /\ held[r] = NoEntry => want[r] = NoKey
        /\ held[r] # NoEntry => /\ held[r] <= stats.created
                                /\ want[r] \in Keys
                                /\ keyOf[held[r]] = want[r]

\* An entry is found under its own key.
TableInv ==
    \A k \in Keys : entries[k] # NoEntry =>
        entries[k] <= stats.created /\ keyOf[entries[k]] = k

InflightExact == \A e \in Entries : inflight[e] = Cardinality(Holders(e))

Bookkeeping == TypeOK /\ HandleInv /\ TableInv /\ InflightExact

-----------------------------------------------------------------------------
(* Lemmas about finite sets.                                               *)

\* The entries of one behaviour are finitely many.
LEMMA EntriesFinite == \A S \in SUBSET Entries : IsFiniteSet(S) /\ Cardinality(S) \in Nat
  <1>1. IsFiniteSet(Entries)
    BY PoolAssumption, FS_Interval DEF PoolAssumption, Entries
  <1>2. QED
    BY <1>1, FS_Subset, FS_CardinalityType

\* The requests that hold an entry are finitely many.
LEMMA HoldersFinite == \A S \in SUBSET Requests : IsFiniteSet(S) /\ Cardinality(S) \in Nat
  BY FS_Subset, FS_CardinalityType, PoolAssumption DEF PoolAssumption

\* Time starts at zero.
LEMMA ZeroAge == 0 \in 0..AgeCap
  BY PoolAssumption DEF PoolAssumption

-----------------------------------------------------------------------------
(* Bookkeeping.                                                            *)

LEMMA InitBookkeeping == Init => Bookkeeping
  <1> SUFFICES ASSUME Init PROVE Bookkeeping
    OBVIOUS
  <1>1. TypeOK
    BY PoolAssumption DEF Init, TypeOK, PoolAssumption, Entries, NoEntry
  <1>2. HandleInv /\ TableInv
    BY DEF Init, HandleInv, TableInv, NoEntry
  <1>3. ASSUME NEW e \in Entries PROVE inflight[e] = Cardinality(Holders(e))
    <2>1. Holders(e) = {}
      BY DEF Init, Holders, Entries, NoEntry
    <2>2. QED
      BY <2>1, FS_EmptySet DEF Init
  <1>4. QED
    BY <1>1, <1>2, <1>3 DEF Bookkeeping, InflightExact

\* Detaching entries leaves tables of the right type.
LEMMA DetachTypes ==
  ASSUME TypeOK, NEW S \in SUBSET Entries
  PROVE  /\ detachEntries(S) \in [Keys -> Entries \cup {NoEntry}]
         /\ detachPerSubject(S) \in [Subjects -> Nat]
  <1>1. ASSUME NEW s \in Subjects
        PROVE  detachPerSubject(S)[s] \in Nat
    <2> DEFINE n == Cardinality({x \in S : keyOf[x].subject = s})
    <2>1. n \in Nat
      BY EntriesFinite
    <2>2. perSubject[s] \in Nat
      BY DEF TypeOK
    <2>3. detachPerSubject(S)[s] = IF perSubject[s] <= n THEN 0 ELSE perSubject[s] - n
      BY DEF detachPerSubject
    <2> HIDE DEF n
    <2>4. QED
      BY <2>1, <2>2, <2>3
  <1>2. QED
    BY <1>1 DEF detachEntries, detachPerSubject, TypeOK

\* What insertLocked does to the bookkeeping, whichever entries were detached.
LEMMA InsertBookkeeping ==
  ASSUME Bookkeeping, NEW r \in Requests, NEW k \in Keys, NEW S \in SUBSET Entries,
         insertLocked(r, k, S), pc[r] = "idle",
         NEW p \in {"serving", "evicting"}, pc' = [pc EXCEPT ![r] = p],
         stats'.created = stats.created + 1
  PROVE  /\ HandleInv' /\ TableInv' /\ InflightExact'
         /\ entries' \in [Keys -> Entries \cup {NoEntry}]
         /\ perSubject' \in [Subjects -> Nat]
         /\ keyOf' \in [Entries -> Keys \cup {NoKey}]
         /\ inflight' \in [Entries -> Nat]
         /\ idleFor' \in [Entries -> 0..AgeCap]
         /\ releases' \in [Entries -> SUBSET Listeners]
         /\ want' \in [Requests -> Keys \cup {NoKey}]
         /\ held' \in [Requests -> Entries \cup {NoEntry}]
         /\ stats.created + 1 \in Entries
  <1> DEFINE e == stats.created + 1
  <1> USE DEF Bookkeeping
  <1>1. e \in Entries /\ e \in Nat /\ e # NoEntry /\ ~(e <= stats.created)
    BY PoolAssumption DEF insertLocked, TypeOK, Entries, NoEntry, PoolAssumption
  <1>2. /\ held' = [held EXCEPT ![r] = e] /\ want' = [want EXCEPT ![r] = k]
        /\ keyOf' = [keyOf EXCEPT ![e] = k]
        /\ inflight' = [inflight EXCEPT ![e] = 1]
        /\ idleFor' = [idleFor EXCEPT ![e] = 0]
        /\ releases' = [releases EXCEPT ![e] = subscribedAtStart(k)]
        /\ entries' = [detachEntries(S) EXCEPT ![k] = e]
        /\ perSubject' = [detachPerSubject(S) EXCEPT ![k.subject] = @ + 1]
    BY DEF insertLocked
  <1>3. k.subject \in Subjects
    BY DEF Keys
  <1>4. detachPerSubject(S) \in [Subjects -> Nat]
    BY DetachTypes
  <1>5. detachEntries(S) \in [Keys -> Entries \cup {NoEntry}]
    BY DetachTypes
  <1>6. entries' \in [Keys -> Entries \cup {NoEntry}]
    BY <1>1, <1>2, <1>5
  <1>7. perSubject' \in [Subjects -> Nat]
    BY <1>2, <1>3, <1>4
  <1>8. /\ keyOf' \in [Entries -> Keys \cup {NoKey}]
        /\ inflight' \in [Entries -> Nat]
        /\ want' \in [Requests -> Keys \cup {NoKey}]
        /\ held' \in [Requests -> Entries \cup {NoEntry}]
    BY <1>1, <1>2 DEF TypeOK
  <1>9. /\ idleFor' \in [Entries -> 0..AgeCap]
        /\ releases' \in [Entries -> SUBSET Listeners]
    BY <1>1, <1>2, PoolAssumption DEF TypeOK, subscribedAtStart, PoolAssumption
  <1>10. HandleInv'
    BY <1>1, <1>2 DEF HandleInv, TypeOK, NoEntry, Entries
  <1>11. TableInv'
    <2> SUFFICES ASSUME NEW j \in Keys, entries'[j] # NoEntry
                 PROVE  entries'[j] <= stats'.created /\ keyOf'[entries'[j]] = j
      BY DEF TableInv
    <2>1. CASE j = k
      BY <1>1, <1>2, <1>5, <2>1 DEF TypeOK
    <2>2. CASE j # k
      <3>1. entries'[j] = entries[j]
        BY <1>2, <1>5, <2>2 DEF detachEntries
      <3>2. entries[j] <= stats.created /\ keyOf[entries[j]] = j /\ entries[j] \in Entries
        BY <3>1 DEF TableInv, TypeOK
      <3>3. QED
        BY <1>1, <1>2, <3>1, <3>2 DEF TypeOK, Entries
    <2>3. QED
      BY <2>1, <2>2
  <1>12. InflightExact'
    <2> SUFFICES ASSUME NEW x \in Entries
                 PROVE  inflight'[x] = Cardinality(Holders(x)')
      BY DEF InflightExact
    <2>1. held[r] = NoEntry
      BY DEF HandleInv
    <2>2. CASE x = e
      <3>1. Holders(x)' = {r}
        <4>1. \A q \in Requests : held[q] # e
          BY <1>1 DEF HandleInv
        <4>2. QED
          BY <1>2, <2>2, <4>1 DEF Holders, TypeOK
      <3>2. Cardinality({r}) = 1
        BY FS_Singleton
      <3>3. QED
        BY <1>1, <1>2, <2>2, <3>1, <3>2 DEF TypeOK
    <2>3. CASE x # e
      <3>1. Holders(x)' = Holders(x)
        BY <1>1, <1>2, <2>1, <2>3 DEF Holders, TypeOK, Entries, NoEntry
      <3>2. QED
        BY <1>2, <2>3, <3>1 DEF InflightExact, TypeOK
    <2>4. QED
      BY <2>2, <2>3
  <1>13. QED
    BY <1>1, <1>6, <1>7, <1>8, <1>9, <1>10, <1>11, <1>12

\* Every step keeps the bookkeeping.
LEMMA NextBookkeeping == Bookkeeping /\ [Next]_vars => Bookkeeping'
  <1> SUFFICES ASSUME Bookkeeping, [Next]_vars PROVE Bookkeeping'
    OBVIOUS
  <1> USE DEF Bookkeeping
  <1>1. ASSUME NEW r \in Requests, NEW k \in Keys, AcquireHit(r, k)
        PROVE  Bookkeeping'
    <2>1. PICK e \in EntryFor(k) :
             /\ inflight' = [inflight EXCEPT ![e] = @ + 1]
             /\ idleFor' = [idleFor EXCEPT ![e] = 0]
             /\ held' = [held EXCEPT ![r] = e]
      BY <1>1 DEF AcquireHit
    <2>2. /\ want' = [want EXCEPT ![r] = k] /\ pc' = [pc EXCEPT ![r] = "serving"]
          /\ pc[r] = "idle"
          /\ UNCHANGED <<tables, listeners, stats, closing, keyOf, releases, backend, todo, reaping>>
      BY <1>1 DEF AcquireHit
    <2>3. /\ e \in Entries /\ e # NoEntry /\ entries[k] = e
          /\ e <= stats.created /\ keyOf[e] = k
      BY <2>1 DEF EntryFor, Pooled, TableInv, Entries, NoEntry
    <2>4. held[r] = NoEntry
      BY <2>2 DEF HandleInv
    <2>5. TypeOK'
      BY <2>1, <2>2, <2>3, PoolAssumption DEF TypeOK, tables, PoolAssumption
    <2>6. HandleInv' /\ TableInv'
      BY <2>1, <2>2, <2>3 DEF HandleInv, TableInv, TypeOK, tables
    <2>7. ASSUME NEW x \in Entries PROVE inflight'[x] = Cardinality(Holders(x)')
      <3>1. CASE x = e
        <4>1. Holders(x)' = Holders(x) \cup {r} /\ r \notin Holders(x)
          BY <2>1, <2>3, <2>4, <3>1 DEF Holders, TypeOK
        <4>2. Cardinality(Holders(x) \cup {r}) = Cardinality(Holders(x)) + 1
          BY <4>1, HoldersFinite, FS_AddElement DEF Holders
        <4>3. QED
          BY <2>1, <2>3, <3>1, <4>1, <4>2 DEF InflightExact, TypeOK
      <3>2. CASE x # e
        <4>1. Holders(x)' = Holders(x)
          BY <2>1, <2>4, <3>2 DEF Holders, TypeOK, Entries, NoEntry
        <4>2. QED
          BY <2>1, <3>2, <4>1 DEF InflightExact, TypeOK
      <3>3. QED
        BY <3>1, <3>2
    <2>8. QED
      BY <2>5, <2>6, <2>7 DEF InflightExact
  <1>2. ASSUME NEW r \in Requests, NEW k \in Keys, AcquireRefused(r, k)
        PROVE  Bookkeeping'
    <2>1. TypeOK'
      BY <1>2, PoolAssumption
      DEF AcquireRefused, TypeOK, tables, objects, callers, PoolAssumption
    <2>2. HandleInv' /\ TableInv' /\ InflightExact'
      BY <1>2 DEF AcquireRefused, HandleInv, TableInv, InflightExact, Holders, TypeOK,
                  tables, objects, callers
    <2>3. QED
      BY <2>1, <2>2
  <1>3. ASSUME NEW r \in Requests, NEW k \in Keys, AcquireNew(r, k)
        PROVE  Bookkeeping'
    <2>1. /\ stats' = [stats EXCEPT !.created = @ + 1] /\ pc' = [pc EXCEPT ![r] = "serving"]
          /\ UNCHANGED <<listeners, closing, backend, todo, reaping>>
          /\ pc[r] = "idle" /\ insertLocked(r, k, {})
      BY <1>3 DEF AcquireNew
    <2>2. stats'.created = stats.created + 1
      BY <2>1 DEF TypeOK
    <2>3. /\ HandleInv' /\ TableInv' /\ InflightExact'
          /\ entries' \in [Keys -> Entries \cup {NoEntry}]
          /\ perSubject' \in [Subjects -> Nat]
          /\ keyOf' \in [Entries -> Keys \cup {NoKey}]
          /\ inflight' \in [Entries -> Nat]
          /\ idleFor' \in [Entries -> 0..AgeCap]
          /\ releases' \in [Entries -> SUBSET Listeners]
          /\ want' \in [Requests -> Keys \cup {NoKey}]
          /\ held' \in [Requests -> Entries \cup {NoEntry}]
          /\ stats.created + 1 \in Entries
      BY <2>1, <2>2, InsertBookkeeping
    <2>4. stats' \in [created : 0..MaxStarts, evicted : Nat, idleExpired : Nat,
                     rejected : 0..MaxRejected]
      <3>1. stats.created + 1 \in 0..MaxStarts
        BY <2>3 DEF Entries
      <3>2. QED
        BY <2>1, <3>1 DEF TypeOK
    <2>5. pc' \in [Requests -> {"idle", "evicting", "serving", "starting", "calling",
                           "returning"}]
      BY <2>1 DEF TypeOK
    <2>6. TypeOK'
      BY <2>1, <2>3, <2>4, <2>5 DEF TypeOK
    <2>7. QED
      BY <2>3, <2>6
  <1>4. ASSUME NEW r \in Requests, NEW k \in Keys, AcquireEvict(r, k)
        PROVE  Bookkeeping'
    <2>1. PICK v \in leastRecentlyUsed :
             insertLocked(r, k, {v}) /\ todo' = [todo EXCEPT ![r] = {v}]
      BY <1>4 DEF AcquireEvict
    <2>2. /\ stats' = [stats EXCEPT !.created = @ + 1, !.evicted = @ + 1]
          /\ pc' = [pc EXCEPT ![r] = "evicting"] /\ pc[r] = "idle"
          /\ UNCHANGED <<listeners, closing, backend, reaping>>
      BY <1>4 DEF AcquireEvict
    <2>3. {v} \in SUBSET Entries
      BY DEF leastRecentlyUsed, Pooled
    <2>4. stats'.created = stats.created + 1
      BY <2>2 DEF TypeOK
    <2>5. /\ HandleInv' /\ TableInv' /\ InflightExact'
          /\ entries' \in [Keys -> Entries \cup {NoEntry}]
          /\ perSubject' \in [Subjects -> Nat]
          /\ keyOf' \in [Entries -> Keys \cup {NoKey}]
          /\ inflight' \in [Entries -> Nat]
          /\ idleFor' \in [Entries -> 0..AgeCap]
          /\ releases' \in [Entries -> SUBSET Listeners]
          /\ want' \in [Requests -> Keys \cup {NoKey}]
          /\ held' \in [Requests -> Entries \cup {NoEntry}]
          /\ stats.created + 1 \in Entries
      BY <2>1, <2>2, <2>3, <2>4, InsertBookkeeping
    <2>6. stats' \in [created : 0..MaxStarts, evicted : Nat, idleExpired : Nat,
                     rejected : 0..MaxRejected]
      <3>1. stats.created + 1 \in 0..MaxStarts /\ stats.evicted + 1 \in Nat
        BY <2>5 DEF Entries, TypeOK
      <3>2. QED
        BY <2>2, <3>1 DEF TypeOK
    <2>7. /\ pc' \in [Requests -> {"idle", "evicting", "serving", "starting", "calling",
                           "returning"}]
          /\ todo' \in [Closers -> SUBSET Entries]
      BY <2>1, <2>2, <2>3 DEF TypeOK
    <2>8. TypeOK'
      BY <2>2, <2>5, <2>6, <2>7 DEF TypeOK
    <2>9. QED
      BY <2>5, <2>8
  <1>5. ASSUME NEW r \in Requests,
               \/ EvictionDone(r) \/ SessionFound(r) \/ Starts(r) \/ Started(r)
               \/ NotStarted(r) \/ SessionFails(r) \/ CallReturns(r)
        PROVE  Bookkeeping'
    <2>1. /\ UNCHANGED <<tables, listeners, stats, closing, objects, want, held, todo, reaping>>
          /\ pc[r] # "idle"
          /\ \E p \in {"serving", "starting", "calling", "returning"} :
                pc' = [pc EXCEPT ![r] = p]
      BY <1>5 DEF EvictionDone, SessionFound, Starts, Spawn, Started, NotStarted, SessionFails,
                  CallReturns
    <2>2. backend' \in [Entries -> {"none", "running", "stopping", "stopped"}]
      <3>1. CASE Starts(r) \/ NotStarted(r)
        BY <3>1 DEF Starts, Spawn, NotStarted, TypeOK
      <3>2. CASE ~(Starts(r) \/ NotStarted(r))
        BY <1>5, <3>2 DEF EvictionDone, SessionFound, Started, SessionFails, CallReturns, TypeOK
      <3>3. QED
        BY <3>1, <3>2
    <2>3. TypeOK'
      BY <2>1, <2>2 DEF TypeOK, tables, objects
    <2>4. HandleInv'
      BY <2>1 DEF HandleInv, TypeOK, objects
    <2>5. TableInv' /\ InflightExact'
      BY <2>1 DEF TableInv, InflightExact, Holders, tables, objects
    <2>6. QED
      BY <2>3, <2>4, <2>5
  <1>6. ASSUME NEW r \in Requests, Release(r)
        PROVE  Bookkeeping'
    <2>1. /\ inflight' = [inflight EXCEPT ![held[r]] = @ - 1]
          /\ idleFor' = [idleFor EXCEPT ![held[r]] = 0]
          /\ held' = [held EXCEPT ![r] = NoEntry]
          /\ want' = [want EXCEPT ![r] = NoKey]
          /\ pc' = [pc EXCEPT ![r] = "idle"]
          /\ UNCHANGED <<tables, listeners, stats, closing, keyOf, releases, backend, todo, reaping>>
          /\ pc[r] = "returning"
      BY <1>6 DEF Release
    <2> DEFINE e == held[r]
    <2>2. e \in Entries /\ e # NoEntry
      BY <2>1 DEF HandleInv, TypeOK
    <2>3. /\ Cardinality(Holders(e) \ {r}) = Cardinality(Holders(e)) - 1
          /\ Cardinality(Holders(e) \ {r}) \in Nat
      <3>1. r \in Holders(e) /\ IsFiniteSet(Holders(e))
        BY HoldersFinite DEF Holders
      <3>2. QED
        BY <3>1, FS_RemoveElement, FS_CardinalityType
    <2>4. inflight[e] - 1 = Cardinality(Holders(e) \ {r})
      BY <2>2, <2>3 DEF InflightExact
    <2>5. inflight' \in [Entries -> Nat]
      BY <2>1, <2>2, <2>3, <2>4 DEF TypeOK
    <2>6. idleFor' \in [Entries -> 0..AgeCap]
      BY <2>1, <2>2, ZeroAge DEF TypeOK
    <2>7. TypeOK'
      BY <2>1, <2>5, <2>6 DEF TypeOK, tables
    <2>8. HandleInv' /\ TableInv'
      BY <2>1 DEF HandleInv, TableInv, TypeOK, tables
    <2>9. ASSUME NEW x \in Entries PROVE inflight'[x] = Cardinality(Holders(x)')
      <3>1. CASE x = e
        <4>1. Holders(x)' = Holders(x) \ {r}
          BY <2>1, <2>2, <3>1 DEF Holders, TypeOK
        <4>2. QED
          BY <2>1, <2>2, <2>4, <3>1, <4>1 DEF TypeOK
      <3>2. CASE x # e
        <4>1. Holders(x)' = Holders(x)
          BY <2>1, <3>2 DEF Holders, TypeOK, Entries, NoEntry
        <4>2. QED
          BY <2>1, <3>2, <4>1 DEF InflightExact, TypeOK
      <3>3. QED
        BY <3>1, <3>2
    <2>10. QED
      BY <2>7, <2>8, <2>9 DEF InflightExact
  <1>7. ASSUME NEW k \in Keys, NEW l \in Listeners, Subscribe(k, l) \/ Unsubscribe(k, l)
        PROVE  Bookkeeping'
    <2>1. /\ UNCHANGED <<tables, stats, closing, keyOf, inflight, idleFor, backend, callers,
                         todo, reaping>>
          /\ listeners' \in [Keys -> SUBSET Listeners]
          /\ releases' \in [Entries -> SUBSET Listeners]
      BY <1>7 DEF Subscribe, Unsubscribe, TypeOK
    <2>2. TypeOK' /\ HandleInv' /\ TableInv' /\ InflightExact'
      BY <2>1 DEF TypeOK, HandleInv, TableInv, InflightExact, Holders, tables, callers
    <2>3. QED
      BY <2>2
  <1>8. ASSUME NEW c \in Closers, NEW e \in Entries, StopBegins(c, e) \/ StopEnds(c, e)
        PROVE  Bookkeeping'
    <2>1. /\ UNCHANGED <<tables, listeners, stats, closing, objects, callers, reaping>>
          /\ backend' \in [Entries -> {"none", "running", "stopping", "stopped"}]
          /\ todo' \in [Closers -> SUBSET Entries]
      BY <1>8 DEF StopBegins, StopEnds, TypeOK
    <2>2. TypeOK' /\ HandleInv' /\ TableInv' /\ InflightExact'
      BY <2>1
      DEF TypeOK, HandleInv, TableInv, InflightExact, Holders, tables, objects, callers
    <2>3. QED
      BY <2>2
  <1>9. ASSUME NEW e \in Entries, Crash(e) PROVE Bookkeeping'
    <2>1. /\ UNCHANGED <<tables, listeners, stats, closing, objects, callers, todo, reaping>>
          /\ backend' \in [Entries -> {"none", "running", "stopping", "stopped"}]
      BY <1>9 DEF Crash, TypeOK
    <2>2. TypeOK' /\ HandleInv' /\ TableInv' /\ InflightExact'
      BY <2>1
      DEF TypeOK, HandleInv, TableInv, InflightExact, Holders, tables, objects, callers
    <2>3. QED
      BY <2>2
  <1>10. ASSUME Expire PROVE Bookkeeping'
    <2>1. /\ entries' = detachEntries(stale)
          /\ perSubject' = detachPerSubject(stale)
          /\ stats' = [stats EXCEPT !.idleExpired = @ + Cardinality(stale)]
          /\ todo' = [todo EXCEPT ![Reaper] = stale]
          /\ UNCHANGED <<listeners, closing, objects, backend, callers, reaping>>
      BY <1>10 DEF Expire
    <2>2. stale \in SUBSET Entries /\ Cardinality(stale) \in Nat
      BY EntriesFinite DEF stale, Pooled
    <2>3. entries' \in [Keys -> Entries \cup {NoEntry}] /\ perSubject' \in [Subjects -> Nat]
      BY <2>1, <2>2, DetachTypes
    <2>4. TypeOK'
      BY <2>1, <2>2, <2>3 DEF TypeOK, objects, callers, Closers
    <2>5. HandleInv' /\ InflightExact'
      BY <2>1 DEF HandleInv, InflightExact, Holders, TypeOK, objects, callers
    <2>6. TableInv'
      BY <2>1 DEF TableInv, detachEntries, TypeOK, objects
    <2>7. QED
      BY <2>4, <2>5, <2>6
  <1>11. ASSUME CloseBegins PROVE Bookkeeping'
    <2>1. TypeOK'
      BY <1>11 DEF CloseBegins, TypeOK, TakenByClose, Pooled, objects, callers, Closers
    <2>2. HandleInv' /\ TableInv' /\ InflightExact'
      BY <1>11 DEF CloseBegins, HandleInv, TableInv, InflightExact, Holders, objects, callers
    <2>3. QED
      BY <2>1, <2>2
  <1>12. ASSUME ReaperReturns \/ CloseWaited \/ CloseReturns PROVE Bookkeeping'
    <2>1. /\ UNCHANGED <<tables, listeners, stats, objects, backend, callers, todo>>
          /\ closing' \in {"open", "waiting", "stopping", "closed"} /\ reaping' \in BOOLEAN
      BY <1>12 DEF ReaperReturns, CloseWaited, CloseReturns, TypeOK
    <2>2. TypeOK' /\ HandleInv' /\ TableInv' /\ InflightExact'
      BY <2>1
      DEF TypeOK, HandleInv, TableInv, InflightExact, Holders, tables, objects, callers
    <2>3. QED
      BY <2>2
  <1>13. ASSUME Tick PROVE Bookkeeping'
    <2>1. idleFor' \in [Entries -> 0..AgeCap]
      BY <1>13, PoolAssumption DEF Tick, TypeOK, PoolAssumption
    <2>2. TypeOK' /\ HandleInv' /\ TableInv' /\ InflightExact'
      BY <1>13, <2>1
      DEF Tick, TypeOK, HandleInv, TableInv, InflightExact, Holders, tables, callers
    <2>3. QED
      BY <2>2
  <1>14. CASE UNCHANGED vars
    BY <1>14 DEF vars, TypeOK, HandleInv, TableInv, InflightExact, Holders, tables, objects,
                 callers
  <1>15. QED
    BY <1>1, <1>2, <1>3, <1>4, <1>5, <1>6, <1>7, <1>8, <1>9, <1>10, <1>11, <1>12, <1>13,
       <1>14 DEF Next, RequestStep

\* The bookkeeping is an invariant.
THEOREM BookkeepingCorrect == Spec => []Bookkeeping
  BY InitBookkeeping, NextBookkeeping, PTL DEF Spec

\* Type correctness of the pool.
THEOREM TypeCorrect == Spec => []TypeOK
  <1>1. Bookkeeping => TypeOK
    BY DEF Bookkeeping
  <1>2. QED
    BY <1>1, BookkeepingCorrect, PTL

\* Nobody is served by an entry made for another subject or configuration.
THEOREM IsolationHolds == Spec => []Isolation
  <1>1. Bookkeeping => Isolation
    BY DEF Bookkeeping, HandleInv, Isolation
  <1>2. QED
    BY <1>1, BookkeepingCorrect, PTL

-----------------------------------------------------------------------------
(* Safekeeping.                                                            *)

\* Until the pool is closed a request holds its key's entry; afterwards the
\* table is empty.
BusyInv ==
    /\ closed => \A k \in Keys : entries[k] = NoEntry
    /\ ~closed => \A r \in Requests : held[r] # NoEntry => entries[want[r]] = held[r]

\* Everything detached is exactly one goroutine's to stop, until it is stopped;
\* only Close detaches what requests hold.
OwnerInv ==
    /\ \A c \in Closers : \A e \in todo[c] :
          e <= stats.created /\ e \notin Pooled /\ backend[e] # "stopped"
    /\ \A c \in Closers : \A d \in Closers \ {c} : todo[c] \cap todo[d] = {}
    /\ \A e \in Entries : e <= stats.created /\ backend[e] # "stopped" =>
          e \in Pooled \/ \E c \in Closers : e \in todo[c]
    /\ \A c \in Closers \ {Closer} : \A e \in todo[c] : \A r \in Requests : held[r] # e

BackendInv ==
    /\ \A e \in Entries : ~(e <= stats.created) => backend[e] = "none"
    /\ \A e \in Pooled : backend[e] \in {"none", "running"}

\* Who may have something to stop, and when.
PhaseInv ==
    /\ \A r \in Requests : pc[r] # "evicting" => todo[r] = {}
    /\ todo[Closer] # {} => closing \in {"waiting", "stopping"}
    /\ ~reaping => closed /\ todo[Reaper] = {}
    /\ closing \in {"stopping", "closed"} => ~reaping

Safekeeping == BusyInv /\ OwnerInv /\ BackendInv /\ PhaseInv

\* Nobody stops a backend in its handshake, which holds b.mu.
StartingInv == \A r \in Requests : pc[r] = "starting" => backend[held[r]] \in {"none", "running"}

\* No request holds an entry whose inflight is zero.
LEMMA IdleUnheld ==
  ASSUME Bookkeeping, NEW e \in Entries, inflight[e] = 0
  PROVE  \A r \in Requests : held[r] # e
  <1>1. Cardinality(Holders(e)) = 0 /\ IsFiniteSet(Holders(e))
    BY HoldersFinite DEF Bookkeeping, InflightExact, Holders
  <1>2. Holders(e) = {}
    BY <1>1, FS_EmptySet
  <1>3. QED
    BY <1>2 DEF Holders

\* Detaching pooled entries removes exactly them from the table.
LEMMA DetachExact ==
  ASSUME Bookkeeping, NEW S \in SUBSET Pooled
  PROVE  detachEntries(S) = [k \in Keys |-> IF entries[k] \in S THEN NoEntry ELSE entries[k]]
  <1>1. ASSUME NEW k \in Keys
        PROVE  (\E e \in S : keyOf[e] = k) <=> entries[k] \in S
    <2>1. ASSUME NEW e \in S, keyOf[e] = k PROVE entries[k] \in S
      <3>1. PICK j \in Keys : entries[j] = e
        BY DEF Pooled
      <3>2. keyOf[e] = j
        BY <3>1 DEF Bookkeeping, TableInv, Pooled, Entries, NoEntry
      <3>3. QED
        BY <2>1, <3>1, <3>2
    <2>2. ASSUME entries[k] \in S PROVE \E e \in S : keyOf[e] = k
      <3>1. entries[k] # NoEntry
        BY <2>2 DEF Pooled, Entries, NoEntry
      <3>2. keyOf[entries[k]] = k
        BY <3>1 DEF Bookkeeping, TableInv
      <3>3. QED
        BY <2>2, <3>2
    <2>3. QED
      BY <2>1, <2>2
  <1>2. QED
    BY <1>1 DEF detachEntries

\* What insertLocked leaves in the table, and who holds what.
LEMMA InsertTable ==
  ASSUME Bookkeeping, NEW r \in Requests, NEW k \in Keys, NEW S \in SUBSET Pooled,
         insertLocked(r, k, S), EntryFor(k) = {}
  PROVE  LET e == stats.created + 1 IN
         /\ e \in Entries /\ e # NoEntry /\ ~(e <= stats.created) /\ e \notin Pooled
         /\ entries' = [j \in Keys |-> IF j = k THEN e
                                       ELSE IF entries[j] \in S THEN NoEntry ELSE entries[j]]
         /\ held' = [held EXCEPT ![r] = e] /\ want' = [want EXCEPT ![r] = k]
         /\ entries[k] = NoEntry
         /\ Pooled' = (Pooled \ S) \cup {e}
  <1> DEFINE e == stats.created + 1
  <1>1. /\ e \in Entries /\ e # NoEntry /\ ~(e <= stats.created)
    BY PoolAssumption, SMTT(30)
    DEF Bookkeeping, insertLocked, TypeOK, Entries, NoEntry, PoolAssumption
  <1>2. e \notin Pooled
    BY <1>1 DEF Bookkeeping, TableInv, Pooled
  <1>3. entries[k] = NoEntry
    BY DEF EntryFor, Pooled, Bookkeeping, TypeOK
  <1>4. entries' = [detachEntries(S) EXCEPT ![k] = e]
    BY DEF insertLocked
  <1>5. entries' = [j \in Keys |-> IF j = k THEN e
                                   ELSE IF entries[j] \in S THEN NoEntry ELSE entries[j]]
    BY <1>4, DetachExact
  <1>6. Pooled' = (Pooled \ S) \cup {e}
    BY <1>1, <1>3, <1>5 DEF Pooled, Entries, NoEntry
  <1>7. QED
    BY <1>1, <1>2, <1>3, <1>5, <1>6 DEF insertLocked

LEMMA InitSafekeeping == Init => Safekeeping
  <1> SUFFICES ASSUME Init PROVE Safekeeping
    OBVIOUS
  <1>1. Pooled = {} /\ ~closed
    BY DEF Init, Pooled, closed, Entries, NoEntry
  <1>2. \A e \in Entries : ~(e <= stats.created)
    BY PoolAssumption DEF Init, Entries, PoolAssumption
  <1>3. BusyInv /\ BackendInv
    BY <1>1 DEF Init, BusyInv, BackendInv, NoEntry
  <1>4. OwnerInv
    BY <1>2 DEF Init, OwnerInv
  <1>5. PhaseInv
    BY DEF Init, PhaseInv, Closers
  <1>6. QED
    BY <1>3, <1>4, <1>5 DEF Safekeeping

\* A request that takes a new entry, evicting those of S, keeps what is said of
\* the table and of backends.
LEMMA InsertSafekeeping ==
  ASSUME Bookkeeping, Safekeeping, NEW r \in Requests, NEW k \in Keys, NEW S \in SUBSET Pooled,
         \A v \in S : inflight[v] = 0,
         insertLocked(r, k, S), EntryFor(k) = {}, pc[r] = "idle", ~closed,
         stats'.created = stats.created + 1,
         UNCHANGED <<closing, backend, reaping>>,
         todo' = [todo EXCEPT ![r] = S],
         NEW p \in {"serving", "evicting"}, pc' = [pc EXCEPT ![r] = p],
         p = "serving" => S = {}
  PROVE  Safekeeping'
  <1> DEFINE e == stats.created + 1
  <1>1. /\ e \in Entries /\ e # NoEntry /\ ~(e <= stats.created) /\ e \notin Pooled
        /\ entries' = [j \in Keys |-> IF j = k THEN e
                                      ELSE IF entries[j] \in S THEN NoEntry ELSE entries[j]]
        /\ held' = [held EXCEPT ![r] = e] /\ want' = [want EXCEPT ![r] = k]
        /\ entries[k] = NoEntry
        /\ Pooled' = (Pooled \ S) \cup {e}
    BY InsertTable
  <1>2. \A v \in S : v \in Entries /\ v \in Pooled /\ \A q \in Requests : held[q] # v
    BY IdleUnheld DEF Pooled
  <1>3. TypeOK /\ HandleInv /\ TableInv
    BY DEF Bookkeeping
  <1>4. closed' = closed
    BY DEF closed
  <1>5. BusyInv'
    <2> SUFFICES ASSUME NEW q \in Requests, held'[q] # NoEntry
                 PROVE  entries'[want'[q]] = held'[q]
      BY <1>4 DEF BusyInv
    <2>1. CASE q = r
      BY <1>1, <1>3, <2>1 DEF TypeOK
    <2>2. CASE q # r
      <3>1. held'[q] = held[q] /\ want'[q] = want[q] /\ held[q] # NoEntry
        BY <1>1, <1>3, <2>2 DEF TypeOK
      <3>2. entries[want[q]] = held[q] /\ want[q] \in Keys
        BY <1>3, <3>1 DEF Safekeeping, BusyInv, HandleInv
      <3>3. want[q] # k /\ held[q] \notin S
        BY <1>1, <1>2, <3>1, <3>2
      <3>4. QED
        BY <1>1, <3>1, <3>2, <3>3
    <2>3. QED
      BY <2>1, <2>2
  <1>6. /\ \A c \in Closers : \A x \in todo[c] :
              x \in Entries /\ x <= stats.created /\ x \notin Pooled /\ backend[x] # "stopped"
        /\ \A x \in Pooled : x <= stats.created /\ x \in Entries
        /\ \A x \in Entries : x <= stats'.created => x <= stats.created \/ x = e
        /\ \A x \in Entries : x <= stats.created => x <= stats'.created /\ x # e
    <2>1. \A c \in Closers : \A x \in todo[c] :
             x \in Entries /\ x <= stats.created /\ x \notin Pooled /\ backend[x] # "stopped"
      BY <1>3 DEF Safekeeping, OwnerInv, TypeOK
    <2>2. \A x \in Pooled : x <= stats.created /\ x \in Entries
      BY <1>3 DEF TableInv, Pooled, Entries, NoEntry
    <2>3. stats.created \in Nat /\ stats'.created = e /\ \A x \in Entries : x \in Nat
      BY <1>3 DEF TypeOK, Entries
    <2>4. \A x \in Entries : x <= stats'.created => x <= stats.created \/ x = e
      BY <2>3
    <2>5. \A x \in Entries : x <= stats.created => x <= stats'.created /\ x # e
      BY <2>3
    <2>6. QED
      BY <2>1, <2>2, <2>4, <2>5
  <1>7. r \in Closers /\ r # Closer /\ todo[r] = {}
    BY PoolAssumption DEF Safekeeping, PhaseInv, Closers, PoolAssumption
  <1>8. \A c \in Closers : todo'[c] = IF c = r THEN S ELSE todo[c]
    BY <1>3 DEF TypeOK
  <1>9. OwnerInv'
    <2>1. \A c \in Closers : \A x \in todo'[c] :
             x <= stats'.created /\ x \notin Pooled' /\ backend'[x] # "stopped"
      <3>1. \A x \in S : backend[x] # "stopped"
        BY DEF Safekeeping, BackendInv
      <3>2. QED
        BY <1>1, <1>2, <1>6, <1>8, <3>1
    <2>2. \A c \in Closers : \A d \in Closers \ {c} : todo'[c] \cap todo'[d] = {}
      BY <1>2, <1>6, <1>8 DEF Safekeeping, OwnerInv
    <2>3. \A x \in Entries : x <= stats'.created /\ backend'[x] # "stopped" =>
             x \in Pooled' \/ \E c \in Closers : x \in todo'[c]
      BY <1>1, <1>6, <1>7, <1>8 DEF Safekeeping, OwnerInv
    <2>4. \A c \in Closers \ {Closer} : \A x \in todo'[c] : \A q \in Requests : held'[q] # x
      <3>1. \A q \in Requests : held'[q] = IF q = r THEN e ELSE held[q]
        BY <1>1, <1>3 DEF TypeOK
      <3>2. QED
        BY <1>1, <1>2, <1>6, <1>8, <3>1 DEF Safekeeping, OwnerInv
    <2>5. QED
      BY <2>1, <2>2, <2>3, <2>4 DEF OwnerInv
  <1>10. BackendInv'
    BY <1>1, <1>6 DEF Safekeeping, BackendInv
  <1>11. PhaseInv'
    BY <1>3, <1>4, <1>7, <1>8, PoolAssumption
    DEF Safekeeping, PhaseInv, TypeOK, PoolAssumption, Closers
  <1>12. QED
    BY <1>5, <1>9, <1>10, <1>11 DEF Safekeeping

\* No step stops the backend of a handshake.
LEMMA NextStarting == Bookkeeping /\ StartingInv /\ [Next]_vars => StartingInv'
  <1> SUFFICES ASSUME Bookkeeping, StartingInv, [Next]_vars,
                      NEW q \in Requests, pc'[q] = "starting"
               PROVE  backend'[held'[q]] \in {"none", "running"}
    BY DEF StartingInv
  <1>0. TypeOK /\ HandleInv
    BY DEF Bookkeeping
  <1>1. ASSUME NEW r \in Requests, Starts(r)
        PROVE  backend'[held'[q]] \in {"none", "running"}
    <2>1. /\ pc' = [pc EXCEPT ![r] = "starting"] /\ pc[r] = "serving" /\ UNCHANGED held
          /\ backend' = [backend EXCEPT ![held[r]] = "running"]
      BY <1>1 DEF Starts, Spawn
    <2>2. held[r] \in Entries
      BY <1>0, <2>1 DEF HandleInv, TypeOK
    <2>3. CASE held[q] = held[r]
      BY <1>0, <2>1, <2>2, <2>3 DEF TypeOK
    <2>4. CASE held[q] # held[r]
      BY <1>0, <2>1, <2>4 DEF StartingInv, TypeOK
    <2>5. QED
      BY <2>3, <2>4
  <1>2. ASSUME NEW r \in Requests, NotStarted(r)
        PROVE  backend'[held'[q]] \in {"none", "running"}
    <2>1. /\ pc' = [pc EXCEPT ![r] = "returning"] /\ pc[r] = "starting" /\ UNCHANGED held
          /\ backend' = [backend EXCEPT ![held[r]] = "none"]
      BY <1>2 DEF NotStarted
    <2>2. pc[q] = "starting" /\ held[q] \in Entries
      BY <1>0, <2>1 DEF HandleInv, TypeOK
    <2>3. QED
      BY <1>0, <2>1, <2>2 DEF StartingInv, TypeOK
  <1>3. ASSUME UNCHANGED backend, pc[q] = "starting", held'[q] = held[q]
        PROVE  backend'[held'[q]] \in {"none", "running"}
    BY <1>3 DEF StartingInv
  <1>4. ASSUME NEW r \in Requests, NEW k \in Keys,
               \/ AcquireHit(r, k) \/ AcquireRefused(r, k) \/ AcquireNew(r, k)
               \/ AcquireEvict(r, k)
        PROVE  backend'[held'[q]] \in {"none", "running"}
    <2>1. CASE AcquireRefused(r, k)
      BY <1>3, <2>1 DEF AcquireRefused, callers
    <2>2. CASE ~AcquireRefused(r, k)
      <3>1. /\ UNCHANGED backend
            /\ \E p \in {"serving", "evicting"} : pc' = [pc EXCEPT ![r] = p]
            /\ \E e : held' = [held EXCEPT ![r] = e]
        BY <1>4, <2>2 DEF AcquireHit, AcquireNew, AcquireEvict, insertLocked
      <3>2. q # r
        BY <1>0, <3>1 DEF TypeOK
      <3>3. pc[q] = "starting" /\ held'[q] = held[q]
        BY <1>0, <3>1, <3>2 DEF TypeOK
      <3>4. QED
        BY <1>3, <3>1, <3>3
    <2>3. QED
      BY <2>1, <2>2
  <1>5. ASSUME NEW r \in Requests,
               \/ EvictionDone(r) \/ SessionFound(r) \/ Started(r) \/ SessionFails(r)
               \/ CallReturns(r) \/ Release(r)
        PROVE  backend'[held'[q]] \in {"none", "running"}
    <2>1. /\ UNCHANGED backend
          /\ \E p \in {"serving", "calling", "returning", "idle"} : pc' = [pc EXCEPT ![r] = p]
          /\ held' = held \/ held' = [held EXCEPT ![r] = NoEntry]
      BY <1>5 DEF EvictionDone, SessionFound, Started, SessionFails, CallReturns, Release
    <2>2. q # r
      BY <1>0, <2>1 DEF TypeOK
    <2>3. pc[q] = "starting" /\ held'[q] = held[q]
      BY <1>0, <2>1, <2>2 DEF TypeOK
    <2>4. QED
      BY <1>3, <2>1, <2>3
  <1>6. ASSUME NEW c \in Closers, NEW e \in Entries, StopBegins(c, e) \/ StopEnds(c, e)
        PROVE  backend'[held'[q]] \in {"none", "running"}
    <2>1. /\ UNCHANGED <<pc, held>>
          /\ \E b : backend' = [backend EXCEPT ![e] = b]
      BY <1>6 DEF StopBegins, StopEnds, callers
    <2>2. backend[held[q]] \in {"none", "running"}
      BY <2>1 DEF StartingInv
    <2>3. held[q] # e
      BY <1>6, <2>1, <2>2 DEF StopBegins, StopEnds, Free, Holders
    <2>4. QED
      BY <1>0, <2>1, <2>2, <2>3 DEF TypeOK
  <1>7. ASSUME NEW e \in Entries, Crash(e)
        PROVE  backend'[held'[q]] \in {"none", "running"}
    <2>1. UNCHANGED <<pc, held>> /\ backend' = [backend EXCEPT ![e] = "none"]
      BY <1>7 DEF Crash, callers
    <2>2. QED
      BY <1>0, <2>1 DEF StartingInv, TypeOK
  <1>8. ASSUME \/ \E k \in Keys, l \in Listeners : Subscribe(k, l) \/ Unsubscribe(k, l)
               \/ Expire \/ ReaperReturns \/ CloseBegins \/ CloseWaited \/ CloseReturns
               \/ Tick \/ UNCHANGED vars
        PROVE  backend'[held'[q]] \in {"none", "running"}
    <2>1. UNCHANGED <<backend, pc, held>>
      BY <1>8 DEF Subscribe, Unsubscribe, Expire, ReaperReturns, CloseBegins, CloseWaited,
                  CloseReturns, Tick, callers, vars
    <2>2. QED
      BY <1>3, <2>1
  <1>9. QED
    BY <1>1, <1>2, <1>4, <1>5, <1>6, <1>7, <1>8 DEF Next, RequestStep

\* Every step keeps the safekeeping.
LEMMA NextSafekeeping ==
  Bookkeeping /\ StartingInv /\ Safekeeping /\ [Next]_vars => Safekeeping'
  <1> SUFFICES ASSUME Bookkeeping, StartingInv, Safekeeping, [Next]_vars PROVE Safekeeping'
    OBVIOUS
  <1> USE DEF Safekeeping
  <1>0. /\ TypeOK /\ HandleInv /\ TableInv
        /\ Closer \in Closers /\ Reaper \in Closers /\ Reaper # Closer
        /\ \A r \in Requests : r \in Closers /\ r # Closer /\ r # Reaper
    BY PoolAssumption DEF Bookkeeping, Closers, PoolAssumption
  <1>1. ASSUME NEW r \in Requests, NEW k \in Keys, AcquireHit(r, k)
        PROVE  Safekeeping'
    <2>1. PICK e \in EntryFor(k) : held' = [held EXCEPT ![r] = e]
      BY <1>1 DEF AcquireHit
    <2>2. /\ want' = [want EXCEPT ![r] = k] /\ pc' = [pc EXCEPT ![r] = "serving"]
          /\ pc[r] = "idle" /\ ~closed
          /\ UNCHANGED <<tables, listeners, stats, closing, keyOf, releases, backend, todo, reaping>>
      BY <1>1 DEF AcquireHit
    <2>3. e \in Pooled /\ entries[k] = e
      BY <2>1 DEF EntryFor
    <2>4. closed' = closed /\ Pooled' = Pooled
      BY <2>2 DEF closed, Pooled, tables
    <2>5. BusyInv'
      BY <1>0, <2>1, <2>2, <2>3, <2>4 DEF BusyInv, TypeOK, tables
    <2>6. OwnerInv' /\ BackendInv'
      BY <1>0, <2>1, <2>2, <2>3, <2>4 DEF OwnerInv, BackendInv, TypeOK, tables
    <2>7. PhaseInv'
      BY <1>0, <2>2, <2>4 DEF PhaseInv, TypeOK
    <2>8. QED
      BY <2>5, <2>6, <2>7
  <1>2. ASSUME NEW r \in Requests, NEW k \in Keys, AcquireRefused(r, k)
        PROVE  Safekeeping'
    <2>1. stats'.created = stats.created
      BY <1>0, <1>2 DEF AcquireRefused, TypeOK
    <2>2. UNCHANGED <<tables, listeners, closing, objects, backend, callers, todo, reaping>>
      BY <1>2 DEF AcquireRefused
    <2>3. closed' = closed /\ Pooled' = Pooled
      BY <2>2 DEF closed, Pooled, tables
    <2>4. QED
      BY <2>1, <2>2, <2>3 DEF BusyInv, OwnerInv, BackendInv, PhaseInv, tables, objects, callers
  <1>3. ASSUME NEW r \in Requests, NEW k \in Keys, AcquireNew(r, k)
        PROVE  Safekeeping'
    <2>1. /\ insertLocked(r, k, {}) /\ EntryFor(k) = {} /\ pc[r] = "idle" /\ ~closed
          /\ UNCHANGED <<closing, backend, reaping, todo>>
          /\ pc' = [pc EXCEPT ![r] = "serving"]
      BY <1>3 DEF AcquireNew
    <2>2. stats'.created = stats.created + 1
      BY <1>0, <1>3 DEF AcquireNew, TypeOK
    <2>3. todo' = [todo EXCEPT ![r] = {}]
      BY <1>0, <2>1 DEF PhaseInv, TypeOK
    <2>4. QED
      BY <2>1, <2>2, <2>3, InsertSafekeeping
  <1>4. ASSUME NEW r \in Requests, NEW k \in Keys, AcquireEvict(r, k)
        PROVE  Safekeeping'
    <2>1. PICK v \in leastRecentlyUsed :
             insertLocked(r, k, {v}) /\ todo' = [todo EXCEPT ![r] = {v}]
      BY <1>4 DEF AcquireEvict
    <2>2. /\ EntryFor(k) = {} /\ pc[r] = "idle" /\ ~closed
          /\ UNCHANGED <<closing, backend, reaping>>
          /\ pc' = [pc EXCEPT ![r] = "evicting"]
      BY <1>4 DEF AcquireEvict
    <2>3. stats'.created = stats.created + 1
      BY <1>0, <1>4 DEF AcquireEvict, TypeOK
    <2>4. {v} \in SUBSET Pooled /\ \A x \in {v} : inflight[x] = 0
      BY DEF leastRecentlyUsed
    <2>5. QED
      BY <2>1, <2>2, <2>3, <2>4, InsertSafekeeping
  <1>5. ASSUME NEW r \in Requests,
               \/ EvictionDone(r) \/ SessionFound(r) \/ Started(r) \/ SessionFails(r)
               \/ CallReturns(r)
        PROVE  Safekeeping'
    <2>1. /\ UNCHANGED <<tables, listeners, stats, closing, objects, backend, want, held, todo,
                         reaping>>
          /\ todo[r] = {}
          /\ \E p \in {"serving", "calling", "returning"} : pc' = [pc EXCEPT ![r] = p]
      BY <1>5 DEF EvictionDone, SessionFound, Started, SessionFails, CallReturns, PhaseInv
    <2>2. closed' = closed /\ Pooled' = Pooled
      BY <2>1 DEF closed, Pooled, tables
    <2>3. BusyInv' /\ OwnerInv' /\ BackendInv'
      BY <2>1, <2>2 DEF BusyInv, OwnerInv, BackendInv, tables
    <2>4. PhaseInv'
      BY <1>0, <2>1, <2>2 DEF PhaseInv, TypeOK
    <2>5. QED
      BY <2>3, <2>4
  <1>6. ASSUME NEW r \in Requests, Starts(r) \/ NotStarted(r) PROVE Safekeeping'
    <2>1. /\ UNCHANGED <<tables, listeners, stats, closing, objects, want, held, todo, reaping>>
          /\ pc[r] \in {"serving", "starting"}
          /\ \E p \in {"starting", "returning"} : pc' = [pc EXCEPT ![r] = p]
          /\ backend[held[r]] \in {"none", "running"}
          /\ \E b \in {"none", "running"} : backend' = [backend EXCEPT ![held[r]] = b]
      BY <1>6 DEF Starts, Spawn, NotStarted, StartingInv
    <2>2. closed' = closed /\ Pooled' = Pooled
      BY <2>1 DEF closed, Pooled, tables
    <2>3. held[r] \in Entries /\ held[r] <= stats.created
      BY <1>0, <2>1 DEF HandleInv, TypeOK
    <2>4. BusyInv'
      BY <2>1, <2>2 DEF BusyInv, tables
    <2>5. \A e \in Entries : /\ backend'[e] # "stopped" <=> backend[e] # "stopped"
                             /\ e = held[r] => backend'[e] \in {"none", "running"}
                             /\ e # held[r] => backend'[e] = backend[e]
      BY <1>0, <2>1, <2>3 DEF TypeOK
    <2>6. OwnerInv'
      BY <1>0, <2>1, <2>2, <2>5 DEF OwnerInv, TypeOK
    <2>7. BackendInv'
      BY <2>1, <2>2, <2>3, <2>5 DEF BackendInv, Pooled
    <2>8. PhaseInv'
      BY <1>0, <2>1, <2>2 DEF PhaseInv, TypeOK
    <2>9. QED
      BY <2>4, <2>6, <2>7, <2>8
  <1>7. ASSUME NEW r \in Requests, Release(r) PROVE Safekeeping'
    <2>1. /\ held' = [held EXCEPT ![r] = NoEntry]
          /\ want' = [want EXCEPT ![r] = NoKey]
          /\ pc' = [pc EXCEPT ![r] = "idle"] /\ pc[r] = "returning"
          /\ UNCHANGED <<tables, listeners, stats, closing, keyOf, releases, backend, todo, reaping>>
      BY <1>7 DEF Release
    <2>2. closed' = closed /\ Pooled' = Pooled
      BY <2>1 DEF closed, Pooled, tables
    <2>3. \A q \in Requests : /\ held'[q] = IF q = r THEN NoEntry ELSE held[q]
                              /\ want'[q] = IF q = r THEN NoKey ELSE want[q]
      BY <1>0, <2>1 DEF TypeOK
    <2>4. BusyInv' /\ BackendInv'
      BY <2>1, <2>2, <2>3 DEF BusyInv, BackendInv, tables
    <2>5. OwnerInv'
      BY <1>0, <2>1, <2>2, <2>3 DEF OwnerInv, TypeOK, Entries, NoEntry
    <2>6. PhaseInv'
      BY <1>0, <2>1, <2>2 DEF PhaseInv, TypeOK
    <2>7. QED
      BY <2>4, <2>5, <2>6
  <1>8. ASSUME NEW k \in Keys, NEW l \in Listeners, Subscribe(k, l) \/ Unsubscribe(k, l)
        PROVE  Safekeeping'
    <2>1. UNCHANGED <<tables, stats, closing, keyOf, inflight, idleFor, backend, callers, todo,
                      reaping>>
      BY <1>8 DEF Subscribe, Unsubscribe
    <2>2. QED
      BY <2>1 DEF BusyInv, OwnerInv, BackendInv, PhaseInv, Pooled, closed, tables, callers
  <1>9. ASSUME NEW c \in Closers, NEW e \in Entries, StopBegins(c, e) \/ StopEnds(c, e)
        PROVE  Safekeeping'
    <2>1. /\ UNCHANGED <<tables, listeners, stats, closing, objects, callers, reaping>>
          /\ e \in todo[c]
          /\ \/ /\ backend' = [backend EXCEPT ![e] = "stopping"]
                /\ UNCHANGED todo
             \/ /\ backend' = [backend EXCEPT ![e] = "stopped"]
                /\ todo' = [todo EXCEPT ![c] = @ \ {e}]
      BY <1>9 DEF StopBegins, StopEnds
    <2>2. closed' = closed /\ Pooled' = Pooled
      BY <2>1 DEF closed, Pooled, tables
    <2>3. /\ \A d \in Closers : todo'[d] \in SUBSET todo[d]
          /\ \A d \in Closers : d # c => todo'[d] = todo[d]
          /\ \A x \in Entries : x # e => (backend'[x] = backend[x]
                                          /\ (x \in todo[c] => x \in todo'[c]))
          /\ backend'[e] # "none" /\ (backend'[e] = "stopped" <=> e \notin todo'[c])
      BY <1>0, <2>1 DEF TypeOK
    <2>4. e \notin Pooled /\ e <= stats.created
      BY <2>1 DEF OwnerInv
    <2>5. BusyInv'
      BY <2>1, <2>2 DEF BusyInv, tables, callers
    <2>6. BackendInv'
      BY <2>1, <2>2, <2>3, <2>4 DEF BackendInv, Pooled
    <2>7. OwnerInv'
      <3>1. \A d \in Closers : \A x \in todo'[d] :
               x <= stats'.created /\ x \notin Pooled' /\ backend'[x] # "stopped"
        BY <1>0, <2>1, <2>2, <2>3 DEF OwnerInv, TypeOK
      <3>2. \A d \in Closers : \A f \in Closers \ {d} : todo'[d] \cap todo'[f] = {}
        BY <2>3 DEF OwnerInv
      <3>3. \A x \in Entries : x <= stats'.created /\ backend'[x] # "stopped" =>
               x \in Pooled' \/ \E d \in Closers : x \in todo'[d]
        BY <2>1, <2>2, <2>3 DEF OwnerInv
      <3>4. \A d \in Closers \ {Closer} : \A x \in todo'[d] : \A r \in Requests : held'[r] # x
        BY <2>1, <2>3 DEF OwnerInv, callers
      <3>5. QED
        BY <3>1, <3>2, <3>3, <3>4 DEF OwnerInv
    <2>8. PhaseInv'
      BY <1>0, <2>1, <2>2, <2>3 DEF PhaseInv, callers
    <2>9. QED
      BY <2>5, <2>6, <2>7, <2>8
  <1>10. ASSUME NEW e \in Entries, Crash(e) PROVE Safekeeping'
    <2>1. /\ UNCHANGED <<tables, listeners, stats, closing, objects, callers, todo, reaping>>
          /\ backend[e] = "running" /\ backend' = [backend EXCEPT ![e] = "none"]
      BY <1>10 DEF Crash
    <2>2. closed' = closed /\ Pooled' = Pooled
      BY <2>1 DEF closed, Pooled, tables
    <2>3. \A x \in Entries : backend'[x] = IF x = e THEN "none" ELSE backend[x]
      BY <1>0, <2>1 DEF TypeOK
    <2>4. BusyInv' /\ PhaseInv'
      BY <2>1, <2>2 DEF BusyInv, PhaseInv, tables, callers
    <2>5. OwnerInv'
      BY <1>0, <2>1, <2>2, <2>3 DEF OwnerInv, TypeOK, callers
    <2>6. BackendInv'
      BY <2>1, <2>2, <2>3 DEF BackendInv, Pooled
    <2>7. QED
      BY <2>4, <2>5, <2>6
  <1>11. ASSUME Expire PROVE Safekeeping'
    <2>1. /\ entries' = detachEntries(stale)
          /\ todo' = [todo EXCEPT ![Reaper] = stale]
          /\ UNCHANGED <<listeners, closing, objects, backend, callers, reaping>>
          /\ reaping /\ todo[Reaper] = {} /\ ~closed
      BY <1>11 DEF Expire
    <2>2. stats'.created = stats.created
      BY <1>0, <1>11 DEF Expire, TypeOK
    <2>3. stale \in SUBSET Pooled /\ \A e \in stale : \A r \in Requests : held[r] # e
      BY IdleUnheld DEF stale, Pooled
    <2>4. entries' = [k \in Keys |-> IF entries[k] \in stale THEN NoEntry ELSE entries[k]]
      BY <2>1, <2>3, DetachExact
    <2>5. closed' = closed /\ Pooled' = Pooled \ stale
      BY <2>1, <2>4 DEF closed, Pooled, Entries, NoEntry
    <2>6. \A c \in Closers : todo'[c] = IF c = Reaper THEN stale ELSE todo[c]
      BY <1>0, <2>1 DEF TypeOK
    <2>7. BusyInv'
      BY <1>0, <2>1, <2>3, <2>4, <2>5 DEF BusyInv, HandleInv, callers
    <2>8. BackendInv'
      BY <2>1, <2>2, <2>5 DEF BackendInv
    <2>9. \A e \in Pooled : e <= stats.created /\ e \in Entries
      BY <1>0 DEF TableInv, Pooled, Entries, NoEntry
    <2>10. OwnerInv'
      <3>1. \A d \in Closers : \A x \in todo'[d] :
               x <= stats'.created /\ x \notin Pooled' /\ backend'[x] # "stopped"
        BY <2>1, <2>2, <2>3, <2>5, <2>6, <2>9 DEF OwnerInv, BackendInv
      <3>2. \A d \in Closers : \A f \in Closers \ {d} : todo'[d] \cap todo'[f] = {}
        BY <2>3, <2>6 DEF OwnerInv
      <3>3. \A x \in Entries : x <= stats'.created /\ backend'[x] # "stopped" =>
               x \in Pooled' \/ \E d \in Closers : x \in todo'[d]
        BY <1>0, <2>1, <2>2, <2>5, <2>6 DEF OwnerInv
      <3>4. \A d \in Closers \ {Closer} : \A x \in todo'[d] : \A r \in Requests : held'[r] # x
        BY <2>1, <2>3, <2>6 DEF OwnerInv, callers
      <3>5. QED
        BY <3>1, <3>2, <3>3, <3>4 DEF OwnerInv
    <2>11. PhaseInv'
      BY <1>0, <2>1, <2>5, <2>6 DEF PhaseInv, callers
    <2>12. QED
      BY <2>7, <2>8, <2>10, <2>11
  <1>12. ASSUME CloseBegins PROVE Safekeeping'
    <2>1. /\ ~closed /\ closing' = "waiting"
          /\ todo' = [todo EXCEPT ![Closer] = Pooled]
          /\ entries' = [k \in Keys |-> NoEntry]
          /\ UNCHANGED <<listeners, stats, objects, backend, callers, reaping>>
      BY <1>12 DEF CloseBegins, TakenByClose
    <2>2. closed' /\ Pooled' = {} /\ todo[Closer] = {} /\ reaping
      BY <2>1 DEF closed, Pooled, Entries, NoEntry, PhaseInv
    <2>3. \A c \in Closers : todo'[c] = IF c = Closer THEN Pooled ELSE todo[c]
      BY <1>0, <2>1 DEF TypeOK, Pooled
    <2>4. \A e \in Pooled : e <= stats.created /\ e \in Entries
      BY <1>0 DEF TableInv, Pooled, Entries, NoEntry
    <2>5. BusyInv'
      BY <2>1, <2>2 DEF BusyInv
    <2>6. BackendInv'
      BY <2>1, <2>2 DEF BackendInv
    <2>7. OwnerInv'
      <3>1. \A d \in Closers : \A x \in todo'[d] :
               x <= stats'.created /\ x \notin Pooled' /\ backend'[x] # "stopped"
        BY <2>1, <2>2, <2>3, <2>4 DEF OwnerInv, BackendInv
      <3>2. \A d \in Closers : \A f \in Closers \ {d} : todo'[d] \cap todo'[f] = {}
        BY <2>3 DEF OwnerInv
      <3>3. \A x \in Entries : x <= stats'.created /\ backend'[x] # "stopped" =>
               x \in Pooled' \/ \E d \in Closers : x \in todo'[d]
        BY <1>0, <2>1, <2>2, <2>3 DEF OwnerInv
      <3>4. \A d \in Closers \ {Closer} : \A x \in todo'[d] : \A r \in Requests : held'[r] # x
        BY <2>1, <2>3 DEF OwnerInv, callers
      <3>5. QED
        BY <3>1, <3>2, <3>3, <3>4 DEF OwnerInv
    <2>8. PhaseInv'
      BY <1>0, <2>1, <2>2, <2>3 DEF PhaseInv, callers
    <2>9. QED
      BY <2>5, <2>6, <2>7, <2>8
  <1>13. ASSUME ReaperReturns \/ CloseWaited \/ CloseReturns PROVE Safekeeping'
    <2>1. UNCHANGED <<tables, listeners, stats, objects, backend, callers, todo>>
      BY <1>13 DEF ReaperReturns, CloseWaited, CloseReturns
    <2>2. closed' = closed /\ Pooled' = Pooled
      BY <1>13, <2>1 DEF ReaperReturns, CloseWaited, CloseReturns, closed, Pooled, tables
    <2>3. BusyInv' /\ OwnerInv' /\ BackendInv'
      BY <2>1, <2>2 DEF BusyInv, OwnerInv, BackendInv, tables, callers
    <2>4. PhaseInv'
      BY <1>13, <2>1, <2>2
      DEF PhaseInv, ReaperReturns, CloseWaited, CloseReturns, ReaperGone, callers, closed
    <2>5. QED
      BY <2>3, <2>4
  <1>14. ASSUME Tick PROVE Safekeeping'
    <2>1. UNCHANGED <<tables, listeners, stats, closing, backend, callers, todo, reaping>>
      BY <1>14 DEF Tick
    <2>2. QED
      BY <2>1 DEF BusyInv, OwnerInv, BackendInv, PhaseInv, Pooled, closed, tables, callers
  <1>15. CASE UNCHANGED vars
    BY <1>15 DEF BusyInv, OwnerInv, BackendInv, PhaseInv, Pooled, closed, vars, tables, callers
  <1>16. QED
    BY <1>1, <1>2, <1>3, <1>4, <1>5, <1>6, <1>7, <1>8, <1>9, <1>10, <1>11, <1>12, <1>13,
       <1>14, <1>15 DEF Next, RequestStep

THEOREM SafekeepingCorrect == Spec => [](Bookkeeping /\ StartingInv /\ Safekeeping)
  <1>1. Init => Bookkeeping /\ StartingInv /\ Safekeeping
    BY InitBookkeeping, InitSafekeeping DEF Init, StartingInv
  <1>2. (Bookkeeping /\ StartingInv /\ Safekeeping) /\ [Next]_vars
        => (Bookkeeping /\ StartingInv /\ Safekeeping)'
    BY NextBookkeeping, NextStarting, NextSafekeeping
  <1>3. QED
    BY <1>1, <1>2, PTL DEF Spec

-----------------------------------------------------------------------------
(* What follows for the properties of module Pool.                         *)

\* A backend serving a request is never evicted, expired or closed under it,
\* until Close is called.
THEOREM BusyKeptHolds == Spec => []BusyKept
  <1>1. Bookkeeping /\ Safekeeping => BusyKept
    <2> SUFFICES ASSUME Bookkeeping, Safekeeping,
                        NEW r \in Requests, held[r] # NoEntry, ~closed
                 PROVE  /\ entries[want[r]] = held[r]
                        /\ \A c \in Closers : held[r] \notin todo[c]
                        /\ backend[held[r]] \in {"none", "running"}
      BY DEF BusyKept
    <2>1. entries[want[r]] = held[r]
      BY DEF Safekeeping, BusyInv
    <2>2. held[r] \in Pooled
      BY <2>1 DEF Bookkeeping, TypeOK, HandleInv, Pooled
    <2>3. QED
      BY <2>1, <2>2 DEF Safekeeping, OwnerInv, BackendInv
  <1>2. QED
    BY <1>1, SafekeepingCorrect, PTL

\* Every backend that is not stopped is the table's or exactly one goroutine's.
THEOREM OneOwnerHolds == Spec => []OneOwner
  <1>1. Bookkeeping /\ Safekeeping => OneOwner
    <2> SUFFICES ASSUME Bookkeeping, Safekeeping,
                        NEW e \in 1..stats.created, backend[e] # "stopped"
                 PROVE  \/ e \in Pooled /\ \A c \in Closers : e \notin todo[c]
                        \/ /\ e \notin Pooled
                           /\ \E c \in Closers : /\ e \in todo[c]
                                                 /\ \A d \in Closers \ {c} : e \notin todo[d]
      BY DEF OneOwner
    <2>1. e \in Entries /\ e <= stats.created
      BY PoolAssumption DEF Bookkeeping, TypeOK, Entries, PoolAssumption
    <2>2. CASE e \in Pooled
      BY <2>2 DEF Safekeeping, OwnerInv
    <2>3. CASE e \notin Pooled
      <3>1. PICK c \in Closers : e \in todo[c]
        BY <2>1, <2>3 DEF Safekeeping, OwnerInv
      <3>2. \A d \in Closers \ {c} : e \notin todo[d]
        BY <3>1 DEF Safekeeping, OwnerInv
      <3>3. QED
        BY <2>3, <3>1, <3>2
    <2>4. QED
      BY <2>2, <2>3
  <1>2. QED
    BY <1>1, SafekeepingCorrect, PTL

\* When Close has returned, nothing is left but evictions in progress.
THEOREM OnlyEvictedSurviveCloseHolds == Spec => []OnlyEvictedSurviveClose
  <1>1. Bookkeeping /\ Safekeeping => OnlyEvictedSurviveClose
    <2> SUFFICES ASSUME Bookkeeping, Safekeeping, closing = "closed", NEW e \in Alive
                 PROVE  e \in UNION {todo[r] : r \in Requests}
      BY DEF OnlyEvictedSurviveClose
    <2>1. Pooled = {} /\ todo[Closer] = {} /\ todo[Reaper] = {}
      <3>1. Pooled = {}
        BY DEF Safekeeping, BusyInv, closed, Pooled, Entries, NoEntry
      <3>2. QED
        BY <3>1 DEF Safekeeping, PhaseInv
    <2>2. e \in Entries /\ e <= stats.created /\ backend[e] # "stopped"
      BY DEF Alive, Safekeeping, BackendInv
    <2>3. PICK c \in Closers : e \in todo[c]
      BY <2>1, <2>2 DEF Safekeeping, OwnerInv
    <2>4. c \in Requests
      BY <2>1, <2>3 DEF Closers
    <2>5. QED
      BY <2>3, <2>4
  <1>2. QED
    BY <1>1, SafekeepingCorrect, PTL

\* After Close has returned, no process is started, whatever a request had
\* acquired before.
THEOREM NoStartAfterCloseHolds == Spec => NoStartAfterClose
  <1>1. Bookkeeping /\ Safekeeping /\ [Next]_vars
        => [closing = "closed" => Alive' \subseteq Alive]_vars
    <2> SUFFICES ASSUME Bookkeeping, Safekeeping, Next, closing = "closed",
                        NEW e \in Alive', e \notin Alive
                 PROVE  FALSE
      BY DEF vars
    <2>1. closed /\ TypeOK /\ e \in Entries
      BY DEF closed, Bookkeeping, Alive
    <2>2. \E r \in Requests : Starts(r)
      <3>1. /\ backend[e] \in {"none", "stopped"} /\ backend'[e] \in {"running", "stopping"}
            /\ backend'[e] # backend[e]
        BY <2>1 DEF Alive, TypeOK
      <3>2. ASSUME NEW c \in Closers, NEW x \in Entries, StopBegins(c, x) \/ StopEnds(c, x)
            PROVE  FALSE
        BY <2>1, <3>1, <3>2 DEF StopBegins, StopEnds, TypeOK
      <3>3. ASSUME NEW x \in Entries, Crash(x) PROVE FALSE
        BY <2>1, <3>1, <3>3 DEF Crash, TypeOK
      <3>4. ASSUME NEW r \in Requests, NotStarted(r) PROVE FALSE
        BY <2>1, <3>1, <3>4 DEF NotStarted, TypeOK
      <3>5. UNCHANGED backend \/ \E r \in Requests : Starts(r)
        BY <3>2, <3>3, <3>4
        DEF Next, RequestStep, AcquireHit, AcquireRefused, AcquireNew, AcquireEvict,
            EvictionDone, SessionFound, Started, SessionFails, CallReturns, Release,
            Subscribe, Unsubscribe, Expire, ReaperReturns, CloseBegins, CloseWaited,
            CloseReturns, Tick
      <3>6. QED
        BY <3>1, <3>5
    <2>3. PICK r \in Requests : Starts(r)
      BY <2>2
    <2>4. e = held[r] /\ backend[held[r]] # "stopped" /\ held[r] # NoEntry
      <3>1. held[r] # NoEntry
        BY <2>3 DEF Starts, Spawn, Bookkeeping, HandleInv
      <3>2. held[r] = e
        BY <2>1, <2>3, <3>1 DEF Starts, Spawn, Alive, TypeOK
      <3>3. QED
        BY <2>3, <3>1, <3>2 DEF Starts, Spawn
    <2>5. e <= stats.created
      BY <2>4 DEF Bookkeeping, HandleInv
    <2>6. e \notin Pooled
      BY <2>1 DEF Safekeeping, BusyInv, Pooled, Entries, NoEntry
    <2>7. PICK c \in Closers : e \in todo[c]
      BY <2>1, <2>4, <2>5, <2>6 DEF Safekeeping, OwnerInv
    <2>8. c # Closer
      BY <2>7 DEF Safekeeping, PhaseInv
    <2>9. QED
      BY <2>4, <2>7, <2>8 DEF Safekeeping, OwnerInv
  <1>2. QED
    BY <1>1, SafekeepingCorrect, PTL DEF Spec, NoStartAfterClose

\* Whatever requests, the reaper, Close and crashes do to a backend is what module
\* Lifecycle allows.
THEOREM BackendsLiveHolds == Spec => BackendsLive
  <1>1. ASSUME TypeOK, StartingInv, [Next]_vars, NEW x \in Entries PROVE [Life(x)!Next]_(backend[x])
    <2> USE <1>1 DEF Life!Next, Life!Move
    <2>1. ASSUME NEW r \in Requests, Starts(r) \/ NotStarted(r)
          PROVE  [Life(x)!Next]_(backend[x])
      BY <2>1 DEF Starts, Spawn, NotStarted, StartingInv, TypeOK
    <2>2. ASSUME NEW c \in Closers, NEW e \in Entries, StopBegins(c, e)
          PROVE  [Life(x)!Next]_(backend[x])
      BY <2>2 DEF StopBegins, TypeOK
    <2>3. ASSUME NEW c \in Closers, NEW e \in Entries, StopEnds(c, e)
          PROVE  [Life(x)!Next]_(backend[x])
      BY <2>3 DEF StopEnds, TypeOK
    <2>4. ASSUME NEW e \in Entries, Crash(e) PROVE [Life(x)!Next]_(backend[x])
      BY <2>4 DEF Crash, TypeOK
    <2>5. CASE UNCHANGED backend
      BY <2>5
    <2>6. QED
      BY <2>1, <2>2, <2>3, <2>4, <2>5
      DEF Next, RequestStep, AcquireHit, AcquireRefused, AcquireNew, AcquireEvict,
          EvictionDone, SessionFound, Started, SessionFails, CallReturns, Release,
          Subscribe, Unsubscribe, Expire, ReaperReturns, CloseBegins, CloseWaited,
          CloseReturns, Tick, vars
  <1>2. Bookkeeping /\ StartingInv /\ [Next]_vars => [LifeStep]_vars
    BY <1>1 DEF LifeStep, Bookkeeping
  <1>3. QED
    BY <1>2, SafekeepingCorrect, PTL DEF Spec, BackendsLive

-----------------------------------------------------------------------------
(* The third layer: perSubject counts the subject's entries, the limits     *)
(* hold, the statistics add up, present backends are subscribed to for      *)
(* whoever listens, and the pool implements module Slots.                   *)

\* The limits, of the table.
TableWithinLimits ==
    /\ Cardinality(UsedKeys) <= MaxProcesses
    /\ \A s \in Subjects : Cardinality(KeysOf(s)) <= MaxPerSubject

QuotaInv ==
    /\ \A s \in Subjects : perSubject[s] = Cardinality(KeysOf(s))
    /\ TableWithinLimits
    /\ ~closed => stats.created = Cardinality(UsedKeys) + stats.evicted + stats.idleExpired

\* There are finitely many keys.
LEMMA KeysFinite == \A S \in SUBSET Keys : IsFiniteSet(S) /\ Cardinality(S) \in Nat
  <1> DEFINE f == [p \in Subjects \X Fingerprints |-> [subject |-> p[1], fingerprint |-> p[2]]]
  <1>1. IsFiniteSet(Subjects \X Fingerprints)
    BY PoolAssumption, FS_Product DEF PoolAssumption
  <1>2. f \in [Subjects \X Fingerprints -> Keys]
    BY DEF Keys
  <1>3. ASSUME NEW k \in Keys PROVE \E p \in Subjects \X Fingerprints : f[p] = k
    <2>1. <<k.subject, k.fingerprint>> \in Subjects \X Fingerprints
      BY DEF Keys
    <2>2. f[<<k.subject, k.fingerprint>>] = k
      BY <2>1 DEF Keys
    <2>3. QED
      BY <2>1, <2>2
  <1>4. f \in Surjection(Subjects \X Fingerprints, Keys)
    BY <1>2, <1>3 DEF Surjection
  <1>5. IsFiniteSet(Keys)
    BY <1>1, <1>4, FS_Surjection
  <1>6. QED
    BY <1>5, FS_Subset, FS_CardinalityType

\* Different keys have different entries, so as many.
LEMMA CountEntries ==
  ASSUME Bookkeeping, NEW A \in SUBSET UsedKeys
  PROVE  Cardinality({entries[k] : k \in A}) = Cardinality(A)
  <1> DEFINE T == {entries[k] : k \in A}
             f == [k \in A |-> entries[k]]
  <1>1. \A k \in A : k \in Keys /\ entries[k] # NoEntry /\ keyOf[entries[k]] = k
    BY DEF UsedKeys, Bookkeeping, TableInv
  <1>2. \A j, k \in A : f[j] = f[k] => j = k
    BY <1>1
  <1>3. f \in [A -> T] /\ \A t \in T : \E k \in A : f[k] = t
    OBVIOUS
  <1>4. f \in Bijection(A, T)
    BY <1>2, <1>3 DEF Bijection, Injection, Surjection, IsInjective
  <1>5. ExistsBijection(A, T)
    BY <1>4 DEF ExistsBijection
  <1>6. IsFiniteSet(A)
    BY KeysFinite DEF UsedKeys
  <1>7. QED
    BY <1>5, <1>6, FS_Bijection

\* The keys that lose their entry when those of S are detached.
Losing(S) == {k \in UsedKeys : entries[k] \in S}

\* detachLocked gives back exactly as many places of each subject as it takes
\* entries from it.
LEMMA DetachCounts ==
  ASSUME Bookkeeping, QuotaInv, NEW S \in SUBSET Pooled
  PROVE  /\ Cardinality(UsedKeys \ Losing(S)) = Cardinality(UsedKeys) - Cardinality(S)
         /\ Cardinality(UsedKeys) \in Nat /\ Cardinality(S) \in Nat
         /\ Cardinality(S) <= Cardinality(UsedKeys)
         /\ \A s \in Subjects :
               detachPerSubject(S)[s] = Cardinality(KeysOf(s) \ Losing(S))
  <1>1. \A k \in UsedKeys : k \in Keys /\ keyOf[entries[k]] = k /\ entries[k] # NoEntry
    BY DEF UsedKeys, Bookkeeping, TableInv
  <1>2. \A e \in S : e \in Entries /\ \E k \in UsedKeys : entries[k] = e
    BY DEF Pooled, UsedKeys, Entries, NoEntry
  <1>3. S = {entries[k] : k \in Losing(S)}
    BY <1>2 DEF Losing
  <1>4. Losing(S) \in SUBSET UsedKeys
    BY DEF Losing
  <1>5. Cardinality(S) = Cardinality(Losing(S))
    BY <1>3, <1>4, CountEntries
  <1>6. /\ IsFiniteSet(UsedKeys) /\ Cardinality(UsedKeys) \in Nat
        /\ IsFiniteSet(Losing(S)) /\ Cardinality(Losing(S)) \in Nat
        /\ UsedKeys \cap Losing(S) = Losing(S)
        /\ Cardinality(Losing(S)) <= Cardinality(UsedKeys)
    BY <1>4, KeysFinite, FS_Subset DEF UsedKeys
  <1>7. Cardinality(UsedKeys \ Losing(S)) = Cardinality(UsedKeys) - Cardinality(S)
    <2>1. Cardinality(UsedKeys \ Losing(S))
             = Cardinality(UsedKeys) - Cardinality(UsedKeys \cap Losing(S))
      BY <1>6, FS_Difference
    <2>2. QED
      BY <1>5, <1>6, <2>1
  <1>8. ASSUME NEW s \in Subjects
        PROVE  detachPerSubject(S)[s] = Cardinality(KeysOf(s) \ Losing(S))
    <2> DEFINE E == {e \in S : keyOf[e].subject = s}
               L == KeysOf(s) \cap Losing(S)
               n == Cardinality(E)
    <2>1. L \in SUBSET UsedKeys
      BY DEF KeysOf
    <2>2. E = {entries[k] : k \in L}
      <3>1. ASSUME NEW e \in E PROVE \E k \in L : entries[k] = e
        <4>1. PICK k \in UsedKeys : entries[k] = e
          BY <1>2
        <4>2. k.subject = s
          BY <1>1, <4>1
        <4>3. QED
          BY <4>1, <4>2 DEF KeysOf, Losing
      <3>2. ASSUME NEW k \in L PROVE entries[k] \in E
        <4>1. k \in UsedKeys /\ k.subject = s /\ entries[k] \in S
          BY DEF KeysOf, Losing
        <4>2. QED
          BY <1>1, <4>1
      <3>3. QED
        BY <3>1, <3>2
    <2>3. Cardinality(E) = Cardinality(L)
      BY <2>1, <2>2, CountEntries
    <2>4. /\ IsFiniteSet(KeysOf(s)) /\ Cardinality(KeysOf(s)) \in Nat
          /\ Cardinality(L) \in Nat /\ Cardinality(L) <= Cardinality(KeysOf(s))
      <3>1. KeysOf(s) \in SUBSET Keys /\ L \in SUBSET KeysOf(s)
        BY DEF KeysOf, UsedKeys
      <3>2. QED
        BY <3>1, KeysFinite, FS_Subset
    <2>5. Cardinality(KeysOf(s) \ Losing(S)) = Cardinality(KeysOf(s)) - Cardinality(L)
      BY <2>4, FS_Difference
    <2>6. detachPerSubject(S)[s] = IF perSubject[s] <= n THEN 0 ELSE perSubject[s] - n
      BY DEF detachPerSubject
    <2>7. perSubject[s] = Cardinality(KeysOf(s)) /\ n = Cardinality(L)
      BY <2>3 DEF QuotaInv
    <2> HIDE DEF n, L
    <2>8. QED
      BY <2>4, <2>5, <2>6, <2>7
  <1>9. QED
    BY <1>5, <1>6, <1>7, <1>8

LEMMA InitQuota == Init => QuotaInv
  <1> SUFFICES ASSUME Init PROVE QuotaInv
    OBVIOUS
  <1>1. UsedKeys = {} /\ \A s \in Subjects : KeysOf(s) = {}
    BY DEF Init, UsedKeys, KeysOf
  <1>2. Cardinality({}) = 0
    BY FS_EmptySet
  <1>3. TableWithinLimits
    BY <1>1, <1>2, PoolAssumption DEF TableWithinLimits, PoolAssumption
  <1>4. stats.created = Cardinality(UsedKeys) + stats.evicted + stats.idleExpired
    BY <1>1, <1>2 DEF Init
  <1>5. \A s \in Subjects : perSubject[s] = Cardinality(KeysOf(s))
    BY <1>1, <1>2 DEF Init
  <1>6. QED
    BY <1>3, <1>4, <1>5 DEF QuotaInv

\* What insertLocked leaves of the sets the quotas count.
LEMMA InsertQuota ==
  ASSUME Bookkeeping, QuotaInv, NEW r \in Requests, NEW k \in Keys, NEW S \in SUBSET Pooled,
         insertLocked(r, k, S), EntryFor(k) = {}, ~SubjectFull(k), closed' = closed,
         Cardinality(UsedKeys) - Cardinality(S) < MaxProcesses,
         stats'.created = stats.created + 1,
         stats'.evicted = stats.evicted + Cardinality(S),
         stats'.idleExpired = stats.idleExpired
  PROVE  /\ QuotaInv'
         /\ UsedKeys' = (UsedKeys \ Losing(S)) \cup {k} /\ k \notin UsedKeys
  <1> DEFINE e == stats.created + 1
             U == UsedKeys \ Losing(S)
  <1>1. /\ e # NoEntry /\ entries[k] = NoEntry
        /\ entries' = [j \in Keys |-> IF j = k THEN e
                                      ELSE IF entries[j] \in S THEN NoEntry ELSE entries[j]]
    BY InsertTable
  <1>2. UsedKeys' = U \cup {k} /\ k \notin UsedKeys /\ k \notin U
    BY <1>1 DEF UsedKeys, Losing
  <1>3. \A s \in Subjects :
           KeysOf(s)' = IF s = k.subject THEN (KeysOf(s) \ Losing(S)) \cup {k}
                                         ELSE KeysOf(s) \ Losing(S)
    BY <1>2 DEF KeysOf
  <1>4. /\ IsFiniteSet(U) /\ Cardinality(U) \in Nat
        /\ Cardinality(U) = Cardinality(UsedKeys) - Cardinality(S)
        /\ Cardinality(UsedKeys) \in Nat /\ Cardinality(S) \in Nat
    BY DetachCounts, KeysFinite DEF UsedKeys
  <1>5. Cardinality(UsedKeys') = Cardinality(U) + 1
    BY <1>2, <1>4, FS_AddElement
  <1>6. perSubject' = [detachPerSubject(S) EXCEPT ![k.subject] = @ + 1]
    BY DEF insertLocked
  <1>7. k.subject \in Subjects
    BY DEF Keys
  <1>8. ASSUME NEW s \in Subjects
        PROVE  /\ perSubject'[s] = Cardinality(KeysOf(s)')
               /\ Cardinality(KeysOf(s)') <= MaxPerSubject
    <2> DEFINE R == KeysOf(s) \ Losing(S)
    <2>1. /\ IsFiniteSet(R) /\ Cardinality(R) \in Nat
          /\ IsFiniteSet(KeysOf(s)) /\ Cardinality(KeysOf(s)) \in Nat
          /\ Cardinality(R) <= Cardinality(KeysOf(s))
      <3>1. KeysOf(s) \in SUBSET Keys /\ R \in SUBSET KeysOf(s)
        BY DEF KeysOf, UsedKeys
      <3>2. QED
        BY <3>1, KeysFinite, FS_Subset
    <2>2. detachPerSubject(S)[s] = Cardinality(R)
      BY DetachCounts
    <2>3. Cardinality(KeysOf(s)) <= MaxPerSubject /\ perSubject[s] = Cardinality(KeysOf(s))
      BY DEF QuotaInv, TableWithinLimits
    <2>4. CASE s = k.subject
      <3>1. k \notin R
        BY <1>2 DEF KeysOf
      <3>a. KeysOf(s)' = R \cup {k}
        BY <1>3, <2>4
      <3>b. Cardinality(R \cup {k}) = Cardinality(R) + 1
        <4> HIDE DEF R
        <4> QED
          BY <2>1, <3>1, FS_AddElement
      <3>2. Cardinality(KeysOf(s)') = Cardinality(R) + 1
        BY <3>a, <3>b
      <3>3. detachPerSubject(S) \in [Subjects -> Nat]
        BY DetachTypes DEF Bookkeeping, Pooled
      <3>4. perSubject'[s] = Cardinality(R) + 1
        BY <1>6, <2>2, <2>4, <3>3
      <3>5. ~(Cardinality(KeysOf(s)) >= MaxPerSubject) /\ MaxPerSubject \in Nat
        BY <2>3, <2>4, PoolAssumption DEF SubjectFull, PoolAssumption
      <3> HIDE DEF R
      <3>6. QED
        BY <2>1, <3>2, <3>4, <3>5
    <2>5. CASE s # k.subject
      <3>1. KeysOf(s)' = R
        BY <1>3, <2>5
      <3>2. perSubject'[s] = Cardinality(R)
        BY <1>6, <2>2, <2>5 DEF detachPerSubject
      <3>3. MaxPerSubject \in Nat
        BY PoolAssumption DEF PoolAssumption
      <3> HIDE DEF R
      <3>4. QED
        BY <2>1, <2>3, <3>1, <3>2, <3>3
    <2>6. QED
      BY <2>4, <2>5
  <1>9. Cardinality(UsedKeys') <= MaxProcesses
    BY <1>4, <1>5, PoolAssumption DEF PoolAssumption
  <1>10. ~closed' => stats'.created
                     = Cardinality(UsedKeys') + stats'.evicted + stats'.idleExpired
    <2>1. ~closed => stats.created = Cardinality(UsedKeys) + stats.evicted + stats.idleExpired
      BY DEF QuotaInv
    <2>2. stats.created \in Nat /\ stats.evicted \in Nat /\ stats.idleExpired \in Nat
      BY DEF Bookkeeping, TypeOK
    <2> HIDE DEF U
    <2>3. QED
      BY <1>4, <1>5, <2>1, <2>2
  <1>11. QED
    BY <1>2, <1>8, <1>9, <1>10 DEF QuotaInv, TableWithinLimits

\* Every step keeps the quotas.
LEMMA NextQuota == Bookkeeping /\ QuotaInv /\ [Next]_vars => QuotaInv'
  <1> SUFFICES ASSUME Bookkeeping, QuotaInv, [Next]_vars PROVE QuotaInv'
    OBVIOUS
  <1>0. TypeOK /\ Cardinality(UsedKeys) \in Nat
    BY KeysFinite DEF Bookkeeping, UsedKeys
  <1>1. ASSUME NEW r \in Requests, NEW k \in Keys, AcquireNew(r, k)
        PROVE  QuotaInv'
    <2>1. /\ insertLocked(r, k, {}) /\ EntryFor(k) = {} /\ ~SubjectFull(k) /\ ~PoolFull
          /\ closed' = closed
      BY <1>1 DEF AcquireNew, closed
    <2>2. Cardinality({}) = 0
      BY FS_EmptySet
    <2>3. Cardinality(UsedKeys) - Cardinality({}) < MaxProcesses
      BY <1>0, <2>1, <2>2, PoolAssumption DEF PoolFull, PoolAssumption
    <2>4. /\ stats'.created = stats.created + 1 /\ stats'.idleExpired = stats.idleExpired
          /\ stats'.evicted = stats.evicted + Cardinality({})
      BY <1>0, <1>1, <2>2 DEF AcquireNew, TypeOK
    <2>5. QED
      BY <2>1, <2>3, <2>4, InsertQuota
  <1>2. ASSUME NEW r \in Requests, NEW k \in Keys, AcquireEvict(r, k)
        PROVE  QuotaInv'
    <2>1. PICK v \in leastRecentlyUsed : insertLocked(r, k, {v})
      BY <1>2 DEF AcquireEvict
    <2>2. EntryFor(k) = {} /\ ~SubjectFull(k) /\ closed' = closed
      BY <1>2 DEF AcquireEvict, closed
    <2>3. Cardinality({v}) = 1
      BY FS_Singleton
    <2>4. Cardinality(UsedKeys) - Cardinality({v}) < MaxProcesses
      BY <1>0, <2>3, PoolAssumption DEF QuotaInv, TableWithinLimits, PoolAssumption
    <2>5. /\ stats'.created = stats.created + 1 /\ stats'.idleExpired = stats.idleExpired
          /\ stats'.evicted = stats.evicted + Cardinality({v})
      BY <1>0, <1>2, <2>3 DEF AcquireEvict, TypeOK
    <2>6. {v} \in SUBSET Pooled
      BY DEF leastRecentlyUsed
    <2>7. QED
      BY <2>1, <2>2, <2>4, <2>5, <2>6, InsertQuota
  <1>3. ASSUME Expire PROVE QuotaInv'
    <2>1. /\ entries' = detachEntries(stale) /\ perSubject' = detachPerSubject(stale)
          /\ stats' = [stats EXCEPT !.idleExpired = @ + Cardinality(stale)]
          /\ closed' = closed
      BY <1>3 DEF Expire, closed
    <2>2. stale \in SUBSET Pooled
      BY DEF stale
    <2>3. entries' = [k \in Keys |-> IF entries[k] \in stale THEN NoEntry ELSE entries[k]]
      BY <2>1, <2>2, DetachExact
    <2>4. /\ UsedKeys' = UsedKeys \ Losing(stale)
          /\ \A s \in Subjects : KeysOf(s)' = KeysOf(s) \ Losing(stale)
      BY <2>3 DEF UsedKeys, KeysOf, Losing
    <2>5. /\ Cardinality(UsedKeys') = Cardinality(UsedKeys) - Cardinality(stale)
          /\ Cardinality(stale) \in Nat
          /\ \A s \in Subjects : perSubject'[s] = Cardinality(KeysOf(s)')
      BY <2>1, <2>2, <2>4, DetachCounts
    <2>6. ASSUME NEW s \in Subjects PROVE Cardinality(KeysOf(s)') <= MaxPerSubject
      <3>1. /\ KeysOf(s) \in SUBSET Keys /\ KeysOf(s)' \in SUBSET KeysOf(s)
        BY <2>4 DEF KeysOf, UsedKeys
      <3>2. /\ Cardinality(KeysOf(s)') <= Cardinality(KeysOf(s))
            /\ Cardinality(KeysOf(s)') \in Nat /\ Cardinality(KeysOf(s)) \in Nat
        BY <3>1, KeysFinite, FS_Subset
      <3>3. Cardinality(KeysOf(s)) <= MaxPerSubject /\ MaxPerSubject \in Nat
        BY PoolAssumption DEF QuotaInv, TableWithinLimits, PoolAssumption
      <3>4. QED
        BY <3>2, <3>3
    <2>7. Cardinality(UsedKeys') <= MaxProcesses
      BY <1>0, <2>5, PoolAssumption DEF QuotaInv, TableWithinLimits, PoolAssumption
    <2>8. /\ stats'.created = stats.created /\ stats'.evicted = stats.evicted
          /\ stats'.idleExpired = stats.idleExpired + Cardinality(stale)
          /\ stats.created \in Nat /\ stats.evicted \in Nat /\ stats.idleExpired \in Nat
      BY <1>0, <2>1 DEF TypeOK
    <2>9. ~closed' => stats'.created
                      = Cardinality(UsedKeys') + stats'.evicted + stats'.idleExpired
      BY <1>0, <2>1, <2>5, <2>8 DEF QuotaInv
    <2>10. QED
      BY <2>5, <2>6, <2>7, <2>9 DEF QuotaInv, TableWithinLimits
  <1>4. ASSUME CloseBegins PROVE QuotaInv'
    <2>1. /\ UsedKeys' = {} /\ \A s \in Subjects : KeysOf(s)' = {}
          /\ closed' /\ \A s \in Subjects : perSubject'[s] = 0
      BY <1>4 DEF CloseBegins, UsedKeys, KeysOf, closed
    <2>2. Cardinality({}) = 0
      BY FS_EmptySet
    <2>3. QED
      BY <2>1, <2>2, PoolAssumption DEF QuotaInv, TableWithinLimits, PoolAssumption
  <1>5. ASSUME UNCHANGED tables, closed' = closed,
               /\ stats'.created = stats.created /\ stats'.evicted = stats.evicted
               /\ stats'.idleExpired = stats.idleExpired
        PROVE  QuotaInv'
    BY <1>5 DEF tables, QuotaInv, TableWithinLimits, UsedKeys, KeysOf
  <1>6. ASSUME NEW r \in Requests, NEW k \in Keys, AcquireRefused(r, k)
        PROVE  QuotaInv'
    BY <1>0, <1>5, <1>6 DEF AcquireRefused, TypeOK, closed
  <1>7. CASE UNCHANGED vars
    BY <1>5, <1>7 DEF vars, closed
  <1>8. ASSUME NEW r \in Requests,
               \/ \E k \in Keys : AcquireHit(r, k)
               \/ EvictionDone(r) \/ SessionFound(r) \/ Starts(r) \/ Started(r)
               \/ NotStarted(r) \/ SessionFails(r) \/ CallReturns(r)
               \/ Release(r)
        PROVE  QuotaInv'
    BY <1>5, <1>8 DEF AcquireHit, EvictionDone, SessionFound, Starts, Spawn, Started, NotStarted,
                      SessionFails, CallReturns, Release, closed
  <1>9. ASSUME \/ \E k \in Keys, l \in Listeners : Subscribe(k, l) \/ Unsubscribe(k, l)
               \/ \E c \in Closers, e \in Entries : StopBegins(c, e) \/ StopEnds(c, e)
               \/ \E e \in Entries : Crash(e)
               \/ Tick
        PROVE  QuotaInv'
    BY <1>5, <1>9 DEF Subscribe, Unsubscribe, StopBegins, StopEnds, Crash, Tick, closed
  <1>10. ASSUME ReaperReturns \/ CloseWaited \/ CloseReturns PROVE QuotaInv'
    BY <1>5, <1>10 DEF ReaperReturns, CloseWaited, CloseReturns, closed
  <1>11. QED
    BY <1>1, <1>2, <1>3, <1>4, <1>6, <1>7, <1>8, <1>9, <1>10 DEF Next, RequestStep

THEOREM QuotasCorrect == Spec => [](Bookkeeping /\ QuotaInv)
  <1>1. Init => Bookkeeping /\ QuotaInv
    BY InitBookkeeping, InitQuota
  <1>2. (Bookkeeping /\ QuotaInv) /\ [Next]_vars => (Bookkeeping /\ QuotaInv)'
    BY NextBookkeeping, NextQuota
  <1>3. QED
    BY <1>1, <1>2, PTL DEF Spec

\* The limits hold of the pool's entries in every reachable state, and of all the
\* processes that nobody is stopping.
THEOREM WithinLimitsHolds == Spec => []WithinLimits
  <1>1. ASSUME Bookkeeping, Safekeeping, QuotaInv PROVE Cardinality(Kept) <= MaxProcesses
    <2> DEFINE T == {entries[k] : k \in UsedKeys}
    <2>1. ASSUME NEW e \in Kept PROVE e \in T
      <3>1. e \in Entries /\ backend[e] \in {"running", "stopping"} /\ \A c \in Closers : e \notin todo[c]
        BY DEF Kept, Alive
      <3>2. e <= stats.created
        BY <1>1, <3>1 DEF Safekeeping, BackendInv
      <3>3. e \in Pooled
        BY <1>1, <3>1, <3>2 DEF Safekeeping, OwnerInv
      <3>4. e # NoEntry
        BY <3>1, PoolAssumption DEF Entries, NoEntry, PoolAssumption
      <3>5. QED
        BY <3>3, <3>4 DEF Pooled, UsedKeys
    <2>2. Cardinality(T) = Cardinality(UsedKeys)
      BY <1>1, CountEntries
    <2>3. IsFiniteSet(T)
      <3>1. T \in SUBSET Entries
        BY <1>1 DEF Bookkeeping, TypeOK, UsedKeys
      <3>2. QED
        BY <3>1, EntriesFinite
    <2>4. Cardinality(Kept) <= Cardinality(T) /\ Cardinality(Kept) \in Nat
      BY <2>1, <2>3, FS_Subset, FS_CardinalityType
    <2>5. Cardinality(UsedKeys) <= MaxProcesses /\ Cardinality(UsedKeys) \in Nat
      BY <1>1, KeysFinite DEF QuotaInv, TableWithinLimits, UsedKeys
    <2>6. QED
      BY <2>2, <2>4, <2>5, PoolAssumption DEF PoolAssumption
  <1>2. Bookkeeping /\ Safekeeping /\ QuotaInv => WithinLimits
    BY <1>1 DEF QuotaInv, TableWithinLimits, WithinLimits
  <1>3. Spec => [](Bookkeeping /\ Safekeeping /\ QuotaInv)
    BY SafekeepingCorrect, QuotasCorrect, PTL
  <1>4. QED
    BY <1>2, <1>3, PTL

\* The pool's counters are what they stand for.
THEOREM AccountingHolds == Spec => []Accounting
  <1>1. Bookkeeping /\ QuotaInv => Accounting
    BY DEF Bookkeeping, InflightExact, QuotaInv, Accounting
  <1>2. QED
    BY <1>1, QuotasCorrect, PTL

-----------------------------------------------------------------------------
(* Subscriptions.                                                          *)

\* Every step keeps present backends subscribed to for the key's listeners.
LEMMA NextSubscriptions ==
  Bookkeeping /\ SubscriptionsFollow /\ [Next]_vars => SubscriptionsFollow'
  <1> SUFFICES ASSUME Bookkeeping, SubscriptionsFollow, [Next]_vars,
                      NEW k \in Keys, entries'[k] # NoEntry
               PROVE  releases'[entries'[k]] = listeners'[k]
    BY DEF SubscriptionsFollow
  <1>0. TypeOK /\ TableInv
    BY DEF Bookkeeping
  <1>1. ASSUME NEW r \in Requests, NEW j \in Keys, NEW S \in SUBSET Pooled,
               insertLocked(r, j, S), EntryFor(j) = {}, UNCHANGED listeners
        PROVE  releases'[entries'[k]] = listeners'[k]
    <2> DEFINE e == stats.created + 1
    <2>1. /\ e \in Entries /\ e \notin Pooled
          /\ entries' = [i \in Keys |-> IF i = j THEN e
                                        ELSE IF entries[i] \in S THEN NoEntry ELSE entries[i]]
      BY <1>1, InsertTable
    <2>2. releases' = [releases EXCEPT ![e] = listeners[j]]
      BY <1>1 DEF insertLocked, subscribedAtStart
    <2>3. CASE k = j
      BY <1>0, <1>1, <2>1, <2>2, <2>3 DEF TypeOK
    <2>4. CASE k # j
      <3>1. entries'[k] = entries[k] /\ entries[k] \in Entries /\ entries[k] # e
        BY <1>0, <2>1, <2>4 DEF TypeOK, Pooled
      <3>2. QED
        BY <1>0, <1>1, <2>2, <3>1 DEF TypeOK, SubscriptionsFollow, Entries, NoEntry
    <2>5. QED
      BY <2>3, <2>4
  <1>2. ASSUME NEW r \in Requests, NEW j \in Keys, AcquireNew(r, j)
        PROVE  releases'[entries'[k]] = listeners'[k]
    BY <1>1, <1>2 DEF AcquireNew
  <1>3. ASSUME NEW r \in Requests, NEW j \in Keys, AcquireEvict(r, j)
        PROVE  releases'[entries'[k]] = listeners'[k]
    BY <1>1, <1>3 DEF AcquireEvict, leastRecentlyUsed
  <1>4. ASSUME NEW j \in Keys, NEW l \in Listeners, Subscribe(j, l) \/ Unsubscribe(j, l)
        PROVE  releases'[entries'[k]] = listeners'[k]
    <2>1. entries' = entries
      BY <1>4 DEF Subscribe, Unsubscribe, tables
    <2>2. entries[k] \in Entries /\ releases[entries[k]] = listeners[k]
      BY <1>0, <2>1 DEF TypeOK, SubscriptionsFollow
    <2>3. CASE k = j
      <3>1. CASE Subscribe(j, l)
        BY <1>0, <2>1, <2>2, <2>3, <3>1 DEF Subscribe, TypeOK
      <3>2. CASE Unsubscribe(j, l)
        BY <1>0, <2>1, <2>2, <2>3, <3>2 DEF Unsubscribe, TypeOK
      <3>3. QED
        BY <1>4, <3>1, <3>2
    <2>4. CASE k # j
      <3>1. entries[j] # entries[k]
        BY <1>0, <2>1, <2>4 DEF TableInv
      <3>2. QED
        BY <1>0, <1>4, <2>1, <2>2, <2>4, <3>1 DEF Subscribe, Unsubscribe, TypeOK
    <2>5. QED
      BY <2>3, <2>4
  <1>5. ASSUME Expire PROVE releases'[entries'[k]] = listeners'[k]
    BY <1>5 DEF Expire, detachEntries, objects, SubscriptionsFollow
  <1>6. ASSUME CloseBegins PROVE releases'[entries'[k]] = listeners'[k]
    BY <1>6 DEF CloseBegins
  <1>7. ASSUME UNCHANGED <<entries, releases, listeners>>
        PROVE  releases'[entries'[k]] = listeners'[k]
    BY <1>7 DEF SubscriptionsFollow
  <1>8. CASE UNCHANGED vars
    BY <1>7, <1>8 DEF vars, tables, objects
  <1>9. ASSUME NEW r \in Requests,
               \/ \E j \in Keys : AcquireHit(r, j) \/ AcquireRefused(r, j)
               \/ EvictionDone(r) \/ SessionFound(r) \/ Starts(r) \/ Started(r)
               \/ NotStarted(r) \/ SessionFails(r) \/ CallReturns(r)
               \/ Release(r)
        PROVE  releases'[entries'[k]] = listeners'[k]
    BY <1>7, <1>9 DEF AcquireHit, AcquireRefused, EvictionDone, SessionFound, Starts, Spawn,
                      Started, NotStarted, SessionFails, CallReturns, Release, tables, objects
  <1>10. ASSUME \/ \E c \in Closers, e \in Entries : StopBegins(c, e) \/ StopEnds(c, e)
                \/ \E e \in Entries : Crash(e)
                \/ ReaperReturns \/ CloseWaited \/ CloseReturns \/ Tick
         PROVE  releases'[entries'[k]] = listeners'[k]
    BY <1>7, <1>10 DEF StopBegins, StopEnds, Crash, ReaperReturns, CloseWaited, CloseReturns,
                       Tick, tables, objects
  <1>11. QED
    BY <1>2, <1>3, <1>4, <1>5, <1>6, <1>8, <1>9, <1>10 DEF Next, RequestStep

\* A subscription outlives the backends of its key.
THEOREM SubscriptionsFollowHolds == Spec => []SubscriptionsFollow
  <1>1. Init => SubscriptionsFollow
    BY DEF Init, SubscriptionsFollow
  <1>2. QED
    BY <1>1, NextSubscriptions, BookkeepingCorrect, PTL DEF Spec

-----------------------------------------------------------------------------
(* The pool implements module Slots.                                       *)

\* Module Slots counts as the pool does.
LEMMA SameCardinality == \A S : Promise!Cardinality(S) = Cardinality(S)
  BY DEF Promise!Cardinality, Cardinality, Promise!IsFiniteSet, IsFiniteSet

\* What a request's arrival is to the abstract pool.
LEMMA InsertIsEnter ==
  ASSUME Bookkeeping, Safekeeping, QuotaInv, QuotaInv',
         NEW r \in Requests, NEW k \in Keys, NEW S \in SUBSET Pooled,
         insertLocked(r, k, S), EntryFor(k) = {}, pc[r] = "idle",
         ~closed, closed' = closed,
         S = {} \/ (\E v : S = {v} /\ inflight[v] = 0 /\ Cardinality(UsedKeys) = MaxProcesses),
         UsedKeys' = (UsedKeys \ Losing(S)) \cup {k}, k \notin UsedKeys
  PROVE  Promise!Enter(r, k)
  <1> DEFINE U(j) == {q \in Requests : want[q] = j}
  <1>0. TypeOK /\ HandleInv /\ TableInv /\ NoKey \notin Keys
    BY PoolAssumption DEF Bookkeeping, PoolAssumption
  <1>1. \A j \in Keys : r \notin U(j)
    BY <1>0 DEF HandleInv
  <1>2. want' = [want EXCEPT ![r] = k]
    BY DEF insertLocked
  <1>3. [j \in Keys |-> U(j)]' = [[j \in Keys |-> U(j)] EXCEPT ![k] = @ \cup {r}]
    <2>1. \A j \in Keys : U(j)' = IF j = k THEN U(j) \cup {r} ELSE U(j)
      BY <1>0, <1>1, <1>2 DEF TypeOK
    <2>2. QED
      BY <2>1, ZenonT(60)
  <1>4. /\ Losing(S) \in SUBSET UsedKeys
        /\ \A j \in Losing(S) : U(j) = {}
        /\ Losing(S) = {} \/ (Cardinality(UsedKeys) = MaxProcesses
                              /\ Cardinality(Losing(S)) = 1)
    <2>1. Losing(S) \in SUBSET UsedKeys
      BY DEF Losing
    <2>2. CASE S = {}
      BY <2>1, <2>2 DEF Losing
    <2>3. ASSUME NEW v, S = {v}, inflight[v] = 0, Cardinality(UsedKeys) = MaxProcesses
          PROVE  /\ \A j \in Losing(S) : U(j) = {}
                 /\ Cardinality(Losing(S)) = 1
      <3>1. v \in Pooled /\ v \in Entries
        BY <2>3 DEF Pooled
      <3>2. PICK j \in UsedKeys : entries[j] = v
        BY <3>1 DEF Pooled, UsedKeys, Entries, NoEntry
      <3>3. Losing(S) = {j}
        BY <1>0, <2>3, <3>2 DEF Losing, UsedKeys, TableInv
      <3>4. \A q \in Requests : held[q] # v
        BY <2>3, <3>1, IdleUnheld
      <3>5. U(j) = {}
        BY <1>0, <3>2, <3>4 DEF Safekeeping, BusyInv, HandleInv, UsedKeys
      <3>6. QED
        BY <3>3, <3>5, FS_Singleton
    <2>4. QED
      BY <2>1, <2>2, <2>3
  <1>5. Promise!Fits(UsedKeys)'
    <2>1. \A s : {j \in UsedKeys' : SubjectOf(j) = s} = KeysOf(s)'
      BY DEF KeysOf, SubjectOf
    <2>2. \A s \in {SubjectOf(j) : j \in UsedKeys'} : s \in Subjects
      BY DEF SubjectOf, UsedKeys, Keys
    <2>3. QED
      BY <2>1, <2>2, SameCardinality DEF Promise!Fits, QuotaInv, TableWithinLimits
  <1> DEFINE users == [j \in Keys |-> U(j)]
  <1>6. \E drop \in SUBSET UsedKeys :
           /\ \A j \in drop : users[j] = {}
           /\ drop = {} \/ (Cardinality(UsedKeys) = MaxProcesses /\ Cardinality(drop) = 1)
           /\ UsedKeys' = (UsedKeys \ drop) \cup {k}
           /\ Promise!Fits(UsedKeys)'
    <2>1. \A j \in Losing(S) : users[j] = {}
      BY <1>4 DEF Losing, UsedKeys
    <2> HIDE DEF users
    <2>2. QED
      BY <1>4, <1>5, <2>1
  <1>7. \A j \in Keys : r \notin users[j]
    BY <1>1
  <1>8. users' = [users EXCEPT ![k] = @ \cup {r}]
    BY <1>3
  <1> HIDE DEF U
  <1>9. QED
    BY <1>6, <1>7, <1>8, SameCardinality DEF Promise!Enter, Promise!Idle, U

\* Every step of the pool is a step of module Slots, or is invisible there.
LEMMA NextIsPromised ==
  /\ Bookkeeping /\ Safekeeping /\ QuotaInv /\ [Next]_vars
  => [Promise!Next]_(Promise!vars)
  <1> SUFFICES ASSUME Bookkeeping, Safekeeping, QuotaInv, [Next]_vars
               PROVE  [Promise!Next]_(Promise!vars)
    OBVIOUS
  <1> DEFINE users == [j \in Keys |-> {q \in Requests : want[q] = j}]
  <1>0. /\ TypeOK /\ HandleInv /\ TableInv /\ NoKey \notin Keys /\ QuotaInv'
    BY PoolAssumption, NextQuota DEF Bookkeeping, PoolAssumption
  <1>1. ASSUME NEW r \in Requests, NEW k \in Keys, AcquireHit(r, k)
        PROVE  Promise!Enter(r, k)
    <2>1. /\ UNCHANGED <<tables, closing>> /\ ~closed /\ pc[r] = "idle"
          /\ want' = [want EXCEPT ![r] = k] /\ EntryFor(k) # {}
      BY <1>1 DEF AcquireHit
    <2>2. UsedKeys' = UsedKeys /\ closed' = closed
      BY <2>1 DEF UsedKeys, closed, tables
    <2>3. k \in UsedKeys
      BY <2>1 DEF EntryFor, Pooled, UsedKeys, Entries, NoEntry
    <2>4. \A j \in Keys : r \notin users[j]
      BY <1>0, <2>1 DEF HandleInv
    <2>5. users' = [users EXCEPT ![k] = @ \cup {r}]
      <3>1. \A j \in Keys : {q \in Requests : want'[q] = j}
               = IF j = k THEN {q \in Requests : want[q] = j} \cup {r}
                          ELSE {q \in Requests : want[q] = j}
        BY <1>0, <2>1 DEF TypeOK, HandleInv
      <3>2. QED
        BY <3>1, ZenonT(60)
    <2>6. QED
      BY <2>1, <2>2, <2>3, <2>4, <2>5 DEF Promise!Enter
  <1>2. ASSUME NEW r \in Requests, NEW k \in Keys, AcquireNew(r, k)
        PROVE  Promise!Enter(r, k)
    <2>1. /\ insertLocked(r, k, {}) /\ EntryFor(k) = {} /\ ~SubjectFull(k) /\ ~PoolFull
          /\ closed' = closed /\ ~closed /\ pc[r] = "idle"
      BY <1>2 DEF AcquireNew, closed
    <2>2. Cardinality({}) = 0 /\ Cardinality(UsedKeys) \in Nat
      BY FS_EmptySet, KeysFinite DEF UsedKeys
    <2>3. Cardinality(UsedKeys) - Cardinality({}) < MaxProcesses
      BY <2>1, <2>2, PoolAssumption DEF PoolFull, PoolAssumption
    <2>4. /\ stats'.created = stats.created + 1 /\ stats'.idleExpired = stats.idleExpired
          /\ stats'.evicted = stats.evicted + Cardinality({})
      BY <1>0, <1>2, <2>2 DEF AcquireNew, TypeOK
    <2>5. UsedKeys' = (UsedKeys \ Losing({})) \cup {k} /\ k \notin UsedKeys
      BY <2>1, <2>3, <2>4, InsertQuota
    <2>6. QED
      BY <1>0, <2>1, <2>5, InsertIsEnter
  <1>3. ASSUME NEW r \in Requests, NEW k \in Keys, AcquireEvict(r, k)
        PROVE  Promise!Enter(r, k)
    <2>1. PICK v \in leastRecentlyUsed : insertLocked(r, k, {v})
      BY <1>3 DEF AcquireEvict
    <2>2. /\ EntryFor(k) = {} /\ ~SubjectFull(k) /\ PoolFull /\ closed' = closed /\ ~closed
          /\ pc[r] = "idle"
      BY <1>3 DEF AcquireEvict, closed
    <2>3. Cardinality({v}) = 1 /\ Cardinality(UsedKeys) \in Nat
      BY FS_Singleton, KeysFinite DEF UsedKeys
    <2>4. Cardinality(UsedKeys) = MaxProcesses
      BY <2>2, <2>3, PoolAssumption DEF PoolFull, QuotaInv, TableWithinLimits, PoolAssumption
    <2>5. Cardinality(UsedKeys) - Cardinality({v}) < MaxProcesses
      BY <2>3, <2>4
    <2>6. /\ stats'.created = stats.created + 1 /\ stats'.idleExpired = stats.idleExpired
          /\ stats'.evicted = stats.evicted + Cardinality({v})
      BY <1>0, <1>3, <2>3 DEF AcquireEvict, TypeOK
    <2>7. {v} \in SUBSET Pooled /\ inflight[v] = 0
      BY DEF leastRecentlyUsed
    <2>8. UsedKeys' = (UsedKeys \ Losing({v})) \cup {k} /\ k \notin UsedKeys
      BY <2>1, <2>2, <2>5, <2>6, <2>7, InsertQuota
    <2>9. QED
      BY <1>0, <2>1, <2>2, <2>4, <2>7, <2>8, InsertIsEnter
  <1>4. ASSUME NEW r \in Requests, Release(r)
        PROVE  \E k \in Keys : Promise!Leave(r, k)
    <2>1. /\ UNCHANGED <<tables, closing>> /\ pc[r] = "returning"
          /\ want' = [want EXCEPT ![r] = NoKey]
      BY <1>4 DEF Release
    <2>2. UsedKeys' = UsedKeys /\ closed' = closed
      BY <2>1 DEF UsedKeys, closed, tables
    <2>3. want[r] \in Keys
      BY <1>0, <2>1 DEF HandleInv
    <2>4. users' = [users EXCEPT ![want[r]] = @ \ {r}]
      <3>1. \A j \in Keys : {q \in Requests : want'[q] = j}
               = IF j = want[r] THEN {q \in Requests : want[q] = j} \ {r}
                                ELSE {q \in Requests : want[q] = j}
        BY <1>0, <2>1 DEF TypeOK
      <3>2. QED
        BY <3>1, <2>3
    <2>5. r \in users[want[r]]
      BY <2>3
    <2>6. QED
      BY <2>2, <2>3, <2>4, <2>5 DEF Promise!Leave
  <1>5. ASSUME Expire PROVE \E S \in SUBSET UsedKeys : Promise!Expire(S)
    <2>1. /\ entries' = detachEntries(stale) /\ UNCHANGED <<closing, callers>> /\ ~closed
      BY <1>5 DEF Expire
    <2>2. stale \in SUBSET Pooled /\ \A e \in stale : \A r \in Requests : held[r] # e
      BY IdleUnheld DEF stale, Pooled
    <2>3. entries' = [k \in Keys |-> IF entries[k] \in stale THEN NoEntry ELSE entries[k]]
      BY <2>1, <2>2, DetachExact
    <2>4. UsedKeys' = UsedKeys \ Losing(stale) /\ Losing(stale) \in SUBSET UsedKeys
      BY <2>3 DEF UsedKeys, Losing
    <2>5. users' = users /\ closed' = closed
      BY <2>1 DEF callers, closed
    <2>6. \A k \in Losing(stale) : users[k] = {}
      BY <1>0, <2>1, <2>2 DEF Losing, UsedKeys, Safekeeping, BusyInv, HandleInv
    <2>7. QED
      BY <2>4, <2>5, <2>6 DEF Promise!Expire, Promise!Idle
  <1>6. ASSUME CloseBegins PROVE Promise!Shut
    <2>1. UsedKeys' = {} /\ closed' = TRUE /\ ~closed /\ users' = users
      BY <1>6 DEF CloseBegins, UsedKeys, closed, callers
    <2>2. QED
      BY <2>1 DEF Promise!Shut
  <1>7. ASSUME UNCHANGED <<tables, want>>, closed' = closed
        PROVE  UNCHANGED Promise!vars
    BY <1>7 DEF Promise!vars, UsedKeys, tables
  <1>8. ASSUME NEW r \in Requests,
               \/ \E k \in Keys : AcquireRefused(r, k)
               \/ EvictionDone(r) \/ SessionFound(r) \/ Starts(r) \/ Started(r)
               \/ NotStarted(r) \/ SessionFails(r) \/ CallReturns(r)
        PROVE  UNCHANGED Promise!vars
    BY <1>7, <1>8 DEF AcquireRefused, EvictionDone, SessionFound, Starts, Spawn, Started,
                      NotStarted, SessionFails, CallReturns, closed, callers
  <1>9. ASSUME \/ \E k \in Keys, l \in Listeners : Subscribe(k, l) \/ Unsubscribe(k, l)
               \/ \E c \in Closers, e \in Entries : StopBegins(c, e) \/ StopEnds(c, e)
               \/ \E e \in Entries : Crash(e)
               \/ ReaperReturns \/ CloseWaited \/ CloseReturns \/ Tick
        PROVE  UNCHANGED Promise!vars
    BY <1>7, <1>9 DEF Subscribe, Unsubscribe, StopBegins, StopEnds, Crash, ReaperReturns,
                      CloseWaited, CloseReturns, Tick, closed, callers
  <1>10. CASE UNCHANGED vars
    BY <1>7, <1>10 DEF vars, closed, callers
  <1>11. QED
    BY <1>1, <1>2, <1>3, <1>4, <1>5, <1>6, <1>8, <1>9, <1>10
    DEF Next, RequestStep, Promise!Next

\* The pool implements its promise: a bounded set of slots of which none that is
\* occupied is taken away, except by Close.
THEOREM PromiseKeptHolds == Spec => PromiseKept
  <1>1. Init => Promise!Init
    BY PoolAssumption
    DEF Init, Promise!Init, UsedKeys, closed, PoolAssumption
  <1>2. Spec => [](Bookkeeping /\ Safekeeping /\ QuotaInv)
    BY SafekeepingCorrect, QuotasCorrect, PTL
  <1>3. QED
    BY <1>1, <1>2, NextIsPromised, PTL DEF Spec, PromiseKept, Promise!Spec
=============================================================================
