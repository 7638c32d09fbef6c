-------------------------- MODULE ChangeStreamProofs -------------------------
(***************************************************************************)
(* Proofs about module ChangeStream, for any sources and kinds.  What      *)
(* carries them is what pending stands for: a kind is pending exactly      *)
(* while somebody is about to queue it, or it is in the channel, or the    *)
(* pump has just taken it, and in one of these places only.                *)
(***************************************************************************)
EXTENDS ChangeStream, FiniteSetTheorems, SequenceTheorems, TLAPS

InQueue == {changes[i] : i \in 1..Len(changes)}
Queueing(k) == \E s \in Sources : reader[s] = "queueing" /\ change[s] = k
JustTaken(k) == pump = "taken" /\ hand = k

Carrying ==
    /\ \A s \in Sources : reader[s] # "reading" => change[s] \in Kinds
    /\ pump \in {"taken", "announcing"} => hand \in Kinds
    /\ stream \in {"new", "subscribing"} => pump = "none"

\* What is pending is somewhere, and what is somewhere is pending.
PendingExact ==
    \A k \in Kinds : k \in pending <=> Queueing(k) \/ k \in InQueue \/ JustTaken(k)

\* One place at a time.
OnePlace ==
    /\ \A i, j \in 1..Len(changes) : changes[i] = changes[j] => i = j
    /\ \A s, t \in Sources :
          reader[s] = "queueing" /\ reader[t] = "queueing" /\ change[s] = change[t] => s = t
    /\ \A k \in Kinds : Queueing(k) => k \notin InQueue /\ ~JustTaken(k)
    /\ \A k \in Kinds : JustTaken(k) => k \notin InQueue

OwedLate == stream \in {"new", "subscribing", "starting"} => owed = {}

QueueInv == TypeOK /\ Carrying /\ PendingExact /\ OnePlace

LEMMA AppendSet ==
    ASSUME NEW q \in Seq(Kinds), NEW k \in Kinds
    PROVE  /\ Append(q, k) \in Seq(Kinds) /\ Len(Append(q, k)) = Len(q) + 1
           /\ \A i \in 1..Len(q) : Append(q, k)[i] = q[i]
           /\ Append(q, k)[Len(q) + 1] = k
  OBVIOUS

LEMMA TailSet ==
    ASSUME NEW q \in Seq(Kinds), q # <<>>
    PROVE  /\ Tail(q) \in Seq(Kinds) /\ Len(Tail(q)) = Len(q) - 1 /\ Len(q) \in Nat \ {0}
           /\ \A i \in 1..(Len(q) - 1) : Tail(q)[i] = q[i + 1]
           /\ Head(q) = q[1] /\ Head(q) \in Kinds
  OBVIOUS

\* Steps that leave the queue alone, and whoever is at it.
LEMMA QueueKept ==
    ASSUME PendingExact, OnePlace, UNCHANGED queue,
           \A s \in Sources :
              /\ reader'[s] = "queueing" <=> reader[s] = "queueing"
              /\ reader[s] = "queueing" => change'[s] = change[s],
           pump' = "taken" <=> pump = "taken", pump = "taken" => hand' = hand
    PROVE  PendingExact' /\ OnePlace'
  <1>1. InQueue' = InQueue /\ pending' = pending /\ changes' = changes
    BY DEF queue, InQueue
  <1>2. \A k : Queueing(k)' <=> Queueing(k)
    BY DEF Queueing
  <1>3. \A k : JustTaken(k)' <=> JustTaken(k)
    BY DEF JustTaken
  <1>4. PendingExact'
    BY <1>1, <1>2, <1>3 DEF PendingExact
  <1>5. OnePlace'
    BY <1>1, <1>2, <1>3 DEF OnePlace
  <1>6. QED
    BY <1>4, <1>5

LEMMA InitQueueInv == Init => QueueInv
  <1> SUFFICES ASSUME Init PROVE QueueInv
    OBVIOUS
  <1>1. TypeOK /\ Carrying
    BY ChangeAssumption DEF Init, TypeOK, Carrying
  <1>2. \A k \in Kinds : ~Queueing(k) /\ ~JustTaken(k)
    BY DEF Init, Queueing, JustTaken
  <1>3. InQueue = {} /\ Len(changes) = 0 /\ pending = {}
    BY DEF Init, InQueue
  <1>4. QED
    BY <1>1, <1>2, <1>3 DEF QueueInv, PendingExact, OnePlace, Init

\* deliver under l.mu, for a kind that is not pending.
LEMMA DeliverNewKept ==
    ASSUME QueueInv, NEW s \in Sources, DeliverNew(s)
    PROVE  QueueInv'
  <1> DEFINE k == change[s]
  <1>1. /\ reader[s] = "publishing" /\ reader' = [reader EXCEPT ![s] = "queueing"]
        /\ pending' = pending \cup {k} /\ change' = change /\ changes' = changes
        /\ pump' = pump /\ hand' = hand
    BY DEF DeliverNew, pumping
  <1>2. k \notin pending
    BY DEF DeliverNew, Queued
  <1>3. TypeOK /\ Carrying /\ PendingExact /\ OnePlace
    BY DEF QueueInv
  <1>4. k \in Kinds
    BY <1>1, <1>3 DEF Carrying
  <1>5. TypeOK'
    BY <1>1, <1>3, <1>4 DEF TypeOK, DeliverNew, client, history
  <1>6. Carrying'
    BY <1>1, <1>3, <1>4 DEF Carrying, TypeOK, DeliverNew, client
  <1>7. ~Queueing(k) /\ k \notin InQueue /\ ~JustTaken(k)
    BY <1>2, <1>3, <1>4 DEF PendingExact
  <1>8. \A t \in Sources : reader'[t] = "queueing" <=> reader[t] = "queueing" \/ t = s
    BY <1>1, <1>3 DEF TypeOK
  <1>9. \A j : Queueing(j)' <=> Queueing(j) \/ j = k
    BY <1>1, <1>8 DEF Queueing
  <1>10. InQueue' = InQueue /\ \A j : JustTaken(j)' <=> JustTaken(j)
    BY <1>1 DEF InQueue, JustTaken
  <1>11. PendingExact'
    BY <1>1, <1>3, <1>9, <1>10 DEF PendingExact
  <1>12. \A t, u \in Sources :
            reader'[t] = "queueing" /\ reader'[u] = "queueing" /\ change'[t] = change'[u] => t = u
    BY <1>1, <1>3, <1>7, <1>8 DEF OnePlace, Queueing
  <1>13. OnePlace'
    BY <1>1, <1>3, <1>7, <1>9, <1>10, <1>12 DEF OnePlace
  <1>14. QED
    BY <1>5, <1>6, <1>11, <1>13 DEF QueueInv

\* The send on the channel.
LEMMA QueueingKept ==
    ASSUME QueueInv, NEW s \in Sources, Queue(s)
    PROVE  QueueInv'
  <1> DEFINE k == change[s]
  <1>1. /\ reader[s] = "queueing" /\ reader' = [reader EXCEPT ![s] = "reading"]
        /\ change' = [change EXCEPT ![s] = NoKind] /\ changes' = Append(changes, k)
        /\ pending' = pending /\ pump' = pump /\ hand' = hand
    BY DEF Queue, pumping
  <1>2. TypeOK /\ Carrying /\ PendingExact /\ OnePlace
    BY DEF QueueInv
  <1>3. k \in Kinds /\ changes \in Seq(Kinds)
    BY <1>1, <1>2 DEF Carrying, TypeOK
  <1>4. /\ changes' \in Seq(Kinds) /\ Len(changes') = Len(changes) + 1 /\ Len(changes) \in Nat
        /\ \A i \in 1..Len(changes) : changes'[i] = changes[i]
        /\ changes'[Len(changes) + 1] = k
    BY <1>1, <1>3, AppendSet
  <1>5. TypeOK'
    BY <1>1, <1>2, <1>4 DEF TypeOK, Queue, client, history
  <1>6. \A t \in Sources :
          /\ reader'[t] = "queueing" <=> reader[t] = "queueing" /\ t # s
          /\ t # s => change'[t] = change[t] /\ reader'[t] = reader[t]
    <2>1. reader \in [Sources -> {"reading", "publishing", "queueing"}]
          /\ change \in [Sources -> Kinds \cup {NoKind}]
      BY <1>2 DEF TypeOK
    <2>2. reader'[s] = "reading"
      BY <1>1, <2>1
    <2>3. \A t \in Sources \ {s} : reader'[t] = reader[t] /\ change'[t] = change[t]
      BY <1>1, <2>1
    <2>4. QED
      BY <1>1, <2>2, <2>3
  <1>7. Carrying'
    BY <1>1, <1>2, <1>6 DEF Carrying, TypeOK, Queue, client
  <1>8. Queueing(k) /\ k \notin InQueue /\ ~JustTaken(k)
    BY <1>1, <1>2, <1>3 DEF OnePlace, Queueing
  <1>9. \A j : Queueing(j)' <=> Queueing(j) /\ j # k
    <2> SUFFICES ASSUME NEW j PROVE Queueing(j)' <=> Queueing(j) /\ j # k
      OBVIOUS
    <2>1. ASSUME Queueing(j)' PROVE Queueing(j) /\ j # k
      <3>1. PICK t \in Sources : reader'[t] = "queueing" /\ change'[t] = j
        BY <2>1 DEF Queueing
      <3>2. t # s /\ reader[t] = "queueing" /\ change[t] = j
        BY <1>6, <3>1
      <3>3. j # k
        BY <1>1, <1>2, <3>2 DEF OnePlace
      <3>4. QED
        BY <3>2, <3>3 DEF Queueing
    <2>2. ASSUME Queueing(j), j # k PROVE Queueing(j)'
      <3>1. PICK t \in Sources : reader[t] = "queueing" /\ change[t] = j
        BY <2>2 DEF Queueing
      <3>2. reader'[t] = "queueing" /\ change'[t] = j
        BY <1>6, <2>2, <3>1
      <3>3. QED
        BY <3>2 DEF Queueing
    <2>3. QED
      BY <2>1, <2>2
  <1>10. InQueue' = InQueue \cup {k}
    BY <1>4 DEF InQueue
  <1>11. \A j : JustTaken(j)' <=> JustTaken(j)
    BY <1>1 DEF JustTaken
  <1>12. PendingExact'
    BY <1>1, <1>2, <1>8, <1>9, <1>10, <1>11 DEF PendingExact
  <1>13. \A i, j \in 1..Len(changes)' : changes'[i] = changes'[j] => i = j
    <2> SUFFICES ASSUME NEW i \in 1..Len(changes)', NEW j \in 1..Len(changes)',
                        changes'[i] = changes'[j]
                 PROVE  i = j
      OBVIOUS
    <2>1. \A n \in 1..Len(changes) : changes'[n] \in InQueue
      BY <1>4 DEF InQueue
    <2>2. /\ i \in 1..Len(changes) \/ i = Len(changes) + 1
          /\ j \in 1..Len(changes) \/ j = Len(changes) + 1
      BY <1>4
    <2>3. CASE i \in 1..Len(changes) /\ j \in 1..Len(changes)
      BY <1>2, <1>4, <2>3 DEF OnePlace
    <2>4. QED
      BY <1>4, <1>8, <2>1, <2>2, <2>3
  <1>14. \A t, u \in Sources :
            reader'[t] = "queueing" /\ reader'[u] = "queueing" /\ change'[t] = change'[u] => t = u
    BY <1>2, <1>6 DEF OnePlace
  <1>15. OnePlace'
    BY <1>2, <1>8, <1>9, <1>10, <1>11, <1>13, <1>14 DEF OnePlace
  <1>16. QED
    BY <1>5, <1>7, <1>12, <1>15 DEF QueueInv

\* The receive in Next.
LEMMA TakeKept ==
    ASSUME QueueInv, Take
    PROVE  QueueInv'
  <1>1. /\ changes # <<>> /\ pump = "waiting" /\ pump' = "taken" /\ hand' = Head(changes)
        /\ changes' = Tail(changes) /\ pending' = pending
        /\ reader' = reader /\ change' = change
    BY DEF Take, delivery
  <1>2. TypeOK /\ Carrying /\ PendingExact /\ OnePlace
    BY DEF QueueInv
  <1>3. changes \in Seq(Kinds)
    BY <1>2 DEF TypeOK
  <1>4. /\ changes' \in Seq(Kinds) /\ Len(changes') = Len(changes) - 1
        /\ Len(changes) \in Nat \ {0}
        /\ \A i \in 1..(Len(changes) - 1) : changes'[i] = changes[i + 1]
        /\ hand' = changes[1] /\ hand' \in Kinds
    BY <1>1, <1>3, TailSet
  <1>5. TypeOK'
    BY <1>1, <1>2, <1>4 DEF TypeOK, Take, client, history
  <1>6. Carrying'
    BY <1>1, <1>2, <1>4 DEF Carrying, Take, client
  <1>7. InQueue = InQueue' \cup {hand'} /\ hand' \notin InQueue'
    <2>1. \A i \in 1..Len(changes) :
            i = 1 \/ (i - 1 \in 1..(Len(changes) - 1) /\ changes[i] = changes'[i - 1])
      BY <1>4
    <2>2. \A i \in 1..(Len(changes) - 1) : i + 1 \in 1..Len(changes) /\ i + 1 # 1
      BY <1>4
    <2>3. 1 \in 1..Len(changes)
      BY <1>4
    <2>4. InQueue = InQueue' \cup {hand'}
      <3>1. ASSUME NEW k \in InQueue PROVE k \in InQueue' \cup {hand'}
        <4>1. PICK i \in 1..Len(changes) : k = changes[i]
          BY <3>1 DEF InQueue
        <4>2. CASE i = 1
          BY <1>4, <4>1, <4>2
        <4>3. CASE i - 1 \in 1..(Len(changes) - 1) /\ changes[i] = changes'[i - 1]
          BY <1>4, <4>1, <4>3 DEF InQueue
        <4>4. QED
          BY <2>1, <4>2, <4>3
      <3>2. ASSUME NEW k \in InQueue' PROVE k \in InQueue
        <4>1. PICK i \in 1..(Len(changes) - 1) : k = changes'[i]
          BY <1>4, <3>2 DEF InQueue
        <4>2. k = changes[i + 1] /\ i + 1 \in 1..Len(changes)
          BY <1>4, <2>2, <4>1
        <4>3. QED
          BY <4>2 DEF InQueue
      <3>3. hand' \in InQueue
        BY <1>4, <2>3 DEF InQueue
      <3>4. QED
        BY <3>1, <3>2, <3>3
    <2>5. hand' \notin InQueue'
      BY <1>2, <1>4, <2>2, <2>3 DEF InQueue, OnePlace
    <2>6. QED
      BY <2>4, <2>5
  <1>8. /\ \A j : Queueing(j)' <=> Queueing(j)
        /\ \A j : ~JustTaken(j) /\ (JustTaken(j)' <=> j = hand')
    BY <1>1 DEF Queueing, JustTaken
  <1>9. PendingExact'
    BY <1>1, <1>2, <1>7, <1>8 DEF PendingExact
  <1>10. \A i, j \in 1..Len(changes)' : changes'[i] = changes'[j] => i = j
    <2> SUFFICES ASSUME NEW i \in 1..(Len(changes) - 1), NEW j \in 1..(Len(changes) - 1),
                        changes'[i] = changes'[j]
                 PROVE  i = j
      BY <1>4
    <2>1. i + 1 \in 1..Len(changes) /\ j + 1 \in 1..Len(changes) /\ i \in Int /\ j \in Int
      BY <1>4
    <2>2. changes[i + 1] = changes[j + 1]
      BY <1>4
    <2>3. i + 1 = j + 1
      BY <1>2, <2>1, <2>2 DEF OnePlace
    <2>4. QED
      BY <2>1, <2>3
  <1>11. OnePlace'
    BY <1>1, <1>2, <1>4, <1>7, <1>8, <1>10 DEF OnePlace
  <1>12. QED
    BY <1>5, <1>6, <1>9, <1>11 DEF QueueInv

\* What Next does under l.mu afterwards.
LEMMA MarkKept ==
    ASSUME QueueInv, Mark
    PROVE  QueueInv'
  <1>1. /\ pump = "taken" /\ pump' = "announcing" /\ hand' = hand
        /\ pending' = pending \ {hand} /\ changes' = changes
        /\ reader' = reader /\ change' = change
    BY DEF Mark, NoLongerQueued, delivery
  <1>2. TypeOK /\ Carrying /\ PendingExact /\ OnePlace
    BY DEF QueueInv
  <1>3. TypeOK'
    BY <1>1, <1>2 DEF TypeOK, Mark, client, history
  <1>4. Carrying'
    BY <1>1, <1>2 DEF Carrying, Mark, client
  <1>5. InQueue' = InQueue /\ (\A j : Queueing(j)' <=> Queueing(j))
        /\ \A j : (JustTaken(j) <=> j = hand) /\ ~JustTaken(j)'
    BY <1>1 DEF InQueue, Queueing, JustTaken
  <1>6. PendingExact'
    BY <1>1, <1>2, <1>5 DEF PendingExact, OnePlace, Carrying
  <1>7. OnePlace'
    BY <1>1, <1>2, <1>5 DEF OnePlace
  <1>8. QED
    BY <1>3, <1>4, <1>6, <1>7 DEF QueueInv

LEMMA NextQueueInv == QueueInv /\ [Next]_vars => QueueInv'
  <1> SUFFICES ASSUME QueueInv, [Next]_vars PROVE QueueInv'
    OBVIOUS
  <1>0. TypeOK /\ Carrying /\ PendingExact /\ OnePlace
    BY DEF QueueInv
  <1>1. CASE ListenBegins
    <2>1. TypeOK' /\ Carrying'
      BY <1>1, <1>0
    DEF TypeOK, Carrying, ListenBegins, client, delivery, queue, pumping, history
    <2>2. /\ UNCHANGED queue
          /\ \A t \in Sources :
                /\ reader'[t] = "queueing" <=> reader[t] = "queueing"
                /\ reader[t] = "queueing" => change'[t] = change[t]
          /\ pump' = "taken" <=> pump = "taken"
          /\ pump = "taken" => hand' = hand
      BY <1>1, <1>0 DEF ListenBegins, delivery, pumping, TypeOK
    <2>3. QED
      BY <1>0, <2>1, <2>2, QueueKept DEF QueueInv
  <1>2. CASE ListenFails
    <2>1. TypeOK' /\ Carrying'
      BY <1>2, <1>0 DEF TypeOK, Carrying, ListenFails, client, delivery, queue, pumping, history
    <2>2. /\ UNCHANGED queue
          /\ \A t \in Sources :
                /\ reader'[t] = "queueing" <=> reader[t] = "queueing"
                /\ reader[t] = "queueing" => change'[t] = change[t]
          /\ pump' = "taken" <=> pump = "taken"
          /\ pump = "taken" => hand' = hand
      BY <1>2, <1>0 DEF ListenFails, delivery, pumping, TypeOK
    <2>3. QED
      BY <1>0, <2>1, <2>2, QueueKept DEF QueueInv
  <1>3. CASE PumpStarts
    <2>1. TypeOK' /\ Carrying'
      BY <1>3, <1>0 DEF TypeOK, Carrying, PumpStarts, client, delivery, queue, pumping, history
    <2>2. /\ UNCHANGED queue
          /\ \A t \in Sources :
                /\ reader'[t] = "queueing" <=> reader[t] = "queueing"
                /\ reader[t] = "queueing" => change'[t] = change[t]
          /\ pump' = "taken" <=> pump = "taken"
          /\ pump = "taken" => hand' = hand
      <3>1. pump = "none" /\ pump' = "waiting" /\ UNCHANGED <<queue, delivery, hand>>
        BY <1>3, <1>0 DEF PumpStarts, Carrying
      <3>2. QED
        BY <3>1 DEF delivery
    <2>3. QED
      BY <1>0, <2>1, <2>2, QueueKept DEF QueueInv
  <1>4. CASE Registered
    <2>1. TypeOK' /\ Carrying'
      BY <1>4, <1>0 DEF TypeOK, Carrying, Registered, client, delivery, queue, pumping, history
    <2>2. /\ UNCHANGED queue
          /\ \A t \in Sources :
                /\ reader'[t] = "queueing" <=> reader[t] = "queueing"
                /\ reader[t] = "queueing" => change'[t] = change[t]
          /\ pump' = "taken" <=> pump = "taken"
          /\ pump = "taken" => hand' = hand
      BY <1>4, <1>0 DEF Registered, delivery, pumping, TypeOK
    <2>3. QED
      BY <1>0, <2>1, <2>2, QueueKept DEF QueueInv
  <1>5. CASE HandlerReturns
    <2>1. TypeOK' /\ Carrying'
      BY <1>5, <1>0
    DEF TypeOK, Carrying, HandlerReturns, client, delivery, queue, pumping, history
    <2>2. /\ UNCHANGED queue
          /\ \A t \in Sources :
                /\ reader'[t] = "queueing" <=> reader[t] = "queueing"
                /\ reader[t] = "queueing" => change'[t] = change[t]
          /\ pump' = "taken" <=> pump = "taken"
          /\ pump = "taken" => hand' = hand
      BY <1>5, <1>0 DEF HandlerReturns, delivery, pumping, TypeOK
    <2>3. QED
      BY <1>0, <2>1, <2>2, QueueKept DEF QueueInv
  <1>6. CASE PumpGone
    <2>1. TypeOK' /\ Carrying'
      BY <1>6, <1>0 DEF TypeOK, Carrying, PumpGone, client, delivery, queue, pumping, history
    <2>2. /\ UNCHANGED queue
          /\ \A t \in Sources :
                /\ reader'[t] = "queueing" <=> reader[t] = "queueing"
                /\ reader[t] = "queueing" => change'[t] = change[t]
          /\ pump' = "taken" <=> pump = "taken"
          /\ pump = "taken" => hand' = hand
      BY <1>6, <1>0 DEF PumpGone, delivery, pumping, TypeOK
    <2>3. QED
      BY <1>0, <2>1, <2>2, QueueKept DEF QueueInv
  <1>7. CASE StreamCloses
    <2>1. TypeOK' /\ Carrying'
      BY <1>7, <1>0
    DEF TypeOK, Carrying, StreamCloses, client, delivery, queue, pumping, history
    <2>2. /\ UNCHANGED queue
          /\ \A t \in Sources :
                /\ reader'[t] = "queueing" <=> reader[t] = "queueing"
                /\ reader[t] = "queueing" => change'[t] = change[t]
          /\ pump' = "taken" <=> pump = "taken"
          /\ pump = "taken" => hand' = hand
      BY <1>7, <1>0 DEF StreamCloses, delivery, pumping, TypeOK
    <2>3. QED
      BY <1>0, <2>1, <2>2, QueueKept DEF QueueInv
  <1>8. CASE RequestEnds
    <2>1. TypeOK' /\ Carrying'
      BY <1>8, <1>0 DEF TypeOK, Carrying, RequestEnds, client, delivery, queue, pumping, history
    <2>2. /\ UNCHANGED queue
          /\ \A t \in Sources :
                /\ reader'[t] = "queueing" <=> reader[t] = "queueing"
                /\ reader[t] = "queueing" => change'[t] = change[t]
          /\ pump' = "taken" <=> pump = "taken"
          /\ pump = "taken" => hand' = hand
      BY <1>8, <1>0 DEF RequestEnds, delivery, pumping, TypeOK
    <2>3. QED
      BY <1>0, <2>1, <2>2, QueueKept DEF QueueInv
  <1>9. CASE Announce
    <2>1. TypeOK' /\ Carrying'
      BY <1>9, <1>0 DEF TypeOK, Carrying, Announce, client, delivery, queue, pumping, history
    <2>2. /\ UNCHANGED queue
          /\ \A t \in Sources :
                /\ reader'[t] = "queueing" <=> reader[t] = "queueing"
                /\ reader[t] = "queueing" => change'[t] = change[t]
          /\ pump' = "taken" <=> pump = "taken"
          /\ pump = "taken" => hand' = hand
      BY <1>9, <1>0 DEF Announce, delivery, pumping, TypeOK
    <2>3. QED
      BY <1>0, <2>1, <2>2, QueueKept DEF QueueInv
  <1>10. CASE PumpEnds
    <2>1. TypeOK' /\ Carrying'
      BY <1>10, <1>0 DEF TypeOK, Carrying, PumpEnds, client, delivery, queue, pumping, history
    <2>2. /\ UNCHANGED queue
          /\ \A t \in Sources :
                /\ reader'[t] = "queueing" <=> reader[t] = "queueing"
                /\ reader[t] = "queueing" => change'[t] = change[t]
          /\ pump' = "taken" <=> pump = "taken"
          /\ pump = "taken" => hand' = hand
      BY <1>10, <1>0 DEF PumpEnds, delivery, pumping, TypeOK
    <2>3. QED
      BY <1>0, <2>1, <2>2, QueueKept DEF QueueInv
  <1>11. ASSUME NEW s \in Sources, SubscribeTo(s) PROVE QueueInv'
    <2>1. TypeOK' /\ Carrying'
      BY <1>11, <1>0
    DEF TypeOK, Carrying, SubscribeTo, client, delivery, queue, pumping, history
    <2>2. /\ UNCHANGED queue
          /\ \A t \in Sources :
                /\ reader'[t] = "queueing" <=> reader[t] = "queueing"
                /\ reader[t] = "queueing" => change'[t] = change[t]
          /\ pump' = "taken" <=> pump = "taken"
          /\ pump = "taken" => hand' = hand
      BY <1>11, <1>0 DEF SubscribeTo, delivery, pumping, TypeOK
    <2>3. QED
      BY <1>0, <2>1, <2>2, QueueKept DEF QueueInv
  <1>12. ASSUME NEW s \in Sources, Release(s) PROVE QueueInv'
    <2>1. TypeOK' /\ Carrying'
      BY <1>12, <1>0 DEF TypeOK, Carrying, Release, client, delivery, queue, pumping, history
    <2>2. /\ UNCHANGED queue
          /\ \A t \in Sources :
                /\ reader'[t] = "queueing" <=> reader[t] = "queueing"
                /\ reader[t] = "queueing" => change'[t] = change[t]
          /\ pump' = "taken" <=> pump = "taken"
          /\ pump = "taken" => hand' = hand
      BY <1>12, <1>0 DEF Release, delivery, pumping, TypeOK
    <2>3. QED
      BY <1>0, <2>1, <2>2, QueueKept DEF QueueInv
  <1>13. ASSUME NEW s \in Sources, DeliverKnown(s) PROVE QueueInv'
    <2>1. TypeOK' /\ Carrying'
      BY <1>13, <1>0
    DEF TypeOK, Carrying, DeliverKnown, client, delivery, queue, pumping, history
    <2>2. /\ UNCHANGED queue
          /\ \A t \in Sources :
                /\ reader'[t] = "queueing" <=> reader[t] = "queueing"
                /\ reader[t] = "queueing" => change'[t] = change[t]
          /\ pump' = "taken" <=> pump = "taken"
          /\ pump = "taken" => hand' = hand
      BY <1>13, <1>0 DEF DeliverKnown, delivery, pumping, TypeOK
    <2>3. QED
      BY <1>0, <2>1, <2>2, QueueKept DEF QueueInv
  <1>14. ASSUME NEW s \in Sources, NEW k \in Kinds, Changes(s, k) PROVE QueueInv'
    <2>1. TypeOK' /\ Carrying'
      <3>1. /\ announced \in Nat /\ announced < MaxChanges /\ announced' = announced + 1
            /\ owed' \in SUBSET Kinds
        BY <1>14, <1>0 DEF TypeOK, Changes
      <3>2. announced' \in 0..MaxChanges
        BY <3>1, ChangeAssumption
      <3>3. TypeOK'
        BY <1>14, <1>0, <3>1, <3>2 DEF TypeOK, Changes, client, queue, pumping
      <3>4. Carrying'
        BY <1>14, <1>0 DEF TypeOK, Carrying, Changes, client, pumping
      <3>5. QED
        BY <3>3, <3>4
    <2>2. /\ UNCHANGED queue
          /\ \A t \in Sources :
                /\ reader'[t] = "queueing" <=> reader[t] = "queueing"
                /\ reader[t] = "queueing" => change'[t] = change[t]
          /\ pump' = "taken" <=> pump = "taken"
          /\ pump = "taken" => hand' = hand
      BY <1>14, <1>0 DEF Changes, delivery, pumping, TypeOK
    <2>3. QED
      BY <1>0, <2>1, <2>2, QueueKept DEF QueueInv
  <1>15. ASSUME NEW s \in Sources, DeliverNew(s) PROVE QueueInv'
    BY <1>15, DeliverNewKept
  <1>16. ASSUME NEW s \in Sources, Queue(s) PROVE QueueInv'
    BY <1>16, QueueingKept
  <1>17. CASE Take
    BY <1>17, TakeKept
  <1>18. CASE Mark
    BY <1>18, MarkKept
  <1>19. CASE UNCHANGED vars
    <2>1. TypeOK' /\ Carrying'
      BY <1>19, <1>0 DEF TypeOK, Carrying, vars, client, delivery, queue, pumping, history
    <2>2. UNCHANGED <<queue, delivery, pumping>>
      BY <1>19 DEF vars
    <2>3. QED
      BY <1>0, <2>1, <2>2, QueueKept DEF QueueInv, delivery, pumping
  <1>20. QED
    BY <1>1, <1>2, <1>3, <1>4, <1>5, <1>6, <1>7, <1>8, <1>9, <1>10, <1>11,
       <1>12, <1>13, <1>14, <1>15, <1>16, <1>17, <1>18, <1>19
    DEF Next, FanIn, Pump, Deliver

THEOREM QueueCorrect == Spec => []QueueInv
  BY InitQueueInv, NextQueueInv, PTL DEF Spec

\* The type invariant.
THEOREM TypeCorrect == Spec => []TypeOK
  <1>1. QueueInv => TypeOK
    BY DEF QueueInv
  <1>2. QED
    BY <1>1, QueueCorrect, PTL

\* Room for whoever is about to queue: his kind is not in the channel, and what
\* is in it is there once.
LEMMA RoomLeft ==
    ASSUME QueueInv, NEW s \in Sources, reader[s] = "queueing"
    PROVE  Len(changes) < Cardinality(Kinds)
  <1> DEFINE k == change[s]
             f == [i \in 1..Len(changes) |-> changes[i]]
  <1>1. TypeOK /\ Carrying /\ OnePlace
    BY DEF QueueInv
  <1>2. k \in Kinds /\ k \notin InQueue
    BY <1>1 DEF Carrying, OnePlace, Queueing
  <1>3. changes \in Seq(Kinds) /\ Len(changes) \in Nat
    BY <1>1 DEF TypeOK
  <1>4. \A i \in 1..Len(changes) : changes[i] \in Kinds \ {k}
    BY <1>2, <1>3 DEF InQueue
  <1>5. f \in [1..Len(changes) -> Kinds \ {k}]
    BY <1>4
  <1>6. /\ IsFiniteSet(Kinds) /\ IsFiniteSet(Kinds \ {k})
        /\ Cardinality(Kinds) \in Nat /\ Cardinality(Kinds \ {k}) = Cardinality(Kinds) - 1
    <2>1. IsFiniteSet(Kinds)
      BY ChangeAssumption
    <2>2. Cardinality(Kinds) \in Nat
      BY <2>1, FS_CardinalityType
    <2>3. IsFiniteSet(Kinds \ {k}) /\ Cardinality(Kinds \ {k}) = Cardinality(Kinds) - 1
      BY <1>2, <2>1, FS_RemoveElement
    <2>4. QED
      BY <2>1, <2>2, <2>3
  <1>7. IsFiniteSet(1..Len(changes)) /\ Cardinality(1..Len(changes)) = Len(changes)
    <2>1. 1 \in Int /\ Len(changes) \in Int
      BY <1>3
    <2>2. /\ IsFiniteSet(1..Len(changes))
          /\ Cardinality(1..Len(changes)) = IF 1 > Len(changes) THEN 0 ELSE Len(changes) - 1 + 1
      BY <2>1, FS_Interval
    <2>3. QED
      BY <1>3, <2>2
  <1>8. SUFFICES ASSUME Len(changes) >= Cardinality(Kinds) PROVE FALSE
    BY <1>3, <1>6
  <1>9. Cardinality(Kinds \ {k}) < Cardinality(1..Len(changes))
    BY <1>3, <1>6, <1>7, <1>8
  <1>10. \E i, j \in 1..Len(changes) : i # j /\ f[i] = f[j]
    <2> HIDE DEF f
    <2>1. QED
      BY <1>5, <1>6, <1>7, <1>9, FS_PigeonHole
  <1>11. QED
    BY <1>1, <1>10 DEF OnePlace

\* deliver never blocks, whatever has become of the pump.
THEOREM NeverBlocksHolds == Spec => []NeverBlocks
  <1>1. QueueInv => NeverBlocks
    BY RoomLeft DEF NeverBlocks
  <1>2. QED
    BY <1>1, QueueCorrect, PTL

-----------------------------------------------------------------------------
(* Nothing is lost.                                                        *)

LossInv == QueueInv /\ OwedLate /\ NothingLost

LEMMA QueueIsSet == QueueInv => ToSet(changes) = InQueue
  <1> SUFFICES ASSUME QueueInv PROVE ToSet(changes) = InQueue
    OBVIOUS
  <1>1. DOMAIN changes = 1..Len(changes)
    BY DEF QueueInv, TypeOK
  <1>2. QED
    BY <1>1 DEF ToSet, InQueue

LEMMA InitLossInv == Init => LossInv
  BY InitQueueInv DEF Init, LossInv, OwedLate, NothingLost

LEMMA NextLossInv == LossInv /\ [Next]_vars => LossInv'
  <1> SUFFICES ASSUME LossInv, [Next]_vars PROVE LossInv'
    OBVIOUS
  <1>0. QueueInv /\ OwedLate /\ NothingLost /\ TypeOK /\ Carrying /\ PendingExact
    BY DEF LossInv, QueueInv
  <1>1. QueueInv'
    BY <1>0, NextQueueInv
  <1>2. ToSet(changes) = InQueue /\ ToSet(changes') = InQueue'
    <2>1. DOMAIN changes' = 1..Len(changes')
      BY <1>1 DEF QueueInv, TypeOK
    <2>2. ToSet(changes') = InQueue'
      BY <2>1 DEF ToSet, InQueue
    <2>3. QED
      BY <1>0, <2>2, QueueIsSet
  <1>3. SUFFICES OwedLate' /\ NothingLost'
    BY <1>1 DEF LossInv
  <1>4. CASE ListenBegins
    BY <1>4, <1>0
    DEF ListenBegins, OwedLate, NothingLost, OnItsWay, delivery, queue, pumping, history
  <1>5. CASE ListenFails
    BY <1>5, <1>0
    DEF ListenFails, OwedLate, NothingLost, OnItsWay, delivery, queue, pumping, history
  <1>6. CASE PumpStarts
    BY <1>6, <1>0
    DEF PumpStarts, OwedLate, NothingLost, OnItsWay, delivery, queue, pumping, history
  <1>7. CASE HandlerReturns
    BY <1>7, <1>0
    DEF HandlerReturns, OwedLate, NothingLost, OnItsWay, delivery, queue, pumping, history
  <1>8. CASE PumpGone
    BY <1>8, <1>0
    DEF PumpGone, OwedLate, NothingLost, OnItsWay, delivery, queue, pumping, history
  <1>9. CASE StreamCloses
    BY <1>9, <1>0
    DEF StreamCloses, OwedLate, NothingLost, OnItsWay, delivery, queue, pumping, history
  <1>10. CASE RequestEnds
    BY <1>10, <1>0
    DEF RequestEnds, OwedLate, NothingLost, OnItsWay, delivery, queue, pumping, history
  <1>11. CASE Registered
    BY <1>11, <1>0 DEF Registered, OwedLate, NothingLost, history
  <1>12. ASSUME NEW s \in Sources, SubscribeTo(s) PROVE OwedLate' /\ NothingLost'
    BY <1>12, <1>0
    DEF SubscribeTo, OwedLate, NothingLost, OnItsWay, delivery, queue, pumping, history
  <1>13. ASSUME NEW s \in Sources, Release(s) PROVE OwedLate' /\ NothingLost'
    BY <1>13, <1>0
    DEF Release, OwedLate, NothingLost, OnItsWay, delivery, queue, pumping, history
  <1>14. ASSUME NEW s \in Sources, NEW k \in Kinds, Changes(s, k) PROVE OwedLate' /\ NothingLost'
    <2>1. /\ reader[s] = "reading" /\ reader' = [reader EXCEPT ![s] = "publishing"]
          /\ change' = [change EXCEPT ![s] = k] /\ stream' = stream
          /\ UNCHANGED <<queue, pumping>>
          /\ owed' = IF stream = "open" THEN owed \cup {k} ELSE owed
      BY <1>14 DEF Changes, client
    <2>2. OnItsWay(k)' /\ \A j : OnItsWay(j) => OnItsWay(j)'
      BY <1>0, <2>1 DEF OnItsWay, TypeOK, queue, pumping
    <2>3. QED
      BY <1>0, <2>1, <2>2 DEF OwedLate, NothingLost, pumping
  <1>15. ASSUME NEW s \in Sources, DeliverKnown(s) PROVE OwedLate' /\ NothingLost'
    <2>0. PICK k : k = change[s]
      OBVIOUS
    <2>1. /\ reader[s] = "publishing" /\ reader' = [reader EXCEPT ![s] = "reading"]
          /\ change' = [change EXCEPT ![s] = NoKind] /\ k \in pending
          /\ UNCHANGED <<client, queue, pumping, history>>
      BY <2>0, <1>15 DEF DeliverKnown, Queued
    <2>2. \A t \in Sources \ {s} : reader'[t] = reader[t] /\ change'[t] = change[t]
      BY <1>0, <2>1 DEF TypeOK
    <2>3. Queueing(k) \/ k \in InQueue \/ JustTaken(k)
      BY <1>0, <2>1 DEF PendingExact, TypeOK
    <2>4. OnItsWay(k)'
      <3>1. CASE Queueing(k)
        <4>1. PICK t \in Sources : reader[t] = "queueing" /\ change[t] = k
          BY <3>1 DEF Queueing
        <4>2. t # s
          BY <2>1, <4>1
        <4>3. reader'[t] # "reading" /\ change'[t] = k
          BY <2>2, <4>1, <4>2
        <4>4. QED
          BY <4>3 DEF OnItsWay
      <3>2. CASE k \in InQueue
        BY <1>2, <2>1, <3>2 DEF OnItsWay, queue
      <3>3. CASE JustTaken(k)
        BY <2>1, <3>3 DEF OnItsWay, JustTaken, pumping
      <3>4. QED
        BY <2>3, <3>1, <3>2, <3>3
    <2>5. \A j : OnItsWay(j) => OnItsWay(j)'
      <3> SUFFICES ASSUME NEW j, OnItsWay(j) PROVE OnItsWay(j)'
        OBVIOUS
      <3>1. CASE j = k
        BY <2>4, <3>1
      <3>2. CASE \E t \in Sources \ {s} : reader[t] # "reading" /\ change[t] = j
        BY <2>2, <3>2 DEF OnItsWay
      <3>3. CASE j \in ToSet(changes) \/ (pump \in {"taken", "announcing"} /\ hand = j)
        BY <2>1, <3>3 DEF OnItsWay, queue, pumping
      <3>4. QED
        BY <2>0, <3>1, <3>2, <3>3 DEF OnItsWay
    <2>6. QED
      BY <1>0, <2>1, <2>5 DEF OwedLate, NothingLost, client, pumping, history
  <1>16. ASSUME NEW s \in Sources, DeliverNew(s) PROVE OwedLate' /\ NothingLost'
    <2>1. /\ reader' = [reader EXCEPT ![s] = "queueing"]
          /\ UNCHANGED <<client, change, changes, pumping, history>>
      BY <1>16 DEF DeliverNew
    <2>2. \A j : OnItsWay(j) => OnItsWay(j)'
      BY <1>0, <2>1 DEF OnItsWay, TypeOK, pumping
    <2>3. QED
      BY <1>0, <2>1, <2>2 DEF OwedLate, NothingLost, client, pumping, history
  <1>17. ASSUME NEW s \in Sources, Queue(s) PROVE OwedLate' /\ NothingLost'
    <2>1. /\ reader' = [reader EXCEPT ![s] = "reading"]
          /\ change' = [change EXCEPT ![s] = NoKind] /\ changes' = Append(changes, change[s])
          /\ reader[s] = "queueing" /\ UNCHANGED <<client, pumping, history>>
      BY <1>17 DEF Queue
    <2>2. \A t \in Sources \ {s} : reader'[t] = reader[t] /\ change'[t] = change[t]
      BY <1>0, <2>1 DEF TypeOK
    <2>3. change[s] \in Kinds /\ changes \in Seq(Kinds)
      BY <1>0, <2>1 DEF Carrying, TypeOK
    <2>4. InQueue \subseteq InQueue' /\ change[s] \in InQueue'
      BY <2>1, <2>3, AppendSet DEF InQueue
    <2>5. \A j : OnItsWay(j) => OnItsWay(j)'
      BY <1>2, <2>1, <2>2, <2>4 DEF OnItsWay, pumping
    <2>6. QED
      BY <1>0, <2>1, <2>5 DEF OwedLate, NothingLost, client, pumping, history
  <1>18. CASE Take
    <2>1. /\ changes # <<>> /\ hand' = Head(changes) /\ changes' = Tail(changes)
          /\ pump = "waiting" /\ pump' = "taken" /\ UNCHANGED <<client, delivery, history>>
      BY <1>18 DEF Take
    <2>2. changes \in Seq(Kinds)
      BY <1>0 DEF TypeOK
    <2>3. \A j \in InQueue : j \in InQueue' \/ j = hand'
      <3> SUFFICES ASSUME NEW j \in InQueue PROVE j \in InQueue' \/ j = hand'
        OBVIOUS
      <3>1. PICK i \in 1..Len(changes) : j = changes[i]
        BY DEF InQueue
      <3>2. CASE i = 1
        BY <2>1, <2>2, <3>1, <3>2, TailSet
      <3>3. CASE i # 1
        <4>1. i - 1 \in 1..(Len(changes) - 1) /\ i - 1 + 1 = i
          BY <2>1, <2>2, <3>1, <3>3, TailSet
        <4>2. changes'[i - 1] = changes[i] /\ i - 1 \in 1..Len(changes')
          BY <2>1, <2>2, <4>1, TailSet
        <4>3. QED
          BY <3>1, <4>2 DEF InQueue
      <3>4. QED
        BY <3>2, <3>3
    <2>4. \A j : OnItsWay(j) => OnItsWay(j)'
      BY <1>2, <2>1, <2>3 DEF OnItsWay, delivery
    <2>5. QED
      BY <1>0, <2>1, <2>4 DEF OwedLate, NothingLost, client, history
  <1>19. CASE Mark
    BY <1>19, <1>0 DEF Mark, OwedLate, NothingLost, OnItsWay, client, delivery, history
  <1>20. CASE Announce
    <2>1. /\ pump = "announcing" /\ UNCHANGED <<client, delivery, queue>>
          /\ owed' = IF stream = "open" THEN owed \ {hand} ELSE owed
      BY <1>20 DEF Announce
    <2>2. \A j : OnItsWay(j) /\ j # hand => OnItsWay(j)'
      BY <2>1 DEF OnItsWay, delivery, queue
    <2>3. QED
      BY <1>0, <2>1, <2>2 DEF OwedLate, NothingLost, client
  <1>21. CASE PumpEnds
    BY <1>21, <1>0 DEF PumpEnds, OwedLate, NothingLost, client, history
  <1>22. CASE UNCHANGED vars
    BY <1>22, <1>0
    DEF vars, OwedLate, NothingLost, OnItsWay, client, delivery, queue, pumping, history
  <1>23. QED
    BY <1>4, <1>5, <1>6, <1>7, <1>8, <1>9, <1>10, <1>11, <1>12, <1>13, <1>14,
       <1>15, <1>16, <1>17, <1>18, <1>19, <1>20, <1>21, <1>22
    DEF Next, FanIn, Pump, Deliver

\* Coalescing loses nothing, with any number of sources and kinds.
THEOREM NothingLostHolds == Spec => []NothingLost
  <1>1. Spec => []LossInv
    BY InitLossInv, NextLossInv, PTL DEF Spec
  <1>2. LossInv => NothingLost
    BY DEF LossInv
  <1>3. QED
    BY <1>1, <1>2, PTL
=============================================================================
