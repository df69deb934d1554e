------------------------ MODULE SealedOutboxProofs ------------------------
(* Theorems about ClientOutbox and SealedOutbox, for any number of calls,    *)
(* documents, drops and members.                                             *)
EXTENDS SealedOutbox, WellFoundedInduction, TLAPS

\* A set of numbers that is not empty has a least one.
LEMMA LeastNumber ==
    ASSUME NEW S \in SUBSET Nat, S # {}
    PROVE  \E m \in S : \A n \in S : m <= n
<1> DEFINE R == OpToRel(<, Nat)
<1>1. IsWellFoundedOn(R, Nat)
  BY NatLessThanWellFounded
<1>2. \A n, m \in Nat : <<n, m>> \in R <=> n < m
  BY DEF OpToRel
<1> HIDE DEF R
<1>3. PICK m \in S : \A n \in S : ~(<<n, m>> \in R)
  BY <1>1, WFMin, Zenon
<1>4. \A n \in S : ~(n < m)
  BY <1>2, <1>3
<1>5. \A n \in S : n \in Nat
  OBVIOUS
<1> HIDE <1>2
<1> QED
  BY <1>3, <1>4, <1>5

\* A flush that has an entry to send has an oldest one.
LEMMA OldestListed ==
    ASSUME OTypeOK, NEW f \in Flushers, todo[f] # {}
    PROVE  /\ Oldest(f) \in todo[f]
           /\ \A w \in todo[f] : Oldest(f).ts <= w.ts
<1> DEFINE S == {w.ts : w \in todo[f]}
<1>1. S \in SUBSET Nat /\ S # {}
  BY DEF OTypeOK, Published
<1>2. PICK m \in S : \A n \in S : m <= n
  BY <1>1, LeastNumber
<1>3. \E e \in todo[f] : \A w \in todo[f] : e.ts <= w.ts
  BY <1>2
<1> QED
  BY <1>3 DEF Oldest

-----------------------------------------------------------------------------
\* The steps of publish(), flushOutbox(), connect() and the socket keep the
\* variables in their types.
LEMMA OutboxTypeStep ==
    ASSUME OTypeOK, [ONext]_vars
    PROVE  OTypeOK'
<1> USE OutboxAssumption DEF Flushers, envVars
<1>0. clock \in Nat /\ drops \in Nat /\ closes \in Nat
  BY DEF OTypeOK
<1>1. CASE UNCHANGED vars
  BY <1>1 DEF vars, OTypeOK, Published
<1>2. ASSUME NEW p \in Publishers, NEW id \in Ids, Publish(p, id) PROVE OTypeOK'
  <2>1. clock' = clock + 1 /\ clock' \in 0..MaxPublish /\ clock' \in 1..clock'
    BY <1>0, <1>2 DEF Publish
  <2>2. 0..clock \subseteq 0..clock' /\ 1..clock \subseteq 1..clock'
    BY <1>0, <2>1
  <2>3. Published \subseteq Published'
    BY <2>2 DEF Published
  <2>4. [id |-> id, ts |-> clock'] \in Published'
    BY <2>1 DEF Published
  <2>5. queued' \in Seq(Published')
    <3>1. queued' = queued /\ queued \in Seq(Published)
      BY <1>2 DEF Publish, OTypeOK
    <3> QED
      BY <2>3, <3>1
  <2>6. /\ local' \in [Ids -> 0..clock'] /\ outbox' \in [Ids -> 0..clock']
        /\ handed' \subseteq Published' /\ todo' \in [Flushers -> SUBSET Published']
    BY <1>2, <2>2, <2>3 DEF Publish, OTypeOK
  <2>7. /\ item' \in [Publishers -> Published' \cup {NoWrite}]
        /\ \A q \in Publishers : pc'[q] \in {"put", "enqueue"} => item'[q] \in Published'
    BY <1>2, <2>3, <2>4 DEF Publish, OTypeOK
  <2> QED
    BY <1>2, <2>1, <2>5, <2>6, <2>7 DEF Publish, OTypeOK, Published
<1>3. ASSUME NEW p \in Publishers, StoreDoc(p) PROVE OTypeOK'
  BY <1>0, <1>3 DEF StoreDoc, OTypeOK, Published
<1>4. ASSUME NEW p \in Publishers, Enqueue(p) PROVE OTypeOK'
  <2>1. queued' \in Seq(Published)
    BY <1>4 DEF Enqueue, OTypeOK
  <2> QED
    BY <1>0, <1>4, <2>1 DEF Enqueue, OTypeOK, Published
<1>5. ASSUME NEW f \in Flushers, ListOutbox(f) PROVE OTypeOK'
  <2>1. {[id |-> id, ts |-> outbox[id]] : id \in {i \in Ids : outbox[i] # 0}} \subseteq Published
    BY <1>0 DEF OTypeOK, Published
  <2> QED
    BY <1>0, <1>5, <2>1 DEF ListOutbox, OTypeOK, Published
<1>6. ASSUME NEW f \in Flushers, Send(f) PROVE OTypeOK'
  <2>1. Oldest(f) \in Published
    BY <1>6, OldestListed DEF Send, OTypeOK
  <2> QED
    BY <1>0, <1>6, <2>1 DEF Send, OTypeOK, Published
<1>7. ASSUME NEW f \in Flushers, DeleteEntry(f) PROVE OTypeOK'
  <2>1. outbox' \in [Ids -> 0..clock]
    <3> DEFINE e == Oldest(f)
    <3>1. outbox' = [outbox EXCEPT ![e.id] = 0]
      BY <1>7 DEF DeleteEntry
    <3>2. 0 \in 0..clock
      BY <1>0
    <3> HIDE DEF e
    <3> QED
      BY <3>1, <3>2 DEF OTypeOK
  <2>2. todo' \in [Flushers -> SUBSET Published]
    BY <1>7 DEF DeleteEntry, OTypeOK
  <2> QED
    BY <1>7, <2>1, <2>2 DEF DeleteEntry, OTypeOK, Published
<1>8. ASSUME NEW f \in Flushers, EndFlush(f) PROVE OTypeOK'
  BY <1>0, <1>8 DEF EndFlush, OTypeOK, Published
<1>9. CASE Dial \/ Open \/ Resume
  BY <1>9 DEF Dial, Open, Resume, OTypeOK, Published
<1>10. CASE Refuse \/ Drop
  <2>1. drops' \in 0..MaxDrops /\ closes' \in 0..drops'
    BY <1>0, <1>10 DEF Refuse, Drop, OTypeOK
  <2> QED
    BY <1>10, <2>1 DEF Refuse, Drop, OTypeOK, Published
<1>11. CASE CloseEvent
  <2>1. closes' \in 0..drops
    BY <1>0, <1>11 DEF CloseEvent, OTypeOK
  <2> QED
    BY <1>11, <2>1 DEF CloseEvent, OTypeOK, Published
<1>12. CASE Crash
  <2>1. drops' \in 0..MaxDrops /\ closes' \in 0..drops'
    BY <1>0, <1>12 DEF Crash, OTypeOK
  <2> QED
    BY <1>12, <2>1 DEF Crash, OTypeOK, Published
<1> QED
  BY <1>1, <1>2, <1>3, <1>4, <1>5, <1>6, <1>7, <1>8, <1>9, <1>10, <1>11, <1>12
  DEF ONext, PublishStep, FlushStep

-----------------------------------------------------------------------------
\* The oldest entry of a flush depends on its own listing only.
LEMMA OldestKept ==
    ASSUME NEW f \in Flushers, todo'[f] = todo[f]
    PROVE  Oldest(f)' = Oldest(f)
BY DEF Oldest

\* As long as no id is published again, no step loses a write, whichever of the
\* flushes takes it.
LEMMA OutboxInvStep ==
    ASSUME ~Republish, OTypeOK, OTypeOK', OutboxInv, [ONext]_vars
    PROVE  OutboxInv'
<1> USE DEF Flushers, envVars
<1>0. /\ clock \in Nat /\ Len(queued) \in Nat /\ DOMAIN queued = 1..Len(queued)
      /\ \A n \in DOMAIN queued : queued[n] \in Published
      /\ \A w \in Published : w.id \in Ids /\ w.ts \in Nat \ {0} /\ w # NoWrite
  <2>1. clock \in Nat /\ queued \in Seq(Published)
    BY DEF OTypeOK
  <2>2. \A w \in Published : w.id \in Ids /\ w.ts \in Nat \ {0}
    BY <2>1 DEF Published
  <2>3. NoWrite.ts = 0
    BY DEF NoWrite
  <2> QED
    BY <2>1, <2>2, <2>3
<1>1. CASE UNCHANGED vars
  <2> USE <1>1 DEF vars
  <2>1. Unqueued' /\ QueuedOnce' /\ ListedInOrder' /\ HeldOrHanded'
    BY DEF OutboxInv, Unqueued, QueuedOnce, ListedInOrder, HeldOrHanded
  <2>2. FromQueue'
    BY OldestKept DEF OutboxInv, FromQueue, IsQueued
  <2> QED
    BY <2>1, <2>2 DEF OutboxInv
<1>2. ASSUME NEW p \in Publishers, NEW id \in Ids, Publish(p, id) PROVE OutboxInv'
  <2> USE <1>2 DEF Publish, OTypeOK
  <2>1. local[id] = 0 /\ \A q \in Publishers : item[q].id # id
    OBVIOUS
  <2>2. Unqueued'
    BY <1>0, <2>1 DEF OutboxInv, Unqueued, NoWrite
  <2>3. QueuedOnce' /\ ListedInOrder' /\ HeldOrHanded'
    BY DEF OutboxInv, QueuedOnce, ListedInOrder, HeldOrHanded
  <2>4. FromQueue'
    BY OldestKept DEF OutboxInv, FromQueue, IsQueued
  <2> QED
    BY <2>2, <2>3, <2>4 DEF OutboxInv
<1>3. ASSUME NEW p \in Publishers, StoreDoc(p) PROVE OutboxInv'
  <2> USE <1>3 DEF StoreDoc, OTypeOK
  <2>1. item[p] \in Published /\ local[item[p].id] = 0
    BY DEF OutboxInv, Unqueued
  <2>2. \A n \in DOMAIN queued : queued[n].id # item[p].id
    BY <1>0, <2>1 DEF OutboxInv, QueuedOnce
  <2>3. Unqueued'
    BY <1>0, <2>1, <2>2 DEF OutboxInv, Unqueued
  <2>4. QueuedOnce' /\ ListedInOrder' /\ HeldOrHanded'
    BY <1>0, <2>2 DEF OutboxInv, QueuedOnce, ListedInOrder, HeldOrHanded
  <2>5. FromQueue'
    BY OldestKept DEF OutboxInv, FromQueue, IsQueued
  <2> QED
    BY <2>3, <2>4, <2>5 DEF OutboxInv
<1>4. ASSUME NEW p \in Publishers, Enqueue(p) PROVE OutboxInv'
  <2> DEFINE w == item[p]
  <2>1. /\ w \in Published /\ local[w.id] = w.ts
        /\ \A n \in DOMAIN queued : queued[n].id # w.id
    BY <1>4 DEF Enqueue, OTypeOK, OutboxInv, Unqueued
  <2>2. /\ queued' = Append(queued, w) /\ outbox' = [outbox EXCEPT ![w.id] = w.ts]
        /\ local' = local /\ handed' = handed /\ todo' = todo
        /\ pc' = [pc EXCEPT ![p] = IF connected THEN "list" ELSE "idle"]
        /\ item' = [item EXCEPT ![p] = NoWrite]
    BY <1>4 DEF Enqueue
  <2> HIDE DEF w
  <2>3. /\ DOMAIN queued' = DOMAIN queued \cup {Len(queued) + 1}
        /\ Len(queued) + 1 \notin DOMAIN queued
        /\ \A n \in DOMAIN queued : queued'[n] = queued[n]
        /\ queued'[Len(queued) + 1] = w
    BY <1>0, <2>1, <2>2 DEF OTypeOK
  <2>4. Unqueued'
    <3> SUFFICES ASSUME NEW q \in Publishers
                 PROVE  /\ item'[q] # NoWrite => pc'[q] \in {"put", "enqueue"}
                        /\ pc'[q] = "put" => local'[item'[q].id] = 0
                        /\ pc'[q] = "enqueue" =>
                             /\ local'[item'[q].id] = item'[q].ts
                             /\ \A n \in DOMAIN queued' : queued'[n].id # item'[q].id
                        /\ \A o \in Publishers \ {q} :
                             item'[q] # NoWrite /\ item'[o] # NoWrite => item'[q].id # item'[o].id
      BY DEF Unqueued
    <3>1. CASE q = p
      BY <2>2, <3>1 DEF OTypeOK
    <3>2. CASE q # p
      <4>1. pc'[q] = pc[q] /\ item'[q] = item[q]
        BY <2>2, <3>2 DEF OTypeOK
      <4>2. pc[q] = "enqueue" => item[q].id # w.id
        BY <1>0, <2>1, <3>2 DEF OutboxInv, Unqueued, OTypeOK, w
      <4> QED
        BY <2>2, <2>3, <3>2, <4>1, <4>2 DEF OutboxInv, Unqueued, OTypeOK
    <3> QED
      BY <3>1, <3>2
  <2>5. QueuedOnce'
    BY <2>1, <2>2, <2>3 DEF OutboxInv, QueuedOnce
  <2>6. \A x : IsQueued(x) => IsQueued(x)'
    BY <2>3 DEF IsQueued
  <2>7. FromQueue'
    <3>1. (\A id \in Ids : outbox[id] # 0 => IsQueued([id |-> id, ts |-> outbox[id]]))'
      <4> SUFFICES ASSUME NEW id \in Ids, outbox'[id] # 0
                   PROVE  \E n \in DOMAIN queued' : queued'[n] = [id |-> id, ts |-> outbox'[id]]
        BY DEF IsQueued
      <4>1. CASE id = w.id
        <5>1. [id |-> id, ts |-> outbox'[id]] = w
          BY <2>1, <2>2, <4>1 DEF OTypeOK, Published
        <5> QED
          BY <2>3, <5>1
      <4>2. CASE id # w.id
        <5>1. outbox'[id] = outbox[id]
          BY <2>2, <4>2 DEF OTypeOK
        <5>2. IsQueued([id |-> id, ts |-> outbox[id]])
          BY <5>1 DEF OutboxInv, FromQueue
        <5> QED
          BY <2>3, <5>1, <5>2 DEF IsQueued
      <4> QED
        BY <4>1, <4>2
    <3>2. \A f \in Flushers : \A x \in todo'[f] : IsQueued(x)'
      BY <2>2, <2>6 DEF OutboxInv, FromQueue
    <3>3. \A f \in Flushers : pc'[f] = "delete" => todo'[f] # {} /\ Oldest(f)' \in handed'
      BY <2>2, OldestKept DEF OutboxInv, FromQueue, OTypeOK
    <3> QED
      BY <3>1, <3>2, <3>3 DEF FromQueue
  <2>8. ListedInOrder'
    <3> SUFFICES ASSUME NEW f \in Flushers, NEW n \in DOMAIN queued', NEW m \in 1..(n - 1),
                        pc'[f] \in {"send", "delete"}, queued'[n] \in todo'[f],
                        outbox'[queued'[m].id] = queued'[m].ts
                 PROVE  queued'[m] \in todo'[f] \cup handed'
      BY DEF ListedInOrder
    <3>1. n \in DOMAIN queued
      BY <2>1, <2>2, <2>3 DEF OutboxInv, FromQueue, IsQueued
    <3>2. m \in DOMAIN queued
      BY <1>0, <3>1
    <3>3. outbox[queued[m].id] = queued[m].ts
      BY <1>0, <2>1, <2>2, <2>3, <3>2 DEF OTypeOK
    <3>4. pc[f] = pc'[f]
      BY <2>2 DEF OTypeOK
    <3> QED
      BY <2>2, <2>3, <3>1, <3>2, <3>3, <3>4 DEF OutboxInv, ListedInOrder
  <2>9. HeldOrHanded'
    <3> SUFFICES ASSUME NEW n \in DOMAIN queued',
                        ~ \E m \in DOMAIN queued' : m > n /\ queued'[m].id = queued'[n].id
                 PROVE  outbox'[queued'[n].id] = queued'[n].ts \/ queued'[n] \in handed'
      BY DEF HeldOrHanded
    <3>1. CASE n \in DOMAIN queued
      <4>1. ~ \E m \in DOMAIN queued : m > n /\ queued[m].id = queued[n].id
        BY <2>3, <3>1
      <4>2. outbox[queued[n].id] = queued[n].ts \/ queued[n] \in handed
        BY <3>1, <4>1 DEF OutboxInv, HeldOrHanded
      <4>3. outbox'[queued[n].id] = outbox[queued[n].id]
        BY <1>0, <2>1, <2>2, <3>1 DEF OTypeOK
      <4> QED
        BY <2>2, <2>3, <3>1, <4>2, <4>3
    <3>2. CASE n = Len(queued) + 1
      BY <1>0, <2>1, <2>2, <2>3, <3>2 DEF OTypeOK
    <3> QED
      BY <2>3, <3>1, <3>2
  <2> QED
    BY <2>4, <2>5, <2>7, <2>8, <2>9 DEF OutboxInv
<1>5. ASSUME NEW f \in Flushers, ListOutbox(f) PROVE OutboxInv'
  <2> USE <1>5 DEF ListOutbox, OTypeOK
  <2>1. Unqueued' /\ QueuedOnce' /\ HeldOrHanded'
    BY DEF OutboxInv, Unqueued, QueuedOnce, HeldOrHanded
  <2>2. FromQueue'
    <3>1. \A g \in Flushers : pc'[g] = "delete" => g # f /\ todo'[g] = todo[g]
      OBVIOUS
    <3>2. \A g \in Flushers : pc'[g] = "delete" => todo'[g] # {} /\ Oldest(g)' \in handed'
      BY <3>1, OldestKept, ZenonT(60) DEF OutboxInv, FromQueue
    <3>3. \A w : IsQueued(w)' <=> IsQueued(w)
      BY DEF IsQueued
    <3>4. \A g \in Flushers : \A w \in todo'[g] : IsQueued(w)
      BY DEF OutboxInv, FromQueue
    <3> QED
      BY <3>2, <3>3, <3>4 DEF OutboxInv, FromQueue
  <2>3. ListedInOrder'
    <3> SUFFICES ASSUME NEW g \in Flushers, NEW n \in DOMAIN queued, NEW m \in 1..(n - 1),
                        pc'[g] \in {"send", "delete"}, queued[n] \in todo'[g],
                        outbox[queued[m].id] = queued[m].ts
                 PROVE  queued[m] \in todo'[g] \cup handed
      BY DEF ListedInOrder
    <3>1. queued[m] \in Published /\ m \in DOMAIN queued
      BY <1>0
    <3>2. CASE g = f
      <4>1. queued[m] = [id |-> queued[m].id, ts |-> outbox[queued[m].id]]
        BY <3>1 DEF Published
      <4>2. queued[m].id \in {i \in Ids : outbox[i] # 0}
        BY <1>0, <3>1
      <4> QED
        BY <3>2, <4>1, <4>2
    <3>3. CASE g # f
      BY <3>1, <3>3 DEF OutboxInv, ListedInOrder
    <3> QED
      BY <3>2, <3>3
  <2> QED
    BY <2>1, <2>2, <2>3 DEF OutboxInv
<1>6. ASSUME NEW f \in Flushers, Send(f) PROVE OutboxInv'
  <2> USE <1>6 DEF Send, OTypeOK
  <2>1. \A g \in Flushers : Oldest(g)' = Oldest(g)
    BY OldestKept
  <2>2. Unqueued' /\ QueuedOnce' /\ HeldOrHanded'
    BY DEF OutboxInv, Unqueued, QueuedOnce, HeldOrHanded
  <2>3. FromQueue'
    BY <2>1 DEF OutboxInv, FromQueue, IsQueued
  <2>4. ListedInOrder'
    BY DEF OutboxInv, ListedInOrder
  <2> QED
    BY <2>2, <2>3, <2>4 DEF OutboxInv
<1>7. ASSUME NEW f \in Flushers, DeleteEntry(f) PROVE OutboxInv'
  <2> DEFINE e == Oldest(f)
  <2>1. e \in handed /\ e \in todo[f] /\ e \in Published
    BY <1>7, OldestListed DEF DeleteEntry, OutboxInv, FromQueue, OTypeOK
  <2>2. /\ outbox' = [outbox EXCEPT ![e.id] = 0] /\ todo' = [todo EXCEPT ![f] = @ \ {e}]
        /\ pc' = [pc EXCEPT ![f] = "send"]
        /\ UNCHANGED <<clock, local, item, queued, handed>>
    BY <1>7 DEF DeleteEntry
  <2>3. IsQueued(e)
    BY <2>1 DEF OutboxInv, FromQueue
  <2> HIDE DEF e
  <2>4. \A n \in DOMAIN queued : queued[n].id = e.id => queued[n] = e
    BY <2>3 DEF OutboxInv, QueuedOnce, IsQueued
  <2>5. Unqueued' /\ QueuedOnce'
    BY <1>7, <2>2 DEF OutboxInv, Unqueued, QueuedOnce, OTypeOK, DeleteEntry
  <2>6. FromQueue'
    <3>1. \A g \in Flushers : pc'[g] = "delete" => g # f /\ pc[g] = "delete" /\ todo'[g] = todo[g]
      BY <2>2 DEF OTypeOK
    <3>2. \A g \in Flushers : pc'[g] = "delete" => todo'[g] # {} /\ Oldest(g)' \in handed'
      BY <2>2, <3>1, OldestKept DEF OutboxInv, FromQueue
    <3>3. \A g \in Flushers : todo'[g] \subseteq todo[g]
      BY <2>2 DEF OTypeOK
    <3>4. \A id \in Ids : outbox'[id] # 0 => outbox'[id] = outbox[id]
      BY <2>1, <2>2 DEF OTypeOK
    <3>5. \A w : IsQueued(w)' <=> IsQueued(w)
      BY <2>2 DEF IsQueued
    <3> QED
      BY <3>2, <3>3, <3>4, <3>5 DEF OutboxInv, FromQueue
  <2>7. ListedInOrder'
    <3> SUFFICES ASSUME NEW g \in Flushers, NEW n \in DOMAIN queued, NEW m \in 1..(n - 1),
                        pc'[g] \in {"send", "delete"}, queued[n] \in todo'[g],
                        outbox'[queued[m].id] = queued[m].ts
                 PROVE  queued[m] \in todo'[g] \cup handed
      BY <2>2 DEF ListedInOrder
    <3>1. m \in DOMAIN queued
      BY <1>0
    <3>2. outbox[queued[m].id] = queued[m].ts
      BY <1>0, <2>1, <2>2, <3>1 DEF OTypeOK
    <3>3. pc[g] \in {"send", "delete"} /\ queued[n] \in todo[g]
      BY <1>7, <2>2 DEF DeleteEntry, OTypeOK
    <3>4. queued[m] \in todo[g] \cup handed
      BY <3>1, <3>2, <3>3 DEF OutboxInv, ListedInOrder
    <3> QED
      BY <2>1, <2>2, <3>4 DEF OTypeOK
  <2>8. HeldOrHanded'
    BY <1>0, <2>1, <2>2, <2>4 DEF OutboxInv, HeldOrHanded, OTypeOK
  <2> QED
    BY <2>5, <2>6, <2>7, <2>8 DEF OutboxInv
<1>8. ASSUME NEW f \in Flushers, EndFlush(f) PROVE OutboxInv'
  <2> USE <1>8 DEF EndFlush, OTypeOK
  <2>1. \A g \in Flushers : pc'[g] = "delete" => g # f /\ todo'[g] = todo[g]
    OBVIOUS
  <2>2. Unqueued' /\ QueuedOnce' /\ HeldOrHanded'
    BY DEF OutboxInv, Unqueued, QueuedOnce, HeldOrHanded
  <2>3. FromQueue'
    BY <2>1, OldestKept DEF OutboxInv, FromQueue, IsQueued
  <2>4. ListedInOrder'
    BY DEF OutboxInv, ListedInOrder
  <2> QED
    BY <2>2, <2>3, <2>4 DEF OutboxInv
<1>9. ASSUME Dial \/ Open \/ Refuse \/ Resume \/ Drop \/ CloseEvent PROVE OutboxInv'
  <2>1. UNCHANGED <<clock, local, outbox, item, todo, queued, handed>>
    BY <1>9 DEF Dial, Open, Refuse, Resume, Drop, CloseEvent
  <2>2. \A f \in Flushers :
          \/ pc'[f] = pc[f]
          \/ pc[f] \in {"idle", "dial", "resume"} /\ pc'[f] \in {"idle", "dial", "resume", "list"}
    BY <1>9 DEF Dial, Open, Refuse, Resume, Drop, CloseEvent, OTypeOK
  <2>3. \A f \in Flushers : Oldest(f)' = Oldest(f)
    BY <2>1, OldestKept
  <2>4. Unqueued'
    BY <2>1, <2>2 DEF OutboxInv, Unqueued
  <2>5. QueuedOnce' /\ HeldOrHanded'
    BY <2>1 DEF OutboxInv, QueuedOnce, HeldOrHanded
  <2>6. FromQueue'
    BY <2>1, <2>2, <2>3 DEF OutboxInv, FromQueue, IsQueued
  <2>7. ListedInOrder'
    BY <2>1, <2>2 DEF OutboxInv, ListedInOrder
  <2> QED
    BY <2>4, <2>5, <2>6, <2>7 DEF OutboxInv
<1>10. CASE Crash
  <2> USE <1>10 DEF Crash
  <2>1. Unqueued' /\ QueuedOnce' /\ HeldOrHanded'
    BY DEF OutboxInv, Unqueued, QueuedOnce, HeldOrHanded
  <2>2. FromQueue' /\ ListedInOrder'
    BY DEF OutboxInv, FromQueue, IsQueued, ListedInOrder
  <2> QED
    BY <2>1, <2>2 DEF OutboxInv
<1> QED
  BY <1>1, <1>2, <1>3, <1>4, <1>5, <1>6, <1>7, <1>8, <1>9, <1>10
  DEF ONext, PublishStep, FlushStep

-----------------------------------------------------------------------------
\* Whatever else a private publisher does, the outbox, its flushes and the
\* socket take only the steps ClientOutbox allows (client.js:118-160).
LEMMA OutboxStepTaken ==
    ASSUME OTypeOK, [SONext]_svars
    PROVE  [ONext]_vars
<1>1. CASE UNCHANGED svars
  BY <1>1 DEF svars
<1>2. ASSUME NEW m \in People, AddMember(m) \/ RemoveMember(m) PROVE [ONext]_vars
  BY <1>2 DEF AddMember, RemoveMember, Changed
<1>3. ASSUME NEW p \in Publishers, ListMembers(p) \/ ReadMember(p) PROVE [ONext]_vars
  BY <1>3 DEF ListMembers, ReadMember
<1>4. ASSUME NEW p \in Publishers, CallPublish(p) PROVE [ONext]_vars
  <2>1. PICK isPublic, optOut \in BOOLEAN :
            \/ Throws(p, isPublic, optOut)
            \/ PublishPersistent(p, isPublic, optOut)
            \/ PublishLive(p, isPublic, optOut)
    BY <1>4 DEF CallPublish
  <2>2. CASE PublishPersistent(p, isPublic, optOut)
    <3>1. Publish(p, Minted[clock + 1]) /\ clock < MaxPublish
      BY <2>2 DEF PublishPersistent, Publish
    <3>2. Minted[clock + 1] \in Ids
      BY <3>1, SealedAssumption, OutboxAssumption DEF OTypeOK
    <3> QED
      BY <3>1, <3>2 DEF ONext
  <2>3. CASE Throws(p, isPublic, optOut) \/ PublishLive(p, isPublic, optOut)
    BY <2>3 DEF Throws, PublishLive
  <2> QED
    BY <2>1, <2>2, <2>3
<1>5. CASE SendLive
  BY <1>5 DEF SendLive
<1>6. CASE SOCrash
  BY <1>6 DEF SOCrash, ONext
<1>7. CASE OutboxStep
  BY <1>7 DEF OutboxStep, ONext
<1> QED
  BY <1>1, <1>2, <1>3, <1>4, <1>5, <1>6, <1>7 DEF SONext

\* Type correctness of publish(), flushOutbox(), connect() and the outbox.
THEOREM OutboxTypeCorrect == SOSpec => []OTypeOK
<1>1. SOInit => OTypeOK
  <2> SUFFICES ASSUME OInit PROVE OTypeOK
    BY DEF SOInit
  <2>1. clock \in 0..MaxPublish /\ 0 \in 0..clock /\ drops \in 0..MaxDrops /\ closes \in 0..drops
    BY OutboxAssumption DEF OInit
  <2>2. /\ local \in [Ids -> 0..clock] /\ outbox \in [Ids -> 0..clock]
        /\ item \in [Publishers -> Published \cup {NoWrite}]
    BY <2>1 DEF OInit
  <2>3. queued \in Seq(Published) /\ handed \subseteq Published
    BY DEF OInit
  <2>4. \A p \in Publishers : pc[p] = "idle"
    BY DEF OInit, Flushers
  <2>5. todo \in [Flushers -> SUBSET Published]
    BY DEF OInit
  <2> QED
    BY <2>1, <2>2, <2>3, <2>4, <2>5 DEF OInit, OTypeOK
<1>2. OTypeOK /\ [SONext]_svars => OTypeOK'
  BY OutboxStepTaken, OutboxTypeStep
<1> QED
  BY <1>1, <1>2, PTL DEF SOSpec

\* SealedOutbox implements ClientOutbox: with drafts, members and documents
\* hidden, its behaviours are those of publish() and the flushes.
THEOREM OutboxImplemented == SOSpec => OInit /\ [][ONext]_vars
<1>1. SOInit => OInit
  BY DEF SOInit
<1>2. OTypeOK /\ [SONext]_svars => [ONext]_vars
  BY OutboxStepTaken
<1> QED
  BY <1>1, <1>2, OutboxTypeCorrect, PTL DEF SOSpec

LEMMA OutboxInvHolds ==
    ASSUME ~Republish
    PROVE  SOSpec => [](OTypeOK /\ OutboxInv)
<1>1. OInit => OutboxInv
  BY DEF OInit, OutboxInv, Unqueued, QueuedOnce, FromQueue, IsQueued, ListedInOrder,
         HeldOrHanded, Flushers
<1>2. OTypeOK /\ OTypeOK' /\ OutboxInv /\ [ONext]_vars => OutboxInv'
  BY OutboxInvStep
<1> QED
  BY <1>1, <1>2, OutboxTypeCorrect, OutboxImplemented, PTL

\* A persistent write that was queued stays in the outbox until the transport
\* has accepted it, over any number of publish() calls, flushes, drops, stale
\* close events and restarts, as long as no id is published again
\* (client.js:4-5).
THEOREM HeldOrHandedCorrect ==
    ASSUME ~Republish
    PROVE  SOSpec => []HeldOrHanded
<1>1. OutboxInv => HeldOrHanded
  BY DEF OutboxInv
<1> QED
  BY <1>1, OutboxInvHolds, PTL

\* No flush hands over a write while one that was queued and published before
\* it still waits, however many flushes run at once (client.js:239).
THEOREM InOrderCorrect ==
    ASSUME ~Republish
    PROVE  SOSpec => InOrder
<1> DEFINE Step ==
      \A n \in DOMAIN queued : \A m \in 1..(n - 1) :
          /\ queued[n] \in handed' \ handed
          /\ queued[m].ts < queued[n].ts
          /\ outbox[queued[m].id] = queued[m].ts
          => queued[m] \in handed
<1>1. OTypeOK /\ OutboxInv /\ [ONext]_vars => [Step]_vars
  <2> SUFFICES ASSUME OTypeOK, OutboxInv, ONext,
                      NEW n \in DOMAIN queued, NEW m \in 1..(n - 1),
                      queued[n] \in handed' \ handed,
                      queued[m].ts < queued[n].ts,
                      outbox[queued[m].id] = queued[m].ts
               PROVE  queued[m] \in handed
    OBVIOUS
  <2>1. PICK f \in Flushers : Send(f)
    <3>1. handed' # handed
      OBVIOUS
    <3> QED
      BY <3>1 DEF ONext, PublishStep, Publish, StoreDoc, Enqueue, FlushStep, ListOutbox,
                  DeleteEntry, EndFlush, Dial, Open, Refuse, Resume, Drop, CloseEvent, Crash
  <2>2. queued[n] = Oldest(f)
    BY <2>1 DEF Send
  <2>3. Oldest(f) \in todo[f] /\ \A w \in todo[f] : Oldest(f).ts <= w.ts
    BY <2>1, OldestListed DEF Send
  <2>4. queued[m] \in todo[f] \cup handed
    BY <2>1, <2>2, <2>3 DEF OutboxInv, ListedInOrder, Send
  <2>5. queued[m].ts \in Nat /\ queued[n].ts \in Nat
    <3>1. queued \in Seq(Published) /\ clock \in Nat
      BY OutboxAssumption DEF OTypeOK
    <3>2. n \in 1..Len(queued) /\ m \in 1..Len(queued)
      BY <3>1
    <3>3. queued[m] \in Published /\ queued[n] \in Published
      BY <3>1, <3>2
    <3> QED
      BY <3>1, <3>3 DEF Published
  <2> QED
    BY <2>2, <2>3, <2>4, <2>5
<1> QED
  BY <1>1, OutboxInvHolds, OutboxImplemented, PTL DEF InOrder

-----------------------------------------------------------------------------
\* What publish() makes of a document whose listing is over and which passes
\* the guard can be read by those who should, and by no one else.
LEMMA DocumentSealed ==
    ASSUME NEW text \in Nat \ {Undecryptable}, NEW isPublic \in BOOLEAN, NEW optOut \in BOOLEAN,
           NEW l \in Listings, l.todo = {},
           l.found \subseteq l.start, l.stayed \subseteq l.found,
           assertEncryptionGuard(isPublic, l.found # {}, optOut)
    PROVE  Sealed(Document(text, isPublic, optOut, l))
<1> DEFINE d == Document(text, isPublic, optOut, l)
<1>1. /\ d.public = isPublic /\ d.optOut = optOut /\ d.start = l.start /\ d.stayed = l.stayed
      /\ d.payload = encryptPayload(text, Me, l.found)
      /\ d.fields = IF l.found = {} THEN text ELSE Undecryptable
  BY DEF Document
<1>2. SUFFICES ASSUME ~isPublic, ~optOut, NEW q \in People
               PROVE  Reads(d, q) <=> q \in l.found
  BY <1>1 DEF Sealed, Listings
<1>3. l.found # {} /\ d.fields = Undecryptable
  BY <1>1, <1>2 DEF assertEncryptionGuard
<1>4. decryptPayload(d.payload, q) = IF q \in l.found THEN text ELSE Undecryptable
  BY <1>1 DEF decryptPayload, encryptPayload, encryptForRecipients, decryptFromSender,
              Unlocked, Locked, wrapKey
<1> QED
  BY <1>3, <1>4 DEF Reads

\* Every step keeps the inductive invariant of SealedForMembers.
LEMMA SealedInvStep ==
    ASSUME OTypeOK, SealedInv, [SONext]_svars
    PROVE  SealedInv'
<1> USE SealedAssumption, OutboxAssumption
<1>0. clock \in Nat /\ MaxPublish \in Nat
  BY DEF OTypeOK
<1>d. ASSUME NEW text, text \in Nat \ {Undecryptable}, NEW p \in Publishers,
             NEW isPublic \in BOOLEAN, NEW optOut \in BOOLEAN,
             Admitted(p, isPublic, optOut)
      PROVE  /\ Document(text, isPublic, optOut, draft[p]) \in Documents
             /\ Sealed(Document(text, isPublic, optOut, draft[p]))
  <2>1. /\ draft[p] \in Listings /\ draft[p].todo = {}
        /\ draft[p].found \subseteq draft[p].start
        /\ draft[p].stayed \subseteq draft[p].found
        /\ assertEncryptionGuard(isPublic, draft[p].found # {}, optOut)
    BY <1>d DEF Admitted, SealedInv, DraftsOK
  <2> QED
    BY <1>d, <2>1, DocumentSealed DEF Documents
<1>n. NoListing \in Listings /\ NoListing.todo = {} /\ NoListing.found = {} /\ NoListing.stayed = {}
  BY DEF NoListing, Listing, Listings
<1>c. ASSUME NEW p \in Publishers, UNCHANGED members, draft' = [draft EXCEPT ![p] = NoListing]
      PROVE  DraftsOK'
  BY <1>c, <1>n DEF SealedInv, DraftsOK
<1>1. CASE UNCHANGED svars
  BY <1>1 DEF svars, vars, sealVars, groupVars, liveVars, SealedInv, DraftsOK
<1>2. ASSUME NEW m \in People, AddMember(m) \/ RemoveMember(m) PROVE SealedInv'
  <2>1. PICK ms \in SUBSET People : Changed(ms) /\ members' = ms
    BY <1>2 DEF AddMember, RemoveMember, Changed, SealedInv, DraftsOK
  <2>2. DraftsOK'
    BY <2>1, ZenonT(60) DEF Changed, SealedInv, DraftsOK, Listings
  <2> QED
    BY <2>1, <2>2 DEF Changed, vars, liveVars, SealedInv
<1>3. ASSUME NEW p \in Publishers, ListMembers(p) PROVE SealedInv'
  <2>1. DraftsOK'
    BY <1>3 DEF ListMembers, Listing, groupVars, SealedInv, DraftsOK, Listings
  <2> QED
    BY <1>3, <2>1 DEF ListMembers, vars, liveVars, SealedInv
<1>4. ASSUME NEW p \in Publishers, ReadMember(p) PROVE SealedInv'
  <2>1. PICK m \in draft[p].todo :
          draft' = [draft EXCEPT ![p].todo = @ \ {m}, ![p].found = @ \cup ({m} \cap members)]
    BY <1>4 DEF ReadMember
  <2> DEFINE l == [draft[p] EXCEPT !.todo = @ \ {m}, !.found = @ \cup ({m} \cap members)]
  <2>2. draft' = [draft EXCEPT ![p] = l] /\ members' = members
    BY <1>4, <2>1 DEF ReadMember, groupVars
  <2>3. /\ draft[p] \in Listings
        /\ draft[p].todo \cup draft[p].found \subseteq draft[p].start
        /\ draft[p].stayed \subseteq members \cap (draft[p].found \cup draft[p].todo)
    BY DEF SealedInv, DraftsOK
  <2>4. /\ l.on = draft[p].on /\ l.start = draft[p].start /\ l.stayed = draft[p].stayed
        /\ l.todo = draft[p].todo \ {m}
        /\ l.found = draft[p].found \cup ({m} \cap members)
    BY <2>3 DEF Listings
  <2>5. l \in Listings
    BY <2>3, <2>1 DEF Listings, SealedInv, DraftsOK
  <2>6. /\ l.todo \cup l.found \subseteq l.start
        /\ l.stayed \subseteq members \cap (l.found \cup l.todo)
    BY <2>1, <2>3, <2>4
  <2> HIDE DEF l
  <2>7. DraftsOK'
    BY <2>2, <2>5, <2>6 DEF SealedInv, DraftsOK
  <2> QED
    BY <1>4, <2>7 DEF ReadMember, vars, liveVars, SealedInv
<1>5. ASSUME NEW p \in Publishers, CallPublish(p) PROVE SealedInv'
  <2>1. PICK isPublic \in BOOLEAN, optOut \in BOOLEAN :
            \/ Throws(p, isPublic, optOut)
            \/ PublishPersistent(p, isPublic, optOut)
            \/ PublishLive(p, isPublic, optOut)
    BY <1>5 DEF CallPublish
  <2>2. CASE Throws(p, isPublic, optOut)
    BY <2>2, <1>c DEF Throws, vars, groupVars, liveVars, SealedInv
  <2>3. CASE PublishPersistent(p, isPublic, optOut)
    <3> DEFINE d == Document(clock + 1, isPublic, optOut, draft[p])
    <3>1. /\ clock' = clock + 1 /\ docs' = Append(docs, d) /\ Admitted(p, isPublic, optOut)
          /\ UNCHANGED <<members, live, lives, aired>> /\ draft' = [draft EXCEPT ![p] = NoListing]
      BY <2>3 DEF PublishPersistent, Publish, groupVars, liveVars
    <3>2. clock + 1 \in Nat \ {Undecryptable}
      BY <1>0 DEF Undecryptable
    <3>4. d \in Documents /\ Sealed(d)
      BY <1>d, <3>1, <3>2
    <3> HIDE DEF d
    <3>3. /\ docs' \in Seq(Documents) /\ Len(docs') = clock'
          /\ \A n \in DOMAIN docs' : Sealed(docs'[n])
      BY <1>0, <3>1, <3>4 DEF SealedInv
    <3> QED
      BY <1>c, <3>1, <3>3 DEF SealedInv
  <2>4. CASE PublishLive(p, isPublic, optOut)
    <3> DEFINE d == Document(MaxPublish + lives', isPublic, optOut, draft[p])
    <3>1. /\ lives' = lives + 1 /\ live' = live \cup {d} /\ Admitted(p, isPublic, optOut)
          /\ UNCHANGED <<clock, members, docs, aired>> /\ draft' = [draft EXCEPT ![p] = NoListing]
      BY <2>4 DEF PublishLive, vars, groupVars
    <3>2. MaxPublish + lives' \in Nat \ {Undecryptable}
      BY <1>0, <3>1 DEF SealedInv, Undecryptable
    <3>3. Sealed(d)
      BY <1>d, <3>1, <3>2
    <3> HIDE DEF d
    <3>4. DraftsOK'
      BY <1>c, <3>1
    <3>5. \A e \in live' \cup aired' : Sealed(e)
      BY <3>1, <3>3 DEF SealedInv
    <3>6. lives' \in Nat
      BY <3>1 DEF SealedInv
    <3> QED
      BY <3>1, <3>4, <3>5, <3>6 DEF SealedInv
  <2> QED
    BY <2>1, <2>2, <2>3, <2>4
<1>6. CASE SendLive
  BY <1>6 DEF SendLive, vars, groupVars, SealedInv, DraftsOK
<1>7. CASE SOCrash
  BY <1>7, <1>n DEF SOCrash, Crash, groupVars, SealedInv, DraftsOK
<1>8. CASE OutboxStep
  <2>1. clock' = clock
    BY <1>8 DEF OutboxStep, PublishStep, StoreDoc, Enqueue, FlushStep, ListOutbox, Send,
                DeleteEntry, EndFlush, Dial, Open, Refuse, Resume, Drop, CloseEvent
  <2> QED
    BY <1>8, <2>1 DEF OutboxStep, sealVars, groupVars, liveVars, SealedInv, DraftsOK
<1> QED
  BY <1>1, <1>2, <1>3, <1>4, <1>5, <1>6, <1>7, <1>8 DEF SONext

\* What leaves the device and is neither public nor opted out can be opened by
\* everyone who was a member throughout the listing it was published with, and
\* by no one who was not when that began, for any group and any changes to it
\* (guard.js, membership.js:46-53, client.js:118-139).
THEOREM SealedForMembersCorrect == SOSpec => []SealedForMembers
<1>1. SOInit => SealedInv
  <2> SUFFICES ASSUME SOInit PROVE SealedInv
    OBVIOUS
  <2>1. docs \in Seq(Documents) /\ Len(docs) = clock /\ DOMAIN docs = {}
    BY DEF SOInit, OInit
  <2>2. DraftsOK
    BY SealedAssumption DEF SOInit, DraftsOK, NoListing, Listing, Listings
  <2> QED
    BY <2>1, <2>2 DEF SOInit, SealedInv
<1>2. OTypeOK /\ SealedInv /\ [SONext]_svars => SealedInv'
  BY SealedInvStep
<1>3. OTypeOK /\ SealedInv => SealedForMembers
  <2> SUFFICES ASSUME OTypeOK, SealedInv, NEW d \in Left PROVE Sealed(d)
    BY DEF SealedForMembers, Sealed
  <2>1. ASSUME NEW w \in handed PROVE Sealed(docs[w.ts])
    BY <2>1 DEF SealedInv, OTypeOK, Published
  <2> QED
    BY <2>1 DEF Left, SealedInv
<1> QED
  BY <1>1, <1>2, <1>3, OutboxTypeCorrect, PTL DEF SOSpec
=============================================================================
