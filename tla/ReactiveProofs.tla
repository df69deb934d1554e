-------------------------- MODULE ReactiveProofs --------------------------
(* Theorems about Reactive, for any number of watchers, callers and ids. *)
EXTENDS Reactive, ApStoreProofs

LEMMA StoreStepped == ASSUME [RNext]_vars PROVE [Next]_storeVars
<1>1. CASE UNCHANGED vars
  BY <1>1 DEF vars
<1>2. ASSUME NEW p \in Callers, Request(p) PROVE Next
  BY <1>2 DEF Request, Next
<1>3. ASSUME NEW p \in Callers, StoreStep(p) PROVE Next
  BY <1>3 DEF StoreStep, QuietStep, Emit, Next, CallStep
<1>4. ASSUME NEW w \in Watchers, Watch(w) \/ Dispose(w) \/ ReadStep(w)
      PROVE  UNCHANGED storeVars
  BY <1>4 DEF Watch, Dispose, ReadStep, ListChildren, GetDoc, Deliver
<1> QED
  BY <1>1, <1>2, <1>3, <1>4 DEF RNext

\* What watchers do leaves the store alone, and what they see of it are the
\* steps of ApStore's calls, none of them cut short (watch.js never writes).
THEOREM StoreUsed == RSpec => Spec
<1>1. RInit => Init
  BY DEF RInit
<1>2. [RNext]_vars => [Next]_storeVars
  BY StoreStepped
<1> QED
  BY <1>1, <1>2, PTL DEF RSpec, Spec

-----------------------------------------------------------------------------
\* Whatever the store does, of the watchers it only re-reads: versions grow,
\* and a watcher is notified, or its closure is left alone.
LEMMA WatchersNotified ==
    ASSUME RTypeOK, TypeOK', NEW p \in Callers, Request(p) \/ StoreStep(p)
    PROVE  /\ ver' \in [Ids -> Nat]
           /\ \A id \in Ids : ver[id] <= ver'[id]
           /\ state' = state /\ shown' = shown
           /\ gen' \in [Watchers -> Nat]
           /\ \A w \in Watchers :
                \/ gen'[w] = gen[w] /\ reads'[w] = reads[w]
                \/ gen'[w] = gen[w] + 1 /\ reads'[w] = reads[w] \cup {NewRead(w)}
           /\ DOMAIN reads' = Watchers
<1>1. CASE Request(p)
  BY <1>1 DEF Request, watchVars, RTypeOK
<1>2. CASE QuietStep(p)
  BY <1>2 DEF QuietStep, watchVars, RTypeOK
<1>3. ASSUME Emit(p), UNCHANGED ver
      PROVE  /\ ver' = ver /\ state' = state /\ shown' = shown
             /\ \E N \in SUBSET Watchers :
                  /\ gen' = [w \in Watchers |-> IF w \in N THEN gen[w] + 1 ELSE gen[w]]
                  /\ reads' = [w \in Watchers |->
                                 IF w \in N THEN reads[w] \cup {NewRead(w)} ELSE reads[w]]
  BY <1>3 DEF Emit, Notify, Notified
<1>4. ASSUME Emit(p), UNCHANGED ver
      PROVE  /\ gen' \in [Watchers -> Nat]
             /\ \A w \in Watchers :
                  \/ gen'[w] = gen[w] /\ reads'[w] = reads[w]
                  \/ gen'[w] = gen[w] + 1 /\ reads'[w] = reads[w] \cup {NewRead(w)}
             /\ DOMAIN reads' = Watchers
  BY <1>3, <1>4 DEF RTypeOK
<1>5. ver \in [Ids -> Nat]
  BY DEF RTypeOK
<1> QED
  BY <1>1, <1>2, <1>3, <1>4, <1>5 DEF StoreStep

LEMMA NewReadTyped ==
    ASSUME RTypeOK, NEW w \in Watchers
    PROVE  NewRead(w) \in Read /\ gen[w] \in Nat
BY DEF RTypeOK, NewRead, Read

\* A re-read whose index entries have been listed.
LEMMA ListedFields ==
    ASSUME NEW r \in Read, NEW S \in SUBSET Ids, NEW q,
           q = [r EXCEPT !.listed = TRUE, !.todo = S]
    PROVE  q \in Read /\ q.gen = r.gen /\ q.listed /\ q.todo = S /\ q.got = r.got
<1>1. r = [gen |-> r.gen, listed |-> r.listed, todo |-> r.todo, got |-> r.got]
  BY DEF Read
<1> QED
  BY <1>1 DEF Read

\* A re-read that got a document.
LEMMA GotFields ==
    ASSUME NEW r \in Read, NEW S \in SUBSET Ids, NEW G \in SUBSET (Ids \X Nat), NEW q,
           q = [r EXCEPT !.todo = S, !.got = G]
    PROVE  q \in Read
<1>1. r = [gen |-> r.gen, listed |-> r.listed, todo |-> r.todo, got |-> r.got]
  BY DEF Read
<1> QED
  BY <1>1 DEF Read

LEMMA MembersAreIds == ASSUME NEW c PROVE Members(c) \subseteq Ids
BY DEF Members

\* Every step of the store and of the re-reads keeps the variables in their
\* types: what callbacks are given are documents, each with a version it had
\* (watch.js:32-41, 74-83).
THEOREM ReactiveTypeCorrect == RSpec => []RTypeOK
<1>1. RInit /\ TypeOK => RTypeOK
  BY DEF RInit, RTypeOK
<1>2. RTypeOK /\ TypeOK' /\ [RNext]_vars => RTypeOK'
  <2> SUFFICES ASSUME RTypeOK, TypeOK', [RNext]_vars PROVE RTypeOK'
    OBVIOUS
  <2>1. CASE UNCHANGED vars
    BY <2>1 DEF RTypeOK, vars, watchVars
  <2>2. ASSUME NEW p \in Callers, Request(p) \/ StoreStep(p) PROVE RTypeOK'
    <3>1. reads' \in [Watchers -> SUBSET Read]
      <4>1. \A w \in Watchers : reads'[w] \subseteq Read
        BY <2>2, WatchersNotified, NewReadTyped DEF RTypeOK
      <4>2. CASE UNCHANGED reads
        BY <4>2 DEF RTypeOK
      <4>3. CASE \E N : reads' = [w \in Watchers |->
                                   IF w \in N THEN reads[w] \cup {NewRead(w)} ELSE reads[w]]
        BY <4>1, <4>3
      <4> QED
        BY <2>2, <4>2, <4>3 DEF Request, StoreStep, QuietStep, Emit, Notify, watchVars
    <3> QED
      BY <2>2, <3>1, WatchersNotified DEF RTypeOK
  <2>3. ASSUME NEW w \in Watchers, Watch(w) PROVE RTypeOK'
    BY <2>3, NewReadTyped DEF Watch, RTypeOK
  <2>4. ASSUME NEW w \in Watchers, Dispose(w) PROVE RTypeOK'
    BY <2>4 DEF Dispose, RTypeOK
  <2>5. ASSUME NEW w \in Watchers, NEW r \in reads[w], ListChildren(w, r) PROVE RTypeOK'
    <3>1. r \in Read /\ Members(Target[w]) \in SUBSET Ids
      BY MembersAreIds DEF RTypeOK
    <3>2. [r EXCEPT !.listed = TRUE, !.todo = Members(Target[w])] \in Read
      BY <3>1, ListedFields
    <3> QED
      BY <2>5, <3>2 DEF ListChildren, RTypeOK
  <2>6. ASSUME NEW w \in Watchers, NEW r \in reads[w], GetDoc(w, r) PROVE RTypeOK'
    <3>1. r \in Read
      BY DEF RTypeOK
    <3>2. PICK id \in r.todo :
        reads' = [reads EXCEPT ![w] = (@ \ {r}) \cup
          {[r EXCEPT !.todo = @ \ {id},
                     !.got = IF obj[id] = None THEN @ ELSE @ \cup {<<id, ver[id]>>}]}]
      BY <2>6 DEF GetDoc
    <3>3. id \in Ids /\ ver[id] \in Nat
      BY <3>1 DEF Read, RTypeOK
    <3> DEFINE S == r.todo \ {id}
               G == IF obj[id] = None THEN r.got ELSE r.got \cup {<<id, ver[id]>>}
               q == [r EXCEPT !.todo = S, !.got = G]
    <3>4. S \in SUBSET Ids /\ G \in SUBSET (Ids \X Nat)
      BY <3>1, <3>3 DEF Read
    <3>5. reads' = [reads EXCEPT ![w] = (@ \ {r}) \cup {q}]
      BY <3>2
    <3> HIDE DEF S, G
    <3>6. q = [r EXCEPT !.todo = S, !.got = G]
      OBVIOUS
    <3> HIDE DEF q
    <3>7. q \in Read
      BY <3>1, <3>4, <3>6, GotFields
    <3> QED
      BY <2>6, <3>5, <3>7 DEF GetDoc, RTypeOK
  <2>7. ASSUME NEW w \in Watchers, NEW r \in reads[w], Deliver(w, r) PROVE RTypeOK'
    BY <2>7 DEF Deliver, RTypeOK, Read
  <2> QED
    BY <2>1, <2>2, <2>3, <2>4, <2>5, <2>6, <2>7 DEF RNext, ReadStep
<1> QED
  BY <1>1, <1>2, StoreUsed, TypeCorrect, PTL DEF RSpec

-----------------------------------------------------------------------------
\* An id is recorded and indexed only where some put of it may place it.
LEMMA PlacedKept ==
    ASSUME TypeOK, Placed, [Next]_storeVars
    PROVE  Placed'
<1> USE StoreAssumption
<1>1. CASE UNCHANGED storeVars
  BY <1>1 DEF storeVars, Placed
<1>2. ASSUME NEW p \in Callers, Put(p) PROVE Placed'
  <2>1. PICK id \in MayPut[p], doc \in Docs, ts \in Times :
          \E cs \in Placements[id] : PutBegin(p, id, doc, cs, ts)
    BY <1>2 DEF Put
  <2>2. PICK cs \in Placements[id] : PutBegin(p, id, doc, cs, ts)
    BY <2>1
  <2> QED
    BY <2>2 DEF PutBegin, Placed, TypeOK, PutPc
<1>3. ASSUME NEW p \in Callers, Delete(p) PROVE Placed'
  BY <1>3 DEF Delete, DeleteBegin, Placed, TypeOK, PutPc
<1>4. ASSUME NEW p \in Callers, PutRead(p) PROVE Placed'
  BY <1>4 DEF PutRead, Placed, TypeOK, PutPc
<1>5. ASSUME NEW p \in Callers, PutUnindex(p) PROVE Placed'
  BY <1>5 DEF PutUnindex, Placed, TypeOK, PutPc
<1>6. ASSUME NEW p \in Callers, PutWrite(p) PROVE Placed'
  BY <1>6 DEF PutWrite, Placed, TypeOK, PutPc, PutCall
<1>7. ASSUME NEW p \in Callers, PutIndex(p) PROVE Placed'
  <2>1. PICK c \in todo[p] : idx' = idx \cup {indexKey(c, call[p].ts, call[p].id)}
    BY <1>7 DEF PutIndex
  <2>2. \E cs \in Placements[call[p].id] : c \in cs
    BY <1>7 DEF PutIndex, Placed, TypeOK, PutPc
  <2>3. \A e \in idx' : \E cs \in Placements[e[3]] : e[1] \in cs
    BY <2>1, <2>2 DEF Placed, indexKey
  <2> QED
    BY <1>7, <2>3 DEF PutIndex, Placed
<1>8. ASSUME NEW p \in Callers, PutEmit(p) \/ DeleteEmit(p) \/ Abort(p) PROVE Placed'
  BY <1>8 DEF PutEmit, DeleteEmit, Abort, Return, Placed, TypeOK, PutPc
<1>9. ASSUME NEW p \in Callers, DeleteRead(p) PROVE Placed'
  BY <1>9 DEF DeleteRead, Return, Placed, TypeOK, PutPc, DeletePc, DeleteCall
<1>10. ASSUME NEW p \in Callers, DeleteObject(p) PROVE Placed'
  BY <1>10 DEF DeleteObject, Placed, TypeOK, PutPc
<1>11. ASSUME NEW p \in Callers, DeleteUnindex(p) PROVE Placed'
  BY <1>11 DEF DeleteUnindex, Placed, TypeOK, PutPc
<1> QED
  BY <1>1, <1>2, <1>3, <1>4, <1>5, <1>6, <1>7, <1>8, <1>9, <1>10, <1>11 DEF Next, CallStep

\* What a step may do of a watcher: leave it, begin a re-read, take one a read
\* further, or end one.
Left(w) == gen'[w] = gen[w] /\ reads'[w] = reads[w] /\ shown'[w] = shown[w]

Renewed(w) ==
    /\ gen'[w] = gen[w] + 1 /\ reads'[w] = reads[w] \cup {NewRead(w)}
    /\ shown'[w] = shown[w]

ReadListed(w, r, q) ==
    /\ ~r.listed /\ q.listed /\ q.gen = r.gen
    /\ q.got = {} /\ q.todo = Members(Target[w])

ReadGot(r, q, id) ==
    /\ r.listed /\ q.listed /\ q.gen = r.gen
    /\ id \in r.todo /\ q.todo = r.todo \ {id}
    /\ q.got = IF obj[id] = None THEN r.got ELSE r.got \cup {<<id, ver[id]>>}

Further(w, r, q) ==
    /\ gen'[w] = gen[w] /\ shown'[w] = shown[w]
    /\ q \in Read /\ reads'[w] = (reads[w] \ {r}) \cup {q}
    /\ ReadListed(w, r, q) \/ \E id \in r.todo : ReadGot(r, q, id)

Ended(w, r) ==
    /\ gen'[w] = gen[w] /\ r.listed /\ r.todo = {} /\ reads'[w] = reads[w] \ {r}
    /\ shown'[w] = IF Superseded(w, r) THEN shown[w] ELSE r.got

LEMMA ReadStepEffect ==
    ASSUME RTypeOK, ReadsOK, NEW w \in Watchers, ReadStep(w)
    PROVE  /\ UNCHANGED <<storeVars, ver, state>>
           /\ \A v \in Watchers \ {w} : Left(v)
           /\ \E r \in reads[w] : Ended(w, r) \/ \E q \in Read : Further(w, r, q)
<1>1. PICK r \in reads[w] : ListChildren(w, r) \/ GetDoc(w, r) \/ Deliver(w, r)
  BY DEF ReadStep
<1>2. r \in Read /\ reads \in [Watchers -> SUBSET Read]
  BY DEF RTypeOK
<1>3. CASE ListChildren(w, r)
  <2> DEFINE S == Members(Target[w])
             q == [r EXCEPT !.listed = TRUE, !.todo = S]
  <2>1. S \in SUBSET Ids /\ {} \in SUBSET (Ids \X Nat)
    BY MembersAreIds
  <2>a. /\ reads' = [reads EXCEPT ![w] = (@ \ {r}) \cup {q}]
        /\ UNCHANGED <<storeVars, ver, state, gen, shown>>
    BY <1>3 DEF ListChildren
  <2>b. ~r.listed /\ r.got = {}
    BY <1>3 DEF ListChildren, ReadsOK
  <2> HIDE DEF S
  <2>2. q \in Read /\ q.gen = r.gen /\ q.listed /\ q.todo = S /\ q.got = r.got
    BY <1>2, <2>1, ListedFields, ZenonT(60)
  <2> HIDE DEF q
  <2>3. ReadListed(w, r, q)
    BY <2>2, <2>b DEF ReadListed, S
  <2>4. Further(w, r, q)
    BY <1>2, <2>a, <2>2, <2>3 DEF Further
  <2> QED
    BY <1>2, <2>a, <2>2, <2>4 DEF Left
<1>4. CASE GetDoc(w, r)
  <2>1. PICK id \in r.todo :
        reads' = [reads EXCEPT ![w] = (@ \ {r}) \cup
          {[r EXCEPT !.todo = @ \ {id},
                     !.got = IF obj[id] = None THEN @ ELSE @ \cup {<<id, ver[id]>>}]}]
    BY <1>4 DEF GetDoc
  <2> DEFINE S == r.todo \ {id}
             G == IF obj[id] = None THEN r.got ELSE r.got \cup {<<id, ver[id]>>}
             q == [r EXCEPT !.todo = S, !.got = G]
  <2>2. id \in Ids /\ ver[id] \in Nat
    BY <1>2 DEF Read, RTypeOK
  <2>3. S \in SUBSET Ids /\ G \in SUBSET (Ids \X Nat)
    BY <1>2, <2>2 DEF Read
  <2>a. /\ reads' = [reads EXCEPT ![w] = (@ \ {r}) \cup {q}]
        /\ r.listed /\ UNCHANGED <<storeVars, ver, state, gen, shown>>
    BY <1>4, <2>1 DEF GetDoc
  <2> HIDE DEF S, G
  <2>r. r \in Read
    BY <1>2
  <2>q. q = [r EXCEPT !.todo = S, !.got = G]
    OBVIOUS
  <2> HIDE DEF q
  <2>4. q \in Read /\ q.gen = r.gen /\ (r.listed => q.listed) /\ q.todo = S /\ q.got = G
    <3>1. q \in Read
      BY <2>r, <2>3, <2>q, GotFields
    <3>2. q.gen = r.gen /\ q.todo = S /\ q.got = G /\ (r.listed => q.listed)
      BY <2>r, <2>q DEF Read
    <3> QED
      BY <3>1, <3>2
  <2>5. ReadGot(r, q, id)
    BY <2>a, <2>4 DEF ReadGot, S, G
  <2>6. Further(w, r, q)
    BY <1>2, <2>a, <2>4, <2>5 DEF Further
  <2> QED
    BY <1>2, <2>a, <2>4, <2>6 DEF Left
<1>5. CASE Deliver(w, r)
  <2>1. /\ reads' = [reads EXCEPT ![w] = @ \ {r}] /\ r.listed /\ r.todo = {}
        /\ UNCHANGED <<storeVars, ver, state, gen>>
    BY <1>5 DEF Deliver
  <2>2. /\ shown'[w] = IF Superseded(w, r) THEN shown[w] ELSE r.got
        /\ \A v \in Watchers \ {w} : shown'[v] = shown[v]
    <3>1. CASE Superseded(w, r)
      BY <1>5, <3>1 DEF Deliver
    <3>2. CASE ~Superseded(w, r)
      BY <1>5, <3>2 DEF Deliver, RTypeOK
    <3> QED
      BY <3>1, <3>2
  <2> QED
    BY <1>2, <2>1, <2>2 DEF Left, Ended
<1> QED
  BY <1>1, <1>3, <1>4, <1>5

LEMMA WatcherStep ==
    ASSUME RTypeOK, RTypeOK', ReadsOK, [RNext]_vars, NEW w \in Watchers
    PROVE  \/ /\ \A id \in Ids : ver[id] <= ver'[id]
              /\ Left(w) \/ Renewed(w)
           \/ /\ ver' = ver
              /\ \E r \in reads[w] : Ended(w, r) \/ \E q \in Read : Further(w, r, q)
<1>v. \A id \in Ids : ver[id] \in Nat
  BY DEF RTypeOK
<1>1. CASE UNCHANGED vars
  BY <1>1, <1>v DEF vars, watchVars, Left
<1>2. ASSUME NEW p \in Callers, Request(p) \/ StoreStep(p)
      PROVE  /\ \A id \in Ids : ver[id] <= ver'[id]
             /\ Left(w) \/ Renewed(w)
  BY <1>2, WatchersNotified DEF RTypeOK, Left, Renewed
<1>3. ASSUME NEW v \in Watchers, Watch(v)
      PROVE  ver' = ver /\ (Left(w) \/ Renewed(w))
  BY <1>3 DEF Watch, RTypeOK, Left, Renewed
<1>4. ASSUME NEW v \in Watchers, Dispose(v)
      PROVE  ver' = ver /\ Left(w)
  BY <1>4 DEF Dispose, Left
<1>5. ASSUME NEW v \in Watchers, ReadStep(v), v # w
      PROVE  ver' = ver /\ Left(w)
  BY <1>5, ReadStepEffect
<1>6. ASSUME ReadStep(w)
      PROVE  /\ ver' = ver
             /\ \E r \in reads[w] : Ended(w, r) \/ \E q \in Read : Further(w, r, q)
  BY <1>6, ReadStepEffect
<1>7. ASSUME ver' = ver PROVE \A id \in Ids : ver[id] <= ver'[id]
  BY <1>7, <1>v
<1> QED
  BY <1>1, <1>2, <1>3, <1>4, <1>5, <1>6, <1>7 DEF RNext

\* The order between what a watcher was shown, its latest re-read and the
\* versions stored survives every step.
LEMMA WatchInvInductive ==
    ASSUME RTypeOK, RTypeOK', WatchInv, [RNext]_vars
    PROVE  WatchInv'
<1> USE ReactiveAssumption
<1>p. TypeOK /\ TypeOK' /\ Placed /\ ReadsOK /\ ShownBefore
  BY DEF WatchInv, RTypeOK
<1>1. Placed'
  <2>1. [Next]_storeVars
    BY StoreStepped
  <2> QED
    BY <1>p, <2>1, PlacedKept
<1>2. ASSUME NEW w \in Watchers
      PROVE  /\ \A r \in reads'[w] :
                  /\ r \in Read /\ r.gen <= gen'[w]
                  /\ \A q \in reads'[w] : q.gen = r.gen => q = r
                  /\ ~r.listed => Target[w] \notin Ids /\ r.todo = {} /\ r.got = {}
                  /\ \A id \in r.todo : About(w, id) /\ \A d \in r.got : d[1] # id
                  /\ \A d \in r.got : About(w, d[1]) /\ d[2] <= ver'[d[1]]
                  /\ \A d, e \in r.got : d[1] = e[1] => d[2] = e[2]
             /\ \A d \in shown'[w] : About(w, d[1]) /\ d[2] <= ver'[d[1]]
             /\ \A d, e \in shown'[w] : d[1] = e[1] => d[2] = e[2]
             /\ \A r \in reads'[w] : r.gen = gen'[w] =>
                  \A d \in shown'[w], e \in r.got : d[1] = e[1] => d[2] <= e[2]
  <2>v. \A id \in Ids : ver[id] <= ver'[id] /\ ver[id] \in Nat /\ ver'[id] \in Nat
    BY <1>p, WatcherStep DEF RTypeOK
  <2>o. gen[w] \in Nat /\ NewRead(w) \in Read
    BY NewReadTyped
  <2>g. \A r \in reads[w] :
          /\ r \in Read /\ r.gen \in Nat
          /\ \A d \in r.got : d[1] \in Ids /\ d[2] \in Nat
    BY DEF RTypeOK, Read
  <2>s. \A d \in shown[w] : d[1] \in Ids /\ d[2] \in Nat
    BY DEF RTypeOK
  <2>r. \A r \in reads[w] :
          /\ r.gen <= gen[w]
          /\ \A q \in reads[w] : q.gen = r.gen => q = r
          /\ ~r.listed => Target[w] \notin Ids /\ r.todo = {} /\ r.got = {}
          /\ \A id \in r.todo : About(w, id) /\ \A d \in r.got : d[1] # id
          /\ \A d \in r.got : About(w, d[1]) /\ d[2] <= ver[d[1]]
          /\ \A d, e \in r.got : d[1] = e[1] => d[2] = e[2]
    BY <1>p DEF ReadsOK
  <2>d. /\ \A d \in shown[w] : About(w, d[1]) /\ d[2] <= ver[d[1]]
        /\ \A d, e \in shown[w] : d[1] = e[1] => d[2] = e[2]
    BY <1>p DEF ShownBefore
  <2>l. \A r \in reads[w] : r.gen = gen[w] =>
          \A d \in shown[w], e \in r.got : d[1] = e[1] => d[2] <= e[2]
    BY <1>p DEF ShownBefore, Latest
  <2>1. ASSUME Left(w), \A id \in Ids : ver[id] <= ver'[id]
        PROVE  <1>2!2
    BY <2>1, <2>v, <2>g, <2>s, <2>r, <2>d, <2>l DEF Left
  <2>2. ASSUME Renewed(w), \A id \in Ids : ver[id] <= ver'[id]
        PROVE  <1>2!2
    <3>0. /\ gen'[w] = gen[w] + 1 /\ reads'[w] = reads[w] \cup {NewRead(w)}
          /\ shown'[w] = shown[w]
      BY <2>2 DEF Renewed
    <3>1. /\ NewRead(w).gen = gen[w] + 1 /\ NewRead(w).got = {}
          /\ NewRead(w).listed = (Target[w] \in Ids)
          /\ NewRead(w).todo = {Target[w]} \cap Ids
      BY DEF NewRead
    <3>2. \A r \in reads[w] : r.gen # gen'[w] /\ r.gen <= gen'[w]
      BY <2>2, <3>0, <2>o, <2>g, <2>r
    <3>3. \A id \in NewRead(w).todo : About(w, id)
      BY <3>1 DEF About
    <3>4. ~NewRead(w).listed => NewRead(w).todo = {}
      BY <3>1
    <3> HIDE DEF NewRead
    <3>5. \A r \in reads'[w], q \in reads'[w] : q.gen = r.gen => q = r
      BY <2>2, <3>0, <2>r, <3>1, <3>2
    <3>6. \A r \in reads[w] : \A d \in r.got : d[2] <= ver'[d[1]]
      BY <2>v, <2>g, <2>r
    <3>7. \A d \in shown[w] : d[2] <= ver'[d[1]]
      BY <2>v, <2>s, <2>d
    <3> QED
      BY <2>2, <3>0, <2>o, <2>g, <2>r, <2>d, <3>1, <3>2, <3>3, <3>4, <3>5, <3>6, <3>7
  <2>3. ASSUME ver' = ver, NEW r \in reads[w], Ended(w, r)
        PROVE  <1>2!2
    <3> USE DEF Ended
    <3>1. CASE shown'[w] = shown[w]
      BY <2>3, <3>1, <2>g, <2>r, <2>d, <2>l
    <3>2. CASE shown'[w] = r.got /\ r.gen = gen[w]
      BY <2>3, <3>2, <2>g, <2>r, <2>d, <2>l
    <3> QED
      BY <2>3, <3>1, <3>2 DEF Superseded
  <2>4. ASSUME ver' = ver, NEW r \in reads[w], NEW q \in Read, Further(w, r, q)
        PROVE  <1>2!2
    <3>0. /\ gen'[w] = gen[w] /\ shown'[w] = shown[w]
          /\ reads'[w] = (reads[w] \ {r}) \cup {q}
          /\ q.gen = r.gen /\ q.listed
          /\ \/ q.got = {} /\ q.todo = Members(Target[w])
             \/ \E id \in r.todo :
                  /\ q.todo = r.todo \ {id}
                  /\ q.got = IF obj[id] = None THEN r.got ELSE r.got \cup {<<id, ver[id]>>}
      BY <2>4 DEF Further, ReadListed, ReadGot
    <3>1. \A t, u \in reads'[w] : u.gen = t.gen => u = t
      BY <2>4, <3>0, <2>r
    <3>2. /\ \A id \in q.todo : About(w, id) /\ \A d \in q.got : d[1] # id
          /\ \A d \in q.got : About(w, d[1]) /\ d[2] <= ver[d[1]]
          /\ \A d, e \in q.got : d[1] = e[1] => d[2] = e[2]
      <4>1. CASE q.got = {} /\ q.todo = Members(Target[w])
        BY <1>p, <4>1 DEF Members, Placed, About
      <4>2. CASE \E id \in r.todo :
                    /\ q.todo = r.todo \ {id}
                    /\ q.got = IF obj[id] = None THEN r.got ELSE r.got \cup {<<id, ver[id]>>}
        <5>1. \A id \in r.todo : id \in Ids
          BY <2>g DEF Read
        <5> QED
          BY <4>2, <5>1, <2>r, <2>v
      <4> QED
        BY <2>4, <3>0, <4>1, <4>2
    <3>3. q.gen = gen[w] =>
            \A d \in shown[w], e \in q.got : d[1] = e[1] => d[2] <= e[2]
      <4>1. CASE q.got \subseteq r.got
        BY <3>0, <4>1, <2>l
      <4>2. ASSUME NEW id \in r.todo, q.got = r.got \cup {<<id, ver[id]>>}
            PROVE  q.gen = gen[w] =>
                     \A d \in shown[w], e \in q.got : d[1] = e[1] => d[2] <= e[2]
        <5>1. ASSUME q.gen = gen[w], NEW d \in shown[w], NEW e \in q.got, d[1] = e[1]
              PROVE  d[2] <= e[2]
          <6>1. CASE e \in r.got
            BY <3>0, <5>1, <6>1, <2>l
          <6>2. CASE e = <<id, ver[id]>>
            BY <5>1, <6>2, <2>d
          <6> QED
            BY <4>2, <6>1, <6>2
        <5> QED
          BY <5>1
      <4> QED
        BY <3>0, <4>1, <4>2
    <3> QED
      BY <2>4, <3>0, <2>g, <2>r, <2>d, <2>l, <3>1, <3>2, <3>3
  <2> QED
    BY <1>p, WatcherStep, <2>1, <2>2, <2>3, <2>4
<1>3. ReadsOK' /\ ShownBefore'
  BY <1>2 DEF ReadsOK, ShownBefore, Latest, About
<1> QED
  BY <1>1, <1>3 DEF WatchInv

LEMMA WatchInvInit == RInit => WatchInv
BY DEF RInit, Init, WatchInv, Placed, ReadsOK, ShownBefore, PutPc

\* A watcher's callback is never given an older version of a document than it
\* was given before, however the awaits of its re-reads interleave with each
\* other, with store calls and with dispose() (watch.js:38, 80).
THEOREM NeverOlderCorrect == RSpec => NeverOlder
<1>1. ASSUME RTypeOK, RTypeOK', WatchInv, [RNext]_vars, NEW w \in Watchers,
             NEW d \in shown[w], NEW e \in shown'[w], d[1] = e[1]
      PROVE  d[2] <= e[2]
  <2>0. ReadsOK /\ ShownBefore
    BY <1>1 DEF WatchInv
  <2>d. d[1] \in Ids /\ d[2] \in Nat
    BY <1>1 DEF RTypeOK
  <2>1. CASE shown'[w] = shown[w]
    <3>1. \A x, y \in shown[w] : x[1] = y[1] => x[2] = y[2]
      BY <2>0 DEF ShownBefore
    <3> QED
      BY <1>1, <2>1, <2>d, <3>1
  <2>2. ASSUME NEW r \in reads[w], Ended(w, r), shown'[w] # shown[w]
        PROVE  d[2] <= e[2]
    <3>1. r \in Latest(w) /\ shown'[w] = r.got
      BY <2>2 DEF Ended, Superseded, Latest
    <3> QED
      BY <1>1, <2>0, <3>1 DEF ShownBefore
  <2> QED
    BY <1>1, <2>0, <2>1, <2>2, WatcherStep DEF Left, Renewed, Further
<1>2. RTypeOK /\ RTypeOK' /\ WatchInv /\ [RNext]_vars => WatchInv'
  BY WatchInvInductive
<1>3. RTypeOK /\ RTypeOK' /\ WatchInv /\ [RNext]_vars =>
        [\A w \in Watchers : \A d \in shown[w], e \in shown'[w] :
           d[1] = e[1] => d[2] <= e[2]]_vars
  BY <1>1
<1> QED
  BY <1>2, <1>3, WatchInvInit, ReactiveTypeCorrect, PTL DEF RSpec, NeverOlder

-----------------------------------------------------------------------------
\* A call that has changed the store and emitted nothing yet is in flight on
\* the id it changed: of every other id, a reader finds what it found before.
LEMMA QuietElsewhere ==
    ASSUME TypeOK, RTypeOK, NEW p \in Callers, Request(p) \/ QuietStep(p),
           NEW id \in Ids, ~Unsettled(id)'
    PROVE  /\ ~Unsettled(id) /\ obj'[id] = obj[id] /\ ver'[id] = ver[id]
           /\ \A e : e[3] = id => (e \in idx' <=> e \in idx)
           /\ UNCHANGED watchVars
<1> USE StoreAssumption
<1>v. UNCHANGED watchVars
  BY DEF Request, QuietStep
<1>1. ASSUME obj' = obj, idx' = idx, UNCHANGED ver,
             \A q \in Callers : pc[q] \in {"unindex", "index", "dunindex"} =>
                pc'[q] = pc[q] /\ call'[q] = call[q]
      PROVE  ~Unsettled(id) /\ obj'[id] = obj[id] /\ ver'[id] = ver[id]
  BY <1>1 DEF Unsettled
<1>2. CASE Request(p)
  <2>1. ASSUME Put(p) PROVE <1>1!1 /\ <1>1!2 /\ <1>1!4
    BY <2>1 DEF Put, PutBegin, TypeOK
  <2>2. ASSUME Delete(p) PROVE <1>1!1 /\ <1>1!2 /\ <1>1!4
    BY <2>2 DEF Delete, DeleteBegin, TypeOK
  <2> QED
    BY <1>v, <1>1, <1>2, <2>1, <2>2 DEF Request
<1>3. CASE QuietStep(p)
  <2>0. ver' = [i \in Ids |-> IF obj'[i] # obj[i] THEN ver[i] + 1 ELSE ver[i]]
    BY <1>3 DEF QuietStep
  <2>1. CASE DeleteRead(p)
    <3>1. /\ obj' = obj /\ idx' = idx
          /\ \A q \in Callers : pc[q] \in {"unindex", "index", "dunindex"} =>
               pc'[q] = pc[q] /\ call'[q] = call[q]
      BY <2>1 DEF DeleteRead, Return, TypeOK
    <3>2. ver'[id] = ver[id]
      BY <2>0, <3>1
    <3> QED
      BY <1>v, <3>1, <3>2 DEF Unsettled
  <2>2. CASE PutRead(p) \/ PutUnindex(p) \/ PutIndex(p) \/ PutWrite(p)
             \/ DeleteObject(p) \/ DeleteUnindex(p)
    <3>1. /\ pc'[p] \in {"unindex", "index", "dunindex"} /\ call' = call
          /\ \A q \in Callers : q # p => pc'[q] = pc[q]
      BY <2>2 DEF PutRead, PutUnindex, PutIndex, PutWrite, DeleteObject, DeleteUnindex, TypeOK
    <3>2. id # call[p].id
      BY <3>1 DEF Unsettled
    <3>3. /\ \A i \in Ids : i # call[p].id => obj'[i] = obj[i]
          /\ \A e : e[3] # call[p].id => (e \in idx' <=> e \in idx)
      BY <2>2 DEF PutRead, PutUnindex, PutIndex, PutWrite, DeleteObject, DeleteUnindex,
                  TypeOK, indexKey
    <3>4. ~Unsettled(id)
      BY <3>1, <3>2 DEF Unsettled
    <3> QED
      BY <1>v, <2>0, <3>2, <3>3, <3>4
  <2> QED
    BY <1>3, <2>1, <2>2 DEF QuietStep
<1> QED
  BY <1>2, <1>3

\* A call that emits settles the id it was about, and changes nothing stored.
LEMMA EmitElsewhere ==
    ASSUME TypeOK, NEW p \in Callers, Emit(p), NEW id \in Ids, ~Unsettled(id)', id # call[p].id
    PROVE  ~Unsettled(id)
BY DEF Emit, PutEmit, DeleteEmit, Return, Unsettled, TypeOK

\* What a watcher has of an id stays right while neither it nor the id changes.
LEMMA FitsStays ==
    ASSUME NEW w, NEW id, Left(w), Fits(w, id), obj'[id] = obj[id], ver'[id] = ver[id],
           \A e : e[3] = id => (e \in idx' <=> e \in idx)
    PROVE  Fits(w, id)'
<1>1. InTarget(w, id)' <=> InTarget(w, id)
  BY DEF InTarget
<1>2. ASSUME NEW docs
      PROVE  Exact(w, id, docs) <=>
               \A v \in Nat : <<id, v>> \in docs <=>
                 v = ver'[id] /\ obj'[id] # None /\ InTarget(w, id)'
  BY <1>1 DEF Exact
<1>3. Latest(w)' = Latest(w)
  BY DEF Left, Latest
<1>4. \A r \in Latest(w) :
        r.listed => IF id \in r.todo THEN InTarget(w, id)' ELSE Exact(w, id, r.got)
  BY <1>1 DEF Fits
<1>5. Latest(w) = {} => Exact(w, id, shown[w])
  BY DEF Fits
<1> HIDE DEF InTarget
<1>6. \A r \in Latest(w)' :
        r.listed => IF id \in r.todo THEN InTarget(w, id)'
                    ELSE \A v \in Nat : <<id, v>> \in r.got <=>
                           v = ver'[id] /\ obj'[id] # None /\ InTarget(w, id)'
  BY <1>2, <1>3, <1>4
<1>7. Latest(w)' = {} =>
        \A v \in Nat : <<id, v>> \in shown'[w] <=>
          v = ver'[id] /\ obj'[id] # None /\ InTarget(w, id)'
  BY <1>2, <1>3, <1>5 DEF Left
<1> QED
  BY <1>6, <1>7 DEF Fits, Exact

\* A re-read that has only begun misses nothing of what its watcher is about.
LEMMA FitsRenewed ==
    ASSUME RTypeOK, ReadsOK, NEW w \in Watchers, NEW id \in Ids, Renewed(w), About(w, id)
    PROVE  Fits(w, id)'
<1> USE StoreAssumption, ReactiveAssumption
<1>1. /\ NewRead(w).gen = gen[w] + 1 /\ NewRead(w).listed = (Target[w] \in Ids)
      /\ NewRead(w).todo = {Target[w]} \cap Ids
  BY DEF NewRead
<1>2. gen[w] \in Nat /\ \A r \in reads[w] : r.gen \in Nat /\ r.gen <= gen[w]
  BY DEF RTypeOK, Read, ReadsOK
<1>3. Latest(w)' = {NewRead(w)}
  <2>1. Latest(w)' = {r \in reads'[w] : r.gen = gen'[w]}
    BY DEF Latest
  <2> HIDE DEF NewRead
  <2> QED
    BY <1>1, <1>2, <2>1 DEF Renewed
<1>4. Target[w] \in Ids => id = Target[w]
  BY DEF About
<1>5. Target[w] \in Ids => id \in NewRead(w).todo /\ InTarget(w, id)'
  BY <1>1, <1>4 DEF InTarget
<1> QED
  BY <1>1, <1>3, <1>5 DEF Fits

\* So does one that read an id while nobody wrote it.
LEMMA FitsFurther ==
    ASSUME RTypeOK, ReadsOK, NEW w \in Watchers, NEW id \in Ids, Fits(w, id),
           UNCHANGED <<storeVars, ver>>,
           NEW r \in reads[w], NEW q \in Read, Further(w, r, q)
    PROVE  Fits(w, id)'
<1>1. /\ InTarget(w, id)' <=> InTarget(w, id)
      /\ \A docs : Exact(w, id, docs)' <=> Exact(w, id, docs)
  BY DEF InTarget, Exact, storeVars
<1>2. /\ gen'[w] = gen[w] /\ shown'[w] = shown[w] /\ q.gen = r.gen /\ q.listed
      /\ reads'[w] = (reads[w] \ {r}) \cup {q}
  BY DEF Further, ReadListed, ReadGot
<1>3. ver[id] \in Nat
  BY DEF RTypeOK
<1>4. CASE r.gen # gen[w]
  BY <1>1, <1>2, <1>4 DEF Fits, Latest
<1>5. CASE r.gen = gen[w]
  <2>1. Latest(w)' = {q}
    BY <1>2, <1>5 DEF Latest, ReadsOK
  <2>2. IF id \in q.todo THEN InTarget(w, id) ELSE Exact(w, id, q.got)
    <3>1. CASE ReadListed(w, r, q)
      <4>1. id # Target[w]
        BY <3>1 DEF ReadListed, ReadsOK
      <4>2. id \in q.todo <=> InTarget(w, id)
        BY <3>1, <4>1 DEF ReadListed, Members, InTarget
      <4>3. q.got = {}
        BY <3>1 DEF ReadListed
      <4> QED
        BY <4>2, <4>3 DEF Exact
    <3>2. ASSUME NEW i \in r.todo, ReadGot(r, q, i)
          PROVE  IF id \in q.todo THEN InTarget(w, id) ELSE Exact(w, id, q.got)
      <4>1. IF id \in r.todo THEN InTarget(w, id) ELSE Exact(w, id, r.got)
        BY <1>5, <3>2 DEF ReadGot, Fits, Latest
      <4>2. /\ q.todo = r.todo \ {i}
            /\ q.got = IF obj[i] = None THEN r.got ELSE r.got \cup {<<i, ver[i]>>}
        BY <3>2 DEF ReadGot
      <4>3. CASE i # id
        <5>1. \A v : <<id, v>> \in q.got <=> <<id, v>> \in r.got
          BY <4>2, <4>3
        <5> QED
          BY <4>1, <4>2, <4>3, <5>1 DEF Exact
      <4>4. CASE i = id
        <5>1. InTarget(w, id) /\ id \notin q.todo
          BY <4>1, <4>2, <4>4
        <5>2. \A v : <<id, v>> \notin r.got
          BY <3>2, <4>4 DEF ReadsOK
        <5>3. \A v : <<id, v>> \in q.got <=> obj[id] # None /\ v = ver[id]
          BY <4>2, <4>4, <5>2
        <5> QED
          BY <5>1, <5>3 DEF Exact
      <4> QED
        BY <4>3, <4>4
    <3> QED
      BY <3>1, <3>2 DEF Further
  <2> QED
    BY <1>1, <2>1, <2>2 DEF Fits
<1> QED
  BY <1>4, <1>5

\* So does what a callback is given, when it is given it.
LEMMA FitsEnded ==
    ASSUME RTypeOK, ReadsOK, NEW w \in Watchers, NEW id \in Ids, Fits(w, id),
           UNCHANGED <<storeVars, ver>>, state[w] = "on",
           NEW r \in reads[w], Ended(w, r)
    PROVE  Fits(w, id)'
<1>1. /\ InTarget(w, id)' <=> InTarget(w, id)
      /\ \A docs : Exact(w, id, docs)' <=> Exact(w, id, docs)
  BY DEF InTarget, Exact, storeVars
<1>2. /\ gen'[w] = gen[w] /\ r.listed /\ r.todo = {} /\ reads'[w] = reads[w] \ {r}
      /\ shown'[w] = IF r.gen # gen[w] THEN shown[w] ELSE r.got
  BY DEF Ended, Superseded
<1>3. CASE r.gen # gen[w]
  <2>1. Latest(w)' = Latest(w)
    BY <1>2, <1>3 DEF Latest
  <2> QED
    BY <1>1, <1>2, <1>3, <2>1 DEF Fits
<1>4. CASE r.gen = gen[w]
  <2>1. Latest(w)' = {}
    BY <1>2, <1>4 DEF Latest, ReadsOK
  <2>2. Exact(w, id, r.got)
    BY <1>2, <1>4 DEF Fits, Latest
  <2> QED
    BY <1>1, <1>2, <1>4, <2>1, <2>2 DEF Fits
<1> QED
  BY <1>3, <1>4

\* Whoever is about the id a call emits for is notified of it, if no document
\* leaves the collection it watches.
LEMMA EmitNotifies ==
    ASSUME Unmoved, RTypeOK, Placed, NEW p \in Callers, Emit(p),
           NEW w \in Watchers, state[w] = "on"
    PROVE  /\ About(w, call[p].id) => Renewed(w)
           /\ Left(w) \/ Renewed(w)
<1> USE StoreAssumption, ReactiveAssumption
<1>1. ASSUME NEW cs, Notify(call[p].id, cs), cs \in Placements[call[p].id], call[p].id \in Ids
      PROVE  /\ About(w, call[p].id) => Renewed(w)
             /\ Left(w) \/ Renewed(w)
  <2> DEFINE N == Notified(call[p].id, cs)
  <2>1. About(w, call[p].id) => w \in N
    BY <1>1 DEF About, Unmoved, Notified
  <2>2. /\ gen' = [v \in Watchers |-> IF v \in N THEN gen[v] + 1 ELSE gen[v]]
        /\ reads' = [v \in Watchers |->
                       IF v \in N THEN reads[v] \cup {NewRead(v)} ELSE reads[v]]
        /\ shown' = shown
    BY <1>1 DEF Notify
  <2> HIDE DEF N
  <2> QED
    BY <2>1, <2>2 DEF Renewed, Left
<1>2. CASE PutEmit(p) /\ Notify(call[p].id, call[p].colls)
  <2>1. call[p].colls \in Placements[call[p].id] /\ call[p].id \in Ids
    BY <1>2 DEF PutEmit, Placed, RTypeOK, TypeOK, PutPc, PutCall
  <2> QED
    BY <1>1, <1>2, <2>1
<1>3. CASE DeleteEmit(p) /\ Notify(call[p].id, old[p].colls)
  <2>1. old[p].colls \in Placements[call[p].id] /\ call[p].id \in Ids
    BY <1>3 DEF DeleteEmit, Placed, RTypeOK, TypeOK, DeletePc, DeleteCall
  <2> QED
    BY <1>1, <1>3, <2>1
<1> QED
  BY <1>2, <1>3 DEF Emit

LEMMA UpToDateInductive ==
    ASSUME Unmoved, RTypeOK, RTypeOK', WatchInv, UpToDate, [RNext]_vars
    PROVE  UpToDate'
<1>p. TypeOK /\ Placed /\ ReadsOK
  BY DEF WatchInv, RTypeOK
<1> SUFFICES ASSUME NEW w \in Watchers, NEW id \in Ids,
                    state'[w] = "on", About(w, id), ~Unsettled(id)'
             PROVE  Fits(w, id)'
  BY DEF UpToDate, About
<1>u. state[w] = "on" /\ ~Unsettled(id) => Fits(w, id)
  BY DEF UpToDate
<1>s. ASSUME UNCHANGED <<storeVars, ver>>
      PROVE  /\ ~Unsettled(id) /\ obj'[id] = obj[id] /\ ver'[id] = ver[id]
             /\ \A e : e[3] = id => (e \in idx' <=> e \in idx)
  BY <1>s DEF storeVars, Unsettled
<1>1. CASE UNCHANGED vars
  <2>1. Left(w) /\ state' = state /\ UNCHANGED <<storeVars, ver>>
    BY <1>1 DEF vars, watchVars, Left
  <2> QED
    BY <1>u, <1>s, <2>1, FitsStays
<1>2. ASSUME NEW p \in Callers, Request(p) \/ QuietStep(p) PROVE Fits(w, id)'
  <2>1. /\ ~Unsettled(id) /\ obj'[id] = obj[id] /\ ver'[id] = ver[id]
        /\ \A e : e[3] = id => (e \in idx' <=> e \in idx)
        /\ UNCHANGED watchVars
    BY <1>p, <1>2, QuietElsewhere
  <2>2. Left(w) /\ state' = state
    BY <2>1 DEF watchVars, Left
  <2> QED
    BY <1>u, <2>1, <2>2, FitsStays
<1>3. ASSUME NEW p \in Callers, Emit(p), UNCHANGED ver PROVE Fits(w, id)'
  <2>1. state' = state
    BY <1>3 DEF Emit, Notify
  <2>2. CASE Renewed(w)
    BY <1>p, <2>2, FitsRenewed
  <2>3. CASE Left(w) /\ id # call[p].id
    <3>1. ~Unsettled(id)
      BY <1>3, <1>p, <2>3, EmitElsewhere
    <3>2. obj' = obj /\ idx' = idx
      BY <1>3 DEF Emit, PutEmit, DeleteEmit
    <3> QED
      BY <1>3, <1>u, <2>1, <2>3, <3>1, <3>2, FitsStays
  <2> QED
    BY <1>3, <1>p, <2>1, <2>2, <2>3, EmitNotifies
<1>4. ASSUME NEW v \in Watchers, Watch(v) PROVE Fits(w, id)'
  <2>1. UNCHANGED <<storeVars, ver>>
    BY <1>4 DEF Watch
  <2>2. CASE v = w
    <3>1. Renewed(w)
      BY <1>4, <2>2 DEF Watch, RTypeOK, Renewed
    <3> QED
      BY <1>p, <3>1, FitsRenewed
  <2>3. CASE v # w
    <3>1. Left(w) /\ state'[w] = state[w]
      BY <1>4, <2>3 DEF Watch, RTypeOK, Left
    <3> QED
      BY <1>u, <1>s, <2>1, <3>1, FitsStays
  <2> QED
    BY <2>2, <2>3
<1>5. ASSUME NEW v \in Watchers, Dispose(v) PROVE Fits(w, id)'
  <2>1. Left(w) /\ state'[w] = state[w] /\ UNCHANGED <<storeVars, ver>>
    BY <1>5 DEF Dispose, RTypeOK, Left
  <2> QED
    BY <1>u, <1>s, <2>1, FitsStays
<1>6. ASSUME NEW v \in Watchers, ReadStep(v) PROVE Fits(w, id)'
  <2>1. /\ UNCHANGED <<storeVars, ver, state>>
        /\ v # w => Left(w)
        /\ v = w => \E r \in reads[w] : Ended(w, r) \/ \E q \in Read : Further(w, r, q)
    BY <1>p, <1>6, ReadStepEffect
  <2>2. Fits(w, id)
    BY <1>u, <1>s, <2>1
  <2>3. CASE Left(w)
    BY <1>s, <2>1, <2>2, <2>3, FitsStays
  <2>4. ASSUME NEW r \in reads[w], Ended(w, r) PROVE Fits(w, id)'
    BY <1>p, <2>1, <2>2, <2>4, FitsEnded
  <2>5. ASSUME NEW r \in reads[w], NEW q \in Read, Further(w, r, q) PROVE Fits(w, id)'
    BY <1>p, <2>1, <2>2, <2>5, FitsFurther
  <2> QED
    BY <2>1, <2>3, <2>4, <2>5
<1> QED
  BY <1>1, <1>2, <1>3, <1>4, <1>5, <1>6 DEF RNext, StoreStep

\* Once nothing is in flight, every live watcher shows what is stored, whatever
\* interleaving of puts, deletes and re-reads came before, if no put takes a
\* document out of a watched collection (watch.js:5-8, 35-45, 76-87).
THEOREM FreshCorrect ==
    ASSUME Unmoved
    PROVE  RSpec => []Fresh
<1>1. RInit => UpToDate
  BY DEF RInit, UpToDate
<1>2. RTypeOK /\ RTypeOK' /\ WatchInv /\ UpToDate /\ [RNext]_vars => UpToDate'
  BY UpToDateInductive
<1>3. RTypeOK /\ WatchInv /\ UpToDate => Fresh
  <2> SUFFICES ASSUME RTypeOK, WatchInv, UpToDate, NEW w \in Watchers,
                      state[w] = "on", reads[w] = {}, \A p \in Callers : pc[p] = "idle"
               PROVE  shown[w] = Current(w)
    BY DEF Fresh
  <2>1. \A id \in Ids : ~Unsettled(id)
    BY DEF Unsettled
  <2>2. Latest(w) = {}
    BY DEF Latest
  <2>3. \A id \in Ids : About(w, id) => Exact(w, id, shown[w])
    BY <2>1, <2>2 DEF UpToDate, Fits
  <2>4. \A d \in shown[w] : d = <<d[1], d[2]>> /\ d[1] \in Ids /\ d[2] \in Nat /\ About(w, d[1])
    BY DEF RTypeOK, WatchInv, ShownBefore
  <2>5. \A id \in Ids : InTarget(w, id) => About(w, id)
    BY DEF InTarget, About, WatchInv, Placed
  <2>6. \A id \in Ids : ver[id] \in Nat
    BY DEF RTypeOK
  <2>7. Current(w) = {<<id, ver[id]>> : id \in {i \in Ids : obj[i] # None /\ InTarget(w, i)}}
    BY DEF Current, InTarget
  <2>8. ASSUME NEW d \in shown[w] PROVE d \in Current(w)
    BY <2>3, <2>4, <2>7 DEF Exact
  <2>9. ASSUME NEW d \in Current(w) PROVE d \in shown[w]
    <3>1. PICK id \in Ids : d = <<id, ver[id]>> /\ obj[id] # None /\ InTarget(w, id)
      BY <2>7
    <3> QED
      BY <2>3, <2>5, <2>6, <3>1 DEF Exact
  <2> QED
    BY <2>8, <2>9
<1>4. RTypeOK /\ RTypeOK' /\ WatchInv /\ [RNext]_vars => WatchInv'
  BY WatchInvInductive
<1> QED
  BY <1>1, <1>2, <1>3, <1>4, WatchInvInit, ReactiveTypeCorrect, PTL DEF RSpec

=============================================================================
