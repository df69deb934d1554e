--------------------------- MODULE ApStoreProofs ---------------------------
(* Theorems about ApStore, for any number of callers, ids and collections. *)
EXTENDS ApStore, TLAPS

\* The step of every call keeps the types.
LEMMA TypeKept ==
    ASSUME TypeOK, [Next]_storeVars
    PROVE  TypeOK'
<1> USE StoreAssumption
<1>1. CASE UNCHANGED storeVars
  BY <1>1 DEF TypeOK, storeVars
<1>2. ASSUME NEW p \in Callers, Put(p) PROVE TypeOK'
  <2>1. PICK id \in MayPut[p], doc \in Docs, ts \in Times :
          \E cs \in Placements[id] : PutBegin(p, id, doc, cs, ts)
    BY <1>2 DEF Put
  <2>2. PICK cs \in Placements[id] : PutBegin(p, id, doc, cs, ts)
    BY <2>1
  <2>3. id \in Ids /\ cs \in SUBSET Colls
    OBVIOUS
  <2>4. [id |-> id, ts |-> ts, doc |-> doc, colls |-> cs] \in PutCall
    BY <2>3 DEF PutCall
  <2> QED
    BY <2>2, <2>4 DEF PutBegin, TypeOK, PutPc, DeletePc
<1>3. ASSUME NEW p \in Callers, Delete(p) PROVE TypeOK'
  BY <1>3 DEF Delete, DeleteBegin, TypeOK, PutPc, DeletePc, DeleteCall
<1>4. ASSUME NEW p \in Callers, PutRead(p) PROVE TypeOK'
  BY <1>4 DEF PutRead, TypeOK, PutPc, DeletePc, CollsOf, PutCall, Record
<1>5. ASSUME NEW p \in Callers, PutUnindex(p) PROVE TypeOK'
  BY <1>5 DEF PutUnindex, TypeOK, PutPc, DeletePc
<1>6. ASSUME NEW p \in Callers, PutWrite(p) PROVE TypeOK'
  BY <1>6 DEF PutWrite, TypeOK, PutPc, DeletePc, PutCall, Record
<1>7. ASSUME NEW p \in Callers, PutIndex(p) PROVE TypeOK'
  BY <1>7 DEF PutIndex, TypeOK, PutPc, DeletePc, PutCall, indexKey
<1>8. ASSUME NEW p \in Callers, DeleteRead(p) PROVE TypeOK'
  BY <1>8 DEF DeleteRead, Return, TypeOK, PutPc, DeletePc, DeleteCall
<1>9. ASSUME NEW p \in Callers, DeleteObject(p) PROVE TypeOK'
  BY <1>9 DEF DeleteObject, TypeOK, PutPc, DeletePc, CollsOf, DeleteCall, Record
<1>10. ASSUME NEW p \in Callers, DeleteUnindex(p) PROVE TypeOK'
  BY <1>10 DEF DeleteUnindex, TypeOK, PutPc, DeletePc
<1>11. ASSUME NEW p \in Callers, PutEmit(p) \/ DeleteEmit(p) \/ Abort(p) PROVE TypeOK'
  BY <1>11 DEF PutEmit, DeleteEmit, Abort, Return, TypeOK, PutPc, DeletePc
<1> QED
  BY <1>1, <1>2, <1>3, <1>4, <1>5, <1>6, <1>7, <1>8, <1>9, <1>10, <1>11 DEF Next, CallStep

\* Every step of put() and delete() keeps the variables in their types, and a
\* call in the loops that clean up or write index entries holds the record
\* those loops range over (store.js:111-150).
THEOREM TypeCorrect == Spec => []TypeOK
<1>1. Init => TypeOK
  BY StoreAssumption DEF Init, TypeOK, PutPc, DeletePc
<1>2. TypeOK /\ [Next]_storeVars => TypeOK'
  BY TypeKept
<1> QED
  BY <1>1, <1>2, PTL DEF Spec

-----------------------------------------------------------------------------
\* Every step keeps the inductive invariant of Complete, as long as no call
\* is cut short and no delete can meet a put of the same timestamp.
LEMMA CompleteInvInductive ==
    ASSUME Faults = {}, UniqueTs \/ NoDeletes, TypeOK, TypeOK', CompleteInv, [Next]_storeVars
    PROVE  CompleteInv'
<1> USE StoreAssumption
<1> USE DEF CompleteInv
<1>1. CASE UNCHANGED storeVars
  BY <1>1 DEF storeVars, Permitted, Owed, DeletesPast, UnwrittenTsFresh
<1>2. ASSUME NEW p \in Callers, Put(p) PROVE CompleteInv'
  <2>1. PICK id \in MayPut[p], doc \in Docs, ts \in Times :
          \E cs \in Placements[id] : PutBegin(p, id, doc, cs, ts)
    BY <1>2 DEF Put
  <2>2. PICK cs \in Placements[id] : PutBegin(p, id, doc, cs, ts)
    BY <2>1
  <2> USE <2>2 DEF PutBegin, TypeOK
  <2>3. Permitted' /\ DeletesPast'
    BY DEF Permitted, DeletesPast, PutPc, DeletePc
  <2>4. Owed'
    BY DEF Owed, PutPc
  <2>5. UniqueTs => UnwrittenTsFresh'
    BY DEF UnwrittenTsFresh, PutPc
  <2> QED
    BY <2>3, <2>4, <2>5
<1>3. ASSUME NEW p \in Callers, Delete(p) PROVE CompleteInv'
  BY <1>3 DEF Delete, DeleteBegin, TypeOK, Permitted, Owed, DeletesPast,
              UnwrittenTsFresh, PutPc, DeletePc
<1>4. ASSUME NEW p \in Callers, PutRead(p) PROVE CompleteInv'
  BY <1>4 DEF PutRead, TypeOK, Permitted, Owed, DeletesPast, UnwrittenTsFresh,
              PutPc, DeletePc, PutCall
<1>5. ASSUME NEW p \in Callers, PutUnindex(p) PROVE CompleteInv'
  <2> USE <1>5 DEF PutUnindex, TypeOK
  <2>1. Permitted' /\ DeletesPast' /\ (UniqueTs => UnwrittenTsFresh')
    BY DEF Permitted, DeletesPast, UnwrittenTsFresh, PutPc, DeletePc
  <2>2. Owed'
    BY DEF Owed, PutPc, indexKey
  <2> QED
    BY <2>1, <2>2
<1>6. ASSUME NEW p \in Callers, PutWrite(p) PROVE CompleteInv'
  <2> USE <1>6 DEF PutWrite, TypeOK
  <2>1. Permitted'
    BY DEF Permitted, PutPc, DeletePc
  <2>2. DeletesPast'
    <3>1. UniqueTs => DeletesPast'
      BY DEF DeletesPast, UnwrittenTsFresh, PutPc, DeletePc, PutCall, DeleteCall
    <3>2. NoDeletes => DeletesPast'
      BY DEF DeletesPast, NoDeletes, Permitted, DeletePc
    <3> QED
      BY <3>1, <3>2
  <2>3. UniqueTs => UnwrittenTsFresh'
    BY DEF UnwrittenTsFresh, PutPc, PutCall
  <2>4. Owed'
    BY DEF Owed, PutPc, PutCall, CollsOf
  <2> QED
    BY <2>1, <2>2, <2>3, <2>4
<1>7. ASSUME NEW p \in Callers, PutIndex(p) PROVE CompleteInv'
  <2> USE <1>7 DEF PutIndex, TypeOK
  <2>1. Permitted' /\ DeletesPast' /\ (UniqueTs => UnwrittenTsFresh')
    BY DEF Permitted, DeletesPast, UnwrittenTsFresh, PutPc, DeletePc
  <2>2. Owed'
    BY DEF Owed, PutPc, indexKey
  <2> QED
    BY <2>1, <2>2
<1>8. ASSUME NEW p \in Callers, PutEmit(p) PROVE CompleteInv'
  BY <1>8 DEF PutEmit, Return, TypeOK, Permitted, Owed, DeletesPast,
              UnwrittenTsFresh, PutPc, DeletePc
<1>9. ASSUME NEW p \in Callers, DeleteRead(p) PROVE CompleteInv'
  <2> USE <1>9 DEF DeleteRead, Return, TypeOK
  <2>1. Permitted' /\ DeletesPast'
    BY DEF Permitted, DeletesPast, PutPc, DeletePc
  <2>2. Owed'
    BY DEF Owed, PutPc
  <2>3. UniqueTs => UnwrittenTsFresh'
    BY DEF UnwrittenTsFresh, PutPc, DeleteCall
  <2> QED
    BY <2>1, <2>2, <2>3
<1>10. ASSUME NEW p \in Callers, DeleteObject(p) PROVE CompleteInv'
  <2> USE <1>10 DEF DeleteObject, TypeOK
  <2>1. Permitted' /\ DeletesPast' /\ (UniqueTs => UnwrittenTsFresh')
    BY DEF Permitted, DeletesPast, UnwrittenTsFresh, PutPc, DeletePc, DeleteCall
  <2>2. Owed'
    BY DEF Owed, PutPc, DeletePc, DeleteCall, CollsOf
  <2> QED
    BY <2>1, <2>2
<1>11. ASSUME NEW p \in Callers, DeleteUnindex(p) PROVE CompleteInv'
  <2> USE <1>11 DEF DeleteUnindex, TypeOK
  <2>1. Permitted' /\ DeletesPast' /\ (UniqueTs => UnwrittenTsFresh')
    BY DEF Permitted, DeletesPast, UnwrittenTsFresh, PutPc, DeletePc
  <2>2. Owed'
    BY DEF Owed, DeletesPast, PutPc, DeletePc, indexKey, CollsOf
  <2> QED
    BY <2>1, <2>2
<1>12. ASSUME NEW p \in Callers, DeleteEmit(p) PROVE CompleteInv'
  BY <1>12 DEF DeleteEmit, Return, TypeOK, Permitted, Owed, DeletesPast,
               UnwrittenTsFresh, PutPc, DeletePc
<1> QED
  BY <1>1, <1>2, <1>3, <1>4, <1>5, <1>6, <1>7, <1>8, <1>9, <1>10, <1>11, <1>12
  DEF Next, CallStep, Abort

\* Once the calls on an id are over, every collection its record names lists
\* it, for any number of concurrent puts and deletes of the id: no cleanup of
\* an older record's entries costs the winner its own (store.js:111-150).
\* Timestamps of deleted and later puts must differ; puts alone need nothing.
THEOREM CompleteCorrect ==
    ASSUME Faults = {}, UniqueTs \/ NoDeletes
    PROVE  Spec => []Complete
<1>1. Init => CompleteInv
  BY DEF Init, CompleteInv, Permitted, Owed, DeletesPast, UnwrittenTsFresh,
         PutPc, DeletePc, CollsOf
<1>2. TypeOK /\ TypeOK' /\ CompleteInv /\ [Next]_storeVars => CompleteInv'
  BY CompleteInvInductive
<1>3. TypeOK /\ CompleteInv => Complete
  BY DEF TypeOK, CompleteInv, Owed, Complete, Busy, Entries, CollsOf, PutPc
<1> QED
  BY <1>1, <1>2, <1>3, TypeCorrect, PTL DEF Spec

-----------------------------------------------------------------------------
\* When no two slots share an id, every step keeps the inductive invariant of
\* NoStale; a call may even be cut short, unless it is a delete.
LEMMA NoStaleInvInductive ==
    ASSUME Exclusive, DeletesFinish, TypeOK, TypeOK', NoStaleInv, [Next]_storeVars
    PROVE  NoStaleInv'
<1> USE StoreAssumption
<1> USE DEF NoStaleInv
<1>a. \A p, q \in Callers :
        pc[p] # "idle" /\ pc[q] # "idle" /\ p # q => call[p].id # call[q].id
  BY DEF Exclusive, Permitted, TypeOK, PutPc, DeletePc
<1>1. CASE UNCHANGED storeVars
  BY <1>1 DEF storeVars, Permitted, InHand, LeavesNone, Indexed, NoStale
<1>2. ASSUME NEW p \in Callers, Put(p) PROVE NoStaleInv'
  <2>1. PICK id \in MayPut[p], doc \in Docs, ts \in Times :
          \E cs \in Placements[id] : PutBegin(p, id, doc, cs, ts)
    BY <1>2 DEF Put
  <2>2. PICK cs \in Placements[id] : PutBegin(p, id, doc, cs, ts)
    BY <2>1
  <2> QED
    BY <2>2 DEF PutBegin, TypeOK, Permitted, InHand, LeavesNone, Indexed, NoStale, PutPc, DeletePc
<1>3. ASSUME NEW p \in Callers, Delete(p) PROVE NoStaleInv'
  BY <1>3 DEF Delete, DeleteBegin, TypeOK, Permitted, InHand, LeavesNone, Indexed, NoStale,
              PutPc, DeletePc
<1>4. ASSUME NEW p \in Callers, PutRead(p) PROVE NoStaleInv'
  <2> USE <1>4 DEF PutRead, TypeOK
  <2>1. Permitted' /\ InHand' /\ Indexed'
    BY DEF Permitted, InHand, Indexed, PutPc, DeletePc
  <2>2. NoStale'
    BY DEF NoStale, PutPc, DeletePc
  <2>3. LeavesNone'
    <3>1. \A e \in idx : e[3] = call[p].id => e[1] \in CollsOf(obj[call[p].id])
      BY <1>a DEF NoStale, Entries, indexKey, PutPc, DeletePc
    <3> QED
      BY <3>1 DEF LeavesNone
  <2> QED
    BY <2>1, <2>2, <2>3
<1>5. ASSUME NEW p \in Callers, PutUnindex(p) PROVE NoStaleInv'
  <2>1. PICK c \in todo[p] :
          /\ idx' = idx \ {indexKey(c, old[p].ts, call[p].id)}
          /\ todo' = [todo EXCEPT ![p] = @ \ {c}]
    BY <1>5 DEF PutUnindex
  <2> USE <1>5, <2>1 DEF PutUnindex, TypeOK
  <2>2. Permitted' /\ InHand' /\ Indexed'
    BY <1>a DEF Permitted, InHand, Indexed, indexKey, PutPc, DeletePc
  <2>3. NoStale'
    BY DEF NoStale, PutPc, DeletePc
  <2>4. LeavesNone'
    <3> SUFFICES ASSUME NEW q \in Callers, pc[q] = "unindex",
                        NEW e \in idx', e[3] = call[q].id
                 PROVE  e[1] \in todo'[q]
      BY DEF LeavesNone
    <3>1. CASE q # p
      BY <3>1 DEF LeavesNone
    <3>2. CASE q = p
      <4>1. e[1] \in todo[p] /\ e \in idx
        BY <3>2 DEF LeavesNone
      <4>2. e \in Entries(e[3], obj[e[3]])
        BY <1>a, <3>2, <4>1 DEF NoStale, PutPc, DeletePc
      <4>3. e[2] = old[p].ts /\ e = <<e[1], e[2], e[3]>>
        BY <3>2, <4>2 DEF Entries, indexKey, InHand
      <4> QED
        BY <3>2, <4>1, <4>3 DEF indexKey
    <3> QED
      BY <3>1, <3>2
  <2> QED
    BY <2>2, <2>3, <2>4
<1>6. ASSUME NEW p \in Callers, PutWrite(p) PROVE NoStaleInv'
  <2> USE <1>6 DEF PutWrite, TypeOK
  <2>1. Permitted' /\ InHand'
    <3>1. [ts |-> call[p].ts, doc |-> call[p].doc, colls |-> call[p].colls] # None
      BY DEF PutPc, PutCall, Record
    <3>2. Permitted'
      BY DEF Permitted, PutPc, DeletePc
    <3>3. call[p].id \in Ids
      BY DEF PutPc, PutCall
    <3> QED
      BY <1>a, <3>1, <3>2, <3>3 DEF InHand
  <2>2. LeavesNone' /\ Indexed'
    BY DEF LeavesNone, Indexed
  <2>3. NoStale'
    <3>1. \A e \in idx : e[3] # call[p].id
      BY DEF LeavesNone
    <3> QED
      BY <3>1 DEF NoStale, Entries, PutPc, DeletePc
  <2> QED
    BY <2>1, <2>2, <2>3
<1>7. ASSUME NEW p \in Callers, PutIndex(p) PROVE NoStaleInv'
  <2>1. PICK c \in todo[p] :
          /\ idx' = idx \cup {indexKey(c, call[p].ts, call[p].id)}
          /\ todo' = [todo EXCEPT ![p] = @ \ {c}]
    BY <1>7 DEF PutIndex
  <2> USE <1>7, <2>1 DEF PutIndex, TypeOK
  <2>2. Permitted' /\ InHand' /\ Indexed'
    BY <1>a DEF Permitted, InHand, Indexed, indexKey, PutPc, DeletePc
  <2>3. LeavesNone'
    BY <1>a DEF LeavesNone, indexKey, PutPc
  <2>4. NoStale'
    BY DEF NoStale, InHand, Entries, indexKey, CollsOf, PutPc, DeletePc, PutCall
  <2> QED
    BY <2>2, <2>3, <2>4
<1>8. ASSUME NEW p \in Callers, PutEmit(p) \/ DeleteEmit(p) \/ Abort(p) PROVE NoStaleInv'
  <2> USE <1>8 DEF PutEmit, DeleteEmit, Abort, Return, TypeOK
  <2>1. Permitted' /\ InHand' /\ LeavesNone' /\ Indexed'
    BY DEF Permitted, InHand, LeavesNone, Indexed, PutPc, DeletePc
  <2>2. pc[p] = "dunindex" => todo[p] = {}
    BY DEF DeletesFinish, Permitted, DeletePc
  <2>3. NoStale'
    BY <2>2 DEF NoStale
  <2> QED
    BY <2>1, <2>3
<1>9. ASSUME NEW p \in Callers, DeleteRead(p) PROVE NoStaleInv'
  BY <1>9 DEF DeleteRead, Return, TypeOK, Permitted, InHand, LeavesNone, Indexed, NoStale,
              PutPc, DeletePc, DeleteCall
<1>10. ASSUME NEW p \in Callers, DeleteObject(p) PROVE NoStaleInv'
  <2> USE <1>10 DEF DeleteObject, TypeOK
  <2>1. Permitted' /\ InHand' /\ LeavesNone' /\ Indexed'
    BY <1>a DEF Permitted, InHand, LeavesNone, Indexed, PutPc, DeletePc, DeleteCall
  <2>2. NoStale'
    <3> SUFFICES ASSUME NEW e \in idx
                 PROVE  \/ e \in Entries(e[3], obj'[e[3]])
                        \/ /\ obj'[e[3]] = None
                           /\ \E q \in Callers :
                                /\ pc'[q] = "dunindex" /\ call[q].id = e[3]
                                /\ e[1] \in todo'[q] /\ e[2] = old[q].ts
      BY DEF NoStale, Entries
    <3>1. CASE e[3] # call[p].id
      BY <3>1 DEF NoStale, DeletePc
    <3>2. CASE e[3] = call[p].id
      <4>1. e \in Entries(e[3], old[p])
        BY <1>a, <3>2 DEF NoStale, InHand, DeletePc
      <4>2. e[1] \in old[p].colls /\ e[2] = old[p].ts
        BY <4>1 DEF Entries, indexKey, CollsOf
      <4> QED
        BY <3>2, <4>2 DEF DeletePc, DeleteCall
    <3> QED
      BY <3>1, <3>2
  <2> QED
    BY <2>1, <2>2
<1>11. ASSUME NEW p \in Callers, DeleteUnindex(p) PROVE NoStaleInv'
  <2>1. PICK c \in todo[p] :
          /\ idx' = idx \ {indexKey(c, old[p].ts, call[p].id)}
          /\ todo' = [todo EXCEPT ![p] = @ \ {c}]
    BY <1>11 DEF DeleteUnindex
  <2> USE <1>11, <2>1 DEF DeleteUnindex, TypeOK
  <2>2. Permitted' /\ InHand' /\ LeavesNone'
    BY DEF Permitted, InHand, LeavesNone, PutPc, DeletePc
  <2>i. Indexed'
    BY <1>a DEF Indexed, indexKey
  <2>3. NoStale'
    <3>1. \A e \in idx' : e = <<e[1], e[2], e[3]>>
      OBVIOUS
    <3> QED
      BY <3>1 DEF NoStale, indexKey
  <2> QED
    BY <2>2, <2>i, <2>3
<1> QED
  BY <1>1, <1>2, <1>3, <1>4, <1>5, <1>6, <1>7, <1>8, <1>9, <1>10, <1>11 DEF Next, CallStep

LEMMA NoStaleInvInit == Init => NoStaleInv
BY DEF Init, NoStaleInv, Permitted, InHand, LeavesNone, Indexed, NoStale, PutPc, DeletePc

\* No index entry ever outlives the record it was written for, except under a
\* delete that is still cleaning up, for any use of the store in which each id
\* has one caller at a time, and even when puts fail half way
\* (store.js:112-115: a re-put replaces its old index entries).
THEOREM NoStaleCorrect ==
    ASSUME Exclusive, DeletesFinish
    PROVE  Spec => []NoStale
<1>1. Init => NoStaleInv
  BY NoStaleInvInit
<1>2. TypeOK /\ TypeOK' /\ NoStaleInv /\ [Next]_storeVars => NoStaleInv'
  BY NoStaleInvInductive
<1>3. NoStaleInv => NoStale
  BY DEF NoStaleInv
<1> QED
  BY <1>1, <1>2, <1>3, TypeCorrect, PTL DEF Spec

-----------------------------------------------------------------------------
\* Removing the only key an id has in a collection takes the id out of it.
LEMMA ListedRemove ==
    ASSUME NEW keys, NEW c, NEW ts, NEW id,
           \A e \in keys : e[1] = c /\ e[3] = id => e = indexKey(c, ts, id)
    PROVE  ListedIn(keys \ {indexKey(c, ts, id)}, id) = ListedIn(keys, id) \ {c}
BY DEF ListedIn, indexKey

\* Adding a key of an id in a collection lists the id there, and changes no
\* other listing of it.
LEMMA ListedAdd ==
    ASSUME NEW keys, NEW c \in Colls, NEW ts, NEW id
    PROVE  ListedIn(keys \cup {indexKey(c, ts, id)}, id) = ListedIn(keys, id) \cup {c}
<1> DEFINE k == indexKey(c, ts, id)
<1>1. k[1] = c /\ k[3] = id
  BY DEF indexKey
<1> HIDE DEF k
<1>2. ListedIn(keys \cup {k}, id) = ListedIn(keys, id) \cup {c}
  BY <1>1 DEF ListedIn
<1> QED
  BY <1>2 DEF k

\* When no two slots share an id and no delete is cut short, every step of
\* put() and delete(), and the failure of a put, is a step of StoreContract,
\* or changes nothing a reader of collections can see (store.js:111-150, 158-170).
THEOREM ContractImplemented ==
    ASSUME Exclusive, DeletesFinish
    PROVE  Spec => ContractSpec
<1> USE StoreAssumption
<1> DEFINE listed == [id \in Ids |-> Listed(id)]
           busy == [id \in Ids |-> Busy(id)]
<1>1. Init => Contract!CInit
  BY DEF Init, Contract!CInit, Listed, Busy
<1>2. ASSUME TypeOK, NoStaleInv, [Next]_storeVars
      PROVE  [Contract!CNext]_Contract!contractVars
  <2>a. \A p, q \in Callers :
          pc[p] # "idle" /\ pc[q] # "idle" /\ p # q => call[p].id # call[q].id
    BY <1>2 DEF Exclusive, TypeOK, NoStaleInv, Permitted, PutPc, DeletePc
  <2>b. \A p \in Callers : pc[p] # "idle" => call[p].id \in Ids
    BY <1>2 DEF PutCall, DeleteCall, TypeOK, NoStaleInv, Permitted, PutPc, DeletePc
  <2>k. ASSUME obj' = obj, idx' = idx PROVE listed' = listed
    BY <2>k DEF Listed
  <2>1. CASE UNCHANGED storeVars
    BY <2>1 DEF storeVars, Contract!contractVars, Listed, Busy
  <2>2. ASSUME NEW p \in Callers, NEW id \in MayPut[p] \cup MayDelete[p],
               pc[p] = "idle", pc'[p] # "idle", call'[p].id = id,
               \A q \in Callers \ {p} : pc'[q] = pc[q] /\ call'[q] = call[q],
               obj' = obj, idx' = idx
        PROVE  Contract!CNext
    <3>1. id \in Ids
      OBVIOUS
    <3>2. ~Busy(id)
      BY <1>2, <2>2 DEF TypeOK, NoStaleInv, Permitted, PutPc, DeletePc, Busy, Exclusive
    <3>3. busy' = [busy EXCEPT ![id] = TRUE]
      BY <2>2, <3>1 DEF Busy
    <3>4. Contract!Start(id)
      BY <2>2, <2>k, <3>1, <3>2, <3>3 DEF Contract!Start
    <3> QED
      BY <3>1, <3>4 DEF Contract!CNext
  <2>3. ASSUME NEW p \in Callers, Put(p) PROVE Contract!CNext
    <3>1. PICK id \in MayPut[p] : \E doc \in Docs, ts \in Times :
            \E cs \in Placements[id] : PutBegin(p, id, doc, cs, ts)
      BY <1>2, <2>3 DEF TypeOK, NoStaleInv, Permitted, PutPc, DeletePc, Put
    <3> QED
      BY <1>2, <2>2, <3>1 DEF PutBegin, TypeOK
  <2>4. ASSUME NEW p \in Callers, Delete(p) PROVE Contract!CNext
    BY <1>2, <2>2, <2>4 DEF TypeOK, NoStaleInv, Permitted, PutPc, DeletePc, Delete, DeleteBegin
  <2>5. ASSUME NEW p \in Callers, PutRead(p) PROVE UNCHANGED Contract!contractVars
    BY <1>2, <2>5 DEF TypeOK, NoStaleInv, Permitted, PutPc, DeletePc, PutRead, Contract!contractVars, Listed, Busy
  <2>6. ASSUME NEW p \in Callers, PutUnindex(p) PROVE Contract!CNext
    <3> DEFINE id == call[p].id
    <3>1. PICK c \in todo[p] : idx' = idx \ {indexKey(c, old[p].ts, id)}
      BY <1>2, <2>6 DEF TypeOK, NoStaleInv, Permitted, PutPc, DeletePc, PutUnindex
    <3>2. /\ id \in Ids /\ pc[p] = "unindex" /\ old[p] = obj[id] /\ obj' = obj
          /\ c \in CollsOf(obj[id]) /\ busy' = busy
      BY <1>2, <2>6, <2>b DEF TypeOK, NoStaleInv, Permitted, PutPc, DeletePc, PutUnindex, InHand, Busy
    <3>3. obj[id] # None
      BY <3>2 DEF CollsOf
    <3>4. \A e \in idx : e[3] = id /\ e[1] = c => e = indexKey(c, old[p].ts, id)
      BY <1>2, <3>2, <3>3 DEF TypeOK, NoStaleInv, Permitted, PutPc, DeletePc, NoStale, Entries, indexKey
    <3>5. ASSUME NEW i \in Ids, i # id PROVE ListedIn(idx', i) = ListedIn(idx, i)
      BY <3>1, <3>5 DEF ListedIn, indexKey
    <3>6. ListedIn(idx', id) = ListedIn(idx, id) \ {c}
      BY <3>1, <3>4, ListedRemove
    <3>7. listed' = [listed EXCEPT ![id] = @ \ {c}]
      BY <3>2, <3>3, <3>5, <3>6 DEF Listed
    <3>8. busy[id]
      BY <3>2 DEF Busy
    <3>9. Contract!Unlist(id, c)
      BY <3>2, <3>7, <3>8 DEF Contract!Unlist
    <3> QED
      BY <3>2, <3>9 DEF Contract!CNext, Contract!Places, CollsOf
  <2>7. ASSUME NEW p \in Callers, PutWrite(p) PROVE Contract!CNext
    <3> DEFINE id == call[p].id
               r == [ts |-> call[p].ts, doc |-> call[p].doc, colls |-> call[p].colls]
    <3>1. id \in Ids /\ r \in Record /\ busy' = busy /\ busy[id]
      BY <1>2, <2>7, <2>b DEF TypeOK, NoStaleInv, Permitted, PutPc, DeletePc, PutWrite, PutCall, Record, Busy
    <3>2. \A e \in idx : e[3] # id
      BY <1>2, <2>7 DEF TypeOK, NoStaleInv, Permitted, PutPc, DeletePc, PutWrite, LeavesNone
    <3>3. ListedIn(idx, id) = {}
      BY <3>2 DEF ListedIn
    <3>4. /\ idx' = idx /\ obj' = [obj EXCEPT ![id] = r]
          /\ obj \in [Ids -> Record \cup {None}]
      BY <1>2, <2>7 DEF PutWrite, TypeOK
    <3>5. listed[id] = {} /\ listed' = listed
      BY <3>1, <3>3, <3>4 DEF Listed
    <3>6. Contract!Replace(id, r)
      BY <3>1, <3>4, <3>5 DEF Contract!Replace
    <3> QED
      BY <3>1, <3>6 DEF Contract!CNext
  <2>8. ASSUME NEW p \in Callers, PutIndex(p) PROVE Contract!CNext
    <3> DEFINE id == call[p].id
    <3>1. PICK c \in todo[p] : idx' = idx \cup {indexKey(c, call[p].ts, id)}
      BY <1>2, <2>8 DEF TypeOK, NoStaleInv, Permitted, PutPc, DeletePc, PutIndex
    <3>2. /\ id \in Ids /\ obj[id] # None /\ c \in CollsOf(obj[id]) /\ c \in Colls
          /\ obj' = obj /\ busy' = busy /\ busy[id]
      BY <1>2, <2>8, <2>b DEF TypeOK, NoStaleInv, Permitted, PutPc, DeletePc, PutIndex, InHand, CollsOf, Busy
    <3>3. ASSUME NEW i \in Ids, i # id PROVE ListedIn(idx', i) = ListedIn(idx, i)
      BY <3>1, <3>3 DEF ListedIn, indexKey
    <3>4. ListedIn(idx', id) = ListedIn(idx, id) \cup {c}
      BY <3>1, <3>2, ListedAdd
    <3>5. listed' = [listed EXCEPT ![id] = @ \cup {c}]
      BY <3>2, <3>3, <3>4 DEF Listed
    <3>6. Contract!List(id, c)
      BY <3>2, <3>5 DEF Contract!List, Contract!Places, CollsOf
    <3> QED
      BY <3>2, <3>6 DEF Contract!CNext, Contract!Places, CollsOf
  <2>9. ASSUME NEW p \in Callers, NEW id \in Ids, pc[p] # "idle", call[p].id = id,
               pc'[p] = "idle",
               \A q \in Callers \ {p} : pc'[q] = pc[q] /\ call'[q] = call[q],
               obj' = obj, idx' = idx, listed[id] = CollsOf(obj[id])
        PROVE  Contract!CNext
    <3>1. busy[id]
      BY <2>9 DEF Busy
    <3>2. busy' = [busy EXCEPT ![id] = FALSE]
      <4>1. \A q \in Callers : pc[q] # "idle" /\ call[q].id = id => q = p
        BY <2>9, <2>a
      <4>2. ASSUME NEW i \in Ids
            PROVE  Busy(i)' = IF i = id THEN FALSE ELSE Busy(i)
        BY <2>9, <4>1 DEF Busy
      <4> QED
        BY <4>2 DEF Busy
    <3>3. Contract!Finish(id)
      BY <2>9, <2>k, <3>1, <3>2 DEF Contract!Finish, Contract!Places, CollsOf
    <3> QED
      BY <3>3 DEF Contract!CNext
  <2>10. ASSUME NEW p \in Callers, PutEmit(p) PROVE Contract!CNext
    <3> DEFINE id == call[p].id
    <3>1. /\ id \in Ids /\ obj[id] # None /\ obj[id].ts = call[p].ts
          /\ obj[id].colls = call[p].colls /\ call[p].colls \subseteq Colls
      BY <1>2, <2>10, <2>b DEF TypeOK, NoStaleInv, Permitted, PutPc, DeletePc, PutEmit, InHand, PutCall
    <3>2. \A c \in call[p].colls : indexKey(c, call[p].ts, id) \in idx
      BY <1>2, <2>10 DEF TypeOK, NoStaleInv, Permitted, PutPc, DeletePc, PutEmit, Indexed
    <3>3. \A e \in idx : e[3] = id => e[1] \in call[p].colls
      BY <1>2, <3>1 DEF TypeOK, NoStaleInv, Permitted, PutPc, DeletePc, NoStale, Entries, indexKey, CollsOf
    <3>4. listed[id] = CollsOf(obj[id])
      BY <3>1, <3>2, <3>3 DEF Listed, ListedIn, CollsOf, indexKey
    <3> QED
      BY <1>2, <2>9, <2>10, <3>1, <3>4 DEF TypeOK, NoStaleInv, Permitted, PutPc, DeletePc, PutEmit, Return
  <2>11. ASSUME NEW p \in Callers, DeleteRead(p)
         PROVE  [Contract!CNext]_Contract!contractVars
    <3>1. CASE obj[call[p].id] = None
      BY <1>2, <2>9, <2>11, <2>b, <3>1 DEF TypeOK, NoStaleInv, Permitted, PutPc, DeletePc, DeleteRead, Return, Listed, CollsOf
    <3>2. CASE obj[call[p].id] # None
      BY <1>2, <2>11, <3>2 DEF TypeOK, NoStaleInv, Permitted, PutPc, DeletePc, DeleteRead, Return, Contract!contractVars, Listed, Busy
    <3> QED
      BY <3>1, <3>2
  <2>12. ASSUME NEW p \in Callers, DeleteObject(p) PROVE Contract!CNext
    <3> DEFINE id == call[p].id
    <3>1. id \in Ids /\ busy' = busy /\ busy[id] /\ obj' = [obj EXCEPT ![id] = None]
      BY <1>2, <2>12, <2>b DEF TypeOK, NoStaleInv, Permitted, PutPc, DeletePc, DeleteObject, Busy
    <3>2. listed' = [listed EXCEPT ![id] = {}]
      BY <1>2, <2>12, <3>1 DEF TypeOK, NoStaleInv, Permitted, PutPc, DeletePc, DeleteObject, Listed
    <3>3. Contract!Remove(id)
      BY <3>1, <3>2 DEF Contract!Remove
    <3> QED
      BY <3>1, <3>3 DEF Contract!CNext
  <2>13. ASSUME NEW p \in Callers, DeleteUnindex(p) PROVE UNCHANGED Contract!contractVars
    <3>1. /\ \A e \in idx : e[3] # call[p].id => e \in idx'
          /\ idx' \subseteq idx /\ obj' = obj /\ obj[call[p].id] = None /\ busy' = busy
      BY <1>2, <2>13 DEF TypeOK, NoStaleInv, Permitted, PutPc, DeletePc, DeleteUnindex, InHand, indexKey, Busy
    <3>2. \A i \in Ids : i # call[p].id => ListedIn(idx', i) = ListedIn(idx, i)
      BY <3>1 DEF ListedIn
    <3>3. listed' = listed
      BY <3>1, <3>2 DEF Listed
    <3> QED
      BY <3>1, <3>3 DEF Contract!contractVars
  <2>14. ASSUME NEW p \in Callers, DeleteEmit(p) PROVE Contract!CNext
    <3>1. call[p].id \in Ids /\ obj[call[p].id] = None
      BY <1>2, <2>14, <2>b DEF TypeOK, NoStaleInv, Permitted, PutPc, DeletePc, DeleteEmit, InHand
    <3>2. listed[call[p].id] = CollsOf(obj[call[p].id])
      BY <3>1 DEF Listed, CollsOf
    <3> QED
      BY <1>2, <2>9, <2>14, <3>1, <3>2 DEF TypeOK, NoStaleInv, Permitted, PutPc, DeletePc, DeleteEmit, Return
  <2>15. ASSUME NEW p \in Callers, Abort(p) PROVE Contract!CNext
    <3> DEFINE id == call[p].id
    <3>1. /\ p \in Faults /\ pc[p] # "idle" /\ pc' = [pc EXCEPT ![p] = "idle"]
          /\ call' = [call EXCEPT ![p] = None] /\ obj' = obj /\ idx' = idx
          /\ pc \in [Callers -> {"idle"} \cup PutPc \cup DeletePc]
      BY <2>15, <1>2 DEF Abort, Return, TypeOK
    <3>2. id \in Ids /\ id \in MayPut[p]
      BY <1>2, <2>b, <3>1 DEF DeletesFinish, NoStaleInv, Permitted
    <3>3. busy[id]
      BY <3>1, <3>2 DEF Busy
    <3>4. busy' = [busy EXCEPT ![id] = FALSE]
      <4>1. \A q \in Callers : pc[q] # "idle" /\ call[q].id = id => q = p
        BY <2>a, <3>1
      <4>2. call \in [Callers -> PutCall \cup DeleteCall \cup {None}]
        BY <1>2 DEF TypeOK
      <4>3. ASSUME NEW i \in Ids
            PROVE  Busy(i)' = IF i = id THEN FALSE ELSE Busy(i)
        BY <3>1, <4>1, <4>2 DEF Busy
      <4> QED
        BY <4>3 DEF Busy
    <3>5. Contract!Cut(id)
      BY <2>k, <3>1, <3>2, <3>3, <3>4 DEF Contract!Cut
    <3> QED
      BY <3>2, <3>5 DEF Contract!CNext
  <2> QED
    BY <1>2, <2>1, <2>3, <2>4, <2>5, <2>6, <2>7, <2>8, <2>10, <2>11, <2>12, <2>13, <2>14, <2>15
    DEF Next, CallStep
<1>3. Init => NoStaleInv
  BY NoStaleInvInit
<1>4. TypeOK /\ TypeOK' /\ NoStaleInv /\ [Next]_storeVars => NoStaleInv'
  BY NoStaleInvInductive
<1> QED
  BY <1>1, <1>2, <1>3, <1>4, TypeCorrect, PTL DEF Spec, ContractSpec, Contract!CSpec
=============================================================================
