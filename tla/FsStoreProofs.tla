--------------------------- MODULE FsStoreProofs ---------------------------
(* Theorems about FsStore, for any number of callers, ids and collections. *)
EXTENDS FsStore, ApStoreProofs

\* No two keys of different shape are the same file.
LEMMA KeysApart ==
    /\ \A i : objectKey(i) \notin IndexKeys /\ objectKey(i) # NoKey
    /\ \A i, j : objectKey(i) = objectKey(j) => i = j
    /\ \A c, ts, id : indexKey(c, ts, id) # NoKey
    /\ \A c, ts, id, i : indexKey(c, ts, id) # objectKey(i)
    /\ \A c, ts, id, d, tt, i :
          indexKey(c, ts, id) = indexKey(d, tt, i) => c = d /\ ts = tt /\ id = i
<1>1. \A i : objectKey(i) # NoKey
  BY DEF objectKey, NoKey
<1>2. \A i, j : objectKey(i) = objectKey(j) => i = j
  BY DEF objectKey
<1>3. \A c, ts, id : indexKey(c, ts, id) # NoKey
  BY DEF indexKey, NoKey
<1>4. \A c, ts, id, i : indexKey(c, ts, id) # objectKey(i)
  BY DEF indexKey, objectKey
<1>5. \A i : objectKey(i) \notin IndexKeys
  BY DEF objectKey, IndexKeys
<1>6. \A c, ts, id, d, tt, i :
        indexKey(c, ts, id) = indexKey(d, tt, i) => c = d /\ ts = tt /\ id = i
  BY DEF indexKey
<1> QED
  BY <1>1, <1>2, <1>3, <1>4, <1>5, <1>6

\* Every step of the adapter is a step of the store's calls, or none: a get()
\* that rejects at a torn file is a call cut short, and by the slot whose own
\* write tore the file.
LEMMA FsStepped ==
    ASSUME Exclusive, TypeOK, Permitted, OpenOK, TornObjects, [FNext]_fsVars
    PROVE  [Next]_storeVars
<1> USE StoreAssumption
<1>1. CASE UNCHANGED fsVars
  BY <1>1 DEF fsVars
<1>2. ASSUME NEW p \in Callers, ReadRejects(p) PROVE Next
  <2> DEFINE id == call[p].id
  <2>1. id \in Ids /\ id \in MayPut[p] \cup MayDelete[p] /\ objectKey(id) \in torn
    BY <1>2 DEF ReadRejects, TypeOK, Permitted, PutPc, DeletePc, PutCall, DeleteCall
  <2>2. PICK q \in Callers : id \in MayPut[q] /\ (open[q] = objectKey(id) \/ q \in Faults)
    BY <2>1 DEF TornObjects
  <2>3. q = p
    BY <2>1, <2>2 DEF Exclusive
  <2>4. open[p] # objectKey(id)
    BY <1>2, KeysApart DEF ReadRejects, OpenOK
  <2>5. Abort(p)
    BY <1>2, <2>2, <2>3, <2>4 DEF ReadRejects, Abort
  <2> QED
    BY <2>5 DEF Next
<1>3. ASSUME NEW p \in Callers, OpenObject(p) \/ OpenIndex(p) PROVE UNCHANGED storeVars
  BY <1>3 DEF OpenObject, OpenIndex, Truncate
<1>4. ASSUME NEW p \in Callers,
             WriteObject(p) \/ WriteIndex(p) \/ Read(p) \/ Unlink(p) \/ Rest(p) \/ CutShort(p)
      PROVE  Next
  BY <1>4 DEF WriteObject, WriteIndex, Read, Unlink, Rest, CutShort, Next, CallStep
<1>5. ASSUME ReadNames \/ ReadEntry \/ ReadObject \/ ReadFails \/ ReadReturns
      PROVE  UNCHANGED storeVars
  BY <1>5 DEF ReadNames, ReadEntry, ReadObject, ReadFails, ReadReturns
<1> QED
  BY <1>1, <1>2, <1>3, <1>4, <1>5 DEF FNext

\* The adapter's variables keep their types.
LEMMA FTypeKept ==
    ASSUME TypeOK, FTypeOK, [FNext]_fsVars
    PROVE  FTypeOK'
<1> USE StoreAssumption
<1>1. CASE UNCHANGED fsVars
  BY <1>1 DEF fsVars, FTypeOK
<1>w. ASSUME Watched, torn' \subseteq torn, open' \in [Callers -> Keys \cup {NoKey}]
      PROVE  FTypeOK'
  BY <1>w DEF Watched, FTypeOK
<1>2. ASSUME NEW p \in Callers, OpenObject(p) PROVE FTypeOK'
  <2>1. objectKey(call[p].id) \in Keys
    BY <1>2 DEF OpenObject, TypeOK, PutPc, PutCall, Keys
  <2> QED
    BY <1>2, <2>1 DEF OpenObject, Truncate, FTypeOK
<1>3. ASSUME NEW p \in Callers, OpenIndex(p) PROVE FTypeOK'
  <2>1. PICK c \in todo[p] : Truncate(p, indexKey(c, call[p].ts, call[p].id))
    BY <1>3 DEF OpenIndex
  <2>2. indexKey(c, call[p].ts, call[p].id) \in Keys
    BY <1>3 DEF OpenIndex, TypeOK, PutPc, PutCall, Keys, IndexKeys, indexKey
  <2> QED
    BY <2>1, <2>2 DEF Truncate, FTypeOK
<1>4. ASSUME NEW p \in Callers, WriteObject(p) \/ WriteIndex(p) PROVE FTypeOK'
  BY <1>4, <1>w DEF WriteObject, WriteIndex, Filled, FTypeOK
<1>5. ASSUME NEW p \in Callers, Read(p) \/ Unlink(p) \/ Rest(p) PROVE FTypeOK'
  BY <1>5, <1>w DEF Read, Unlink, Rest, FTypeOK
<1>6. ASSUME NEW p \in Callers, ReadRejects(p) PROVE FTypeOK'
  BY <1>6 DEF ReadRejects, FTypeOK
<1>7. ASSUME NEW p \in Callers, CutShort(p) PROVE FTypeOK'
  BY <1>7 DEF CutShort, FTypeOK
<1>8. CASE ReadNames
  <2>1. {k \in idx \cup (torn \cap IndexKeys) : k[1] = Viewed} \in SUBSET IndexKeys
    BY DEF TypeOK, IndexKeys
  <2>2. InViewed \in SUBSET Ids
    BY DEF InViewed
  <2> QED
    BY <1>8, <2>1, <2>2 DEF ReadNames, NoRead, FTypeOK
<1>9. CASE ReadEntry
  <2>1. PICK k \in reader.keys :
          /\ reader' = [reader EXCEPT !.keys = @ \ {k},
                                      !.ids = IF k \in idx THEN @ \cup {k[3]} ELSE @]
          /\ UNCHANGED <<storeVars, torn, open>>
    BY <1>9 DEF ReadEntry
  <2>2. k[3] \in Ids
    BY DEF FTypeOK, IndexKeys
  <2> DEFINE R == IF k \in idx THEN reader.ids \cup {k[3]} ELSE reader.ids
  <2>3. R \in SUBSET Ids
    BY <2>2 DEF FTypeOK
  <2>4. reader' = [reader EXCEPT !.keys = @ \ {k}, !.ids = R]
    BY <2>1
  <2> HIDE DEF R
  <2> QED
    BY <2>1, <2>3, <2>4, ZenonT(60) DEF FTypeOK
<1>10. CASE ReadObject
  <2>1. PICK id \in reader.ids :
          reader' = [reader EXCEPT !.ids = @ \ {id},
                                   !.docs = IF obj[id] = None THEN @ ELSE @ \cup {id}]
    BY <1>10 DEF ReadObject
  <2> DEFINE R == IF obj[id] = None THEN reader.docs ELSE reader.docs \cup {id}
  <2>2. R \in SUBSET Ids
    BY DEF FTypeOK
  <2>3. reader' = [reader EXCEPT !.ids = @ \ {id}, !.docs = R]
    BY <2>1
  <2> HIDE DEF R
  <2> QED
    BY <1>10, <2>2, <2>3 DEF ReadObject, FTypeOK
<1>11. CASE ReadFails \/ ReadReturns
  BY <1>11 DEF ReadFails, ReadReturns, NoRead, FTypeOK
<1> QED
  BY <1>1, <1>2, <1>3, <1>4, <1>5, <1>6, <1>7, <1>8, <1>9, <1>10, <1>11 DEF FNext

\* A file is open only while its own put is about to fill it.
LEMMA OpenKept ==
    ASSUME TypeOK, FTypeOK, OpenOK, [FNext]_fsVars, Exclusive, Permitted
    PROVE  OpenOK'
<1> USE StoreAssumption
<1>a. \A p, q \in Callers :
        pc[p] # "idle" /\ pc[q] # "idle" /\ p # q => call[p].id # call[q].id
  BY DEF Exclusive, Permitted, TypeOK, PutPc, DeletePc
<1>1. CASE UNCHANGED fsVars
  BY <1>1 DEF fsVars, storeVars, OpenOK
<1>2. ASSUME NEW p \in Callers, OpenObject(p) PROVE OpenOK'
  BY <1>2 DEF OpenObject, Truncate, FTypeOK, OpenOK, storeVars
<1>3. ASSUME NEW p \in Callers, OpenIndex(p) PROVE OpenOK'
  <2>1. PICK c \in todo[p] : Truncate(p, indexKey(c, call[p].ts, call[p].id))
    BY <1>3 DEF OpenIndex
  <2> QED
    BY <1>3, <2>1 DEF OpenIndex, Truncate, FTypeOK, OpenOK, storeVars
<1>4. ASSUME NEW p \in Callers, WriteObject(p) \/ WriteIndex(p) PROVE OpenOK'
  <2>1. /\ open' = [open EXCEPT ![p] = NoKey] /\ torn' = torn \ {open[p]} /\ open[p] # NoKey
        /\ \A q \in Callers \ {p} : pc'[q] = pc[q] /\ call'[q] = call[q] /\ todo'[q] = todo[q]
    BY <1>4 DEF WriteObject, WriteIndex, Filled, PutWrite, PutIndex, TypeOK
  <2>2. \A q \in Callers \ {p} : open[q] # NoKey => open[q] # open[p]
    <3>1. \A q \in Callers : open[q] # NoKey =>
            /\ pc[q] # "idle"
            /\ \/ open[q] = objectKey(call[q].id)
               \/ \E c : open[q] = indexKey(c, call[q].ts, call[q].id)
      BY DEF OpenOK
    <3> QED
      BY <1>a, <2>1, <3>1, KeysApart
  <2> QED
    BY <2>1, <2>2 DEF OpenOK, FTypeOK
<1>5. ASSUME NEW p \in Callers, open[p] = NoKey, open' = open, torn' = torn,
             \A q \in Callers \ {p} : pc'[q] = pc[q] /\ call'[q] = call[q] /\ todo'[q] = todo[q]
      PROVE  OpenOK'
  BY <1>5 DEF OpenOK
<1>6. ASSUME NEW p \in Callers, pc[p] \notin {"unindex", "index"} PROVE open[p] = NoKey
  BY <1>6 DEF OpenOK
<1>7. ASSUME NEW p \in Callers, Read(p) \/ ReadRejects(p) PROVE OpenOK'
  BY <1>5, <1>6, <1>7 DEF Read, ReadRejects, PutRead, DeleteRead, Return, TypeOK
<1>8. ASSUME NEW p \in Callers, Rest(p) PROVE OpenOK'
  BY <1>5, <1>8 DEF Rest, Put, PutBegin, Delete, DeleteBegin, PutEmit, DeleteObject, DeleteEmit,
                    Return, TypeOK
<1>9. ASSUME NEW p \in Callers, Unlink(p) PROVE OpenOK'
  <2>1. /\ open[p] = NoKey /\ pc[p] \in {"unindex", "dunindex"}
        /\ open' = open /\ pc' = pc /\ call' = call
        /\ \A q \in Callers \ {p} : todo'[q] = todo[q]
        /\ torn' = torn \ {indexKey(c, old[p].ts, call[p].id) : c \in todo[p] \ todo'[p]}
    BY <1>9 DEF Unlink, PutUnindex, DeleteUnindex, OpenOK, TypeOK
  <2>2. ASSUME NEW q \in Callers, open[q] # NoKey
        PROVE  open[q] \in torn'
    <3>1. q # p /\ pc[q] # "idle" /\ pc[p] # "idle"
      BY <2>1, <2>2 DEF OpenOK
    <3>2. call[q].id # call[p].id
      BY <1>a, <3>1
    <3>3. /\ open[q] \in torn
          /\ \/ open[q] = objectKey(call[q].id)
             \/ \E c : open[q] = indexKey(c, call[q].ts, call[q].id)
      BY <2>2 DEF OpenOK
    <3>4. \A c : open[q] # indexKey(c, old[p].ts, call[p].id)
      BY <3>2, <3>3, KeysApart
    <3> QED
      BY <2>1, <3>3, <3>4
  <2> QED
    BY <2>1, <2>2 DEF OpenOK
<1>10. ASSUME NEW p \in Callers, CutShort(p) PROVE OpenOK'
  BY <1>10 DEF CutShort, Abort, Return, OpenOK, TypeOK, FTypeOK
<1>11. ASSUME ReadNames \/ ReadEntry \/ ReadObject \/ ReadFails \/ ReadReturns
       PROVE  OpenOK'
  BY <1>11 DEF ReadNames, ReadEntry, ReadObject, ReadFails, ReadReturns, storeVars, OpenOK
<1> QED
  BY <1>1, <1>2, <1>3, <1>4, <1>7, <1>8, <1>9, <1>10, <1>11 DEF FNext

\* No call gets past a torn object file, and no entry of it can appear.
LEMMA TornObjectsKept ==
    ASSUME Exclusive, TypeOK, FTypeOK, Permitted, LeavesNone, OpenOK, TornObjects, TornEntries,
           [FNext]_fsVars
    PROVE  TornObjects'
<1> USE StoreAssumption
<1>a. \A p, q \in Callers :
        pc[p] # "idle" /\ pc[q] # "idle" /\ p # q => call[p].id # call[q].id
  BY DEF Exclusive, Permitted, TypeOK, PutPc, DeletePc
<1> SUFFICES ASSUME NEW id \in Ids, objectKey(id) \in torn'
             PROVE  /\ \E p \in Callers :
                          id \in MayPut[p] /\ (open'[p] = objectKey(id) \/ p \in Faults)
                    /\ \A p \in Callers :
                          pc'[p] \notin {"idle", "get", "dget"} /\ call'[p].id = id
                            => open'[p] = objectKey(id)
                    /\ \A e \in idx' \cup (torn' \cap IndexKeys) : e[3] # id
  BY DEF TornObjects, objectKey, IndexKeys
<1> DEFINE Goal == /\ \E p \in Callers :
                        id \in MayPut[p] /\ (open'[p] = objectKey(id) \/ p \in Faults)
                   /\ \A p \in Callers :
                        pc'[p] \notin {"idle", "get", "dget"} /\ call'[p].id = id
                          => open'[p] = objectKey(id)
                   /\ \A e \in idx' \cup (torn' \cap IndexKeys) : e[3] # id
<1>t. ASSUME objectKey(id) \in torn
      PROVE  /\ \E p \in Callers :
                  id \in MayPut[p] /\ (open[p] = objectKey(id) \/ p \in Faults)
             /\ \A p \in Callers :
                  pc[p] \notin {"idle", "get", "dget"} /\ call[p].id = id
                    => open[p] = objectKey(id)
             /\ \A e \in idx \cup (torn \cap IndexKeys) : e[3] # id
  BY <1>t DEF TornObjects
<1>1. ASSUME open' = open, torn' \subseteq torn, idx' \subseteq idx,
             \A p \in Callers : pc'[p] \notin {"idle", "get", "dget"} /\ call'[p].id = id =>
               pc[p] \notin {"idle", "get", "dget"} /\ call[p].id = id
      PROVE  Goal
  BY <1>1, <1>t
<1>2. ASSUME NEW p \in Callers, OpenObject(p) PROVE Goal
  <2> USE <1>2 DEF OpenObject, Truncate
  <2>0. /\ open' = [open EXCEPT ![p] = objectKey(call[p].id)]
        /\ torn' = torn \cup {objectKey(call[p].id)}
        /\ open[p] = NoKey /\ pc' = pc /\ call' = call /\ idx' = idx
    BY DEF storeVars
  <2>1. \A k \in torn' \cap IndexKeys : k \in torn
    BY <2>0, KeysApart
  <2>2. CASE id = call[p].id
    <3>1. id \in MayPut[p] /\ open'[p] = objectKey(id)
      BY <2>0, <2>2 DEF Permitted, PutPc, FTypeOK
    <3>2. \A q \in Callers : pc[q] # "idle" /\ call[q].id = id => q = p
      BY <1>a, <2>2
    <3>3. \A e \in idx : e[3] # id
      BY <2>2 DEF LeavesNone
    <3>4. \A e \in torn \cap IndexKeys : e[3] # id
      BY <2>2 DEF TornEntries
    <3> QED
      BY <2>0, <2>1, <3>1, <3>2, <3>3, <3>4
  <2>3. CASE id # call[p].id
    <3>1. objectKey(id) \in torn
      BY <2>0, <2>3, KeysApart
    <3>2. \A q \in Callers : open[q] = objectKey(id) => open'[q] = open[q]
      BY <2>0, KeysApart
    <3> QED
      BY <1>t, <2>0, <2>1, <3>1, <3>2
  <2> QED
    BY <2>2, <2>3
<1>3. ASSUME NEW p \in Callers, OpenIndex(p) PROVE Goal
  <2>0. PICK c \in todo[p] : Truncate(p, indexKey(c, call[p].ts, call[p].id))
    BY <1>3 DEF OpenIndex
  <2> DEFINE k == indexKey(c, call[p].ts, call[p].id)
  <2>1. /\ open' = [open EXCEPT ![p] = k] /\ torn' = torn \cup {k}
        /\ open[p] = NoKey /\ pc' = pc /\ call' = call /\ idx' = idx /\ pc[p] = "index"
    BY <1>3, <2>0 DEF OpenIndex, Truncate, storeVars
  <2>2. k # objectKey(id) /\ k[3] = call[p].id
    BY KeysApart DEF indexKey
  <2> HIDE DEF k
  <2>3. objectKey(id) \in torn
    BY <2>1, <2>2
  <2>4. call[p].id # id
    BY <1>t, <2>1, <2>3, KeysApart
  <2>5. \A q \in Callers : open[q] = objectKey(id) => open'[q] = open[q]
    BY <2>1, KeysApart
  <2> QED
    BY <1>t, <2>1, <2>2, <2>3, <2>4, <2>5
<1>4. ASSUME NEW p \in Callers, WriteObject(p) PROVE Goal
  <2>1. /\ open' = [open EXCEPT ![p] = NoKey] /\ torn' = torn \ {open[p]} /\ idx' = idx
        /\ open[p] = objectKey(call[p].id) /\ call' = call
        /\ \A q \in Callers \ {p} : pc'[q] = pc[q]
    BY <1>4 DEF WriteObject, Filled, PutWrite, OpenOK, TypeOK
  <2>2. objectKey(id) \in torn /\ call[p].id # id
    BY <2>1
  <2>3. \A q \in Callers : open[q] = objectKey(id) => open'[q] = open[q]
    BY <2>1, <2>2, KeysApart
  <2> QED
    BY <1>t, <2>1, <2>2, <2>3
<1>5. ASSUME NEW p \in Callers, WriteIndex(p) PROVE Goal
  <2>1. PICK c \in todo[p] : idx' = idx \cup {indexKey(c, call[p].ts, call[p].id)}
    BY <1>5 DEF WriteIndex, PutIndex
  <2>2. /\ open' = [open EXCEPT ![p] = NoKey] /\ torn' = torn \ {open[p]}
        /\ pc' = pc /\ call' = call /\ pc[p] = "index" /\ open[p] # NoKey
    BY <1>5 DEF WriteIndex, Filled, PutIndex
  <2>3. open[p] # objectKey(id)
    BY <2>2, KeysApart DEF OpenOK
  <2>4. objectKey(id) \in torn /\ call[p].id # id
    BY <1>t, <2>2, <2>3
  <2>5. \A q \in Callers : open[q] = objectKey(id) => open'[q] = open[q]
    BY <2>2, <2>3
  <2>6. indexKey(c, call[p].ts, call[p].id)[3] = call[p].id
    BY DEF indexKey
  <2> QED
    BY <1>t, <2>1, <2>2, <2>4, <2>5, <2>6
<1>6. ASSUME NEW p \in Callers, Read(p) PROVE Goal
  <2>1. /\ open' = open /\ torn' = torn /\ idx' = idx /\ call[p].id # id
        /\ \A q \in Callers \ {p} : pc'[q] = pc[q] /\ call'[q] = call[q]
        /\ pc'[p] = "idle" \/ call'[p] = call[p]
    BY <1>6 DEF Read, PutRead, DeleteRead, Return, TypeOK
  <2> QED
    BY <1>1, <2>1
<1>7. ASSUME NEW p \in Callers, ReadRejects(p) PROVE Goal
  BY <1>1, <1>7 DEF ReadRejects, Return, TypeOK
<1>8. ASSUME NEW p \in Callers, Unlink(p) PROVE Goal
  BY <1>1, <1>8 DEF Unlink, PutUnindex, DeleteUnindex
<1>9. ASSUME NEW p \in Callers, Rest(p) PROVE Goal
  <2>1. /\ open' = open /\ torn' = torn /\ idx' = idx /\ open[p] = NoKey
        /\ \A q \in Callers \ {p} : pc'[q] = pc[q] /\ call'[q] = call[q]
    BY <1>9 DEF Rest, Put, PutBegin, Delete, DeleteBegin, PutEmit, DeleteEmit, DeleteObject, Return,
                TypeOK
  <2>2. \/ pc'[p] \in {"idle", "get", "dget"}
        \/ pc[p] = "dobj" /\ call'[p] = call[p]
    BY <1>9 DEF Rest, Put, PutBegin, Delete, DeleteBegin, PutEmit, DeleteEmit, DeleteObject, Return,
                TypeOK
  <2> QED
    BY <1>1, <2>1, <2>2
<1>10. ASSUME NEW p \in Callers, CutShort(p) PROVE Goal
  <2>1. /\ open' = [open EXCEPT ![p] = NoKey] /\ torn' = torn /\ idx' = idx /\ p \in Faults
        /\ \A q \in Callers \ {p} : pc'[q] = pc[q] /\ call'[q] = call[q]
        /\ pc'[p] = "idle"
    BY <1>10 DEF CutShort, Abort, Return, TypeOK
  <2> QED
    BY <1>t, <2>1
<1>11. ASSUME ReadNames \/ ReadEntry \/ ReadObject \/ ReadFails \/ ReadReturns \/ UNCHANGED fsVars
       PROVE  Goal
  BY <1>1, <1>11 DEF ReadNames, ReadEntry, ReadObject, ReadFails, ReadReturns, fsVars, storeVars
<1> QED
  BY <1>2, <1>3, <1>4, <1>5, <1>6, <1>7, <1>8, <1>9, <1>10, <1>11 DEF FNext

\* A torn entry stays one that the next put or delete of its id removes.
LEMMA TornEntriesKept ==
    ASSUME Exclusive, DeletesFinish, TypeOK, FTypeOK, Permitted, InHand, OpenOK, TornEntries,
           [FNext]_fsVars
    PROVE  TornEntries'
<1> USE StoreAssumption
<1>a. \A p, q \in Callers :
        pc[p] # "idle" /\ pc[q] # "idle" /\ p # q => call[p].id # call[q].id
  BY DEF Exclusive, Permitted, TypeOK, PutPc, DeletePc
<1> SUFFICES ASSUME NEW k \in torn' \cap IndexKeys
             PROVE  /\ \/ k \in Entries(k[3], obj'[k[3]])
                       \/ \E p \in Callers :
                            /\ pc'[p] = "dunindex" /\ call'[p].id = k[3]
                            /\ k[1] \in todo'[p] /\ k[2] = old'[p].ts
                    /\ \A p \in Callers :
                          pc'[p] = "unindex" /\ call'[p].id = k[3] => k[1] \in todo'[p]
  BY DEF TornEntries, IndexKeys, Entries, indexKey, CollsOf
<1> DEFINE Goal == /\ \/ k \in Entries(k[3], obj'[k[3]])
                      \/ \E p \in Callers :
                           /\ pc'[p] = "dunindex" /\ call'[p].id = k[3]
                           /\ k[1] \in todo'[p] /\ k[2] = old'[p].ts
                   /\ \A p \in Callers :
                         pc'[p] = "unindex" /\ call'[p].id = k[3] => k[1] \in todo'[p]
<1>k. k = <<k[1], k[2], k[3]>> /\ k[1] \in Colls /\ k[2] \in Times /\ k[3] \in Ids
  BY DEF IndexKeys
<1>t. ASSUME k \in torn
      PROVE  /\ \/ k \in Entries(k[3], obj[k[3]])
                \/ \E p \in Callers :
                     pc[p] = "dunindex" /\ call[p].id = k[3] /\ k[1] \in todo[p] /\ k[2] = old[p].ts
             /\ \A p \in Callers : pc[p] = "unindex" /\ call[p].id = k[3] => k[1] \in todo[p]
  BY <1>t DEF TornEntries
\* A step of p that changes nothing of what another slot works on.
<1>1. ASSUME NEW p \in Callers, k \in torn,
             \A q \in Callers \ {p} : /\ pc'[q] = pc[q] /\ call'[q] = call[q]
                                      /\ todo'[q] = todo[q] /\ old'[q] = old[q],
             obj'[k[3]] = obj[k[3]],
             pc[p] # "dunindex" \/ todo[p] = {}, pc'[p] # "unindex"
      PROVE  Goal
  BY <1>1, <1>t
<1>2. ASSUME NEW p \in Callers, OpenObject(p) PROVE Goal
  <2>1. k \in torn /\ UNCHANGED storeVars
    BY <1>2, KeysApart DEF OpenObject, Truncate
  <2> QED
    BY <1>t, <2>1 DEF storeVars
<1>3. ASSUME NEW p \in Callers, OpenIndex(p) PROVE Goal
  <2>0. PICK c \in todo[p] : Truncate(p, indexKey(c, call[p].ts, call[p].id))
    BY <1>3 DEF OpenIndex
  <2> DEFINE n == indexKey(c, call[p].ts, call[p].id)
  <2>1. torn' = torn \cup {n} /\ pc[p] = "index" /\ UNCHANGED storeVars
    BY <1>3, <2>0 DEF OpenIndex, Truncate
  <2>2. CASE k \in torn
    BY <1>t, <2>1, <2>2 DEF storeVars
  <2>3. CASE k = n
    <3>1. k[3] = call[p].id /\ k[2] = call[p].ts /\ k[1] \in call[p].colls
      BY <2>1, <2>3 DEF indexKey, TypeOK
    <3>2. obj[k[3]] # None /\ obj[k[3]].ts = call[p].ts /\ obj[k[3]].colls = call[p].colls
      BY <2>1, <3>1 DEF InHand
    <3>3. k \in Entries(k[3], obj[k[3]])
      BY <1>k, <3>1, <3>2 DEF Entries, indexKey, CollsOf
    <3>4. \A q \in Callers : pc[q] = "unindex" => call[q].id # k[3]
      BY <1>a, <2>1, <3>1
    <3> QED
      BY <2>1, <3>3, <3>4 DEF storeVars
  <2> QED
    BY <2>1, <2>2, <2>3
<1>4. ASSUME NEW p \in Callers, WriteObject(p) PROVE Goal
  <2>1. /\ k \in torn /\ pc[p] = "unindex" /\ todo[p] = {} /\ pc'[p] = "index"
        /\ \A q \in Callers \ {p} : /\ pc'[q] = pc[q] /\ call'[q] = call[q]
                                     /\ todo'[q] = todo[q] /\ old'[q] = old[q]
        /\ \A i \in Ids : i # call[p].id => obj'[i] = obj[i]
    BY <1>4 DEF WriteObject, Filled, PutWrite, TypeOK
  <2>2. k[3] # call[p].id
    BY <1>t, <2>1
  <2> QED
    BY <1>1, <1>k, <2>1, <2>2
<1>5. ASSUME NEW p \in Callers, WriteIndex(p) PROVE Goal
  BY <1>1, <1>5 DEF WriteIndex, Filled, PutIndex, TypeOK
<1>6. ASSUME NEW p \in Callers, Read(p), PutRead(p) PROVE Goal
  <2>1. /\ k \in torn /\ pc[p] = "get" /\ pc'[p] = "unindex"
        /\ obj' = obj /\ call' = call /\ todo'[p] = CollsOf(obj[call[p].id])
        /\ \A q \in Callers \ {p} : /\ pc'[q] = pc[q]
                                     /\ todo'[q] = todo[q] /\ old'[q] = old[q]
    BY <1>6 DEF Read, PutRead, TypeOK
  <2>2. ASSUME call[p].id = k[3] PROVE k[1] \in CollsOf(obj[k[3]])
    <3>1. \A q \in Callers : pc[q] = "dunindex" => call[q].id # k[3]
      BY <1>a, <2>1, <2>2
    <3>2. k \in Entries(k[3], obj[k[3]])
      BY <1>t, <2>1, <3>1
    <3> QED
      BY <3>2 DEF Entries, indexKey
  <2> QED
    BY <1>t, <2>1, <2>2
<1>7. ASSUME NEW p \in Callers, Read(p), DeleteRead(p) PROVE Goal
  BY <1>1, <1>7 DEF Read, DeleteRead, Return, TypeOK
<1>8. ASSUME NEW p \in Callers, ReadRejects(p) PROVE Goal
  BY <1>1, <1>8 DEF ReadRejects, Return, TypeOK
<1>9. ASSUME NEW p \in Callers, Unlink(p) PROVE Goal
  <2>1. PICK c \in todo[p] : todo' = [todo EXCEPT ![p] = @ \ {c}]
    BY <1>9 DEF Unlink, PutUnindex, DeleteUnindex
  <2>2. /\ k \in torn /\ k # indexKey(c, old[p].ts, call[p].id)
        /\ obj' = obj /\ pc' = pc /\ call' = call /\ old' = old
        /\ pc[p] \in {"unindex", "dunindex"}
    BY <1>9, <2>1 DEF Unlink, PutUnindex, DeleteUnindex, TypeOK
  <2>3. k[1] = c /\ k[2] = old[p].ts => k[3] # call[p].id
    BY <1>k, <2>2 DEF indexKey
  <2>4. ASSUME pc[p] = "unindex", call[p].id = k[3]
        PROVE  k[1] \in todo[p] /\ k[2] = old[p].ts /\ k \in Entries(k[3], obj[k[3]])
    <3>1. \A q \in Callers : pc[q] = "dunindex" => call[q].id # k[3]
      BY <1>a, <2>4
    <3>2. k[1] \in todo[p] /\ k \in Entries(k[3], obj[k[3]])
      BY <1>t, <2>2, <2>4, <3>1
    <3>3. k[2] = obj[k[3]].ts
      BY <3>2 DEF Entries, indexKey
    <3> QED
      BY <2>4, <3>2, <3>3 DEF InHand
  <2>5. todo \in [Callers -> SUBSET Colls]
    BY DEF TypeOK
  <2>6. \A q \in Callers : pc[q] = "unindex" /\ call[q].id = k[3] => k[1] \in todo'[q]
    BY <1>t, <2>1, <2>2, <2>3, <2>4, <2>5
  <2>7. \A q \in Callers :
          pc[q] = "dunindex" /\ call[q].id = k[3] /\ k[1] \in todo[q] /\ k[2] = old[q].ts
            => k[1] \in todo'[q]
    BY <2>1, <2>3, <2>5
  <2> QED
    BY <1>t, <2>2, <2>6, <2>7
<1>10. ASSUME NEW p \in Callers, Rest(p), ~DeleteObject(p) PROVE Goal
  BY <1>1, <1>10 DEF Rest, Put, PutBegin, Delete, DeleteBegin, PutEmit, DeleteEmit, Return, TypeOK
<1>11. ASSUME NEW p \in Callers, Rest(p), DeleteObject(p) PROVE Goal
  <2>1. /\ k \in torn /\ pc[p] = "dobj" /\ pc'[p] = "dunindex" /\ call' = call /\ old' = old
        /\ todo'[p] = old[p].colls /\ old[p] = obj[call[p].id] /\ old[p] \in Record
        /\ \A q \in Callers \ {p} : pc'[q] = pc[q] /\ todo'[q] = todo[q]
        /\ \A i \in Ids : i # call[p].id => obj'[i] = obj[i]
    BY <1>11 DEF Rest, DeleteObject, InHand, TypeOK
  <2>2. CASE k[3] # call[p].id
    BY <1>1, <1>k, <2>1, <2>2
  <2>3. CASE k[3] = call[p].id
    <3>1. \A q \in Callers : q # p /\ pc[q] # "idle" => call[q].id # k[3]
      BY <1>a, <2>1, <2>3
    <3>2. k \in Entries(k[3], old[p])
      BY <1>t, <2>1, <2>3, <3>1
    <3>3. k[1] \in old[p].colls /\ k[2] = old[p].ts
      BY <2>1, <3>2 DEF Entries, indexKey, CollsOf
    <3> QED
      BY <2>1, <2>3, <3>1, <3>3
  <2> QED
    BY <2>2, <2>3
<1>12. ASSUME NEW p \in Callers, CutShort(p) PROVE Goal
  <2>1. pc[p] # "dunindex"
    BY <1>12 DEF CutShort, Abort, DeletesFinish, Permitted, DeletePc
  <2> QED
    BY <1>1, <1>12, <2>1 DEF CutShort, Abort, Return, TypeOK
<1>13. ASSUME ReadNames \/ ReadEntry \/ ReadObject \/ ReadFails \/ ReadReturns \/ UNCHANGED fsVars
       PROVE  Goal
  <2>1. k \in torn /\ UNCHANGED storeVars
    BY <1>13 DEF ReadNames, ReadEntry, ReadObject, ReadFails, ReadReturns, fsVars
  <2> QED
    BY <1>t, <2>1 DEF storeVars
<1>14. ASSUME NEW p \in Callers, Read(p) PROVE Goal
  BY <1>6, <1>7, <1>14 DEF Read
<1> QED
  BY <1>2, <1>3, <1>4, <1>5, <1>8, <1>9, <1>10, <1>11, <1>12, <1>13, <1>14 DEF FNext

\* What the reader has still to come to of a document that stays in Viewed is
\* there when it comes: an entry of a stored record is the only one it has in
\* its collection, so nothing removes it and leaves the document listed.
LEMMA ReaderKept ==
    ASSUME TypeOK, TypeOK', NoStaleInv, NoStaleInv', FTypeOK, ReaderOK, [FNext]_fsVars
    PROVE  ReaderOK'
<1> USE StoreAssumption, FsAssumption
<1>r. /\ reader.stayed \subseteq InViewed
      /\ \A id \in reader.stayed \ (reader.ids \cup reader.docs) :
            \E k \in reader.keys \cap idx : k[1] = Viewed /\ k[3] = id
  BY DEF ReaderOK
<1>i. InViewed = {id \in Ids : obj[id] # None /\ \E e \in idx : e[1] = Viewed /\ e[3] = id}
  BY DEF InViewed, Listed, ListedIn
<1>j. InViewed' = {id \in Ids : obj'[id] # None /\ \E e \in idx' : e[1] = Viewed /\ e[3] = id}
  BY DEF InViewed, Listed, ListedIn
<1>0. ASSUME UNCHANGED <<obj, idx, reader>> PROVE ReaderOK'
  BY <1>0, <1>r, <1>i, <1>j DEF ReaderOK
<1>1. ASSUME Watched, \A k \in idx \ idx' : k[3] \notin InViewed' \/ k[1] # Viewed
      PROVE  ReaderOK'
  <2>1. /\ reader'.stayed = reader.stayed \cap InViewed' /\ reader'.keys = reader.keys
        /\ reader'.ids = reader.ids /\ reader'.docs = reader.docs
    BY <1>1 DEF Watched, FTypeOK
  <2> QED
    BY <1>1, <1>r, <2>1 DEF ReaderOK
<1>2. ASSUME NEW p \in Callers, Unlink(p) PROVE ReaderOK'
  <2>1. PICK c \in todo[p] : idx' = idx \ {indexKey(c, old[p].ts, call[p].id)}
    BY <1>2 DEF Unlink, PutUnindex, DeleteUnindex
  <2> DEFINE k == indexKey(c, old[p].ts, call[p].id)
  <2>2. k[1] = c /\ k[2] = old[p].ts /\ k[3] = call[p].id /\ obj' = obj
    BY <1>2 DEF indexKey, Unlink, PutUnindex, DeleteUnindex
  <2>3. ASSUME k[3] \in InViewed', k[1] = Viewed PROVE FALSE
    <3>1. PICK e \in idx' : e[1] = Viewed /\ e[3] = k[3] /\ obj[k[3]] # None
      BY <1>j, <2>2, <2>3
    <3>2. old[p].ts = obj[k[3]].ts
      BY <1>2, <2>2, <3>1 DEF Unlink, PutUnindex, DeleteUnindex, NoStaleInv, InHand
    <3>3. e \in Entries(e[3], obj[e[3]])
      BY <2>2, <3>1 DEF NoStaleInv, NoStale
    <3>4. e = indexKey(c, old[p].ts, call[p].id)
      BY <2>2, <2>3, <3>1, <3>2, <3>3 DEF Entries, indexKey
    <3> QED
      BY <2>1, <3>1, <3>4
  <2> QED
    BY <1>1, <1>2, <2>1, <2>3 DEF Unlink
<1>3. ASSUME NEW p \in Callers, WriteObject(p) \/ WriteIndex(p) \/ Read(p) \/ Rest(p)
      PROVE  ReaderOK'
  <2>1. idx \subseteq idx' /\ Watched
    BY <1>3 DEF WriteObject, WriteIndex, Filled, Read, Rest, PutWrite, PutIndex, PutRead, DeleteRead,
                Put, PutBegin, Delete, DeleteBegin, PutEmit, DeleteObject, DeleteEmit
  <2> QED
    BY <1>1, <2>1
<1>4. ASSUME NEW p \in Callers, OpenObject(p) \/ OpenIndex(p) \/ ReadRejects(p) \/ CutShort(p)
      PROVE  ReaderOK'
  BY <1>0, <1>4 DEF OpenObject, OpenIndex, Truncate, ReadRejects, CutShort, Abort, storeVars
<1>5. CASE ReadNames
  <2>1. /\ reader'.keys = {k \in idx \cup (torn \cap IndexKeys) : k[1] = Viewed}
        /\ reader'.ids = {} /\ reader'.docs = {} /\ reader'.stayed = InViewed
        /\ obj' = obj /\ idx' = idx
    BY <1>5 DEF ReadNames, NoRead, storeVars
  <2> QED
    BY <1>i, <1>j, <2>1 DEF ReaderOK
<1>6. CASE ReadEntry
  <2>1. PICK k \in reader.keys \ torn :
          /\ reader' = [reader EXCEPT !.keys = @ \ {k},
                                      !.ids = IF k \in idx THEN @ \cup {k[3]} ELSE @]
          /\ UNCHANGED <<storeVars, torn, open>>
    BY <1>6 DEF ReadEntry
  <2>2. /\ reader'.keys = reader.keys \ {k} /\ reader'.stayed = reader.stayed
        /\ reader'.ids = (IF k \in idx THEN reader.ids \cup {k[3]} ELSE reader.ids)
        /\ reader'.docs = reader.docs /\ obj' = obj /\ idx' = idx
    BY <2>1 DEF FTypeOK, storeVars
  <2>3. InViewed' = InViewed
    BY <1>i, <1>j, <2>2
  <2> QED
    BY <1>r, <2>2, <2>3 DEF ReaderOK
<1>7. CASE ReadObject
  <2>1. PICK id \in reader.ids :
          reader' = [reader EXCEPT !.ids = @ \ {id},
                                   !.docs = IF obj[id] = None THEN @ ELSE @ \cup {id}]
    BY <1>7 DEF ReadObject
  <2>2. /\ reader'.ids = reader.ids \ {id} /\ reader'.stayed = reader.stayed
        /\ reader'.docs = (IF obj[id] = None THEN reader.docs ELSE reader.docs \cup {id})
        /\ reader'.keys = reader.keys /\ obj' = obj /\ idx' = idx
    BY <1>7, <2>1 DEF ReadObject, FTypeOK, storeVars
  <2>3. InViewed' = InViewed
    BY <1>i, <1>j, <2>2
  <2>4. id \in reader.stayed => obj[id] # None
    BY <1>r, <1>i
  <2> QED
    BY <1>r, <2>2, <2>3, <2>4 DEF ReaderOK
<1>8. CASE ReadFails \/ ReadReturns
  <2>1. reader'.stayed = {}
    BY <1>8 DEF ReadFails, ReadReturns, NoRead
  <2> QED
    BY <2>1 DEF ReaderOK
<1>9. CASE UNCHANGED fsVars
  BY <1>0, <1>9 DEF fsVars, storeVars
<1> QED
  BY <1>2, <1>3, <1>4, <1>5, <1>6, <1>7, <1>8, <1>9 DEF FNext

\* The adapter's invariant, with that of the calls it serves.
LEMMA FsInvHolds ==
    ASSUME Exclusive, DeletesFinish
    PROVE  FSpec => [](TypeOK /\ NoStaleInv /\ FsInv)
<1> USE StoreAssumption
<1>1. FInit => TypeOK /\ NoStaleInv /\ FsInv
  <2>1. FInit => TypeOK
    BY DEF FInit, Init, TypeOK, PutPc, DeletePc
  <2>2. FInit => FsInv
    BY DEF FInit, NoRead, FsInv, FTypeOK, OpenOK, TornObjects, TornEntries, ReaderOK
  <2> QED
    BY <2>1, <2>2, NoStaleInvInit DEF FInit
<1>2. ASSUME TypeOK, NoStaleInv, FsInv, [FNext]_fsVars
      PROVE  TypeOK' /\ NoStaleInv' /\ FsInv'
  <2>0. /\ FTypeOK /\ OpenOK /\ TornObjects /\ TornEntries /\ ReaderOK
        /\ Permitted /\ InHand /\ LeavesNone
    BY <1>2 DEF FsInv, NoStaleInv
  <2>1. [Next]_storeVars
    BY <1>2, <2>0, FsStepped
  <2>2. TypeOK'
    BY <1>2, <2>1, TypeKept
  <2>3. NoStaleInv'
    BY <1>2, <2>1, <2>2, NoStaleInvInductive
  <2>4. FTypeOK' /\ OpenOK' /\ TornObjects' /\ TornEntries'
    BY <1>2, <2>0, FTypeKept, OpenKept, TornObjectsKept, TornEntriesKept
  <2>5. ReaderOK'
    BY <1>2, <2>0, <2>2, <2>3, ReaderKept
  <2> QED
    BY <2>2, <2>3, <2>4, <2>5 DEF FsInv
<1> QED
  BY <1>1, <1>2, PTL DEF FSpec

\* The store over files is the store of ApStore: truncated files, rejected
\* reads and removals in between are nothing its calls cannot already meet
\* (fs-adapter.js:28-72).
THEOREM FsStoreUsed ==
    ASSUME Exclusive, DeletesFinish
    PROVE  FSpec => Spec
<1>1. FInit => Init
  BY DEF FInit
<1>2. TypeOK /\ NoStaleInv /\ FsInv /\ [FNext]_fsVars => [Next]_storeVars
  BY FsStepped DEF NoStaleInv, FsInv
<1> QED
  BY <1>1, <1>2, FsInvHolds, PTL DEF FSpec, Spec

\* So what is proved of ApStore holds of it on the relay's disc: the contract
\* of put() and delete() that a reader of collections relies on.
THEOREM FsContractImplemented ==
    ASSUME Exclusive, DeletesFinish
    PROVE  FSpec => ContractSpec
BY FsStoreUsed, ContractImplemented, PTL

\* And that no index entry outlives the record it was written for.
THEOREM FsNoStaleCorrect ==
    ASSUME Exclusive, DeletesFinish
    PROVE  FSpec => []NoStale
BY FsStoreUsed, NoStaleCorrect, PTL

\* An answered getChildren() has every document that was in the collection all
\* the while it read, whatever puts and deletes did to the files between its
\* readdir() and its reads (fs-adapter.js:56-72, store.js:158-170).
THEOREM ListedThroughoutCorrect ==
    ASSUME Exclusive, DeletesFinish
    PROVE  FSpec => []ListedThroughout
<1>1. FsInv => ListedThroughout
  BY DEF FsInv, ReaderOK, ListedThroughout, Answered
<1> QED
  BY <1>1, FsInvHolds, PTL

\* A file that a crash left truncated spoils its own id and nothing else: as an
\* object it is in no collection, as an entry it is one that the next put or
\* delete of its id removes (store.js:116-127, fs-adapter.js:35-38).
THEOREM TornContainedCorrect ==
    ASSUME Exclusive, DeletesFinish
    PROVE  FSpec => []TornContained
<1>1. FsInv => TornContained
  <2> SUFFICES ASSUME FsInv, NEW k \in torn \ {open[p] : p \in Callers}
               PROVE  \/ /\ k \notin IndexKeys
                         /\ \A e \in idx \cup (torn \cap IndexKeys) : objectKey(e[3]) # k
                      \/ /\ k \in IndexKeys
                         /\ \/ k \in Entries(k[3], obj[k[3]])
                            \/ \E p \in Callers :
                                 /\ pc[p] = "dunindex" /\ call[p].id = k[3]
                                 /\ k[1] \in todo[p] /\ k[2] = old[p].ts
    BY DEF TornContained
  <2>1. CASE k \in IndexKeys
    BY <2>1 DEF FsInv, TornEntries
  <2>2. CASE k \notin IndexKeys
    <3>1. PICK id \in Ids : k = objectKey(id)
      BY <2>2 DEF FsInv, FTypeOK, Keys
    <3>2. \A e \in idx \cup (torn \cap IndexKeys) : e[3] # id
      BY <3>1 DEF FsInv, TornObjects
    <3> QED
      BY <2>2, <3>1, <3>2, KeysApart
  <2> QED
    BY <2>1, <2>2
<1> QED
  BY <1>1, FsInvHolds, PTL
=============================================================================
