------------------------------ MODULE ApStore ------------------------------
(***************************************************************************)
(* The persistent tier of packages/ap-store: ApStore.put() and delete()    *)
(* over an ordered key-value adapter.                                      *)
(*                                                                         *)
(* Both are async functions: every `await` on the adapter is a point where *)
(* the steps of another call may run (the relay's FsAdapter completes its  *)
(* file operations in any order).  One action below is one adapter call,   *)
(* with the synchronous code that follows it.                              *)
(***************************************************************************)
EXTENDS Naturals

CONSTANTS
    Callers,     \* slots for calls that can be in flight at the same time
    Ids,         \* document ids
    Colls,       \* collection ids
    Docs,        \* document bodies
    Times,       \* the timestamps a put may carry: Date.now(), or options.ts
    None,        \* what adapter.get() returns when nothing is stored
    MayPut,      \* MayPut[p]: the ids the calls of slot p put
    MayDelete,   \* MayDelete[p]: the ids the calls of slot p delete
    Placements,  \* Placements[id]: the collection sets id is put under
    UniqueTs,    \* TRUE: no two puts carry the same timestamp
    Faults       \* the slots whose calls may be cut short, by an adapter that
                 \* rejects or a process that stops

VARIABLES
    obj,   \* obj[id]: the record stored under obj/<id>, or None
    idx,   \* the idx/ keys present
    used,  \* the timestamps puts have carried so far
    pc,    \* pc[p]: where the call in slot p stands
    call,  \* call[p]: the arguments of that call
    old,   \* old[p]: the record that call read first
    todo   \* todo[p]: the collections its current loop has still to visit

storeVars == <<obj, idx, used, pc, call, old, todo>>

Record == [ts : Times, doc : Docs, colls : SUBSET Colls]
PutCall == [id : Ids, ts : Times, doc : Docs, colls : SUBSET Colls]
DeleteCall == [id : Ids]

PutPc == {"get", "unindex", "index"}
DeletePc == {"dget", "dobj", "dunindex"}

ASSUME StoreAssumption ==
    /\ None \notin Record
    /\ MayPut \in [Callers -> SUBSET Ids]
    /\ MayDelete \in [Callers -> SUBSET Ids]
    /\ Placements \in [Ids -> SUBSET SUBSET Colls]
    /\ UniqueTs \in BOOLEAN
    /\ Faults \subseteq Callers

\* indexKey(): one key per collection, timestamp and id.
indexKey(c, ts, id) == <<c, ts, id>>

\* The collections a record, or its absence, lists its id under.
CollsOf(r) == IF r = None THEN {} ELSE r.colls

\* The index keys that belong to record r of id.
Entries(id, r) == {indexKey(c, r.ts, id) : c \in CollsOf(r)}

\* A call on id is in flight.
Busy(id) == \E p \in Callers : pc[p] # "idle" /\ call[p].id = id

-----------------------------------------------------------------------------
Init ==
    /\ obj = [id \in Ids |-> None]
    /\ idx = {}
    /\ used = {}
    /\ pc = [p \in Callers |-> "idle"]
    /\ call = [p \in Callers |-> None]
    /\ old = [p \in Callers |-> None]
    /\ todo = [p \in Callers |-> {}]

\* The call in slot p returns, or rejects: its local variables are gone.
Return(p) ==
    /\ pc' = [pc EXCEPT ![p] = "idle"]
    /\ call' = [call EXCEPT ![p] = None]
    /\ old' = [old EXCEPT ![p] = None]
    /\ todo' = [todo EXCEPT ![p] = {}]

-----------------------------------------------------------------------------
\* put(doc, { collections, ts }): the arguments are evaluated, ts included.
PutBegin(p, id, doc, cs, ts) ==
    /\ pc[p] = "idle"
    /\ UniqueTs => ts \notin used
    /\ used' = used \cup {ts}
    /\ pc' = [pc EXCEPT ![p] = "get"]
    /\ call' = [call EXCEPT ![p] = [id |-> id, ts |-> ts, doc |-> doc, colls |-> cs]]
    /\ UNCHANGED <<obj, idx, old, todo>>

\* Mutant of PutRead: the collections of the new record are cleaned up.
PutReadNewColls(p) ==
    /\ pc[p] = "get"
    /\ old' = [old EXCEPT ![p] = obj[call[p].id]]
    /\ todo' = [todo EXCEPT ![p] = call[p].colls]
    /\ pc' = [pc EXCEPT ![p] = "unindex"]
    /\ UNCHANGED <<obj, idx, used, call>>

\* Mutant of PutRead: a re-put leaves the old index entries where they are.
PutReadNoCleanup(p) ==
    /\ pc[p] = "get"
    /\ old' = [old EXCEPT ![p] = obj[call[p].id]]
    /\ pc' = [pc EXCEPT ![p] = "unindex"]
    /\ UNCHANGED <<obj, idx, used, call, todo>>

\* const existing = await adapter.get(objectKey(doc.id))
PutRead(p) ==
    /\ pc[p] = "get"
    /\ old' = [old EXCEPT ![p] = obj[call[p].id]]
    /\ todo' = [todo EXCEPT ![p] = CollsOf(obj[call[p].id])]
    /\ pc' = [pc EXCEPT ![p] = "unindex"]
    /\ UNCHANGED <<obj, idx, used, call>>

\* await adapter.delete(indexKey(c, existing.ts, doc.id)), once per collection
PutUnindex(p) ==
    /\ pc[p] = "unindex"
    /\ \E c \in todo[p] :
        /\ idx' = idx \ {indexKey(c, old[p].ts, call[p].id)}
        /\ todo' = [todo EXCEPT ![p] = @ \ {c}]
    /\ UNCHANGED <<obj, used, pc, call, old>>

\* Mutant of PutWrite: a collection the old record named is not indexed again.
PutWriteSkips(p) ==
    /\ pc[p] = "unindex"
    /\ todo[p] = {}
    /\ obj' = [obj EXCEPT ![call[p].id] =
                 [ts |-> call[p].ts, doc |-> call[p].doc, colls |-> call[p].colls]]
    /\ todo' = [todo EXCEPT ![p] = call[p].colls \ CollsOf(old[p])]
    /\ pc' = [pc EXCEPT ![p] = "index"]
    /\ UNCHANGED <<idx, used, call, old>>

\* await adapter.put(objectKey(doc.id), { ts, doc, collections })
PutWrite(p) ==
    /\ pc[p] = "unindex"
    /\ todo[p] = {}
    /\ obj' = [obj EXCEPT ![call[p].id] =
                 [ts |-> call[p].ts, doc |-> call[p].doc, colls |-> call[p].colls]]
    /\ todo' = [todo EXCEPT ![p] = call[p].colls]
    /\ pc' = [pc EXCEPT ![p] = "index"]
    /\ UNCHANGED <<idx, used, call, old>>

\* await adapter.put(indexKey(c, ts, doc.id), doc.id), once per collection
PutIndex(p) ==
    /\ pc[p] = "index"
    /\ \E c \in todo[p] :
        /\ idx' = idx \cup {indexKey(c, call[p].ts, call[p].id)}
        /\ todo' = [todo EXCEPT ![p] = @ \ {c}]
    /\ UNCHANGED <<obj, used, pc, call, old>>

\* emit('change', { id, doc, collections, ts }) and return
PutEmit(p) ==
    /\ pc[p] = "index"
    /\ todo[p] = {}
    /\ Return(p)
    /\ UNCHANGED <<obj, idx, used>>

-----------------------------------------------------------------------------
DeleteBegin(p, id) ==
    /\ pc[p] = "idle"
    /\ pc' = [pc EXCEPT ![p] = "dget"]
    /\ call' = [call EXCEPT ![p] = [id |-> id]]
    /\ UNCHANGED <<obj, idx, used, old, todo>>

\* const record = await adapter.get(objectKey(id)); if (!record) return
DeleteRead(p) ==
    /\ pc[p] = "dget"
    /\ \/ /\ obj[call[p].id] = None
          /\ Return(p)
       \/ /\ obj[call[p].id] # None
          /\ old' = [old EXCEPT ![p] = obj[call[p].id]]
          /\ pc' = [pc EXCEPT ![p] = "dobj"]
          /\ UNCHANGED <<call, todo>>
    /\ UNCHANGED <<obj, idx, used>>

\* await adapter.delete(objectKey(id))
DeleteObject(p) ==
    /\ pc[p] = "dobj"
    /\ obj' = [obj EXCEPT ![call[p].id] = None]
    /\ todo' = [todo EXCEPT ![p] = old[p].colls]
    /\ pc' = [pc EXCEPT ![p] = "dunindex"]
    /\ UNCHANGED <<idx, used, call, old>>

\* await adapter.delete(indexKey(c, record.ts, id)), once per collection
DeleteUnindex(p) ==
    /\ pc[p] = "dunindex"
    /\ \E c \in todo[p] :
        /\ idx' = idx \ {indexKey(c, old[p].ts, call[p].id)}
        /\ todo' = [todo EXCEPT ![p] = @ \ {c}]
    /\ UNCHANGED <<obj, used, pc, call, old>>

\* emit('change', { id, doc: null, collections }) and return
DeleteEmit(p) ==
    /\ pc[p] = "dunindex"
    /\ todo[p] = {}
    /\ Return(p)
    /\ UNCHANGED <<obj, idx, used>>

-----------------------------------------------------------------------------
\* An adapter call of p rejects and put() or delete() rejects with it, or the
\* process stops there: what was written stays written, nothing is undone.
Abort(p) ==
    /\ p \in Faults
    /\ pc[p] # "idle"
    /\ Return(p)
    /\ UNCHANGED <<obj, idx, used>>

Put(p) ==
    \E id \in MayPut[p], doc \in Docs, ts \in Times :
        \E cs \in Placements[id] : PutBegin(p, id, doc, cs, ts)

Delete(p) == \E id \in MayDelete[p] : DeleteBegin(p, id)

\* The next step of a call that has been made.
CallStep(p) ==
    \/ PutRead(p) \/ PutUnindex(p) \/ PutWrite(p) \/ PutIndex(p) \/ PutEmit(p)
    \/ DeleteRead(p) \/ DeleteObject(p) \/ DeleteUnindex(p) \/ DeleteEmit(p)

Next == \E p \in Callers : Put(p) \/ Delete(p) \/ CallStep(p) \/ Abort(p)

Spec == Init /\ [][Next]_storeVars

-----------------------------------------------------------------------------
\* How the store is used, for the properties that depend on it: no id is
\* touched by the calls of two slots; no call deletes; no delete is cut short.
Exclusive ==
    \A p, q \in Callers :
        p # q => (MayPut[p] \cup MayDelete[p]) \cap (MayPut[q] \cup MayDelete[q]) = {}

NoDeletes == \A p \in Callers : MayDelete[p] = {}

DeletesFinish == \A p \in Faults : MayDelete[p] = {}

-----------------------------------------------------------------------------
\* Every variable keeps its type; a call holds a record exactly where the code
\* has one in hand.
TypeOK ==
    /\ obj \in [Ids -> Record \cup {None}]
    /\ idx \subseteq Colls \X Times \X Ids
    /\ used \subseteq Times
    /\ pc \in [Callers -> {"idle"} \cup PutPc \cup DeletePc]
    /\ call \in [Callers -> PutCall \cup DeleteCall \cup {None}]
    /\ old \in [Callers -> Record \cup {None}]
    /\ todo \in [Callers -> SUBSET Colls]
    /\ \A p \in Callers :
        /\ pc[p] \in PutPc => call[p] \in PutCall
        /\ pc[p] \in DeletePc => call[p] \in DeleteCall
        /\ pc[p] \in {"dobj", "dunindex"} => old[p] \in Record
        /\ pc[p] \in {"unindex", "dunindex"} => todo[p] \subseteq CollsOf(old[p])
        /\ pc[p] = "index" => todo[p] \subseteq call[p].colls

\* Once no call on an id is in flight, getChildren() of every collection the
\* stored record names lists the id: no interleaving of re-puts and deletes,
\* each cleaning up the entries of a record it read earlier, may remove an
\* entry of the record that won (store.js:111-128, 137-150).
Complete ==
    \A id \in Ids : ~Busy(id) => Entries(id, obj[id]) \subseteq idx

\* put()'s own comment (store.js:112-115): a re-put replaces the index entries
\* of the id, so getChildren() never returns it twice, and lists it nowhere
\* the stored record does not name.  Only a delete in progress leaves entries
\* behind a missing object, which getChildren() skips.
NoStale ==
    \A e \in idx :
        \/ e \in Entries(e[3], obj[e[3]])
        \/ /\ obj[e[3]] = None
           /\ \E p \in Callers :
                pc[p] = "dunindex" /\ call[p].id = e[3] /\ e[1] \in todo[p] /\ e[2] = old[p].ts

-----------------------------------------------------------------------------
\* Why Complete holds.  An entry that is missing is owed by a put that has
\* still to write the object, or by the put that wrote it.
Owed ==
    \A id \in Ids : \A c \in CollsOf(obj[id]) :
        \/ indexKey(c, obj[id].ts, id) \in idx
        \/ \E p \in Callers :
            /\ pc[p] \in PutPc
            /\ call[p].id = id
            /\ \/ pc[p] = "unindex"
               \/ pc[p] = "index" /\ call[p].ts = obj[id].ts /\ c \in todo[p]

\* A delete that removes entries removes none of the current record.
DeletesPast ==
    \A p \in Callers : pc[p] = "dunindex" =>
        \/ obj[call[p].id] = None
        \/ obj[call[p].id].ts # old[p].ts

\* The timestamp of a put that has not written yet is nobody else's.
UnwrittenTsFresh ==
    /\ \A id \in Ids : obj[id] # None => obj[id].ts \in used
    /\ \A q \in Callers : old[q] # None => old[q].ts \in used
    /\ \A q \in Callers : pc[q] \in PutPc => call[q].ts \in used
    /\ \A p \in Callers : pc[p] \in {"get", "unindex"} =>
        /\ \A id \in Ids : obj[id] # None => obj[id].ts # call[p].ts
        /\ \A q \in Callers : old[q] # None => old[q].ts # call[p].ts
        /\ \A q \in Callers \ {p} : pc[q] \in PutPc => call[q].ts # call[p].ts

\* A call touches only ids its slot may touch.
Permitted ==
    \A p \in Callers :
        /\ pc[p] \in PutPc => call[p].id \in MayPut[p]
        /\ pc[p] \in DeletePc => call[p].id \in MayDelete[p]

\* The inductive invariant behind Complete.
CompleteInv == Permitted /\ Owed /\ DeletesPast /\ (UniqueTs => UnwrittenTsFresh)

\* Why NoStale holds.  The record a call has in hand is the stored one.
InHand ==
    \A p \in Callers :
        /\ pc[p] \in {"unindex", "dobj"} => old[p] = obj[call[p].id]
        /\ pc[p] = "dunindex" => obj[call[p].id] = None
        /\ pc[p] = "index" => /\ obj[call[p].id] # None
                              /\ obj[call[p].id].ts = call[p].ts
                              /\ obj[call[p].id].colls = call[p].colls

\* A put leaves no entry behind in the loop that precedes its write.
LeavesNone ==
    \A p \in Callers : pc[p] = "unindex" =>
        \A e \in idx : e[3] = call[p].id => e[1] \in todo[p]

\* The loop that follows a put's write leaves an entry behind every step.
Indexed ==
    \A p \in Callers : pc[p] = "index" =>
        \A c \in call[p].colls \ todo[p] : indexKey(c, call[p].ts, call[p].id) \in idx

\* The inductive invariant behind NoStale.
NoStaleInv == Permitted /\ InHand /\ LeavesNone /\ Indexed /\ NoStale

-----------------------------------------------------------------------------
\* Refinement: the collections in which a reader finds id.  getChildren()
\* skips an index entry whose object is gone.
ListedIn(keys, id) == {c \in Colls : \E e \in keys : e[1] = c /\ e[3] = id}
Listed(id) == IF obj[id] = None THEN {} ELSE ListedIn(idx, id)

Contract == INSTANCE StoreContract WITH
    Records <- Record,
    MayFail <- UNION {MayPut[p] : p \in Faults},
    val <- obj,
    listed <- [id \in Ids |-> Listed(id)],
    busy <- [id \in Ids |-> Busy(id)]

\* When every id has one caller at a time, put() and delete() implement the
\* contract: a reader of any collection never finds an id where its record
\* does not place it, whatever step the calls on it have reached, also when
\* puts are cut short (store.js:111-150, 158-170).
ContractSpec == Contract!CSpec
=============================================================================
