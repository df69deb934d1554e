----------------------------- MODULE Reactive -----------------------------
(***************************************************************************)
(* packages/reactive: watch() and watchChildren() over the ApStore of      *)
(* module ApStore, whose calls may be at any step while a watcher reads.   *)
(*                                                                         *)
(* A change event only triggers a re-read through the store; a re-read is  *)
(* a chain of awaits, so several re-reads of one watcher may be in flight. *)
(* A `generation` counter decides which of them may call back.             *)
(***************************************************************************)
EXTENDS ApStore, FiniteSets

CONSTANTS
    Watchers,   \* the watch() and watchChildren() calls
    Target,     \* Target[w]: the id or the collection watcher w is about
    MaxWatched  \* bound: this many of those calls are made

ASSUME ReactiveAssumption ==
    /\ Ids \cap Colls = {}
    /\ MaxWatched \in Nat
    /\ Target \in [Watchers -> Ids \cup Colls]

VARIABLES
    ver,    \* ver[id]: how often obj[id] was written (history: stands for the doc)
    state,  \* state[w]: "new", "on" (subscribed) or "off" (disposed)
    gen,    \* gen[w]: the generation counter of w's closure
    reads,  \* reads[w]: the re-reads in flight
    shown   \* shown[w]: what callback(docs) was last given, as <<id, version>> pairs

watchVars == <<state, gen, reads, shown>>
vars == <<storeVars, ver, watchVars>>

Read == [gen : Nat, listed : BOOLEAN, todo : SUBSET Ids, got : SUBSET (Ids \X Nat)]

\* The ids getChildren(c) lists.
Members(c) == {id \in Ids : \E e \in idx : e[1] = c /\ e[3] = id}

\* reread(): a new generation, and store.get() or store.getChildren() begun.
NewRead(w) ==
    [gen |-> gen[w] + 1, listed |-> Target[w] \in Ids,
     todo |-> {Target[w]} \cap Ids, got |-> {}]

RInit ==
    /\ Init
    /\ ver = [id \in Ids |-> 0]
    /\ state = [w \in Watchers |-> "new"]
    /\ gen = [w \in Watchers |-> 0]
    /\ reads = [w \in Watchers |-> {}]
    /\ shown = [w \in Watchers |-> {}]

-----------------------------------------------------------------------------
\* watch(store, id, cb) or watchChildren(store, c, cb): subscribe, then reread.
Watch(w) ==
    /\ state[w] = "new"
    /\ Cardinality({v \in Watchers : state[v] # "new"}) < MaxWatched
    /\ state' = [state EXCEPT ![w] = "on"]
    /\ gen' = [gen EXCEPT ![w] = @ + 1]
    /\ reads' = [reads EXCEPT ![w] = @ \cup {NewRead(w)}]
    /\ UNCHANGED <<storeVars, ver, shown>>

\* The function watch() returned is called.
Dispose(w) ==
    /\ state[w] = "on"
    /\ state' = [state EXCEPT ![w] = "off"]
    /\ UNCHANGED <<storeVars, ver, gen, reads, shown>>

\* The listeners a change event { id, collections } makes re-read.
Notified(id, collections) ==
    {w \in Watchers : state[w] = "on" /\ Target[w] \in {id} \cup collections}

Notify(id, collections) ==
    LET N == Notified(id, collections)
    IN  /\ gen' = [w \in Watchers |-> IF w \in N THEN gen[w] + 1 ELSE gen[w]]
        /\ reads' = [w \in Watchers |->
                       IF w \in N THEN reads[w] \cup {NewRead(w)} ELSE reads[w]]
        /\ UNCHANGED <<state, shown>>

\* The put or delete in slot p emits its change event; every listener runs.
Emit(p) ==
    \/ PutEmit(p) /\ Notify(call[p].id, call[p].colls)
    \/ DeleteEmit(p) /\ Notify(call[p].id, old[p].colls)

\* A step of a put or delete that emits nothing.
QuietStep(p) ==
    /\ \/ PutRead(p) \/ PutUnindex(p) \/ PutIndex(p) \/ PutWrite(p)
       \/ DeleteRead(p) \/ DeleteObject(p) \/ DeleteUnindex(p)
    /\ ver' = [id \in Ids |-> IF obj'[id] # obj[id] THEN ver[id] + 1 ELSE ver[id]]
    /\ UNCHANGED watchVars

StoreStep(p) == QuietStep(p) \/ (Emit(p) /\ UNCHANGED ver)

-----------------------------------------------------------------------------
\* getChildren(): the adapter lists the index entries of the collection.
ListChildren(w, r) ==
    /\ ~r.listed
    /\ reads' = [reads EXCEPT ![w] =
         (@ \ {r}) \cup {[r EXCEPT !.listed = TRUE, !.todo = Members(Target[w])]}]
    /\ UNCHANGED <<storeVars, ver, state, gen, shown>>

\* get(): one object is read; a missing one is skipped (or is null).
GetDoc(w, r) ==
    /\ r.listed
    /\ \E id \in r.todo :
        reads' = [reads EXCEPT ![w] = (@ \ {r}) \cup
          {[r EXCEPT !.todo = @ \ {id},
                     !.got = IF obj[id] = None THEN @ ELSE @ \cup {<<id, ver[id]>>}]}]
    /\ UNCHANGED <<storeVars, ver, state, gen, shown>>

\* Mutant of Superseded: results are shown in the order they arrive.
NeverSuperseded(w, r) == state[w] = "off"

\* `disposed || myGeneration !== generation`
Superseded(w, r) == state[w] = "off" \/ r.gen # gen[w]

\* .then(docs => ...): dropped if disposed or superseded by a later change.
Deliver(w, r) ==
    /\ r.listed /\ r.todo = {}
    /\ reads' = [reads EXCEPT ![w] = @ \ {r}]
    /\ shown' = IF Superseded(w, r)
                THEN shown ELSE [shown EXCEPT ![w] = r.got]
    /\ UNCHANGED <<storeVars, ver, state, gen>>

ReadStep(w) ==
    \E r \in reads[w] : ListChildren(w, r) \/ GetDoc(w, r) \/ Deliver(w, r)

Request(p) == (Put(p) \/ Delete(p)) /\ UNCHANGED <<ver, watchVars>>

RNext ==
    \/ \E p \in Callers : Request(p) \/ StoreStep(p)
    \/ \E w \in Watchers : Watch(w) \/ Dispose(w) \/ ReadStep(w)

\* An adapter operation that was begun completes; nobody has to call anything.
Fairness ==
    /\ \A p \in Callers : WF_vars(StoreStep(p))
    /\ \A w \in Watchers : WF_vars(ReadStep(w))

RSpec == RInit /\ [][RNext]_vars /\ Fairness

-----------------------------------------------------------------------------
\* Every variable keeps its type: what re-reads collect and what callbacks are
\* given are documents with a version (watch.js:32-41, 74-83).
RTypeOK ==
    /\ TypeOK
    /\ ver \in [Ids -> Nat]
    /\ state \in [Watchers -> {"new", "on", "off"}]
    /\ gen \in [Watchers -> Nat]
    /\ reads \in [Watchers -> SUBSET Read]
    /\ shown \in [Watchers -> SUBSET (Ids \X Nat)]

\* What a read of w's target would find now.
Current(w) ==
    {<<id, ver[id]>> : id \in {i \in Ids :
        obj[i] # None /\ (i = Target[w] \/ \E e \in idx : e[1] = Target[w] /\ e[3] = i)}}

\* When no store call and no re-read of a live watcher is in flight, the
\* application has been shown what is stored: no change, of any interleaving
\* with the awaits of a re-read, is missed for good (watch.js:5-8, 35-45, 76-87).
Fresh ==
    \A w \in Watchers :
        /\ state[w] = "on"
        /\ reads[w] = {}
        /\ \A p \in Callers : pc[p] = "idle"
        => shown[w] = Current(w)

\* A watcher is never shown an older version of a document than it was shown
\* before: a slow re-read never overwrites the result of a later one
\* (watch.js:38, 80).
NeverOlder ==
    [][\A w \in Watchers : \A d \in shown[w], e \in shown'[w] :
          d[1] = e[1] => d[2] <= e[2]]_vars

\* If the application stops writing, a watcher that stays subscribed ends up
\* showing what is stored, and stays there.
Converges ==
    \A w \in Watchers :
        <>[](state[w] = "on" /\ \A p \in Callers : pc[p] = "idle")
            => <>[](shown[w] = Current(w))

-----------------------------------------------------------------------------
\* Why Fresh and NeverOlder hold.  w may have to show id.
About(w, id) == id = Target[w] \/ \E cs \in Placements[id] : Target[w] \in cs

\* No put takes a document out of a watched collection: the change event of one
\* that does names the collections it is put under, and not the one it left.
Unmoved ==
    \A w \in Watchers, id \in Ids :
        \A cs, ds \in Placements[id] : Target[w] \in cs => Target[w] \in ds

\* A record, a call and an entry place an id only where it may be placed.
Placed ==
    /\ \A id \in Ids : obj[id] # None => obj[id].colls \in Placements[id]
    /\ \A p \in Callers :
        /\ pc[p] \in PutPc => call[p].colls \in Placements[call[p].id]
        /\ pc[p] \in {"dobj", "dunindex"} => old[p].colls \in Placements[call[p].id]
    /\ \A e \in idx : \E cs \in Placements[e[3]] : e[1] \in cs

\* A call on id has changed something, and has still to emit its event.
Unsettled(id) ==
    \E p \in Callers : pc[p] \in {"unindex", "index", "dunindex"} /\ call[p].id = id

Latest(w) == {r \in reads[w] : r.gen = gen[w]}

\* A re-read is about what its watcher is about, and reads no document twice.
ReadsOK ==
    \A w \in Watchers : \A r \in reads[w] :
        /\ r \in Read /\ r.gen <= gen[w]
        /\ \A q \in reads[w] : q.gen = r.gen => q = r
        /\ ~r.listed => Target[w] \notin Ids /\ r.todo = {} /\ r.got = {}
        /\ \A id \in r.todo : About(w, id) /\ \A d \in r.got : d[1] # id
        /\ \A d \in r.got : About(w, d[1]) /\ d[2] <= ver[d[1]]
        /\ \A d, e \in r.got : d[1] = e[1] => d[2] = e[2]

\* What a watcher was shown was there then; the latest re-read began after that.
ShownBefore ==
    \A w \in Watchers :
        /\ \A d \in shown[w] : About(w, d[1]) /\ d[2] <= ver[d[1]]
        /\ \A d, e \in shown[w] : d[1] = e[1] => d[2] = e[2]
        /\ \A r \in Latest(w) : \A d \in shown[w], e \in r.got : d[1] = e[1] => d[2] <= e[2]

InTarget(w, id) == id = Target[w] \/ \E e \in idx : e[1] = Target[w] /\ e[3] = id

\* docs has of id what a read of w's target would find now.
Exact(w, id, docs) ==
    \A v \in Nat : <<id, v>> \in docs <=> v = ver[id] /\ obj[id] # None /\ InTarget(w, id)

\* The latest re-read has or will have of id what is stored, or it was
\* delivered and had it.
Fits(w, id) ==
    /\ \A r \in Latest(w) :
         r.listed => IF id \in r.todo THEN InTarget(w, id) ELSE Exact(w, id, r.got)
    /\ Latest(w) = {} => Exact(w, id, shown[w])

\* That is so for a live watcher and every id that no call has still to announce.
UpToDate ==
    \A w \in Watchers, id \in Ids :
        state[w] = "on" /\ About(w, id) /\ ~Unsettled(id) => Fits(w, id)

\* The inductive invariant behind NeverOlder, with UpToDate behind Fresh.
WatchInv == Placed /\ ReadsOK /\ ShownBefore
=============================================================================
