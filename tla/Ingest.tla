------------------------------- MODULE Ingest -------------------------------
(***************************************************************************)
(* The inbound half of the relay: the inbox routes of packages/relay       *)
(* (ap-router.js), the pipeline of packages/ap-ingest, and the auto-Accept *)
(* handler wired to its 'afterPersist' hook.                               *)
(*                                                                         *)
(* Every POST runs on its own, through awaits on its body, on the fetch of *)
(* the signer's key and on the store.  The hook's listeners are async and  *)
(* not awaited: the answer may leave before they are done.  Remote servers *)
(* deliver at least once, as packages/ap-delivery does: they post again    *)
(* until they have read a 2xx.  The puts of an activity and of its object  *)
(* run as module ApStore has them, one adapter call a step: they overlap,  *)
(* may reject at any of them and are cut short by a stop of the relay.     *)
(***************************************************************************)
EXTENDS Naturals, Sequences, FiniteSets, FiniteSetsExt

CONSTANTS
    Activities,   \* activities remote servers deliver
    Valid,        \* those signed by the actor they name
    Follows,      \* those of type Follow, for the actor in `object`
    Creates,      \* those of type Create, with an embedded object
    Addressing,   \* Addressing[a]: what its addressing fields name, in order
    ObjectOf,     \* ObjectOf[a]: the id of its object
    Locals,       \* the actors in the registry
    Remotes,      \* the other actors and objects activities name
    Wired,        \* those wireAutoAcceptFollows() was called for
    ByShared,     \* those delivered once, to the sharedInbox
    Stamps,       \* what Date.now() may return to a put
    NoRecord,     \* what adapter.get() returns when nothing is stored
    Slots,        \* requests served at the same time
    MaxPosts,     \* bound: posts, of all deliveries together
    MaxCrashes    \* bound: restarts of the relay

Shared == "shared"
Public == "as:Public"
NoId == "no id"   \* what idOf() makes of an entry that names nothing

\* What an activity names, in order: `to`, `cc`, `bto`, `bcc`, `audience`, and
\* then its `object`, which for a Follow is whom it is for.
Addressees(a) ==
    Addressing[a].to \o Addressing[a].cc \o Addressing[a].bto \o Addressing[a].bcc
        \o Addressing[a].audience
Named(a) == Append(Addressees(a), ObjectOf[a])

\* normalizeAudience().recipients, by their places: each id where it is named
\* first, the public collection left out.
Recipients(a) ==
    {k \in DOMAIN Addressees(a) :
        /\ Addressees(a)[k] \notin {Public, NoId}
        /\ \A j \in 1..(k - 1) : Addressees(a)[j] # Addressees(a)[k]}

\* recipientCandidates()
Candidates(a) ==
    Recipients(a) \cup (IF ObjectOf[a] = NoId THEN {} ELSE {Len(Named(a))})

\* The candidates in the registry; a sharedInbox delivery is for the first.
LocalCandidates == [a \in Activities |-> {k \in Candidates(a) : Named(a)[k] \in Locals}]
LocalRecipients(a) == {Named(a)[k] : k \in LocalCandidates[a]}
FirstRecipient(a) == Named(a)[Min(LocalCandidates[a])]

\* What a sender has to deliver: an activity, and the inbox it goes to.
Deliveries ==
    {d \in Activities \X (Locals \cup {Shared}) :
        IF d[1] \in ByShared THEN d[2] = Shared ELSE d[2] \in LocalRecipients(d[1])}

\* What the pipeline stores: activities, and what a Create carries.
Documents == Activities \cup {ObjectOf[a] : a \in Creates}

\* Whatever an activity may name.
Names == Locals \cup Remotes \cup {Public, NoId}

ASSUME IngestAssumption ==
    /\ Valid \subseteq Activities /\ Follows \subseteq Activities /\ Creates \subseteq Activities
    /\ Follows \cap Creates = {}
    /\ Addressing \in [Activities ->
         [to : Seq(Names), cc : Seq(Names), bto : Seq(Names), bcc : Seq(Names),
          audience : Seq(Names)]]
    /\ ObjectOf \in [Activities -> Names]
    /\ Wired \subseteq Locals
    /\ Locals \cap {Shared, Public, NoId} = {}
    /\ ByShared \subseteq Activities
    /\ Activities \cap {ObjectOf[a] : a \in Creates} = {}
    /\ NoRecord \notin [ts : Stamps, doc : {"body"}, colls : SUBSET Locals]
    /\ MaxPosts \in Nat /\ MaxCrashes \in Nat

VARIABLES
    posts,     \* posts made so far
    sent,      \* deliveries whose sender has read a 202
    reqs,      \* reqs[s]: the request in slot s
    records,   \* the store, as in ApStore: its records, ...
    index,     \* ... its index keys, ...
    putPc, putCall, putOld, putTodo,   \* ... and the put each slot is in
    tried,     \* deliveries whose put has begun
    cut,       \* documents a put of which was cut short, and none has written since
    handlers,  \* handlers in flight: the accept each is about, and its next await
    minted,    \* accepts made so far, <<follow, n>>: an id of its own for each
    outbox,    \* accepts stored in the actor's outbox
    queue,     \* accepts in the delivery queue
    crashes

senderVars == <<posts, sent>>
persistedVars == <<records, index>>
putVars == <<putPc, putCall, putOld, putTodo>>
storeVars == <<persistedVars, putVars, tried, cut>>
acceptVars == <<handlers, minted, outbox, queue>>
vars == <<senderVars, reqs, storeVars, acceptVars, crashes>>

\* A request puts what it is about, and deletes nothing; an adapter call may
\* reject under any of them.  The body of a document does not matter here, nor
\* which timestamps were used: any may be used again.
Store == INSTANCE ApStore WITH
    Callers <- Slots, Ids <- Documents, Colls <- Locals, Docs <- {"body"}, Times <- Stamps,
    None <- NoRecord, MayPut <- [s \in Slots |-> Documents], MayDelete <- [s \in Slots |-> {}],
    Placements <- [id \in Documents |-> {{}} \cup {{i} : i \in Locals}],
    UniqueTs <- FALSE, Faults <- Slots,
    obj <- records, idx <- index, used <- Stamps \cup {},
    pc <- putPc, call <- putCall, old <- putOld, todo <- putTodo

Free == [at |-> "free"]

IInit ==
    /\ posts = 0
    /\ sent = {}
    /\ reqs = [s \in Slots |-> Free]
    /\ records = [id \in Documents |-> NoRecord]
    /\ index = {}
    /\ putPc = [s \in Slots |-> "idle"]
    /\ putCall = [s \in Slots |-> NoRecord]
    /\ putOld = [s \in Slots |-> NoRecord]
    /\ putTodo = [s \in Slots |-> {}]
    /\ tried = {} /\ cut = {}
    /\ handlers = {} /\ minted = {} /\ outbox = {} /\ queue = {}
    /\ crashes = 0

-----------------------------------------------------------------------------
\* A sender posts a delivery that it has no 2xx for; nothing keeps an earlier
\* post of it, given up on, from being served still.
Post(s, d) ==
    /\ reqs[s] = Free
    /\ d \notin sent
    /\ posts < MaxPosts
    /\ posts' = posts + 1
    /\ reqs' = [reqs EXCEPT ![s] = [at |-> "route", d |-> d]]
    /\ UNCHANGED <<sent, storeVars, acceptVars, crashes>>

\* The body is read.  A personal inbox takes it; the shared one looks for a
\* local recipient, or answers 400.
Route(s) ==
    /\ reqs[s].at = "route"
    /\ LET a == reqs[s].d[1]
           i == reqs[s].d[2]
       IN  reqs' = [reqs EXCEPT ![s] =
             IF i # Shared THEN [at |-> "verify", d |-> @.d, inbox |-> i]
             ELSE IF LocalCandidates[a] = {} THEN [at |-> "reply", d |-> @.d, ok |-> FALSE]
             ELSE [at |-> "verify", d |-> @.d, inbox |-> FirstRecipient(a)]]
    /\ UNCHANGED <<senderVars, storeVars, acceptVars, crashes>>

\* put(activity, { collections: [targetCollection] }) begins.
BeginPut(s) ==
    /\ reqs' = [reqs EXCEPT ![s].at = "store"]
    /\ \E ts \in Stamps : Store!PutBegin(s, reqs[s].d[1], "body", {reqs[s].inbox}, ts)
    /\ tried' = tried \cup {reqs[s].d}
    /\ UNCHANGED <<senderVars, cut, acceptVars, crashes>>

\* The key is not to be had, the signature does not fit, or the signer is not
\* the activity's actor.
Refuse(s) ==
    /\ reqs' = [reqs EXCEPT ![s] = [at |-> "reply", d |-> @.d, ok |-> FALSE]]
    /\ UNCHANGED <<senderVars, storeVars, acceptVars, crashes>>

\* Mutant of Verify: the activity's actor is not compared with the signer.
VerifyNothing(s) == reqs[s].at = "verify" /\ (BeginPut(s) \/ Refuse(s))

\* The signer's key is fetched, or that fails; the signature is verified, and
\* the signer must be the activity's actor.  No await precedes the put.
Verify(s) ==
    /\ reqs[s].at = "verify"
    /\ \/ reqs[s].d[1] \in Valid /\ BeginPut(s)
       \/ Refuse(s)

\* An adapter call of the put under way returns.  A write makes good what an
\* earlier put of the document, cut short, may have left torn or unlisted.
PutStep(s) ==
    /\ reqs[s].at \in {"store", "embed"}
    /\ \/ (Store!PutRead(s) \/ Store!PutUnindex(s) \/ Store!PutIndex(s)) /\ UNCHANGED cut
       \/ Store!PutWrite(s) /\ cut' = cut \ {putCall[s].id}
    /\ UNCHANGED <<senderVars, reqs, tried, acceptVars, crashes>>

\* The put resolves: that of the activity, or that of its object.
PutReturns(s) ==
    /\ reqs[s].at \in {"store", "embed"}
    /\ Store!PutEmit(s)
    /\ reqs' = [reqs EXCEPT ![s].at =
          IF @ = "store" /\ reqs[s].d[1] \in Creates THEN "object" ELSE "notify"]
    /\ UNCHANGED <<senderVars, tried, cut, acceptVars, crashes>>

\* put(activity.object), into no collection.
PutObject(s) ==
    /\ reqs[s].at = "object"
    /\ reqs' = [reqs EXCEPT ![s].at = "embed"]
    /\ \E ts \in Stamps : Store!PutBegin(s, ObjectOf[reqs[s].d[1]], "body", {}, ts)
    /\ UNCHANGED <<senderVars, tried, cut, acceptVars, crashes>>

\* The documents whose puts, of those in slots S, may have written something.
Underway(S) == {putCall[s].id : s \in {t \in S : putPc[t] \in {"unindex", "index"}}}

\* Mutant of StoreFails: the rejection is swallowed.
StoreFailsQuietly(s) ==
    /\ reqs[s].at \in {"store", "embed"}
    /\ Store!Abort(s)
    /\ cut' = cut \cup Underway({s})
    /\ reqs' = [reqs EXCEPT ![s] = [at |-> "reply", d |-> @.d, ok |-> TRUE]]
    /\ UNCHANGED <<senderVars, tried, acceptVars, crashes>>

\* An adapter call of the put rejects, and so do put() and the pipeline: what
\* was written stays written, and the router answers 500.
StoreFails(s) ==
    /\ reqs[s].at \in {"store", "embed"}
    /\ Store!Abort(s)
    /\ cut' = cut \cup Underway({s})
    /\ reqs' = [reqs EXCEPT ![s] = [at |-> "reply", d |-> @.d, ok |-> FALSE]]
    /\ UNCHANGED <<senderVars, tried, acceptVars, crashes>>

\* The actor a Follow asks for: idOf(activity.object).
Followed(a) == ObjectOf[a]

\* Mutant of Concerns: not whose Follow it is.
ConcernsAny(a) == a \in Follows

\* A handler acts on a Follow of its own actor.
Concerns(a) == a \in Follows /\ Followed(a) \in Wired

NextAccept(a) == <<a, Cardinality({m \in minted : m[1] = a}) + 1>>

\* 'ap-ingest:afterPersist': the handler mints an Accept and begins to store
\* it; the pipeline returns ok without waiting for it.
Notify(s) ==
    /\ reqs[s].at = "notify"
    /\ LET a == reqs[s].d[1]
           new == IF Concerns(a) THEN {NextAccept(a)} ELSE {}
       IN  /\ minted' = minted \cup new
           /\ handlers' = handlers \cup {[at |-> "put", accept |-> m] : m \in new}
    /\ reqs' = [reqs EXCEPT ![s] = [at |-> "reply", d |-> @.d, ok |-> TRUE]]
    /\ UNCHANGED <<senderVars, storeVars, outbox, queue, crashes>>

\* 202, or the failure's status; the sender may not get to read it.
Reply(s) ==
    /\ reqs[s].at = "reply"
    /\ sent' \in {sent, IF reqs[s].ok THEN sent \cup {reqs[s].d} ELSE sent}
    /\ reqs' = [reqs EXCEPT ![s] = Free]
    /\ UNCHANGED <<posts, storeVars, acceptVars, crashes>>

Serve(s) ==
    \/ Route(s) \/ Verify(s) \/ PutStep(s) \/ PutReturns(s) \/ PutObject(s) \/ StoreFails(s)
    \/ Notify(s) \/ Reply(s)

-----------------------------------------------------------------------------
\* await store.put(accept, { collections: [actor.outbox] }): its id is new, and
\* it is in the outbox with the put's last write.
StoreAccept(h) ==
    /\ h.at = "put"
    /\ outbox' = outbox \cup {h.accept}
    /\ handlers' = (handlers \ {h}) \cup {[h EXCEPT !.at = "enqueue"]}
    /\ UNCHANGED <<senderVars, storeVars, queue, reqs, minted, crashes>>

\* Mutant of EnqueueAccept: the Accept is never queued.
EnqueueNothing(h) ==
    /\ h.at = "enqueue"
    /\ handlers' = handlers \ {h}
    /\ UNCHANGED <<senderVars, storeVars, outbox, queue, reqs, minted, crashes>>

\* await deliveryQueue.enqueue(accept, [followerId])
EnqueueAccept(h) ==
    /\ h.at = "enqueue"
    /\ queue' = queue \cup {h.accept}
    /\ handlers' = handlers \ {h}
    /\ UNCHANGED <<senderVars, storeVars, outbox, reqs, minted, crashes>>

Handle == \E h \in handlers : StoreAccept(h) \/ EnqueueAccept(h)

\* The relay stops and starts again: requests and handlers are gone, and the
\* puts they were in end where they are.
Crash ==
    /\ crashes < MaxCrashes
    /\ crashes' = crashes + 1
    /\ reqs' = [s \in Slots |-> Free]
    /\ putPc' = [s \in Slots |-> "idle"]
    /\ putCall' = [s \in Slots |-> NoRecord]
    /\ putOld' = [s \in Slots |-> NoRecord]
    /\ putTodo' = [s \in Slots |-> {}]
    /\ cut' = cut \cup Underway(Slots)
    /\ handlers' = {}
    /\ UNCHANGED <<senderVars, persistedVars, tried, minted, outbox, queue>>

INext ==
    \/ \E s \in Slots : Serve(s) \/ \E d \in Deliveries : Post(s, d)
    \/ Handle
    \/ Crash

\* A request that has come in is served, a handler runs to its end.
IFairness == (\A s \in Slots : WF_vars(Serve(s))) /\ WF_vars(Handle)

ISpec == IInit /\ [][INext]_vars /\ IFairness

-----------------------------------------------------------------------------
Accepts == Follows \X (1 .. MaxPosts)

\* Every variable keeps its type; only a Valid activity reaches the store.
ITypeOK ==
    /\ posts \in 0 .. MaxPosts
    /\ sent \subseteq tried /\ tried \subseteq Deliveries
    /\ \A s \in Slots :
        reqs[s].at \in {"free", "route", "verify", "store", "object", "embed", "notify", "reply"}
    /\ Store!TypeOK
    /\ \A a \in Activities : records[a] # NoRecord => a \in Valid
    /\ cut \subseteq Documents
    /\ \A h \in handlers : h.at \in {"put", "enqueue"} /\ h.accept \in Accepts
    /\ minted \subseteq Accepts /\ outbox \subseteq minted /\ queue \subseteq minted
    /\ crashes \in 0 .. MaxCrashes

\* A document is there, unless the last put that touched it was cut short.
Held(id) == records[id] # NoRecord \/ id \in cut

\* The inboxes a delivery is for.
For(d) == IF d[2] = Shared THEN LocalRecipients(d[1]) ELSE {d[2]}

\* The inbox one of the activity's deliveries was for lists it: one inbox, also
\* if it was delivered to several.
InInbox(a) ==
    \E d \in tried : \E i \in For(d) :
        d[1] = a /\ records[a].colls = {i} /\ Store!Entries(a, records[a]) \subseteq index

\* A sender that has read 202 need not post again: the activity is stored, with
\* its embedded object, and once no put of it is under way the inbox of one of
\* its deliveries lists it, however requests for it overlapped, failed or were
\* posted again.  Only a later put of it that is cut short, by a rejection or a
\* stop of the relay, may take that back (ap-router.js:116-140,
\* pipeline.js:97-108, store.js:111-128).
AckedIsStored ==
    \A d \in sent : LET a == d[1] IN
        /\ Held(a)
        /\ a \in Creates => Held(ObjectOf[a])
        /\ Store!Busy(a) \/ a \in cut \/ InInbox(a)

\* Accepts go out only for Follows of the actor that accepts, each persisted
\* before, and only after the Accept is in the outbox (auto-accept-follows.js:29-46).
AcceptsJustified ==
    /\ queue \subseteq outbox
    /\ \A m \in outbox : Held(m[1]) /\ Followed(m[1]) \in Wired

\* Every Follow of a wired actor that was persisted is in the end answered, by
\* whichever inbox it came and however often: an Accept is queued for it,
\* unless the relay stops in between (auto-accept-follows.js:26-46).
Persisted(a) == \E s \in Slots : reqs[s].at = "notify" /\ reqs[s].d[1] = a

FollowAnswered ==
    \A a \in {x \in Follows : Followed(x) \in Wired} :
        Persisted(a) ~> crashes > 0 \/ \E m \in queue : m[1] = a

-----------------------------------------------------------------------------
\* Why they hold.  A request past its route is for an inbox of its delivery;
\* one past the signature is of a Valid activity; one past a put has stored
\* what it put, and is in that put while it runs.
Requests ==
    {Free} \cup [at : {"route"}, d : Deliveries]
           \cup [at : {"verify", "store", "object", "embed", "notify"}, d : Deliveries, inbox : Locals]
           \cup [at : {"reply"}, d : Deliveries, ok : BOOLEAN]

Stored(id) == records[id] # NoRecord

InPut(s, id, colls) ==
    /\ putPc[s] \in {"get", "unindex", "index"}
    /\ putCall[s].id = id /\ putCall[s].colls = colls

RequestOK(s) ==
    LET r == reqs[s]
        a == r.d[1]
    IN  /\ r.at \in {"verify", "store", "object", "embed", "notify"} => r.inbox \in For(r.d)
        /\ r.at \in {"store", "object", "embed", "notify"} => a \in Valid /\ r.d \in tried
        /\ r.at \in {"object", "embed"} => a \in Creates
        /\ r.at = "store" => InPut(s, a, {r.inbox})
        /\ r.at = "embed" => InPut(s, ObjectOf[a], {})
        /\ r.at \notin {"store", "embed"} => putPc[s] = "idle"
        /\ r.at \in {"object", "embed", "notify"} => Stored(a)
        /\ r.at = "notify" /\ a \in Creates => Stored(ObjectOf[a])
        /\ r.at = "reply" /\ r.ok =>
             r.d \in tried /\ Stored(a) /\ (a \in Creates => Stored(ObjectOf[a]))

RequestsOK == reqs \in [Slots -> Requests] /\ \A s \in Slots : RequestOK(s)

\* What is stored was put for a delivery, into an inbox the delivery is for.
StoredForRecipient ==
    /\ \A s \in Slots : putPc[s] = "index" => Stored(putCall[s].id)
    /\ \A a \in Activities : Stored(a) =>
        /\ a \in Valid
        /\ \E d \in tried : \E i \in For(d) : d[1] = a /\ records[a].colls = {i}
    /\ sent \subseteq tried /\ tried \subseteq Deliveries /\ cut \subseteq Documents
    /\ \A d \in sent : Stored(d[1]) /\ (d[1] \in Creates => Stored(ObjectOf[d[1]]))

\* An entry of a record that is missing is owed by a put that has still to
\* write the record, or by the put that wrote it.
ListedOrOwed ==
    \A a \in Activities \ cut : Stored(a) =>
        \A c \in records[a].colls :
            \/ <<c, records[a].ts, a>> \in index
            \/ \E s \in Slots :
                /\ putPc[s] \in {"unindex", "index"} /\ putCall[s].id = a
                /\ putPc[s] = "index" => putCall[s].ts = records[a].ts /\ c \in putTodo[s]

\* An Accept is made for a stored Follow, and handed on only by its handler.
AcceptsMade ==
    /\ \A m \in minted : m[1] \in Activities /\ Concerns(m[1]) /\ Stored(m[1])
    /\ handlers \subseteq [at : {"put", "enqueue"}, accept : minted]
    /\ \A h \in handlers : h.at = "enqueue" => h.accept \in outbox
    /\ queue \subseteq outbox /\ outbox \subseteq minted

\* Every Accept, and every request that may still make one, took a post.
Undecided == {s \in Slots : reqs[s].at \notin {"free", "reply"}}

PostsCounted ==
    /\ posts \in 0 .. MaxPosts
    /\ IsFiniteSet(minted) /\ IsFiniteSet(Undecided)
    /\ Cardinality(minted) + Cardinality(Undecided) <= posts
    /\ \A m \in minted : m \in Follows \X (1 .. Cardinality(minted))

\* The inductive invariant behind AckedIsStored and AcceptsJustified.
IngestInv == Store!TypeOK /\ RequestsOK /\ StoredForRecipient /\ ListedOrOwed /\ AcceptsMade
=============================================================================
