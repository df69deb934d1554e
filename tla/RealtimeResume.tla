--------------------------- MODULE RealtimeResume ---------------------------
(***************************************************************************)
(* One client following collections of the relay: live frames pushed by    *)
(* packages/relay/src/realtime-bridge.js, the replay of what was missed by *)
(* packages/ap-realtime/src/resume.js, and the client's cursors            *)
(* (packages/ap-client), over a connection that drops and comes back.      *)
(*                                                                         *)
(* The parts that run concurrently, each at its own awaits: puts into the  *)
(* relay's store, the replay of this peer, the client's connect(), and one *)
(* #handleFrame() task per frame received, none waiting for the other.     *)
(* A timestamp stands for the cursor (ts, id) and for the document's body. *)
(***************************************************************************)
EXTENDS Naturals, Sequences, SequencesExt

CONSTANTS
    Ids, Colls,
    Place,        \* Place[id]: the collections a document is put under
    Writers,      \* slots for puts into the relay's store at the same time
    Updates,      \* TRUE: an id may be put again
    LossyReplay,  \* TRUE: the connection may drop before a replay has arrived
    SlowCursors,  \* TRUE: frames may arrive while connect() reads its cursors
    LateColls,    \* collections subscribed only while the client is connected
    SteadyClock,  \* FALSE: two puts may share a millisecond, ordered by id then
    MaxPuts,      \* bound: puts into the relay's store
    MaxDrops      \* bound: drops

ASSUME ResumeAssumption ==
    /\ Place \in [Ids -> SUBSET Colls]
    /\ Updates \in BOOLEAN /\ LossyReplay \in BOOLEAN /\ SlowCursors \in BOOLEAN
    /\ SteadyClock \in BOOLEAN
    /\ LateColls \subseteq Colls
    /\ MaxPuts \in Nat /\ MaxDrops \in Nat

VARIABLES
    used,     \* the timestamps puts at the relay have carried
    obj,      \* obj[id]: version of the document in the relay's store, 0 if none
    idx,      \* idx[id]: timestamp of its index entries, 0 if none
    put,      \* put[w]: the relay put in slot w: [pc, id, ts]
    subs,     \* the collections the client wants: #subscriptions
    conn,     \* the client's connect(): "down", "cursors" (open, resuming) or "up"
    up,       \* control frames on their way to the relay
    peerSubs, \* state.subscriptions of the peer at the relay
    replay,   \* the peer's replayResume()
    caught,   \* collections resumed on this connection (history)
    from,     \* the cursors that they were resumed from (history)
    down,     \* frames on their way to the client
    tasks,    \* the client's #handleFrame() calls in flight
    cdoc,     \* cdoc[id]: version stored by the client, 0 if none
    cplace,   \* cplace[id]: the collections the client lists it under
    cursor,   \* cursor[c]: the cursor stored by the client, 0 if none
    drops

relayVars == <<used, obj, idx, put>>
clientVars == <<tasks, cdoc, cplace, cursor>>
vars == <<relayVars, subs, conn, up, peerSubs, replay, caught, from, down, clientVars, drops>>

Idle == [pc |-> "idle"]
NoCursors == [c \in Colls |-> 0]
Data(id, v, cs, ts) == [kind |-> "data", id |-> id, ver |-> v, colls |-> cs, ts |-> ts]
Resumed(cursors) == [kind |-> "resumed", cursors |-> cursors]

SInit ==
    /\ used = {}
    /\ obj = [id \in Ids |-> 0] /\ idx = [id \in Ids |-> 0]
    /\ put = [w \in Writers |-> Idle]
    /\ subs = Colls \ LateColls
    /\ conn = "down" /\ up = <<>> /\ peerSubs = {} /\ replay = Idle
    /\ caught = {} /\ from = NoCursors
    /\ down = <<>> /\ tasks = <<>>
    /\ cdoc = [id \in Ids |-> 0] /\ cplace = [id \in Ids |-> {}]
    /\ cursor = NoCursors
    /\ drops = 0

-----------------------------------------------------------------------------
\* store.put() at the relay: by a peer's data frame, the inbox, or an app.
\* Its ts is Date.now() when it is called; cursors of one millisecond are
\* ordered by id, so a later put may get the smaller one.
\* One put at a time per id.
PutCalled(w, id) ==
    /\ put[w] = Idle
    /\ Updates \/ (obj[id] = 0)
    /\ \A v \in Writers : put[v] # Idle => put[v].id # id
    /\ \E ts \in 1..MaxPuts \ used :
         /\ SteadyClock => \A t \in 1..MaxPuts : t < ts <=> t \in used
         /\ used' = used \cup {ts}
         /\ put' = [put EXCEPT ![w] = [pc |-> "write", id |-> id, ts |-> ts]]
    /\ UNCHANGED <<obj, idx, subs, conn, up, peerSubs, replay, down, clientVars, caught, from, drops>>

\* The old index entries are gone and the object is written (store.js:116-122).
PutWritten(w) ==
    /\ put[w] # Idle /\ put[w].pc = "write"
    /\ obj' = [obj EXCEPT ![put[w].id] = put[w].ts]
    /\ idx' = [idx EXCEPT ![put[w].id] = 0]
    /\ put' = [put EXCEPT ![w].pc = "index"]
    /\ UNCHANGED <<used, subs, conn, up, peerSubs, replay, down, clientVars, caught, from, drops>>

\* The new index entries are written (store.js:123-125).
PutIndexed(w) ==
    /\ put[w] # Idle /\ put[w].pc = "index"
    /\ idx' = [idx EXCEPT ![put[w].id] = put[w].ts]
    /\ put' = [put EXCEPT ![w].pc = "emit"]
    /\ UNCHANGED <<used, obj, subs, conn, up, peerSubs, replay, down, clientVars, caught, from, drops>>

\* Mutant of Relevant: no live frames while the peer is being replayed to.
RelevantAtRest(id) == Place[id] \cap peerSubs # {} /\ replay = Idle

\* A change of id concerns the peer.
Relevant(id) == Place[id] \cap peerSubs # {}

\* The change event: the bridge sends a frame to the peer, if it subscribes to
\* any of the collections (realtime-bridge.js:110-117).
PutEmitted(w) ==
    /\ put[w] # Idle /\ put[w].pc = "emit"
    /\ LET id == put[w].id
       IN  down' = IF Relevant(id)
                   THEN Append(down, Data(id, put[w].ts, Place[id], put[w].ts))
                   ELSE down
    /\ put' = [put EXCEPT ![w] = Idle]
    /\ UNCHANGED <<used, obj, idx, subs, conn, up, peerSubs, replay, clientVars, caught, from, drops>>

PutStep(w) == PutWritten(w) \/ PutIndexed(w) \/ PutEmitted(w)

-----------------------------------------------------------------------------
\* The transport opens: hello and a subscribe per collection go out.
Open ==
    /\ conn = "down"
    /\ conn' = "cursors"
    /\ up' = <<[op |-> "subscribe", colls |-> subs]>>
    /\ UNCHANGED <<relayVars, subs, peerSubs, replay, down, clientVars, caught, from, drops>>

\* #resume(): the stored cursors are read, and RESUME goes out.
SendResume ==
    /\ conn = "cursors"
    /\ conn' = "up"
    /\ up' = Append(up, [op |-> "resume", since |-> [c \in Colls |-> cursor[c]]])
    /\ UNCHANGED <<relayVars, subs, peerSubs, replay, down, clientVars, caught, from, drops>>

\* subscribe(c) while connected: live frames from here on, no resume.
SubscribeLate(c) ==
    /\ conn # "down"
    /\ c \notin subs
    /\ subs' = subs \cup {c}
    /\ up' = Append(up, [op |-> "subscribe", colls |-> {c}])
    /\ UNCHANGED <<relayVars, conn, peerSubs, replay, down, clientVars, caught, from, drops>>

\* The relay handles a subscribe frame, in the order sent.
HandleSubscribe ==
    /\ up # <<>> /\ Head(up).op = "subscribe"
    /\ peerSubs' = peerSubs \cup Head(up).colls
    /\ up' = Tail(up)
    /\ UNCHANGED <<relayVars, subs, conn, replay, down, clientVars, caught, from, drops>>

\* It handles a resume frame: replayResume() begins, over a copy of the
\* subscriptions.
HandleResume ==
    /\ up # <<>> /\ Head(up).op = "resume"
    /\ replay' = [pc |-> "list", colls |-> peerSubs, since |-> Head(up).since]
    /\ caught' = peerSubs /\ from' = Head(up).since
    /\ up' = Tail(up)
    /\ UNCHANGED <<relayVars, subs, conn, peerSubs, down, clientVars, drops>>

-----------------------------------------------------------------------------
\* getChildrenSince(c, since): the index entries after the cursor.
Missed(c, since) ==
    {e \in [id : Ids, ts : 1..MaxPuts] :
        c \in Place[e.id] /\ e.ts = idx[e.id] /\ e.ts > since}

ReplayList ==
    /\ replay # Idle /\ replay.pc = "list"
    /\ \E c \in replay.colls :
         replay' = [pc |-> "get", colls |-> replay.colls, since |-> replay.since,
                    coll |-> c, got |-> <<>>, todo |-> Missed(c, replay.since[c])]
    /\ UNCHANGED <<relayVars, subs, conn, up, peerSubs, down, clientVars, caught, from, drops>>

\* The collections a replayed frame names: `collections: [collectionId]`.
ReplayedUnder == {replay.coll}

\* It reads the documents one by one, ascending: what is stored by now, under
\* the cursor the entry was listed with.  A missing document is skipped.
ReplayGet ==
    /\ replay # Idle /\ replay.pc = "get"
    /\ \E e \in replay.todo :
         /\ \A other \in replay.todo : e.ts <= other.ts
         /\ replay' = [replay EXCEPT !.todo = @ \ {e},
              !.got = IF obj[e.id] = 0 THEN @
                      ELSE Append(@, Data(e.id, obj[e.id], ReplayedUnder, e.ts))]
    /\ UNCHANGED <<relayVars, subs, conn, up, peerSubs, down, clientVars, caught, from, drops>>

\* The frames of one collection are sent, with the collection's last cursor
\* remembered; the next collection follows.
ReplaySend ==
    /\ replay # Idle /\ replay.pc = "get" /\ replay.todo = {}
    /\ down' = down \o replay.got
    /\ replay' = [pc |-> "list", colls |-> replay.colls \ {replay.coll},
                  since |-> IF replay.got = <<>> THEN replay.since
                            ELSE [replay.since EXCEPT ![replay.coll] = Last(replay.got).ts]]
    /\ UNCHANGED <<relayVars, subs, conn, up, peerSubs, clientVars, caught, from, drops>>

\* RESUMED, with a cursor for every collection replayed.
ReplayEnd ==
    /\ replay # Idle /\ replay.pc = "list" /\ replay.colls = {}
    /\ down' = Append(down, Resumed(replay.since))
    /\ replay' = Idle
    /\ UNCHANGED <<relayVars, subs, conn, up, peerSubs, clientVars, caught, from, drops>>

ReplayStep == ReplayList \/ ReplayGet \/ ReplaySend \/ ReplayEnd

-----------------------------------------------------------------------------
\* Mutant of Stored: control frames are not told apart.
StoredAll(f) == f.kind \in {"data", "resumed"}

\* isDataFrame(frame): it is applied to the store.
Stored(f) == f.kind = "data"

\* A frame arrives; #handleFrame() starts and is not waited for.
Receive ==
    /\ down # <<>>
    /\ SlowCursors \/ conn # "cursors"
    /\ LET f == Head(down)
           set == {c \in Colls : f.cursors[c] # 0}
       IN  tasks' = CASE Stored(f) -> Append(tasks, [f |-> f, pc |-> "put", todo |-> {}])
                      [] f.kind = "resumed" /\ set # {} ->
                           Append(tasks, [f |-> f, pc |-> "cursor", todo |-> set])
                      [] OTHER -> tasks
    /\ down' = Tail(down)
    /\ UNCHANGED <<relayVars, subs, conn, up, peerSubs, replay, cdoc, cplace, cursor, caught, from, drops>>

\* Task n goes on to store the cursors of cs, or is done.
Continue(n, cs) ==
    IF cs = {} THEN RemoveAt(tasks, n)
    ELSE [tasks EXCEPT ![n].pc = "cursor", ![n].todo = cs]

\* await store.put(frame.doc, { collections: frame.collections, ... }); then
\* the cursors of the collections the client subscribes to by now.
StoreFrame(n) ==
    /\ tasks[n].pc = "put"
    /\ LET f == tasks[n].f
       IN  /\ cdoc' = [cdoc EXCEPT ![f.id] = f.ver]
           /\ cplace' = [cplace EXCEPT ![f.id] = f.colls]
           /\ tasks' = Continue(n, f.colls \cap subs)
    /\ UNCHANGED <<relayVars, subs, conn, up, peerSubs, replay, down, cursor, caught, from, drops>>

\* await setCursor(c, cursor): the last call to write wins.
StoreCursor(n) ==
    /\ tasks[n].pc = "cursor"
    /\ \E c \in tasks[n].todo :
         /\ cursor' = [cursor EXCEPT ![c] =
              IF tasks[n].f.kind = "data" THEN tasks[n].f.ts ELSE tasks[n].f.cursors[c]]
         /\ tasks' = Continue(n, tasks[n].todo \ {c})
    /\ UNCHANGED <<relayVars, subs, conn, up, peerSubs, replay, down, cdoc, cplace, caught, from, drops>>

TaskStep == \E n \in DOMAIN tasks : StoreFrame(n) \/ StoreCursor(n)

\* A resume has been asked for and its RESUMED has not arrived.
Replaying ==
    \/ conn = "cursors"
    \/ \E i \in DOMAIN up : up[i].op = "resume"
    \/ replay # Idle
    \/ \E i \in DOMAIN down : down[i].kind = "resumed"

\* The connection is lost, and every frame on its way with it.  The relay
\* forgets the peer; what a replay still sends to it is dropped.
Drop ==
    /\ conn # "down"
    /\ drops < MaxDrops
    /\ LossyReplay \/ ~Replaying
    /\ drops' = drops + 1
    /\ conn' = "down" /\ up' = <<>> /\ down' = <<>>
    /\ peerSubs' = {} /\ replay' = Idle
    /\ caught' = {} /\ from' = NoCursors
    /\ UNCHANGED <<relayVars, subs, clientVars>>

-----------------------------------------------------------------------------
SNext ==
    \/ \E w \in Writers : PutStep(w) \/ \E id \in Ids : PutCalled(w, id)
    \/ Open \/ SendResume \/ HandleSubscribe \/ HandleResume
    \/ \E c \in LateColls : SubscribeLate(c)
    \/ ReplayStep \/ Receive \/ TaskStep \/ Drop

\* Store operations complete, frames on a live connection arrive, and the
\* application reconnects.
SFairness ==
    /\ \A w \in Writers : WF_vars(PutStep(w))
    /\ WF_vars(Open) /\ WF_vars(SendResume)
    /\ WF_vars(HandleSubscribe) /\ WF_vars(HandleResume)
    /\ WF_vars(ReplayStep) /\ WF_vars(Receive) /\ WF_vars(TaskStep)

SSpec == SInit /\ [][SNext]_vars /\ SFairness

-----------------------------------------------------------------------------
Cursors == [Colls -> 0..MaxPuts]
DataFrames == [kind : {"data"}, id : Ids, ver : 1..MaxPuts, colls : SUBSET Colls, ts : 1..MaxPuts]
Frames == DataFrames \cup [kind : {"resumed"}, cursors : Cursors]
Requests == [op : {"subscribe"}, colls : SUBSET Colls] \cup [op : {"resume"}, since : Cursors]
Entries == [id : Ids, ts : 1..MaxPuts]

\* Every variable keeps its type; only data frames are put into the store.
STypeOK ==
    /\ used \subseteq 1..MaxPuts
    /\ obj \in [Ids -> 0..MaxPuts] /\ idx \in [Ids -> 0..MaxPuts]
    /\ put \in [Writers ->
         {Idle} \cup [pc : {"write", "index", "emit"}, id : Ids, ts : 1..MaxPuts]]
    /\ subs \subseteq Colls /\ peerSubs \subseteq Colls /\ caught \subseteq Colls
    /\ from \in Cursors
    /\ conn \in {"down", "cursors", "up"}
    /\ up \in Seq(Requests) /\ down \in Seq(Frames)
    /\ replay \in {Idle} \cup [pc : {"list"}, colls : SUBSET Colls, since : Cursors]
         \cup [pc : {"get"}, colls : SUBSET Colls, since : Cursors, coll : Colls,
               got : Seq(DataFrames), todo : SUBSET Entries]
    /\ tasks \in Seq([f : DataFrames, pc : {"put", "cursor"}, todo : SUBSET Colls]
                     \cup [f : Frames, pc : {"cursor"}, todo : SUBSET Colls])
    /\ cdoc \in [Ids -> 0..MaxPuts]
    /\ cplace \in [Ids -> SUBSET Colls]
    /\ cursor \in Cursors
    /\ drops \in 0..MaxDrops

\* The client is connected, has caught up, and nothing is under way anywhere.
Settled ==
    /\ conn = "up" /\ ~Replaying
    /\ up = <<>> /\ down = <<>> /\ tasks = <<>>
    /\ \A w \in Writers : put[w] = Idle

\* The client has every document of the collections cs in its latest version,
\* and lists it where the relay does.
UpToDate(cs) ==
    \A id \in Ids : obj[id] # 0 /\ Place[id] \cap cs # {} =>
        cdoc[id] = obj[id] /\ cplace[id] = Place[id]

\* Reconnecting is lossless (resume.js:1): once settled, a client that has
\* resumed a collection it subscribed to before it connected holds every
\* document of it in its latest version, listed where the relay lists it,
\* however the live frames, the replays and the drops before fell.
NoLoss == Settled => UpToDate(caught \ LateColls)

\* What a cursor passes over, the client has, or is about to have: a document
\* listed up to the cursor is stored, or held by a task that will store it.
CursorSafe ==
    \A c \in Colls, id \in Ids :
        c \in Place[id] /\ idx[id] # 0 /\ idx[id] <= cursor[c] =>
            \/ cdoc[id] # 0
            \/ \E n \in DOMAIN tasks : tasks[n].f.kind = "data" /\ tasks[n].f.id = id
            \/ Replaying
            \/ \E i \in DOMAIN down : down[i].kind = "data" /\ down[i].id = id

\* A resume leaves no gap behind the cursors it begins from: once settled, a
\* client has a version of every document put after them under a collection that
\* it resumed, whether the replay read it or the change event announced it,
\* however puts fell before, between and after the replay's reads
\* (resume.js:20-53, realtime-bridge.js:83-90, 107-117).
NoGap ==
    Settled => \A c \in caught, id \in Ids :
        c \in Place[id] /\ idx[id] > from[c] => cdoc[id] # 0

\* Once the drops end, the replay and the live frames bring the client up to
\* date, and it stays so (resume.js:20-47, client.js:197-227).
CatchesUp == <>[]UpToDate(subs \ LateColls)

=============================================================================
