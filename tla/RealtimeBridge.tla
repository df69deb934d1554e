--------------------------- MODULE RealtimeBridge ---------------------------
(***************************************************************************)
(* Clients and relay together: what a client publishes becomes a put at    *)
(* the relay, whose change goes to every subscribed peer, the sender       *)
(* included (packages/relay/src/realtime-bridge.js), and each client       *)
(* applies what it is sent (packages/ap-client/src/client.js), watches     *)
(* collections and stops watching them, drops and comes back.              *)
(*                                                                         *)
(* Neither side awaits what a frame starts, so that puts at the relay, and *)
(* the frames a client applies, overlap and end in any order.  One step    *)
(* each: what a put writes, the reads of a replay, a frame the client      *)
(* stores and its cursors, a publish(), a send with the removal of its     *)
(* outbox entry.  ApStore, RealtimeResume and ClientOutbox open these up.  *)
(***************************************************************************)
EXTENDS Naturals, Sequences, FiniteSets, SequencesExt

CONSTANTS
    Clients,
    Actor,        \* Actor[c]: the actor client c says hello as
    Registered,   \* the actors in the relay's registry when it starts
    Own,          \* Own[a]: the collections whose ids start with actor id a
    Ids, Colls,
    Place,        \* Place[id]: the collections a document is published under
    Watched,      \* Watched[c]: the collections client c watches to begin with
    Nobody,       \* the actor of a peer that has not said hello
    MaxWatchers,  \* bound: watchers of one collection in one client
    MaxToggles,   \* bound: MaxToggles[c]: watchers of client c that begin or stop
    Authors,      \* bound: the clients that call publish(), one after the other
    MaxDials      \* bound: MaxDials[c]: connections of client c

ASSUME BridgeAssumption ==
    /\ Registered \subseteq DOMAIN Own /\ Nobody \notin DOMAIN Own
    /\ Actor \in [Clients -> DOMAIN Own]
    /\ \A a \in DOMAIN Own : Own[a] \subseteq Colls
    /\ Place \in [Ids -> SUBSET Colls]
    /\ Watched \in [Clients -> SUBSET Colls]
    /\ IsFiniteSet(Ids) /\ IsFiniteSet(Colls)
    /\ MaxWatchers \in Nat \ {0} /\ Authors \in Seq(Clients)
    /\ MaxToggles \in [Clients -> Nat]
    /\ MaxDials \in [Clients -> Nat]

VARIABLES
    registered, \* the actors in the relay's registry
    stored,    \* stored[id]: version of the document in the relay's store, 0 if none
    at,        \* at[id]: its ts there, the order of the relay's puts
    clock,     \* ts of the relay's latest put
    puts,      \* the relay's puts in flight: to be written, then announced
    peer,      \* peer[c]: the relay's peerState: [actor, subs]
    replay,    \* replay[c]: what a replay has read and has still to send to c
    conn,      \* conn[c]: "down", "opening" (in connect(), resuming) or "up"
    up, down,  \* frames on their way to the relay, and to the client
    watching,  \* watching[c][k]: watchChildren() calls not stopped yet
    subs,      \* subs[c]: #subscriptions
    tasks,     \* tasks[c]: the data frames c is storing, as they came
    doc,       \* doc[c][id]: version in the client's store, 0 if none
    cursor,    \* cursor[c][k]: the client's cursor, 0 if none
    outbox,    \* outbox[c][id]: the version queued, 0 if none
    flushing,  \* flushing[c]: a #flushOutbox() is under way
    published, \* publish() calls so far: the latest version
    toggles, dials,
    late,      \* late[c]: collections ever subscribed to while connected (history)
    lost,      \* lost[c]: documents of its own that went down with a connection,
               \* with nothing from the relay about them since (history)
    replayed,  \* <<c, id>>: a replay to c has read the version stored (history)
    overtaken, \* documents one version of which was written, announced or stored
               \* after another that had begun, or come, later (history)
    caught, from   \* caught[c]: the collections replayed to the peer and subscribed
               \* to ever since, from the cursors from[c] on (history)

relayVars == <<registered, stored, at, clock, puts>>
linkVars == <<peer, conn, up, down, replay, caught, from>>
watchVars == <<watching, subs, toggles, late>>
storeVars == <<tasks, doc, cursor>>
sendVars == <<outbox, flushing, published>>
historyVars == <<lost, replayed, overtaken>>
vars == <<relayVars, linkVars, watchVars, storeVars, sendVars, dials, historyVars>>

Unknown == [actor |-> Nobody, subs |-> {}]
NoVersions == [id \in Ids |-> 0]
NoCursors == [k \in Colls |-> 0]
Data(id, v, ks, ts) == [kind |-> "data", id |-> id, ver |-> v, colls |-> ks, ts |-> ts]
Control(op, ks) == [kind |-> op, colls |-> ks]

BInit ==
    /\ registered = Registered
    /\ stored = NoVersions /\ at = NoVersions /\ clock = 0 /\ puts = {}
    /\ peer = [c \in Clients |-> Unknown]
    /\ conn = [c \in Clients |-> "down"]
    /\ up = [c \in Clients |-> <<>>] /\ down = [c \in Clients |-> <<>>]
    /\ replay = [c \in Clients |-> <<>>]
    /\ watching = [c \in Clients |-> [k \in Colls |-> IF k \in Watched[c] THEN 1 ELSE 0]]
    /\ subs = Watched
    /\ tasks = [c \in Clients |-> <<>>]
    /\ doc = [c \in Clients |-> NoVersions]
    /\ cursor = [c \in Clients |-> NoCursors]
    /\ outbox = [c \in Clients |-> NoVersions]
    /\ flushing = [c \in Clients |-> FALSE]
    /\ published = 0 /\ toggles = [c \in Clients |-> 0]
    /\ dials = [c \in Clients |-> 0]
    /\ late = [c \in Clients |-> {}] /\ lost = [c \in Clients |-> {}]
    /\ overtaken = {} /\ replayed = {}
    /\ caught = [c \in Clients |-> {}] /\ from = [c \in Clients |-> NoCursors]

-----------------------------------------------------------------------------
\* transport.send(): what client c has sent, if it is connected.
Sent(c, f) == IF conn[c] = "down" THEN up ELSE [up EXCEPT ![c] = Append(@, f)]

\* watchChildren(k, ...), and subscribe(k) in it: the set has no count.
Watch(c, k) ==
    /\ toggles[c] < MaxToggles[c]
    /\ watching[c][k] < MaxWatchers
    /\ watching' = [watching EXCEPT ![c][k] = @ + 1]
    /\ toggles' = [toggles EXCEPT ![c] = @ + 1]
    /\ subs' = [subs EXCEPT ![c] = @ \cup {k}]
    /\ up' = IF k \in subs[c] THEN up ELSE Sent(c, Control("subscribe", {k}))
    /\ late' = IF conn[c] = "down" THEN late ELSE [late EXCEPT ![c] = @ \cup {k}]
    /\ UNCHANGED <<relayVars, peer, conn, down, replay, caught, from, storeVars, sendVars, dials, historyVars>>

\* Mutant of Unwatch: the relay is not told.
UnwatchQuietly(c, k) ==
    /\ toggles[c] < MaxToggles[c]
    /\ watching[c][k] > 0
    /\ toggles' = [toggles EXCEPT ![c] = @ + 1]
    /\ watching' = [watching EXCEPT ![c][k] = @ - 1]
    /\ subs' = [subs EXCEPT ![c] = @ \ {k}]
    /\ UNCHANGED <<relayVars, linkVars, storeVars, sendVars, dials, late, historyVars>>

\* The function watchChildren() returned is called, and unsubscribe(k) in it.
Unwatch(c, k) ==
    /\ toggles[c] < MaxToggles[c]
    /\ watching[c][k] > 0
    /\ toggles' = [toggles EXCEPT ![c] = @ + 1]
    /\ watching' = [watching EXCEPT ![c][k] = @ - 1]
    /\ subs' = [subs EXCEPT ![c] = @ \ {k}]
    /\ up' = IF k \in subs[c] THEN Sent(c, Control("unsubscribe", {k})) ELSE up
    /\ UNCHANGED <<relayVars, peer, conn, down, replay, caught, from, storeVars, sendVars, dials, late, historyVars>>

\* publish(): the document is stored, and queued in place of an older entry of
\* its id; a connected client flushes.
Publish(c, id) ==
    /\ published < Len(Authors) /\ Authors[published + 1] = c
    /\ Place[id] \subseteq Own[Actor[c]]
    /\ published' = published + 1
    /\ doc' = [doc EXCEPT ![c][id] = published']
    /\ outbox' = [outbox EXCEPT ![c][id] = published']
    /\ flushing' = [flushing EXCEPT ![c] = @ \/ conn[c] # "down"]
    /\ UNCHANGED <<relayVars, linkVars, watchVars, tasks, cursor, dials, historyVars>>

\* The ids that client c has queued.
Queued(c) == {id \in Ids : outbox[c][id] # 0}

\* #flushOutbox() hands the oldest entry to the transport and removes it.
SendEntry(c) ==
    /\ flushing[c]
    /\ \E id \in Queued(c) :
        /\ \A i \in Queued(c) : outbox[c][id] <= outbox[c][i]
        /\ up' = [up EXCEPT ![c] = Append(@, Data(id, outbox[c][id], Place[id], 0))]
        /\ outbox' = [outbox EXCEPT ![c][id] = 0]
        /\ flushing' = [flushing EXCEPT ![c] = Queued(c) # {id}]
    /\ UNCHANGED <<relayVars, peer, conn, down, replay, caught, from, watchVars, storeVars, published, dials, historyVars>>

\* Mutant of Open: the subscriptions are not sent again.
OpenUnsubscribed(c) ==
    /\ conn[c] = "down"
    /\ dials[c] < MaxDials[c]
    /\ dials' = [dials EXCEPT ![c] = @ + 1]
    /\ conn' = [conn EXCEPT ![c] = "opening"]
    /\ up' = [up EXCEPT ![c] = <<Control("hello", {})>>]
    /\ UNCHANGED <<relayVars, peer, down, replay, caught, from, watchVars, storeVars, sendVars, historyVars>>

\* connect(): the transport opens, hello and the subscriptions, if any, go out.
Open(c) ==
    /\ conn[c] = "down"
    /\ dials[c] < MaxDials[c]
    /\ dials' = [dials EXCEPT ![c] = @ + 1]
    /\ conn' = [conn EXCEPT ![c] = "opening"]
    /\ up' = [up EXCEPT ![c] = <<Control("hello", {})>>
            \o (IF subs[c] = {} THEN <<>> ELSE <<Control("subscribe", subs[c])>>)]
    /\ UNCHANGED <<relayVars, peer, down, replay, caught, from, watchVars, storeVars, sendVars, historyVars>>

\* #resume() has read the cursors of the subscriptions; the flush follows.
SendResume(c) ==
    /\ conn[c] = "opening"
    /\ conn' = [conn EXCEPT ![c] = "up"]
    /\ up' = [up EXCEPT ![c] = Append(@, [kind |-> "resume",
                since |-> [k \in subs[c] |-> cursor[c][k]]])]
    /\ flushing' = [flushing EXCEPT ![c] = Queued(c) # {}]
    /\ UNCHANGED <<relayVars, peer, down, replay, caught, from, watchVars, storeVars, outbox, published, dials, historyVars>>

\* A frame arrives, and #handleFrame() begins: nothing awaits the put of a
\* document; the cursors of RESUMED, in one step, are set.
Receive(c) ==
    /\ down[c] # <<>>
    /\ down' = [down EXCEPT ![c] = Tail(@)]
    /\ LET f == Head(down[c])
       IN  \/ /\ f.kind = "data"
              /\ tasks' = [tasks EXCEPT ![c] = Append(@, f)]
              /\ UNCHANGED cursor
           \/ /\ f.kind = "resumed"
              /\ cursor' = [cursor EXCEPT ![c] = [k \in Colls |->
                   IF k \in DOMAIN f.cursors /\ f.cursors[k] # 0 THEN f.cursors[k] ELSE @[k]]]
              /\ UNCHANGED tasks
    /\ UNCHANGED <<relayVars, peer, conn, up, replay, caught, from, watchVars, doc, sendVars,
                   dials, historyVars>>

\* The n-th frame that c is storing is done before another version of its
\* document that came earlier.
Passes(c, n) ==
    \E m \in 1..(n - 1) : tasks[c][m].id = tasks[c][n].id /\ tasks[c][m].ver # tasks[c][n].ver

\* The put of a frame's document is done, over any version that is there and in
\* whatever order; its ts is the cursor of the collections still subscribed to.
StoreFrame(c) ==
    /\ \E n \in DOMAIN tasks[c] :
        LET f == tasks[c][n]
        IN  /\ tasks' = [tasks EXCEPT ![c] = RemoveAt(@, n)]
            /\ doc' = [doc EXCEPT ![c][f.id] = f.ver]
            /\ lost' = [lost EXCEPT ![c] = @ \ {f.id}]
            /\ cursor' = [cursor EXCEPT ![c] = [k \in Colls |->
                 IF k \in f.colls \cap subs[c] THEN f.ts ELSE @[k]]]
            /\ overtaken' = IF Passes(c, n) THEN overtaken \cup {f.id} ELSE overtaken
    /\ UNCHANGED <<relayVars, linkVars, watchVars, sendVars, dials, replayed>>

-----------------------------------------------------------------------------
\* The relay's next frame of kind op from client c.
Arrived(c, op) == up[c] # <<>> /\ Head(up[c]).kind = op

\* Mutant of Gone: the flush is not broken off.
GoneFlushing(c) ==
    /\ conn' = [conn EXCEPT ![c] = "down"]
    /\ up' = [up EXCEPT ![c] = <<>>] /\ down' = [down EXCEPT ![c] = <<>>]
    /\ replay' = [replay EXCEPT ![c] = <<>>]
    /\ peer' = [peer EXCEPT ![c] = Unknown]
    /\ caught' = [caught EXCEPT ![c] = {}] /\ from' = [from EXCEPT ![c] = NoCursors]
    /\ UNCHANGED <<flushing, lost>>

\* The connection of c is gone, with what was on its way; the relay forgets it.
Gone(c) ==
    /\ conn' = [conn EXCEPT ![c] = "down"]
    /\ up' = [up EXCEPT ![c] = <<>>] /\ down' = [down EXCEPT ![c] = <<>>]
    /\ replay' = [replay EXCEPT ![c] = <<>>]
    /\ peer' = [peer EXCEPT ![c] = Unknown]
    /\ caught' = [caught EXCEPT ![c] = {}] /\ from' = [from EXCEPT ![c] = NoCursors]
    /\ flushing' = [flushing EXCEPT ![c] = FALSE]
    /\ lost' = [lost EXCEPT ![c] = @ \cup {id \in Ids :
         \E i \in DOMAIN up[c] : up[c][i].kind = "data" /\ up[c][i].id = id}]

\* The application that embeds the relay adds an actor to its registry.
Register(a) ==
    /\ a \notin registered
    /\ registered' = registered \cup {a}
    /\ UNCHANGED <<stored, at, clock, puts, linkVars, watchVars, storeVars, sendVars, dials, historyVars>>

\* hello: the peer is known from here on, or closed if its actor is not here.
HandleHello(c) ==
    /\ Arrived(c, "hello")
    /\ \/ /\ Actor[c] \in registered
          /\ peer' = [peer EXCEPT ![c].actor = Actor[c]]
          /\ up' = [up EXCEPT ![c] = Tail(@)]
          /\ UNCHANGED <<conn, down, replay, caught, from, flushing, lost>>
       \/ Actor[c] \notin registered /\ Gone(c)
    /\ UNCHANGED <<relayVars, watchVars, storeVars, outbox, published, dials, replayed, overtaken>>

\* subscribe and unsubscribe frames change the peer's subscriptions.
HandleSubscribe(c) ==
    /\ \/ /\ Arrived(c, "subscribe")
          /\ peer' = [peer EXCEPT ![c].subs = @ \cup Head(up[c]).colls]
          /\ UNCHANGED caught
       \/ /\ Arrived(c, "unsubscribe")
          /\ peer' = [peer EXCEPT ![c].subs = @ \ Head(up[c]).colls]
          /\ caught' = [caught EXCEPT ![c] = @ \ Head(up[c]).colls]
    /\ up' = [up EXCEPT ![c] = Tail(@)]
    /\ UNCHANGED <<relayVars, conn, down, replay, from, watchVars, storeVars, sendVars, dials, historyVars>>

\* The cursor that a resume has for collection k.
SinceOf(since, k) == IF k \in DOMAIN since THEN since[k] ELSE 0

\* What getChildrenSince() finds in collection k: the documents put after the
\* cursor.
Missed(k, since) == {id \in Ids : k \in Place[id] /\ at[id] > SinceOf(since, k)}

\* replayResume() goes through the collections one after the other, and through
\* what was missed in each in the order of the puts.
ReplayOrder(order) ==
    \A m, n \in DOMAIN order : m < n /\ order[m][1] = order[n][1] =>
        /\ at[order[m][2]] < at[order[n][2]]
        /\ \A i \in m..n : order[i][1] = order[m][1]

\* The ts of the last document of those in ids.
LastPut(ids) == CHOOSE t \in {at[id] : id \in ids} : \A id \in ids : at[id] <= t

\* The frames of a replay: each document under the collection it was missed in.
ReplayFrames(order) ==
    [n \in DOMAIN order |->
        Data(order[n][2], stored[order[n][2]], {order[n][1]}, at[order[n][2]])]

\* The cursors that the RESUMED of a replay of the collections ks carries.
NewCursors(ks, since) ==
    [k \in ks |-> IF Missed(k, since) = {} THEN SinceOf(since, k) ELSE LastPut(Missed(k, since))]

\* replayResume(): what was missed is read.
HandleResume(c) ==
    /\ Arrived(c, "resume")
    /\ LET since == Head(up[c]).since
       IN  /\ \E order \in SetToSeqs({r \in peer[c].subs \X Ids : r[2] \in Missed(r[1], since)}) :
                /\ ReplayOrder(order)
                /\ replay' = [replay EXCEPT ![c] = Append(ReplayFrames(order),
                     [kind |-> "resumed", cursors |-> NewCursors(peer[c].subs, since)])]
           /\ replayed' = replayed \cup {<<c, id>> : id \in UNION {Missed(k, since) : k \in peer[c].subs}}
           /\ from' = [from EXCEPT ![c] = [k \in Colls |-> SinceOf(since, k)]]
    /\ caught' = [caught EXCEPT ![c] = peer[c].subs]
    /\ up' = [up EXCEPT ![c] = Tail(@)]
    /\ UNCHANGED <<relayVars, peer, conn, down, watchVars, storeVars, sendVars, dials, lost, overtaken>>

\* The stored version of id, unless v is it, has been announced: whoever is told
\* of v now is told of it too late.
TooLate(id, v) == stored[id] # v /\ \A p \in puts : p.id = id => p.ver # stored[id]

\* What a replay has read goes out, frame by frame, and RESUMED.
SendReplay(c) ==
    /\ replay[c] # <<>>
    /\ down' = [down EXCEPT ![c] = @ \o replay[c]]
    /\ replay' = [replay EXCEPT ![c] = <<>>]
    /\ overtaken' = overtaken \cup {id \in Ids : \E n \in DOMAIN replay[c] :
         replay[c][n].kind = "data" /\ replay[c][n].id = id /\ TooLate(id, replay[c][n].ver)}
    /\ UNCHANGED <<relayVars, peer, conn, up, caught, from, watchVars, storeVars, sendVars, dials, lost, replayed>>

\* Mutant of Concerned: the sender is not told of its own change.
OthersConcerned(c, id) ==
    {d \in Clients \ {c} : peer[d].actor # Nobody /\ Place[id] \cap peer[d].subs # {}}

\* The peers a change of id is sent to; c is the peer that caused it.
Concerned(c, id) == {d \in Clients : peer[d].actor # Nobody /\ Place[id] \cap peer[d].subs # {}}

\* A data frame from a peer: all its collections must be the actor's own, or it
\* is dropped; store.put() begins, under a ts of its own.  Nothing awaits it.
HandleData(c) ==
    /\ Arrived(c, "data")
    /\ LET f == Head(up[c])
       IN  IF f.colls \subseteq Own[peer[c].actor]
           THEN /\ clock' = clock + 1
                /\ puts' = puts \cup {[pc |-> "write", id |-> f.id, ver |-> f.ver, ts |-> clock', by |-> c]}
           ELSE UNCHANGED <<clock, puts>>
    /\ up' = [up EXCEPT ![c] = Tail(@)]
    /\ UNCHANGED <<registered, stored, at, peer, conn, down, replay, caught, from, watchVars, storeVars,
                   sendVars, dials, historyVars>>

\* put() has written the document and its index entries.
WritePut(p) ==
    /\ p.pc = "write"
    /\ stored' = [stored EXCEPT ![p.id] = p.ver]
    /\ at' = [at EXCEPT ![p.id] = p.ts]
    /\ puts' = (puts \ {p}) \cup {[p EXCEPT !.pc = "announce"]}
    /\ replayed' = {r \in replayed : r[2] # p.id}
    /\ overtaken' = IF p.ts < at[p.id] THEN overtaken \cup {p.id} ELSE overtaken
    /\ UNCHANGED <<registered, clock, linkVars, watchVars, storeVars, sendVars, dials, lost>>

\* A replay has read the version stored over p, and some peer is told of p after it.
AfterReplay(p) ==
    stored[p.id] # p.ver /\ \E d \in Concerned(p.by, p.id) : <<d, p.id>> \in replayed

\* Its 'change' event: a frame to each of the peers concerned.
AnnouncePut(p) ==
    /\ p.pc = "announce"
    /\ puts' = puts \ {p}
    /\ down' = [d \in Clients |-> IF d \in Concerned(p.by, p.id)
         THEN Append(down[d], Data(p.id, p.ver, Place[p.id], p.ts)) ELSE down[d]]
    /\ overtaken' = IF TooLate(p.id, p.ver) \/ AfterReplay(p) THEN overtaken \cup {p.id} ELSE overtaken
    /\ UNCHANGED <<registered, stored, at, clock, peer, conn, up, replay, caught, from, watchVars,
                   storeVars, sendVars, dials, lost, replayed>>

\* The socket closes, on either side.
Drop(c) ==
    /\ conn[c] # "down"
    /\ dials[c] < MaxDials[c]
    /\ Gone(c)
    /\ UNCHANGED <<relayVars, watchVars, storeVars, outbox, published, dials, replayed, overtaken>>

-----------------------------------------------------------------------------
Handle(c) == HandleHello(c) \/ HandleSubscribe(c) \/ HandleResume(c) \/ HandleData(c)

\* A put of the relay goes on.
RelayPut == \E p \in puts : WritePut(p) \/ AnnouncePut(p)

BNext ==
    \/ \E a \in DOMAIN Own : Register(a)
    \/ RelayPut
    \/ \E c \in Clients :
         \/ \E k \in Colls : Watch(c, k) \/ Unwatch(c, k)
         \/ \E id \in Ids : Publish(c, id)
         \/ SendEntry(c) \/ Open(c) \/ SendResume(c)
         \/ Receive(c) \/ StoreFrame(c)
         \/ Handle(c) \/ SendReplay(c) \/ Drop(c)

\* What client or relay has under way, and the application's dialling again.
UnderWay ==
    \/ RelayPut
    \/ \E c \in Clients :
        \/ Open(c) \/ SendResume(c) \/ SendEntry(c) \/ Receive(c) \/ StoreFrame(c)
        \/ Handle(c) \/ SendReplay(c)

\* Frames on a live connection arrive and are handled, what they start goes on,
\* and so does a flush, and the application dials again: as long as any of it can
\* go on, something does.  Nobody has to watch, publish or drop.
BFairness == WF_vars(UnderWay)

BSpec == BInit /\ [][BNext]_vars /\ BFairness

-----------------------------------------------------------------------------
Versions == 0..Len(Authors)

\* Every variable keeps its type; the relay's peers subscribe only as actors it
\* knows, and no cursor is ahead of the relay.
BTypeOK ==
    /\ stored \in [Ids -> Versions] /\ at \in [Ids -> 0..clock]
    /\ \A p \in puts : p.pc \in {"write", "announce"} /\ p.id \in Ids /\ p.ver \in Versions /\ p.ts \in 1..clock
    /\ overtaken \subseteq Ids /\ replayed \subseteq Clients \X Ids
    /\ conn \in [Clients -> {"down", "opening", "up"}]
    /\ flushing \in [Clients -> BOOLEAN]
    /\ \A c \in Clients :
        /\ peer[c].actor \in registered \cup {Nobody} /\ peer[c].subs \subseteq Colls
        /\ peer[c].actor = Nobody => peer[c].subs = {}
        /\ watching[c] \in [Colls -> 0..MaxWatchers]
        /\ caught[c] \subseteq peer[c].subs /\ from[c] \in [Colls -> 0..clock]
        /\ subs[c] \subseteq Colls /\ late[c] \subseteq Colls
        /\ doc[c] \in [Ids -> Versions]
        /\ cursor[c] \in [Colls -> 0..clock]
        /\ outbox[c] \in [Ids -> Versions]
        /\ flushing[c] => Queued(c) # {} /\ conn[c] # "down"

\* Nothing is on its way to or from client c, nor being put at the relay.
Settled(c) ==
    /\ conn[c] = "up" /\ up[c] = <<>> /\ down[c] = <<>> /\ replay[c] = <<>>
    /\ tasks[c] = <<>> /\ Queued(c) = {} /\ puts = {}

\* The documents put since what client c has told, on this connection, to have
\* seen of a collection it has been subscribed to ever since.
Since(c) == {id \in Ids : \E k \in Place[id] \cap caught[c] : at[id] > from[c][k]}

\* Devices that publish over each other, offline or not, end up with what the
\* relay has: once client c is connected and nothing is under way, it holds what
\* was put since it was last there in the relay's version, as long as no version
\* of it overtook another on the way, in the relay's puts or in the client's
\* own.  The echo to the sender is what makes this so (realtime-bridge.js:20-25,
\* 95-117, client.js:205-255).
Agree ==
    \A c \in Clients : Settled(c) =>
        \A id \in Since(c) \ overtaken : doc[c][id] = stored[id]

\* The relay pushes to a client what the client watches, and nothing else: once
\* its hello and (un)subscribe frames are handled, the peer is subscribed to
\* the collections with a watcher, over drops, watchers that come and go while
\* connected, connecting or offline, and a connect() that overlaps them
\* (client.js:61-67, 166-195, realtime-bridge.js:75-82).
SubscribedAsWatched ==
    \A c \in Clients :
        /\ conn[c] # "down"
        /\ \A i \in DOMAIN up[c] : up[c][i].kind \in {"resume", "data"}
        => peer[c].subs = {k \in Colls : watching[c][k] > 0}

\* The documents of the collections client c has subscribed to since before it
\* connected are, in its store, in the version the relay has, but for those of
\* its own that it sent and that never arrived.
AsTheRelay(c) ==
    \A id \in Ids \ (lost[c] \cup overtaken) :
        Place[id] \cap (subs[c] \ late[c]) # {} => doc[c][id] = stored[id]

\* Once publishing, watching and dropping end, every client that stays connected
\* comes to hold what the relay holds, for ever after, whichever connection
\* brought it, unless versions overtook each other (realtime-bridge.js:91-117,
\* client.js:54-70, 197-227).
EventuallyAgree ==
    \A c \in Clients : <>[](conn[c] # "down" => AsTheRelay(c))
=============================================================================
