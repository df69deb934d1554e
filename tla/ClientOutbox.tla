--------------------------- MODULE ClientOutbox ---------------------------
(***************************************************************************)
(* packages/ap-client: how ApClient.publish() gets persistent writes from  *)
(* the application to the transport, through the durable outbox, across    *)
(* drops, reconnects and restarts.                                         *)
(*                                                                         *)
(* publish(), connect() and the flush both end in are async functions over *)
(* the local store, so any number of them interleave at their awaits.  An  *)
(* operation of the store is one step here, taken where its effect becomes *)
(* visible; module ApStore opens it up.  Time is the order of publish()    *)
(* calls: a write is known by its id and its ts.                           *)
(***************************************************************************)
EXTENDS Naturals, Sequences

CONSTANTS
    Publishers,  \* slots for publish() calls in flight at the same time
    Ids,         \* ids the application publishes under
    Republish,   \* TRUE: an id may be published again (publish({ id, ... }))
    MaxPublish,  \* bound: publish() is called this often
    MaxDrops,    \* bound: sockets lost or refused, and restarts of the app
    Crashes      \* TRUE: the app may be killed and started again

ASSUME OutboxAssumption ==
    /\ Republish \in BOOLEAN /\ Crashes \in BOOLEAN
    /\ MaxPublish \in Nat /\ MaxDrops \in Nat

\* connect() runs a flush of its own, next to those of the publish() calls.
Connect == "connect"
Flushers == Publishers \cup {Connect}

VARIABLES
    clock,      \* publish() calls so far; the ts of the latest
    local,      \* local[id]: the ts of the stored document, 0 if none (durable)
    outbox,     \* outbox[id]: the ts of the queued entry, 0 if none (durable)
    pc,         \* pc[f]: where the publish() or connect() in slot f stands
    item,       \* item[p]: the write publish() call p is about
    todo,       \* todo[f]: the entries flush f has still to send
    sock,       \* the transport's current socket: "none", "open" or "closed"
    connected,  \* this.#connected
    closes,     \* 'close' events not delivered yet
    drops,      \* failures of the environment so far
    queued,     \* the writes enqueued, in that order (history)
    handed      \* writes send() accepted (history)

envVars == <<sock, connected, closes, drops>>
vars == <<clock, local, outbox, pc, item, todo, envVars, queued, handed>>

Write == [id : Ids, ts : 1..MaxPublish]
NoWrite == [id |-> "none", ts |-> 0]

OInit ==
    /\ clock = 0
    /\ local = [id \in Ids |-> 0]
    /\ outbox = [id \in Ids |-> 0]
    /\ pc = [f \in Flushers |-> "idle"]
    /\ item = [p \in Publishers |-> NoWrite]
    /\ todo = [f \in Flushers |-> {}]
    /\ sock = "none" /\ connected = FALSE /\ closes = 0 /\ drops = 0
    /\ queued = <<>>
    /\ handed = {}

-----------------------------------------------------------------------------
\* publish({ id, ... }): const ts = Date.now(); store.put(doc) is under way.
Publish(p, id) ==
    /\ pc[p] = "idle"
    /\ clock < MaxPublish
    /\ Republish \/ (local[id] = 0 /\ \A q \in Publishers : item[q].id # id)
    /\ clock' = clock + 1
    /\ item' = [item EXCEPT ![p] = [id |-> id, ts |-> clock']]
    /\ pc' = [pc EXCEPT ![p] = "put"]
    /\ UNCHANGED <<local, outbox, todo, envVars, queued, handed>>

\* await store.put(doc, ...): the document is stored; the entry is next.
StoreDoc(p) ==
    /\ pc[p] = "put"
    /\ local' = [local EXCEPT ![item[p].id] = item[p].ts]
    /\ pc' = [pc EXCEPT ![p] = "enqueue"]
    /\ UNCHANGED <<clock, outbox, item, todo, envVars, queued, handed>>

\* await enqueueOutbox(...): one entry per id, so a later one replaces it.
\* Then, if connected, flush; otherwise publish() returns.
Enqueue(p) ==
    /\ pc[p] = "enqueue"
    /\ outbox' = [outbox EXCEPT ![item[p].id] = item[p].ts]
    /\ queued' = Append(queued, item[p])
    /\ pc' = [pc EXCEPT ![p] = IF connected THEN "list" ELSE "idle"]
    /\ item' = [item EXCEPT ![p] = NoWrite]
    /\ UNCHANGED <<clock, local, todo, envVars, handed>>

-----------------------------------------------------------------------------
\* flushOutbox(): const entries = await store.getChildren(outboxCollection)
ListOutbox(f) ==
    /\ pc[f] = "list"
    /\ todo' = [todo EXCEPT ![f] =
                  {[id |-> id, ts |-> outbox[id]] : id \in {i \in Ids : outbox[i] # 0}}]
    /\ pc' = [pc EXCEPT ![f] = "send"]
    /\ UNCHANGED <<clock, local, outbox, item, envVars, queued, handed>>

\* Mutant of Oldest: the listing is not reversed.
Newest(f) == CHOOSE e \in todo[f] : \A o \in todo[f] : e.ts >= o.ts

\* The oldest entry of the listing; the listing was read before.
Oldest(f) == CHOOSE e \in todo[f] : \A o \in todo[f] : e.ts <= o.ts

\* Mutant of Send: send() on a socket that is not open drops the frame quietly.
SendUnchecked(f) ==
    /\ pc[f] = "send"
    /\ todo[f] # {}
    /\ handed' = IF sock = "open" THEN handed \cup {Oldest(f)} ELSE handed
    /\ pc' = [pc EXCEPT ![f] = "delete"]
    /\ UNCHANGED <<clock, local, outbox, item, todo, envVars, queued>>

\* transport.send(frame) accepts the frame of the oldest entry.
Send(f) ==
    /\ pc[f] = "send"
    /\ todo[f] # {}
    /\ sock = "open"
    /\ handed' = handed \cup {Oldest(f)}
    /\ pc' = [pc EXCEPT ![f] = "delete"]
    /\ UNCHANGED <<clock, local, outbox, item, todo, envVars, queued>>

\* await store.delete(entry.id): by id, whatever the entry holds by now.
DeleteEntry(f) ==
    /\ pc[f] = "delete"
    /\ LET e == Oldest(f)
       IN  /\ outbox' = [outbox EXCEPT ![e.id] = 0]
           /\ todo' = [todo EXCEPT ![f] = @ \ {e}]
    /\ pc' = [pc EXCEPT ![f] = "send"]
    /\ UNCHANGED <<clock, local, item, envVars, queued, handed>>

\* Nothing is left, or send() throws and the loop breaks: the rest stays queued.
EndFlush(f) ==
    /\ pc[f] = "send"
    /\ todo[f] = {} \/ sock # "open"
    /\ todo' = [todo EXCEPT ![f] = {}]
    /\ pc' = [pc EXCEPT ![f] = "idle"]
    /\ UNCHANGED <<clock, local, outbox, item, envVars, queued, handed>>

FlushStep(f) == ListOutbox(f) \/ Send(f) \/ DeleteEntry(f) \/ EndFlush(f)

-----------------------------------------------------------------------------
\* connect(), called by the application when it finds itself disconnected
\* (client.js:14-17): await transport.connect().
Dial ==
    /\ pc[Connect] = "idle"
    /\ ~connected
    /\ pc' = [pc EXCEPT ![Connect] = "dial"]
    /\ UNCHANGED <<clock, local, outbox, item, todo, envVars, queued, handed>>

\* The socket opens: connected = true, hello and subscribe go out, resume begins.
Open ==
    /\ pc[Connect] = "dial"
    /\ sock' = "open"
    /\ connected' = TRUE
    /\ pc' = [pc EXCEPT ![Connect] = "resume"]
    /\ UNCHANGED <<clock, local, outbox, item, todo, closes, drops, queued, handed>>

\* The handshake fails: an 'error', then a 'close' event; connect() rejects.
Refuse ==
    /\ pc[Connect] = "dial"
    /\ drops < MaxDrops
    /\ drops' = drops + 1
    /\ sock' = "closed"
    /\ closes' = closes + 1
    /\ pc' = [pc EXCEPT ![Connect] = "idle"]
    /\ UNCHANGED <<clock, local, outbox, item, todo, connected, queued, handed>>

\* Mutant of Resume: connect() ends without a flush.
ResumeNoFlush ==
    /\ pc[Connect] = "resume"
    /\ pc' = [pc EXCEPT ![Connect] = "idle"]
    /\ UNCHANGED <<clock, local, outbox, item, todo, envVars, queued, handed>>

\* The cursors are read and RESUME is sent, or send() throws and connect()
\* rejects before it flushes.
Resume ==
    /\ pc[Connect] = "resume"
    /\ pc' = [pc EXCEPT ![Connect] = IF sock = "open" THEN "list" ELSE "idle"]
    /\ UNCHANGED <<clock, local, outbox, item, todo, envVars, queued, handed>>

\* The socket is lost: send() throws from now on; its event comes later.
Drop ==
    /\ sock = "open"
    /\ drops < MaxDrops
    /\ drops' = drops + 1
    /\ sock' = "closed"
    /\ closes' = closes + 1
    /\ UNCHANGED <<clock, local, outbox, pc, item, todo, connected, queued, handed>>

\* transport.onClose(): of whichever socket, possibly after a newer one opened.
CloseEvent ==
    /\ closes > 0
    /\ closes' = closes - 1
    /\ connected' = FALSE
    /\ UNCHANGED <<clock, local, outbox, pc, item, todo, sock, drops, queued, handed>>

\* The app is killed and started again: only what the store holds remains.
Crash ==
    /\ Crashes
    /\ drops < MaxDrops
    /\ drops' = drops + 1
    /\ pc' = [f \in Flushers |-> "idle"]
    /\ item' = [p \in Publishers |-> NoWrite]
    /\ todo' = [f \in Flushers |-> {}]
    /\ sock' = "none" /\ connected' = FALSE /\ closes' = 0
    /\ UNCHANGED <<clock, local, outbox, queued, handed>>

-----------------------------------------------------------------------------
PublishStep(p) == StoreDoc(p) \/ Enqueue(p)

ONext ==
    \/ \E p \in Publishers : PublishStep(p) \/ \E id \in Ids : Publish(p, id)
    \/ \E f \in Flushers : FlushStep(f)
    \/ Dial \/ Open \/ Refuse \/ Resume \/ Drop \/ CloseEvent \/ Crash

\* Store operations complete, close events are delivered, the application
\* reconnects when it is disconnected, and dialling succeeds or fails.
OFairness ==
    /\ \A p \in Publishers : WF_vars(PublishStep(p))
    /\ \A f \in Flushers : WF_vars(FlushStep(f))
    /\ WF_vars(Dial) /\ WF_vars(Open) /\ WF_vars(Resume) /\ WF_vars(CloseEvent)

OSpec == OInit /\ [][ONext]_vars /\ OFairness

-----------------------------------------------------------------------------
\* The writes published so far.
Published == [id : Ids, ts : 1..clock]

\* Every variable keeps its type: a slot is at one of its own awaits, what is
\* queued or handed over was published, and there are never more close events
\* to come than sockets lost (client.js:54-70).
OTypeOK ==
    /\ clock \in 0..MaxPublish
    /\ local \in [Ids -> 0..clock]
    /\ outbox \in [Ids -> 0..clock]
    /\ pc \in [Flushers ->
         {"idle", "put", "enqueue", "list", "send", "delete", "dial", "resume"}]
    /\ item \in [Publishers -> Published \cup {NoWrite}]
    /\ \A p \in Publishers : pc[p] \in {"put", "enqueue"} => item[p] \in Published
    /\ todo \in [Flushers -> SUBSET Published]
    /\ sock \in {"none", "open", "closed"}
    /\ connected \in BOOLEAN
    /\ drops \in 0..MaxDrops /\ closes \in 0..drops
    /\ queued \in Seq(Published)
    /\ handed \subseteq Published

\* A persistent write stays in the outbox until it was handed to the
\* transport: no flush, of whichever call, drops a newer entry than the one it
\* sent, and no drop or restart loses one (client.js:4-5).
HeldOrHanded ==
    \A n \in DOMAIN queued :
        \/ outbox[queued[n].id] = queued[n].ts
        \/ queued[n] \in handed
        \/ \E m \in DOMAIN queued : m > n /\ queued[m].id = queued[n].id

\* Of two writes queued in the order they were published in, the later one
\* does not reach the transport while the earlier one is still waiting, over
\* all the flushes that publish() and connect() run at the same time
\* (client.js:239).
InOrder ==
    [][\A n \in DOMAIN queued : \A m \in 1..(n - 1) :
          /\ queued[n] \in handed' \ handed
          /\ queued[m].ts < queued[n].ts
          /\ outbox[queued[m].id] = queued[m].ts
          => queued[m] \in handed]_vars

\* Once the connection stays up, the outbox drains, without another publish():
\* an entry queued while connect() was flushing is not left behind.
Drains == <>[](\A id \in Ids : outbox[id] = 0)

-----------------------------------------------------------------------------
\* Why HeldOrHanded and InOrder hold when no id is published again.  The calls
\* in flight are about different documents, none of which is queued yet.
Unqueued ==
    \A p \in Publishers :
        /\ item[p] # NoWrite => pc[p] \in {"put", "enqueue"}
        /\ pc[p] = "put" => local[item[p].id] = 0
        /\ pc[p] = "enqueue" => /\ local[item[p].id] = item[p].ts
                                /\ \A n \in DOMAIN queued : queued[n].id # item[p].id
        /\ \A q \in Publishers \ {p} :
             item[p] # NoWrite /\ item[q] # NoWrite => item[p].id # item[q].id

\* What is queued is what is stored, each id once.
QueuedOnce ==
    /\ \A n \in DOMAIN queued : local[queued[n].id] = queued[n].ts
    /\ \A m, n \in DOMAIN queued : queued[m].id = queued[n].id => m = n

IsQueued(w) == \E n \in DOMAIN queued : queued[n] = w

\* The outbox, and what the flushes have listed of it, are writes queued before;
\* a flush that is about to delete an entry has handed it over.
FromQueue ==
    /\ \A id \in Ids : outbox[id] # 0 => IsQueued([id |-> id, ts |-> outbox[id]])
    /\ \A f \in Flushers : \A w \in todo[f] : IsQueued(w)
    /\ \A f \in Flushers : pc[f] = "delete" => todo[f] # {} /\ Oldest(f) \in handed

\* A flush that has listed a write has listed every earlier one that still waits.
ListedInOrder ==
    \A f \in Flushers : \A n \in DOMAIN queued : \A m \in 1..(n - 1) :
        /\ pc[f] \in {"send", "delete"}
        /\ queued[n] \in todo[f]
        /\ outbox[queued[m].id] = queued[m].ts
        => queued[m] \in todo[f] \cup handed

\* The inductive invariant behind HeldOrHanded and InOrder.
OutboxInv == Unqueued /\ QueuedOnce /\ FromQueue /\ ListedInOrder /\ HeldOrHanded
=============================================================================
