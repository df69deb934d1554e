# QuV4 in TLA+

TLA+ modules, TLC configurations and TLAPS proofs kept beside the QuV4 source
(`packages/*/src`, plain JavaScript). QuV4 is an ActivityPub relay and client
library: documents live in an ordered key-value store, clients work offline
through a durable outbox and catch up over a realtime connection, relays
deliver to each other over HTTP.

Everything runs in event loops, so nothing is preempted; but almost every
operation is an `async` function over a store, a file or a socket, and takes no
lock. At each `await` any other operation may run. The modules therefore have
one action per stretch of code between two awaits, and the properties say what
survives every interleaving of them, of crashes, drops and retries.

## 1. Inventory

| Component | State | Operations | Works with | What is hard | What makes it correct |
|---|---|---|---|---|---|
| **ap-store**, persistent tier (`ap-store/src/store.js`) | `obj/<id>` records, `idx/<collection>/<ts>/<id>` keys in an adapter | `put`, `get`, `delete`, `getChildren`, `getChildrenSince` | everything stores through it; emits `change` | a put is 2 + old + new adapter calls; puts, deletes, crashes between them | record and index agree; a re-put replaces; readers see only a replacement |
| **ap-store**, session and ephemeral tiers (`store.js`, `core/src/adapters/volatile-adapter.js`) | dedup window, `session/<sid>/…` keys with a ttl | `put`, `endSession`, `getSessionChildren` | realtime bridge | check-then-mark over an await; endSession in the middle of a put; expiry | one change per window; an ended session is empty; sessions do not touch each other |
| **core: QuEvents** (`core/src/events.js`) | set of listener entries | `on`, `once`, `off`, `emit` | the one bus of a process | emit inside emit, listeners that unsubscribe or throw | an emission calls the entries there were when it began; `once` is once |
| **reactive** (`reactive/src/watch.js`) | a generation counter per watcher | `watch`, `watchChildren`, unsubscribe | re-reads the store on `change` | overlapping re-reads, changes during a re-read | the last thing shown is what is stored; never an older version |
| **ap-client**, writes (`ap-client/src/client.js`) | local store, outbox entries, `#connected` | `publish`, `connect`, `flushOutbox` | local ap-store, a transport | two flushes at once, drops, stale close events, restarts | a queued write is never lost; order; the outbox drains |
| **ap-client**, reads + **ap-realtime resume** + **relay bridge** (`client.js`, `ap-realtime/src/resume.js`, `relay/src/realtime-bridge.js`) | cursors, subscriptions, per-peer actor and subscriptions | `subscribe`, `unsubscribe`, `#resume`, `#handleFrame`, `replayResume`, hello and data frames, change listener | client → relay store → peers → client stores, the sender's too | live frames in the middle of a replay, cursors that move meanwhile, echoes of older versions, drops | no document is missed; a cursor never passes one; devices end up with the same; what is pushed is what is watched |
| **ap-realtime SSE** (`sse-*-transport.js`) | peers, a text buffer | `connect`, `#pump`, `send`, `broadcast` | the frames above | reads that end anywhere | frames arrive whole, in order, once |
| **ap-delivery** (`ap-delivery/src`) | one store document per activity: attempts, nextAttemptAt | `enqueue`, `pending`, `processDue` | ap-store, remote inboxes | overlapping passes, crash while rescheduling, partial failure | an entry stays listed until done, or is cut short in a write; counted; spaced; ends |
| **relay router + ap-ingest + auto-accept** (`relay/src/ap-router.js`, `ap-ingest/src/pipeline.js`, `relay/src/auto-accept-follows.js`) | inbox records, embedded objects, Accepts | inbox POST, `ingestActivity`, `afterPersist` listener | ap-store, ap-delivery | repeated and overlapping posts, failing puts, listeners nobody awaits | acknowledged means stored and listed; Accepts are justified; Follows are answered |
| **relay identity** (`relay/src/local-actor.js`, `local-vault/src`) | seed and transport key pair in two files | `ensureLocalActor`, vault get/set | read at start | stop inside a file write, two starts at once | one identity, for ever; a restart works |
| **ap-core** (`ap-core/src`) | none | actor documents, HTTP signatures, Multikey, WebFinger, NodeInfo | relay identity → other servers | keys that are read later than they were used; encodings | a request verifies exactly if it is intact; the key in the actor document is the one in the vault |
| **as2** (`as2/src`) | none | vocabulary, audience, ids, canonical JSON | called by all | the routing that depends on the order of addressees | recipients are found in every field |
| **ap-groups, ap-encryption, core crypto** | membership records | add/remove/list members; guard; encrypt for recipients | ap-store, publish | members change while a message is prepared | what is private leaves the device sealed, for members |
| **runtime FsAdapter** (`runtime/src/fs-adapter.js`) | one file per key | put/get/delete/list | under ap-store | torn files, list reads one by one | a torn file spoils little; a listing has all that stayed |

Interactions: calls and awaits (client → store, queue → store, pipeline →
store), the `change` event (store → reactive, bridge), the `afterPersist` event
(pipeline → auto-accept), frames over a transport (bridge ↔ client), HTTP
(queue → router of another relay).

## 2. Modules

Each module's head comment names the code it models; `PROJECT.json` "map" gives
the lines of every definition.

| Module | Models | How state and actions correspond |
|---|---|---|
| `ApStore` | persistent `put` and `delete` | `obj`, `idx` are the adapter's content; `pc[p]`, `call[p]`, `old[p]`, `todo[p]` the locals of the call in slot `p`; one action per adapter call: `PutRead`, `PutUnindex`, `PutWrite`, `PutIndex`, `PutEmit`, and the same for delete. `Abort` is a rejecting adapter or a process that stops. `Listed` is `getChildren` |
| `StoreContract` | what readers of the store are promised | `val`, `listed`, `busy` per id: a call unlists the old record place by place, replaces or removes the value, lists the new one |
| `*Proofs` | theorems about the module of that name and the one it extends | section 5 |
| `RelayProofs` | theorems about `Ingest`, `ActorIdentity`, `VolatileTiers` and `QuEvents` | section 5 |
| `RealtimeProofs` | theorems about `RealtimeBridge` and `SseStream` | section 5 |
| `FsStore` | the store over `runtime`'s FsAdapter | extends `ApStore`: a write of the store is two steps, `Open…` (the file is truncated, `torn`, `open[p]`) and `Write…` (it is filled); `reader` is one `getChildren` with the names it has still to open |
| `Reactive` | `watch`, `watchChildren` | extends `ApStore`: store calls are at any step while `reads[w]` is a set of re-reads, each with the generation it was started in |
| `ClientOutbox` | `publish`, `connect`, `flushOutbox`, the WebSocket | `local`, `outbox`; a flush lists, then sends and deletes entry by entry; every publisher slot and `connect` have a flush of their own; `sock`, `connected` and pending `closes` are three different things, as in the code |
| `SealedOutbox` | the rest of `publish`: guard, encryption, live documents; group membership | extends `ClientOutbox`: `draft[p]` is the `listMembers` a publish waits for, `docs[ts]` the document that was queued, `live` those that are sent at once or never |
| `RealtimeResume` | relay puts → bridge → frames → client, cursors, replay | relay puts in three steps (`PutWritten`, `PutIndexed`, `PutEmitted`), `replay` with its list and per-document reads, `up`/`down` channels, `tasks`: the `#handleFrame` calls in flight |
| `RealtimeBridge` | several clients and the relay's bridge, both directions | `registered`, `stored`/`at` the relay's store, `peer[c]` its state per connection; `puts` those in flight there: begun by `HandleData`, written by `WritePut`, announced by `AnnouncePut`, in any order; each client has its documents, cursors, outbox, watchers and subscriptions, and `tasks`, the frames it is storing, in any order (`StoreFrame`); `up`/`down` are the two directions of the socket; `replay` is what `HandleResume` has read, the frames of what was `Missed` since each cursor in the order of the puts and a RESUMED with `NewCursors`, until `SendReplay` |
| `DeliveryQueue` | `enqueue`, `processDue`, `deliverActivity` | extends `ApStore`: an entry is a document in collection `Queue`; `pass[w]` holds the locals of a pass, and passes may overlap; any answer of any inbox |
| `Ingest` | inbox POSTs to acknowledged, and the Accept | `reqs` by stage, `handlers` the listeners under way, `sent` what senders know; the puts of a request are the steps of `ApStore` (`Store`, an instance over `records`, `index` and the `put…` variables), rejected or stopped anywhere |
| `VolatileTiers` | session and ephemeral puts | expiry times per key; one action per adapter call |
| `QuEvents` | the bus | `stack` of emissions, each with the entries it has still to call, `todo`; entries are numbered as they subscribe, and called in that order |
| `SseStream` | SSE transports | text as tokens, cut anywhere; `ReadPiece` is a read, `HandleChunk` one round of the boundary loop |
| `LocalIdentity` | `ensureLocalActor` over the vault's files | `file[k]` absent, torn or a key; writeFile in two steps |
| `Multikey` | base58 and the Multikey codec | operators over sequences of digits, for any two bases |
| `ActorIdentity` | actor document, WebFinger, signed requests and their verification | extends `LocalIdentity` and `Multikey`: `request[r]` is on its way, as it was sent (`asSigned`) or rewritten; `verdict[r]` what the receiver makes of it with the document served by then |
| `MC*` | constants and symmetry for TLC | |

`Reactive`, `FsStore` and `DeliveryQueue` are compositions: they use ApStore's own
actions for the store, as `SealedOutbox` uses those of `ClientOutbox` and
`ActorIdentity` those of `LocalIdentity`. `Ingest` has the store as an instance, for
the activities and their objects; the Accept, whose id is new, is one step.
`RealtimeBridge` composes client and relay at a coarser grain. What is not awaited
stays apart in it: a put at the relay begins, writes and announces, a replay reads
and sends, a frame comes and is stored. Within these, the writes of a put, the reads
of a replay, and a document with its cursors are one step each; `ApStore`,
`RealtimeResume` and `ClientOutbox` open them up. `ClientOutbox` takes a put as one
step and `RealtimeResume` as three, and say so; what a put does in between is
`ApStore`'s subject, and `StoreContract` is the proved statement of what may be seen
of it when every id has one caller.

Operators called "Mutant of X" are not part of a model: each is X with a
plausible bug. A property of a passing run is violated when one is put in
place of X, as `PROJECT.json` "mutants" lists.

## 3. What the runs show

Every run has its module's main safety and liveness properties in one
configuration, named like the run.

| Run | Bounds | Shows |
|---|---|---|
| `FsStore` | 2 callers with an id each, 2 collections, 2 timestamps that may be equal; one moves its id and may be cut short anywhere, also inside a write, the other puts and deletes; 1 reader | `NoStale`, `ListedThroughout`, `TornContained`; the store implements `StoreContract` also over files |
| `ReactiveWatch` | 2 callers over one document, 2 writes with distinct timestamps, 2 watchers of which one is made at a time (`MaxWatched`) | `Complete`, `Fresh`, `NeverOlder`, `Converges` |
| `Outbox` | 2 publishers, 2 documents of any durability, 2 drops, refusals or restarts; a group of 2 possible members, founded with one, 1 change | `HeldOrHanded`, `SealedForMembers`, `InOrder`, `Drains` |
| `Resume` | 2 documents, 2 collections (one subscribed to late), 1 writer, 1 drop | `NoLoss`, `CursorSafe`, `NoGap`, `CatchesUp` |
| `ResumeCutShort` | the same, 1 collection, the drop may cut a replay | `NoLoss` is violated |
| `Bridge` | 2 devices of one actor, 1 document, each publishes once (`Authors`); the phone watches from the start, stops and watches again and connects twice, the laptop only publishes and connects once; the actor is registered late; connections drop, and puts at the relay, replays and stored frames overlap at any time | `Agree`, `SubscribedAsWatched`, `EventuallyAgree` |
| `Delivery` | 1 activity, 2 inboxes, 3 attempts, 6 ticks, and one trouble: a stop of the process, or a second pass beside the first (`MaxTroubles`) | `KeptUntilDone`, `AttemptsCounted`, `BackedOff`, `Settles` |
| `Ingest` | 5 activities with all addressing fields in use, 2 local actors, 2 requests at a time whose puts overlap step by step, 3 posts, puts that reject anywhere, 1 restart | `AckedIsStored`, `AcceptsJustified`, `FollowAnswered` |
| `Volatile` | 2 sessions, 2 puts at a time, 4 ticks, window 2, ttl 1 | `EndedIsEmpty`, `SessionListed`, `EmittedOnce` |
| `Events` | 3 entries, 3 emissions, 3 deep | `DispatchesSnapshot`, `OnceUnsubscribed` |
| `Sse` | 2 connections, 2 frames, any cuts | `WholeInOrder`, `EndedIsRead` |
| `Identity` | 2 processes after each other, 3 starts, stops anywhere, inside writeFile too; every 2-digit public key in base 4, encoded in base 3; 1 request, rewritten at most once | `OneIdentity`, `VerifiedIfIntact`, `LearnedIsServed` |

`FsStore`, `Resume`, `Bridge` and `Ingest` also check a type invariant, with the
relations between variables that the other properties build on. `RTypeOK`,
`OTypeOK`, `DTypeOK`, `LTypeOK`, `TTypeOK`, `ETypeOK` and `XTypeOK` are proved
instead (section 5).

Why these bounds are enough. Store properties relate one id to its own entries:
ids do not interact, so one or two callers per id and two collections show what a
put and a delete can do to each other; for more callers there are the theorems of
section 5. The counters (drops, posts,
attempts, emissions) have the smallest bound that lets the thing happen, and
happen again after recovery where that makes a difference. One tick of
`DeliveryQueue` is BASE_BACKOFF_MS and `MaxBackoff` is 2, so three attempts
reach the cap, and six ticks hold three attempts with both backoffs. Slots, documents and timestamps that nothing
orders are model values, permuted by SYMMETRY only where no liveness property is
checked. In `Bridge` one device drops and the other stays: two publishes on one
document are enough for an echo to meet a newer version, two puts or two frames to
overtake each other, and a replay to meet either. With one document a replay has no
order and a cursor passes nothing; `Agree` for any documents is proved
(`DevicesAgree`, section 5), and what passing over a document does to a client is
the subject of `Resume`. In `Ingest` two puts of one activity have the same
timestamp (`Stamps` has one element): that is when the clean-up of one can remove
the entry of the other; the theorems are for any timestamps.
The bases of `Identity` are small, so that every key can be tried; zero bytes and
carries occur, leading zeros do not, as the codec's first byte is not 0 in the
code either.

### The run that ends in a violation

`resume.js` calls the replay "the server-side half of lossless reconnect". The
client moves its cursor with every data frame, live or replayed. A live frame
that arrives during a replay is newer than what the replay has still to send; if
the connection drops then, the next `resume` starts after documents the client
never got. `ResumeCutShort` finds this in two documents and one drop. `Resume`
checks the same property for connections that outlive their replay
(`LossyReplay = FALSE`).

### What the constants keep out

The passing runs hold under the use of the code that their constants describe.
These constants, changed, reach behaviours in which a property above no longer
holds; they are stated here so that nobody takes a green run for more than it
is. Lines are those where the step that does it is taken.

| Constant | Otherwise | Where |
|---|---|---|
| `MayPut`, `MayDelete` give every id one caller (`FsStore`) | two overlapping puts of one id read the same record and each leave an entry: `getChildren` lists the id twice (`NoStale`) | `store.js:116` |
| `Faults` holds no caller that deletes (`FsStore`) | a delete that stops after the object is gone leaves entries that no later put removes | `store.js:140` |
| `UniqueTs` (`ReactiveWatch`) | a put and a delete of one millisecond: the clean-up of the delete removes the entry of the put (`Complete`) | `store.js:142` |
| `Placements` fix the collections of a document (`ReactiveWatch`) | a put that moves a document does not tell the watchers of the collection it left (`Fresh`) | `store.js:126` |
| `Republish = FALSE` (`Outbox`) | an entry replaced between `send` and `delete` is deleted unsent (`HeldOrHanded`); an older version may be sent after a newer one | `client.js:250`, `238` |
| writes are ordered when they were queued in order (`InOrder`) | two overlapping `publish()` calls may queue, and send, in the other order | `client.js:157` |
| `HeldOrHanded` speaks of queued writes | an app killed between storing and queueing keeps a document it never sends | `client.js:142` |
| `SlowCursors = FALSE` (`Resume`) | live frames move the cursors while `connect()` reads them (`NoLoss`; not `NoGap`, which is proved without this and the next five) | `client.js:200` |
| `Writers` has one element | an index entry appears below a cursor already handed out (`NoLoss`) | `store.js:123` |
| `SteadyClock` | two puts of one millisecond are ordered by id, the later may come first (`NoLoss`) | `cursor.js:26` |
| `Updates = FALSE` | frames of one document are stored by tasks that overtake each other (`NoLoss`) | `client.js:216` |
| `caught \ LateColls` in `NoLoss` | what was in a collection before `subscribe()` while connected is never replayed once a live frame has set its cursor | `client.js:186` |
| `Place` puts a document into one collection | a replay names one collection and the client drops the other (`NoLoss`) | `resume.js:34` |
| `overlaps = 0` in `AttemptsCounted`, `BackedOff`, `Settles` | overlapping passes attempt an entry twice, count it once, and may write an entry back that was delivered | `queue.js:124`, `111` |
| `MaxEnqueues = 1` (`Delivery`) | an activity enqueued again during its last attempt is removed with it (`KeptUntilDone`) | `queue.js:117` |
| `cut` in `KeptUntilDone`, a stop in `Settles` | a stop inside the put that reschedules an entry leaves it without its index key, or torn on the disc: no pass lists it again, although it "stays queued and durable across restarts" (`queue.js:3-7`) if it is stopped anywhere else | `queue.js:124` |
| `cut` in `AckedIsStored` (`Ingest`) | an acknowledged activity is posted again (its answer was lost, or it goes to a second inbox), and that put rejects or is stopped after its clean-up: until the next put of the activity no inbox lists it; on the disc its file may be torn | `store.js:118-122` |
| `AckedIsStored` asks for one inbox a sharedInbox delivery is for | only the first local addressee gets it; the others never do, although the sending side posts once to a sharedInbox for all of them (`resolve-inboxes.js:2-4`) | `ap-router.js:137` |
| `AckedIsStored` asks for one of the inboxes an activity was delivered to | the put for the second inbox takes the activity out of the first | `pipeline.js:99` |
| `MayEmit` gives an ephemeral id one slot (`Volatile`) | two overlapping deliveries of it both emit (`EmittedOnce`) | `store.js:90` |
| `EndedIsEmpty` speaks of readers | a put in flight leaves index keys behind after `endSession()`, until the ttl | `store.js:102` |
| `OnceUnsubscribed` speaks of later emissions | an `emit()` inside a listener calls a `once` entry that the outer emission calls again | `events.js:54` |
| `EndedIsRead` excuses a throw | a throwing listener ends the reading of a connection that stays open | `sse-client-transport.js:48` |
| `Overlap = FALSE` (`Identity`) | two starts at the same time each use the keys they generated (`OneIdentity`) | `local-actor.js:34` |
| `OneIdentity` is about identities served | a stop inside `writeFile` leaves a file no later start can read | `fs-adapter.js:49` |
| `MaxWatchers = 1` (`Bridge`) | two watchers of a collection share one subscription that is not counted: the first that stops ends it for both (`SubscribedAsWatched`) | `client.js:166`, `190` |
| `overtaken` in `Agree`, `AsTheRelay` | the puts of two peers end, or are announced, in the other order than they began, or a client stores two frames in the other order than they came: it keeps the version that came last, until the document changes again, and the echo is not the "harmless, idempotent" one of `realtime-bridge.js:20-25` | `realtime-bridge.js:95-104`, `client.js:216` |
| `overtaken` in `Agree`, `AsTheRelay` | a replay reads a newer version before an older one is announced, and that one arrives last; or sends what it read before the newer one was announced | `resume.js:24`, `realtime-bridge.js:107` |
| `Since` in `Agree` | what lies below the cursors a client resumes from is not asked for; whether it has it is what `CursorSafe` says, within the bounds of `Resume` | `resume.js:24` |
| one document in `Bridge` | announcements of two documents in the other order than their timestamps move the cursor past the one that has still to come (`EventuallyAgree`), as two writers do in `Resume` | `store.js:81` |
| `late` in `AsTheRelay` | as `LateColls`: what was there before watching again while connected is not replayed once a live frame has moved the cursor | `client.js:186` |
| `lost` in `AsTheRelay` | what was handed to a connection that drops, or that the relay closes at hello, has left the outbox and is not sent again | `client.js:249` |
| `Agree` speaks of clients at rest | until the echo of its newest version is back, a device may show its older one again, when the echo of that comes | `realtime-bridge.js:95` |
| `TornContained` says what is spoiled | a torn object file makes every `get`, `put` and `delete` of its id reject for good; a torn index file makes `getChildren` of its collection reject until the id is put or deleted | `fs-adapter.js:37`, `44` |
| `ListedThroughout` speaks of what stayed | a reader that is slow may return a document that has been put elsewhere since its entry was read | `store.js:165` |
| `SealedForMembers` speaks of the time of the listing | who joins or leaves after it, while the document waits in the outbox, is not reckoned with | `client.js:130` |

How likely each is depends on the caller: passes that overlap need a caller that
does not await `processDue`; `serve.js` starts no delivery loop at all, and
leaves the schedule to whoever embeds the queue (`queue.js`: "Callers own the
schedule").

## 4. Fairness

Safety properties use none. For the liveness properties:

- `Converges`, `FollowAnswered`, `EndedIsRead`: weak fairness of the steps of a
  call that has been made. An adapter operation completes and the event loop
  resumes its caller; nothing is assumed about anyone making a call. An adapter
  that never answers is outside the model.
- `Drains`: in addition the application dials again when it is disconnected,
  and a dial succeeds when it is not refused; refusals and drops are bounded by
  `MaxDrops`. The client itself does not reconnect, so this is an assumption on
  the application, which the examples and tests of the repository make.
- `CatchesUp`: as `Drains`, and frames on a connection that stays up arrive.
- `EventuallyAgree`: weak fairness of all that is under way taken together
  (`UnderWay`: frames, puts, replays, flushes, and dialling again): as long as any of
  it can go on, something does. That is weaker than fairness of each, and enough, as
  an instance has a bounded number of such steps. It asks nothing of publishers and watchers: they may stop at
  any time, and the number of connections is bounded per device by `MaxDials`.
- `Settles`: the clock goes on and `processDue` is called again and again, as
  queue.js asks of its caller; in the bounded time of an instance at most
  `MaxIdle` ticks go by without a pass, and the property speaks of activities
  enqueued early enough for that. Servers may fail for ever.

CHECK_DEADLOCK is off where the system may stop: when a bound is used up.

## 5. Proofs

The theorems are checked by TLAPS for every value of the constants that the
assumptions named in its modules allow (the types of the constants, and what makes
them different from each other); what a theorem asks beyond that is in its ASSUME
and is named here. An inductive
invariant that is defined in the module it is about was first checked there by TLC.

### ApStoreProofs

For any number of callers, ids, collections and timestamps:

- `TypeCorrect`: `Spec => []TypeOK`.
- `CompleteCorrect`: if no call is cut short (`Faults = {}`), and timestamps are
  unique or nothing is deleted, `Spec => []Complete`. `Complete` is not inductive:
  it says nothing of an id while a call is in flight. `CompleteInv` adds: an entry
  that is missing is owed by a put that has still to write the object, or by the one
  that wrote it (`Owed`); a delete in its clean-up never holds the timestamp of the
  current record (`DeletesPast`); the timestamp of a put that has not written yet is
  nobody else's (`UnwrittenTsFresh`). The interesting step is `PutUnindex`: it may
  remove an entry of the current record only if that record has its own timestamp,
  and then another put, namely itself, still owes the entry.
- `NoStaleCorrect`: with one caller per id (`Exclusive`), and no delete cut short
  (`DeletesFinish`), `Spec => []NoStale`. Puts may be cut short anywhere.
  `NoStaleInv` adds what a call knows between its awaits: the record it read is
  still the stored one (`InHand`), the clean-up has left no entry it has not still
  to visit (`LeavesNone`), the index loop has written all it has visited
  (`Indexed`).
- `ContractImplemented`: under the same two conditions every step of `Spec` is a
  step of `StoreContract` or a stutter, under the mapping `val <- obj`, `listed <-
  Listed`, `busy <- Busy`; a call that is cut short is the contract's `Cut`.
  `ListedRemove` and `ListedAdd` are the two lemmas about what an entry does to a
  listing.

`Complete` is checked by `ReactiveWatch`, the other three by `FsStore`, where the
store runs over files; `FsStore` extends the module the theorems are about. The
inductive invariants themselves are proved and no longer listed in a run.

### ReactiveProofs

For any number of watchers over the store:

- `StoreUsed`: watchers only read. Hiding them, `RSpec => Spec`, so the theorems of
  `ApStoreProofs` hold with watchers too. `ReactiveTypeCorrect`: `RTypeOK`.
- `NeverOlderCorrect`: `RSpec => NeverOlder`, with no assumption on puts. A watcher
  shows what its last re-read returned, and re-reads overlap; `WatchInv` says why an
  older one cannot be shown last: there is one re-read per generation (`ReadsOK`),
  and what the latest one has read so far is not older than what was shown
  (`ShownBefore`). `Placed` says that calls and entries keep to `Placements`.
- `FreshCorrect`: if no put takes a document out of a watched collection (`Unmoved`;
  the other case is in the table of section 3), `RSpec => []Fresh`. `UpToDate` is
  the strengthening while re-reads are under way: for an id that no call has still
  to announce, what the latest re-read has, or will find, is what the store holds.

### FsStoreProofs

Under `Exclusive` and `DeletesFinish`, as `NoStaleCorrect`:

- `FsStoreUsed`: `FSpec => Spec`. A file being truncated is a stutter of `ApStore`,
  filling it is the step of the call. The two conditions are what makes this true: a
  call that meets a torn file rejects, which `Spec` allows to callers in `Faults`
  only, and `FsInv` shows that no other meets one. From it `FsContractImplemented`
  (`FSpec => ContractSpec`) and `FsNoStaleCorrect`.
- `ListedThroughoutCorrect` and `TornContainedCorrect`. `FsInv` says whose each torn
  file is (`OpenOK`, `TornObjects`, `TornEntries`), and that a document that stayed
  has been read or its index file is still to be opened (`ReaderOK`).

### SealedOutboxProofs

- `OutboxTypeCorrect`: `OTypeOK`. `OutboxImplemented`: `publish()` with guard,
  groups and encryption takes only steps of `ClientOutbox`, or stutters.
- `HeldOrHandedCorrect`, `InOrderCorrect`: for `Republish = FALSE`, however many
  flushes overlap and whatever is dropped or restarted. By
  itself neither holds from step to step. `OutboxInv` adds that what flushes have listed was queued, and what one is about
  to delete was handed over (`FromQueue`); that a flush that has listed a write has
  listed every older one that still waits (`ListedInOrder`); that an id is queued
  once, as it is stored (`QueuedOnce`); and that the calls in flight are about
  different ids, none queued yet (`Unqueued`).
- `SealedForMembersCorrect`: no assumption. `SealedInv` follows a document from
  the listing of the members to the outbox and the transport.

### DeliveryQueueProofs

- `QueueTypeCorrect`: `DTypeOK`, for any number of overlapping passes.
- `KeptUntilDoneCorrect`: with every activity enqueued at most once
  (`MaxEnqueues = 1`), for any number of overlapping passes and any stops.
  `KeptInv` says why: no copy of an entry, stored, listed or in the hands of a pass,
  counts more attempts than were made (`CopiesCount`), so an entry is deleted only
  when its activity is done (`DeletedWhenDone`); and one that is not done is listed,
  or a put that will list it runs (`ListedOrOwed`): two puts that clean up after each
  other both owe the entry. The entries whose put a stop has cut short (`cut`) are
  left out, which is the case of the table above.
- `AttemptsCountedCorrect`, `BackedOffCorrect`: in addition with one pass at a time
  (`OneWorker`), and `backoffMs` any function to the naturals. TLC refutes both for
  two passes, and all three for two enqueues. `QueueInv` has a part per thing a pass
  relies on across its awaits: an activity has one index entry, of the record's
  timestamp (`KeysOK`); an `enqueue()` under way is the only one of its id and finds
  nothing there (`EnqueuesOK`); what a pass has listed is as the store has it
  (`PassOK`); an attempt that has not failed was taken by each inbox it is through
  with, and its outcome is what the store is about to get (`AttemptOK`); the record
  counts the attempts made but for the one under way and one per stop (`CountsOK`);
  and before any stop it is not due within the backoff of the last one (`DueOK`).

### RelayProofs

Four modules that share no names.

`Ingest`, with no assumption: `IngestTypeCorrect`, `AckedIsStoredCorrect`,
`AcceptsJustifiedCorrect`. `IngestInv` says what a request at each stage knows to be
stored, which put it is in, and for whom it is (`RequestsOK`); that a record was put
for a delivery, into an inbox the delivery is for, and that what senders were told of
has one (`StoredForRecipient`); that an entry a record lacks is owed by a put under
way, unless the last put that wrote was cut short (`ListedOrOwed`); and that every
Accept is for a stored Follow of a wired actor, in the outbox before it is handed on
(`AcceptsMade`). `PostsCounted` bounds the Accepts for the types: each took a post.
`cut` in these statements is what `AckedIsStored` leaves out: documents whose latest
put to touch the store was cut short.

`ActorIdentity`:

- `IdentityTypeCorrect`; `IdentityImplemented`: the serving relay starts and stops
  as `LocalIdentity` says.
- `OneIdentityCorrect`, `VerifiedIfIntactCorrect`: starts that do not overlap
  (`~Overlap`), stopped anywhere. `IdentityInv` has the reason: the keys a process
  runs on are those in the files (`RunsOnFiles`), and a file is written only where
  there was none (`WritesMissing`), by the only start there is (`OneStarts`).
  `FederationInv` adds what requests and learned keys stem from.
- `LearnedIsServedCorrect`: in addition for keys with
  `decodeMultikey(encodeMultikey(k)) = k`. That is a fact about folds over the
  digits of every key, which the provers cannot show by induction; `Identity` checks
  it for every key of its bases.

`VolatileTiers`, for any sessions, documents, puts in flight, ttl and window:

- `TiersTypeOK`; `EndedSessionsEmpty` and `SessionsListed`, with no assumption. What
  is kept of an object was put since its session was last ended (`ObjsBegun`), and
  each put since then is kept as long as its ttl, and listed or in the hands of a
  call that will list it (`Listed`). The two are one invariant seen from both sides:
  a put re-reads nothing, so what makes them true while `endSession()` and expiry
  run between its awaits is that `since` and the object begin and end together.
- `EmitsOnce`: if an id is put through one slot at a time (`RoutesApart`, which is
  what `MayEmit` says in the run; the table of section 3 has the other case).
  `EmittedOnce` is about two emissions, and `Deduped` is what is remembered between
  them: the dedup entry lives as long as the window of the last emission, and a call
  that has found none came after that window.

`QuEvents`, for any listeners, subscriptions and emissions inside emissions:

- `BusTypeOK`; `SnapshotDispatched` and `OnceStaysGone`, two action properties, with
  no assumption. Every emission on the stack is `Halfway`: what it has called and
  what it has still to call are what was subscribed when it began, the called ones
  older than the rest (`Dispatching`). A `once()` entry that was called is no longer
  subscribed, and numbers are not used twice (`OnceCalled`), so no later emission
  begins with it.

### RealtimeProofs

`RealtimeBridge`, for any clients, actors, collections and documents:

- `BridgeTypeOK`: `BTypeOK`, with no assumption. Its last parts are not about types:
  that no cursor is ahead of the relay needs the same of every frame on its way
  (`NoneAhead`), and that a peer without an actor has no subscriptions needs
  `Greeted`, the order of hello and what follows it.
- `SubscriptionsTold`: with no assumption, once the frames of a connection are
  handled the relay has the subscriptions the client has. `CarriesSubs` says that
  the frames still on their way make the one set of the other; it survives a
  `connect()` overlapped by watchers because it is about every collection apart: the
  last frame that mentions it decides.
- `SubscriptionsWatched`: `SubscribedAsWatched`, if no collection has two watchers in
  a client (`MaxWatchers = 1`). `SubscriptionsTold` is what remains without that.
- `DevicesAgree`: `Agree`, with no assumption. `BLinked` is the invariant of types
  and connections. To it comes, for every client and every document put since the
  cursor it resumed from and not `overtaken`, that the last version is in hand
  (`Held`): what the client stores last, counting the frames on their way in their
  order, is the relay's version (`Ends`); or the put of that has still to be
  announced (`Putting`); or the client has still to send one of its own (`Sending`);
  or a replay has read one. Every step keeps one of them or hands it on to the next:
  a publish to `Sending`, the relay's write of it to `Putting`, its announcement, which
  goes to the sender too, to `Ends`. Where a step brings an older version after a
  newer one, it is that step which makes the document `overtaken`; the proof finds
  all such steps, and there are no others.

`SseStream`, for any number of connections and frames:

- `StreamTypeOK`: `XTypeOK`. `FramesWholeInOrder`: `WholeInOrder`, with no
  assumption. `Streamed` says where in the text of a connection its client is:
  there is a number of events it has handled, the comment first, with a frame handed
  out for each of the others; its buffer is what comes next, and the wire what comes
  after that (`Handled`, `TextAt`); while the connection is open nothing is missing
  at the end (`Complete`), so that what is written next comes in its place. The key
  lemma is `FirstBoundary`: wherever the text was cut, the first boundary in a
  buffer that begins with an event is the end of that event.

### RealtimeResumeProofs

- `ResumeTypeCorrect`: `STypeOK`, always; with the fact that only data frames become
  documents.
- `NoGapCorrect`: `NoGap`, with no assumption: for any documents, collections,
  writers that overlap, documents put again, timestamps that are equal or out of
  order, slow cursors, and drops anywhere. Once all is settled, what was put after
  the cursors of the resume is with the client. `GapInv` says for each such document
  where it is meanwhile (`Brought`): in a put that has still to announce it, in the
  frames or tasks on their way or stored already (`Coming`), in a collection the
  replay has still to list (`ToList`), or in what it has listed (`InReplay`).

`NoGap` is the part of "lossless" that depends on nothing: a resume that runs to its
end brings all it was asked for. What it is asked for depends on the cursors, and
those are right (`CursorSafe`), and with them nothing is lost (`NoLoss`), only under
the use that the constants of `Resume` describe; `ResumeCutShort` and the table of
section 3 have the cases in which they are not. Both are model-checked there and not
stated as theorems, whose hypotheses would be the list of these cases.

### Only model-checked

- All liveness: fairness and ENABLED are out of the prover's reach.
- That `decodeMultikey` inverts `encodeMultikey`: induction over data.
- `NoLoss` and `CursorSafe`, for the reason above.

Every other invariant and action property that a passing run checks is a theorem.

## 6. Not modelled, and why

- `canonicalize`, `stripBlindAddressing`, `ed25519Sign`, `buildJoinActivity` and
  the other activity builders: pure functions without state, most without a caller
  in the packages (nothing takes `bto` and `bcc` off an activity before it is
  delivered; what the sender enqueues is what is posted). The vocabulary, NodeInfo and collection pages are fixed texts.
- Cryptography itself: a signature is the pair of text and key, a ciphertext opens
  with its key and no other. The X25519 codec is `Multikey` with another prefix.
- base58 of bytes that are all 0 does not come back as it was (`base58.js:45`);
  with the codec's prefix no such bytes are encoded, so no property speaks of it.
- `readdir` is taken as one step: what it returns for files made or removed while
  it runs is the operating system's business. Limits of file names and of the
  disc appear as adapter calls that reject.
- Formatting of index keys and cursors (15 digits, a separator): a cursor is the
  pair of timestamp and id, with the order its string has.
- `get`, `getChildren` limits; HTTP GET routes other than the actor document: they
  change nothing the properties are about. The limit of 50 of `getChildren` in
  `watchChildren` is not reached by the instances.
- Deletes at the relay: nothing in the packages calls `store.delete()` there for a
  document that peers watch. Group membership, which is deleted, is in
  `SealedOutbox`.
- Two relays against each other as one module: what crosses is an HTTP post and
  its answer, which `DeliveryQueue` takes from any server and `Ingest` from any
  sender; neither assumes anything of the other side.

## 7. Plan

Modelled, in this order: ApStore and its contract and proofs; Reactive;
ClientOutbox; RealtimeResume; DeliveryQueue; Ingest; VolatileTiers; QuEvents;
SseStream; LocalIdentity; RealtimeBridge; Multikey and ActorIdentity; FsStore;
SealedOutbox.

Proved, in this order: the store, the outbox, ingest, identity, watchers, the store
over files, the delivery queue, resume, the bridge, the volatile tiers, the event
bus, the SSE stream. The theorems about a component whose module shares no names
with another's are in one module with it.

What is left:

1. The weaknesses of section 3: when the code changes where one of them bites, the
   constant that keeps it out can be changed, and the property loses its exception.
2. Liveness stays with TLC.
3. `RealtimeBridge` implementing the steps of `RealtimeResume`, client by client, is
   argued in section 2 and not checked.
