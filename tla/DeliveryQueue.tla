--------------------------- MODULE DeliveryQueue ---------------------------
(***************************************************************************)
(* packages/ap-delivery: DeliveryQueue, the retry queue a relay keeps in   *)
(* the persistent tier of its store, with resolveInboxes() and             *)
(* deliverActivity().                                                      *)
(*                                                                         *)
(* An entry is a document of ApStore under one collection; enqueue() and   *)
(* processDue() reach it only through put(), delete() and getChildren().   *)
(* The queue takes no lock: two passes, or a pass and an enqueue(), may    *)
(* overlap at every await.  Timestamps are clock ticks here: one tick is   *)
(* BASE_BACKOFF_MS.                                                        *)
(***************************************************************************)
EXTENDS ApStore, Sequences

CONSTANTS
    Queue,        \* the collection the queue's entries are put under
    Workers,      \* the slots processDue() runs in; the others enqueue()
    Inboxes,      \* what the recipients of an activity resolve to
    MaxAttempts,
    MaxBackoff,   \* MAX_BACKOFF_MS, in ticks
    MaxEnqueues,  \* bound: how often enqueue() is called for one activity
    MaxTroubles,  \* bound: how often the process stops and starts again, or
                  \* processDue() is called before it has returned
    MaxIdle       \* bound: ticks in which no processDue() runs to its end

VARIABLES
    clock,     \* Date.now()
    pass,      \* pass[w]: the local variables of the processDue() in slot w
    ran,       \* a pass begun in this tick has ended
    idle,      \* how many ticks went by without one
    crashes,   \* how often the process has stopped
    asked,     \* history: asked[id], how often id was enqueued
    tries,     \* history: tries[id], the `now` of each delivery attempt since
               \* enqueue() last wrote the entry; None before the first time
    accepted,  \* history: the inboxes that took the activity since then
    cut,       \* history: the entries a put() of which had read the record, and
               \* had not returned, when the process stopped
    overlaps   \* how often processDue() was called before it had returned

hazardVars == <<cut, overlaps>>
queueVars == <<clock, pass, ran, idle, crashes, asked, tries, accepted, hazardVars>>
dvars == <<storeVars, queueVars>>

backoffMs(attempts) ==
    IF 2 ^ (attempts - 1) <= MaxBackoff THEN 2 ^ (attempts - 1) ELSE MaxBackoff

ASSUME QueueAssumption ==
    /\ Queue \in Colls
    /\ Workers \subseteq Callers
    /\ MaxAttempts \in Nat \ {0}
    /\ MaxBackoff \in Nat \ {0}
    /\ MaxEnqueues \in Nat /\ MaxTroubles \in Nat /\ MaxIdle \in Nat
    /\ 0 \in Times /\ Times \subseteq Nat
    /\ \A n \in 1 .. MaxAttempts : backoffMs(n) \in Nat
    /\ Docs \subseteq [attempts : 0 .. MaxAttempts - 1, next : Nat]
    /\ None \notin [id : Ids, doc : Docs] /\ None \notin Seq(Times)

\* Docs has what enqueue() and processDue() put.
ASSUME EntryAssumption ==
    \A t \in Times :
        /\ [attempts |-> 0, next |-> t] \in Docs
        /\ \A n \in 1 .. MaxAttempts - 1 : [attempts |-> n, next |-> t + backoffMs(n)] \in Docs

\* No processDue() runs in the slot.
Off == [at |-> "off", now |-> 0, keys |-> {}, entries |-> {}, entry |-> None,
        inboxes |-> {}, failed |-> FALSE]

DInit ==
    /\ Init
    /\ clock = 0
    /\ pass = [w \in Workers |-> Off]
    /\ ran = TRUE
    /\ idle = 0
    /\ crashes = 0
    /\ asked = [id \in Ids |-> 0]
    /\ tries = [id \in Ids |-> None]
    /\ accepted = [id \in Ids |-> {}]
    /\ cut = {}
    /\ overlaps = 0

Tick ==
    /\ clock + 1 \in Times
    /\ ran \/ idle < MaxIdle
    /\ clock' = clock + 1
    /\ ran' = FALSE
    /\ idle' = IF ran THEN idle ELSE idle + 1
    /\ UNCHANGED <<storeVars, crashes, pass, asked, tries, accepted, hazardVars>>

-----------------------------------------------------------------------------
\* enqueue(activity, recipients): attempts 0, due now.
Enqueue(p, id) ==
    /\ p \notin Workers
    /\ asked[id] < MaxEnqueues
    /\ PutBegin(p, id, [attempts |-> 0, next |-> clock], {Queue}, clock)
    /\ asked' = [asked EXCEPT ![id] = @ + 1]
    /\ UNCHANGED <<crashes, clock, pass, ran, idle, tries, accepted, hazardVars>>

\* The next step of a put() or delete() of the store; when it is the write of
\* an enqueue() the history of the activity starts again.
StoreStep(p) ==
    /\ CallStep(p)
    /\ IF p \notin Workers /\ pc[p] = "unindex" /\ pc'[p] = "index"
         THEN /\ tries' = [tries EXCEPT ![call[p].id] = <<>>]
              /\ accepted' = [accepted EXCEPT ![call[p].id] = {}]
         ELSE UNCHANGED <<tries, accepted>>
    /\ UNCHANGED <<crashes, clock, pass, ran, idle, asked, hazardVars>>

-----------------------------------------------------------------------------
\* processDue(): `now` is read once, for the whole pass.  Nothing keeps a second
\* pass from starting; which free slot it runs in makes no difference.
StartPass(w) ==
    /\ pass[w].at = "off"
    /\ w = CHOOSE v \in Workers : pass[v].at = "off"
    /\ IF \A v \in Workers : pass[v].at = "off"
         THEN UNCHANGED overlaps
         ELSE crashes + overlaps < MaxTroubles /\ overlaps' = overlaps + 1
    /\ pass' = [pass EXCEPT ![w] = [Off EXCEPT !.at = "list", !.now = clock]]
    /\ UNCHANGED <<storeVars, crashes, clock, ran, idle, asked, tries, accepted, cut>>

\* pending(): getChildren() lists the index keys of the collection ...
ListPending(w) ==
    /\ pass[w].at = "list"
    /\ pass' = [pass EXCEPT ![w].at = "get",
                            ![w].keys = {e \in idx : e[1] = Queue}]
    /\ UNCHANGED <<storeVars, crashes, clock, ran, idle, asked, tries, accepted, hazardVars>>

\* ... and reads their objects one by one, leaving out those that are gone.
GetPending(w) ==
    /\ pass[w].at = "get"
    /\ \E e \in pass[w].keys :
        LET r == obj[e[3]] IN
        pass' = [pass EXCEPT
            ![w].keys = @ \ {e},
            ![w].entries = IF r = None THEN @ ELSE @ \cup {[key |-> e, doc |-> r.doc]}]
    /\ UNCHANGED <<storeVars, crashes, clock, ran, idle, asked, tries, accepted, hazardVars>>

\* The entries in the order getChildren() returns them, newest first.
FirstIn(entries) == {e \in entries : \A f \in entries : e.key[2] >= f.key[2]}

\* `if (entry.nextAttemptAt > now) continue`
SkipEntry(w) ==
    /\ pass[w].at = "get"
    /\ pass[w].keys = {}
    /\ \E e \in FirstIn(pass[w].entries) :
        /\ e.doc.next > pass[w].now
        /\ pass' = [pass EXCEPT ![w].entries = @ \ {e}]
    /\ UNCHANGED <<storeVars, crashes, clock, ran, idle, asked, tries, accepted, hazardVars>>

\* resolveInboxes(): every recipient's actor is fetched; a fetch that fails is
\* one of `errors`, the others' inboxes are delivered to.  The inbox of one that
\* fails may be reached all the same, as the sharedInbox of another.
Resolve(w) ==
    /\ pass[w].at = "get"
    /\ pass[w].keys = {}
    /\ \E e \in FirstIn(pass[w].entries), resolved \in SUBSET Inboxes, errors \in BOOLEAN :
        /\ e.doc.next <= pass[w].now
        /\ resolved # Inboxes => errors
        /\ pass' = [pass EXCEPT ![w].at = "post",
                                ![w].entries = @ \ {e},
                                ![w].entry = [id |-> e.key[3], doc |-> e.doc],
                                ![w].inboxes = resolved,
                                ![w].failed = errors]
        /\ tries' = [tries EXCEPT ![e.key[3]] = Append(@, pass[w].now)]
    /\ UNCHANGED <<storeVars, crashes, clock, ran, idle, asked, accepted, hazardVars>>

\* hasFailures, after one more inbox has answered.
HasFailures(failed, ok) == failed \/ ~ok

\* deliverActivity(): one signed POST per inbox.  It is taken, or not, and an
\* answer may be lost on its way back.
Post(w) ==
    /\ pass[w].at = "post"
    /\ \E i \in pass[w].inboxes, taken, ok \in BOOLEAN :
        /\ ok => taken
        /\ pass' = [pass EXCEPT ![w].inboxes = @ \ {i},
                                ![w].failed = HasFailures(@, ok)]
        /\ accepted' = IF taken
                         THEN [accepted EXCEPT ![pass[w].entry.id] = @ \cup {i}]
                         ELSE accepted
    /\ UNCHANGED <<storeVars, crashes, clock, ran, idle, asked, tries, hazardVars>>

\* Mutant of Updated: the attempt is not counted.
UpdatedUncounted(w) ==
    LET attempts == pass[w].entry.doc.attempts + 1
    IN  [attempts |-> attempts - 1, next |-> pass[w].now + backoffMs(attempts)]

\* Mutant of Updated: due again at once.
UpdatedDue(w) ==
    [attempts |-> pass[w].entry.doc.attempts + 1, next |-> pass[w].now]

\* What is put back after a failed attempt: one attempt more, due after the
\* backoff that goes with it, counted from the start of the pass.
Updated(w) ==
    LET attempts == pass[w].entry.doc.attempts + 1
    IN  [attempts |-> attempts, next |-> pass[w].now + backoffMs(attempts)]

\* `attempts >= this.#maxAttempts`
IsLast(w) == pass[w].entry.doc.attempts + 1 >= MaxAttempts

\* All inboxes answered: delivered, or the last attempt, and the entry is
\* deleted; or it is put again for a later pass.
Settle(w) ==
    /\ pass[w].at = "post"
    /\ pass[w].inboxes = {}
    /\ \/ /\ ~pass[w].failed \/ IsLast(w)
          /\ DeleteBegin(w, pass[w].entry.id)
       \/ /\ pass[w].failed /\ ~IsLast(w)
          /\ PutBegin(w, pass[w].entry.id, Updated(w), {Queue}, pass[w].now)
    /\ pass' = [pass EXCEPT ![w].at = "store"]
    /\ UNCHANGED <<crashes, clock, ran, idle, asked, tries, accepted, hazardVars>>

\* The await on the store call is over: the next entry.
NextEntry(w) ==
    /\ pass[w].at = "store"
    /\ pc[w] = "idle"
    /\ pass' = [pass EXCEPT ![w].at = "get", ![w].entry = None, ![w].failed = FALSE]
    /\ UNCHANGED <<storeVars, crashes, clock, ran, idle, asked, tries, accepted, hazardVars>>

\* return results
EndPass(w) ==
    /\ pass[w].at = "get"
    /\ pass[w].keys = {}
    /\ pass[w].entries = {}
    /\ pass' = [pass EXCEPT ![w] = Off]
    /\ ran' = (ran \/ pass[w].now = clock)
    /\ UNCHANGED <<storeVars, crashes, clock, idle, asked, tries, accepted, hazardVars>>

PassStep(w) ==
    \/ ListPending(w) \/ GetPending(w) \/ SkipEntry(w) \/ Resolve(w)
    \/ Post(w) \/ Settle(w) \/ NextEntry(w) \/ EndPass(w)

-----------------------------------------------------------------------------
\* The process stops and starts again: what the store holds is all that stays.
Crash ==
    /\ crashes + overlaps < MaxTroubles
    /\ crashes' = crashes + 1
    /\ \E p \in Callers : pc[p] # "idle" \/ (p \in Workers /\ pass[p].at # "off")
    /\ pc' = [p \in Callers |-> "idle"]
    /\ call' = [p \in Callers |-> None]
    /\ old' = [p \in Callers |-> None]
    /\ todo' = [p \in Callers |-> {}]
    /\ pass' = [w \in Workers |-> Off]
    /\ cut' = cut \cup {call[p].id : p \in {q \in Callers : pc[q] \in {"unindex", "index"}}}
    /\ UNCHANGED <<obj, idx, used, clock, ran, idle, asked, tries, accepted, overlaps>>

DNext ==
    \/ Tick
    \/ Crash
    \/ \E p \in Callers, id \in Ids : Enqueue(p, id)
    \/ \E p \in Callers : StoreStep(p)
    \/ \E w \in Workers : StartPass(w) \/ PassStep(w)

\* The steps of a call run once it is made, the clock goes on, and processDue()
\* is called again and again ("Callers own the schedule").  Nothing is assumed
\* of the recipients' servers.
DFairness ==
    /\ WF_dvars(Tick)
    /\ \A p \in Callers : WF_dvars(StoreStep(p))
    /\ \A w \in Workers : WF_dvars(StartPass(w)) /\ WF_dvars(PassStep(w))

DSpec == DInit /\ [][DNext]_dvars /\ DFairness

-----------------------------------------------------------------------------
Delivered(id) == accepted[id] = Inboxes

QueueKeys == Colls \X Times \X Ids
Pass == [at : {"off", "list", "get", "post", "store"}, now : Times,
         keys : SUBSET QueueKeys, entries : SUBSET [key : QueueKeys, doc : Docs],
         entry : {None} \cup [id : Ids, doc : Docs],
         inboxes : SUBSET Inboxes, failed : BOOLEAN]

\* Every variable keeps its type; a pass holds an entry exactly while one is
\* in delivery or being stored.
DTypeOK ==
    /\ TypeOK
    /\ clock \in Times
    /\ ran \in BOOLEAN
    /\ idle \in 0 .. MaxIdle
    /\ crashes \in 0 .. MaxTroubles
    /\ asked \in [Ids -> 0 .. MaxEnqueues]
    /\ tries \in [Ids -> {None} \cup Seq(Times)]
    /\ accepted \in [Ids -> SUBSET Inboxes]
    /\ cut \subseteq Ids
    /\ overlaps \in 0 .. MaxTroubles
    /\ pass \in [Workers -> Pass]
    /\ \A w \in Workers : pass[w].entry # None <=> pass[w].at \in {"post", "store"}

\* It was attempted, and delivered to every inbox or attempted for the last time.
Done(id) == tries[id] # None /\ (Delivered(id) \/ Len(tries[id]) >= MaxAttempts)

\* The entry is stored, and pending() lists it.
Queued(id) == obj[id] # None /\ indexKey(Queue, obj[id].ts, id) \in idx

\* queue.js:3-7: an activity stays queued, where the next pass finds it, until it
\* is delivered to every inbox or given up after maxAttempts attempts, however
\* passes overlap and wherever the process stops, but for a stop inside the
\* put() of the entry: its index key may then be gone for good.
KeptUntilDone ==
    \A id \in Ids :
        tries[id] # None /\ ~Busy(id) /\ id \notin cut => Done(id) \/ Queued(id)

\* The stored entry counts the attempts that were made, so that maxAttempts
\* bounds them, whichever pass made them; a process that stops in the middle
\* of an attempt costs one of them at most (queue.js:109-125).  Passes that
\* overlap write the same count.
AttemptsCounted ==
    overlaps = 0 => \A id \in Ids : tries[id] # None =>
        /\ Len(tries[id]) <= MaxAttempts + crashes
        /\ obj[id] # None /\ ~Busy(id) /\ (\A w \in Workers : pass[w].entry = None) =>
            /\ obj[id].doc.attempts <= Len(tries[id])
            /\ Len(tries[id]) <= obj[id].doc.attempts + crashes

\* Attempt i + 1 on an activity is made by a pass that starts at least
\* backoffMs(i) after the one that made attempt i, unless the process stopped
\* before it had stored the outcome, or passes overlapped (queue.js:21-23, 87-97,
\* 124).
BackedOff ==
    crashes = 0 /\ overlaps = 0 =>
        \A id \in Ids : tries[id] # None =>
            \A i \in 1 .. Len(tries[id]) - 1 :
                tries[id][i + 1] - tries[id][i] >= backoffMs(i)

\* The ticks the attempts on an entry may be spread over.
TicksNeeded == 1 + (MaxAttempts - 1) * MaxBackoff + MaxIdle

\* Every activity whose enqueue() has returned is in the end delivered or given
\* up, and its entry gone, whatever the recipients' servers do (queue.js:84-132),
\* if the process is not stopped, passes do not overlap, and the clock of the
\* instance has that many ticks left.
Settles ==
    \A id \in Ids :
        tries[id] = <<>> /\ ~Busy(id) /\ clock + TicksNeeded \in Times ~>
            \/ crashes > 0 \/ overlaps > 0
            \/ /\ obj[id] = None /\ ~Busy(id)
               /\ tries[id] # None /\ (Delivered(id) \/ Len(tries[id]) = MaxAttempts)

-----------------------------------------------------------------------------
\* A pass attempts only entries that were written, and the store call of a slot
\* is on the entry of its pass; DTypeOK needs it.
Begun ==
    /\ \A id \in Ids : obj[id] # None => tries[id] # None
    /\ \A w \in Workers :
        /\ pc[w] # "idle" => pass[w].at = "store" /\ call[w].id = pass[w].entry.id
        /\ pass[w].entry # None => tries[pass[w].entry.id] # None
        /\ \A d \in pass[w].entries : tries[d.key[3]] # None

\* Why they hold, when processDue() runs in one slot and no activity is
\* enqueued twice.  The enqueue() of id has written its key, or was cut short:
\* from here on the entry of id is the worker's.
Entered ==
    {id \in Ids :
        /\ asked[id] # 0
        /\ \A p \in Callers \ Workers :
              pc[p] # "idle" /\ call[p].id = id => pc[p] = "index" /\ todo[p] = {}}

\* An entry has one key, and it is in the queue and nowhere else.
KeysOK ==
    /\ \A id \in Ids : obj[id] # None => obj[id].colls = {Queue} /\ asked[id] # 0
    /\ \A e \in idx : /\ e[1] = Queue /\ e[3] \in Entered
                      /\ obj[e[3]] # None => e[2] = obj[e[3]].ts
                      /\ \A f \in idx : f[3] = e[3] => f = e

\* An enqueue() writes an entry that is not there, and then its key.
EnqueueAt(p) ==
    /\ pc[p] \in PutPc /\ call[p].colls = {Queue} /\ call[p].doc.attempts = 0
    /\ asked[call[p].id] # 0
    /\ \A q \in Callers \ Workers : pc[q] # "idle" /\ call[q].id = call[p].id => q = p
    /\ pc[p] \in {"get", "unindex"} => obj[call[p].id] = None
    /\ pc[p] = "unindex" => todo[p] = {}
    /\ pc[p] = "index" /\ todo[p] # {} =>
          obj[call[p].id] # None /\ obj[call[p].id].ts = call[p].ts

\* A pass works on entries as they are stored, one id at a time.
PassAt(w) ==
    /\ pass[w].at \in {"off", "list"} => pass[w].keys = {} /\ pass[w].entries = {}
    /\ \A e \in pass[w].keys :
          /\ e[3] \in Entered
          /\ \A f \in pass[w].keys : f[3] = e[3] => f = e
    /\ \A d \in pass[w].entries :
          /\ d.key[3] \in Entered /\ obj[d.key[3]] # None /\ obj[d.key[3]].doc = d.doc
          /\ \A e \in pass[w].keys : e[3] # d.key[3]
          /\ \A e \in pass[w].entries : e.key[3] = d.key[3] => e = d
    /\ pass[w].at \in {"post", "store"} =>
          /\ pass[w].keys = {} /\ pass[w].entry.id \in Entered
          /\ \A d \in pass[w].entries : d.key[3] # pass[w].entry.id

\* The worker's attempt on id has not come to its outcome in the store.
Attempting(w, id) ==
    /\ pass[w].entry # None /\ pass[w].entry.id = id
    /\ pass[w].at = "post" \/ pc[w] \in {"get", "unindex", "dget", "dobj"}

\* What the worker knows of the entry it attempts, and does with it.
AttemptAt(w) ==
    /\ \A id \in Ids : Attempting(w, id) =>
          obj[id] # None /\ obj[id].doc = pass[w].entry.doc
    /\ pass[w].at = "post" /\ ~pass[w].failed =>
          Inboxes \ pass[w].inboxes \subseteq accepted[pass[w].entry.id]
    /\ pc[w] \in PutPc => call[w].colls = {Queue} /\ call[w].ts = pass[w].now
    /\ pc[w] \in {"get", "unindex"} => ~IsLast(w) /\ call[w].doc = Updated(w)
    /\ pc[w] = "unindex" =>
          /\ old[w] = obj[call[w].id]
          /\ Queue \notin todo[w] => \A e \in idx : e[3] # call[w].id
    /\ pc[w] = "index" =>
          /\ obj[call[w].id] # None /\ obj[call[w].id].ts = call[w].ts
          /\ Queue \in todo[w] => \A e \in idx : e[3] # call[w].id
    /\ pc[w] \in {"dget", "dobj"} =>
          Delivered(call[w].id) \/ Len(tries[call[w].id]) >= MaxAttempts

UnderWay(id) == \E w \in Workers : Attempting(w, id)

\* A stored entry counts its attempts, but for the one under way and for those
\* a crash cut short; one that is gone is delivered or had them all.
CountOK(id) ==
    /\ obj[id] # None =>
          LET a == obj[id].doc.attempts + (IF UnderWay(id) THEN 1 ELSE 0)
          IN  /\ tries[id] \in Seq(Times)
              /\ a <= Len(tries[id]) /\ Len(tries[id]) <= a + crashes
    /\ obj[id] = None /\ tries[id] # None =>
          /\ Len(tries[id]) <= MaxAttempts + crashes
          /\ Delivered(id) \/ Len(tries[id]) >= MaxAttempts

\* A stored entry is not due before the backoff of its last attempt is over.
DueAt(id) ==
    obj[id] # None /\ tries[id] # <<>> =>
        /\ ~UnderWay(id) =>
              obj[id].doc.next >= tries[id][Len(tries[id])] + backoffMs(Len(tries[id]))
        /\ \A w \in Workers : Attempting(w, id) => tries[id][Len(tries[id])] = pass[w].now

EnqueuesOK == \A p \in Callers \ Workers : pc[p] # "idle" => EnqueueAt(p)
PassOK == \A w \in Workers : PassAt(w)
AttemptOK == \A w \in Workers : AttemptAt(w)

\* A crash loses the outcome of an attempt, and the backoff with it.
CountsOK == \A id \in Ids : CountOK(id)
DueOK == crashes = 0 => \A id \in Ids : DueAt(id)

-----------------------------------------------------------------------------
\* Why KeptUntilDone holds, however passes overlap, when no activity is enqueued
\* twice.  An enqueue() writes the first entry there is of its activity.
FirstEntry ==
    /\ \A e \in idx : tries[e[3]] # None
    /\ \A w \in Workers : \A e \in pass[w].keys : tries[e[3]] # None
    /\ \A id \in Ids : tries[id] # None => asked[id] # 0
    /\ \A p \in Callers \ Workers : pc[p] # "idle" =>
          /\ pc[p] \in PutPc /\ asked[call[p].id] # 0 /\ call[p].doc.attempts = 0
          /\ \A q \in Callers \ Workers :
                pc[q] # "idle" /\ call[q].id = call[p].id => q = p
          /\ pc[p] \in {"get", "unindex"} <=> tries[call[p].id] = None

\* No copy of an entry counts more attempts than were made.
CopiesCount ==
    /\ \A id \in Ids : obj[id] # None => obj[id].doc.attempts <= Len(tries[id])
    /\ \A p \in Callers : pc[p] \in {"get", "unindex"} /\ tries[call[p].id] # None =>
          call[p].doc.attempts <= Len(tries[call[p].id])
    /\ \A w \in Workers :
        /\ \A d \in pass[w].entries : d.doc.attempts <= Len(tries[d.key[3]])
        /\ pass[w].entry # None =>
              pass[w].entry.doc.attempts + 1 <= Len(tries[pass[w].entry.id])

\* Only the entry of an activity that is done is deleted.
DeletedWhenDone ==
    /\ \A id \in Ids : obj[id] = None /\ tries[id] # None => Done(id)
    /\ \A w \in Workers :
        /\ pc[w] \in DeletePc => Done(call[w].id)
        /\ pass[w].at = "post" /\ ~pass[w].failed =>
              Inboxes \ pass[w].inboxes \subseteq accepted[pass[w].entry.id]

\* The put() in slot p will list the entry of id.
WillList(p, id) ==
    /\ pc[p] \in PutPc /\ call[p].id = id
    /\ \/ pc[p] = "unindex"
       \/ pc[p] = "index" /\ Queue \in todo[p] /\ call[p].ts = obj[id].ts

\* An entry that is not done is listed, or a put() that will list it runs.
ListedOrOwed ==
    /\ \A p \in Callers : pc[p] \in PutPc => call[p].colls = {Queue}
    /\ \A id \in Ids : tries[id] # None /\ id \notin cut /\ ~Done(id) =>
          Queued(id) \/ \E p \in Callers : WillList(p, id)

\* The inductive invariant behind KeptUntilDone.
KeptInv == FirstEntry /\ CopiesCount /\ DeletedWhenDone /\ ListedOrOwed

-----------------------------------------------------------------------------
\* The inductive invariant behind AttemptsCounted and BackedOff.
QueueInv == KeysOK /\ EnqueuesOK /\ PassOK /\ AttemptOK /\ CountsOK /\ DueOK
=============================================================================
