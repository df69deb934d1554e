------------------------ MODULE DeliveryQueueProofs ------------------------
(***************************************************************************)
(* Theorems about DeliveryQueue, for any activities, inboxes and bounds.   *)
(* The types always; that entries are kept when no activity is enqueued    *)
(* twice, however passes overlap; that attempts are counted and spaced     *)
(* when, besides, one pass runs at a time.                                 *)
(***************************************************************************)
EXTENDS DeliveryQueue, ApStoreProofs

\* processDue() is not called again before it has returned.
OneWorker == \A v, w \in Workers : v = w

\* An entry as pending() returns it.
PendingEntry == [key : QueueKeys, doc : Docs]

-----------------------------------------------------------------------------
\* Only the locals of slot w change.
OneSlot(w) == pass' \in [Workers -> Pass] /\ \A v \in Workers \ {w} : pass'[v] = pass[v]

LEMMA StartEffect ==
    ASSUME DTypeOK, NEW w \in Workers, StartPass(w)
    PROVE  /\ OneSlot(w)
           /\ pass'[w].at = "list" /\ pass'[w].keys = {} /\ pass'[w].entries = {}
           /\ pass'[w].entry = None
<1>1. [Off EXCEPT !.at = "list", !.now = clock] \in Pass
  BY QueueAssumption DEF DTypeOK, Off, Pass
<1> QED
  BY <1>1 DEF DTypeOK, StartPass, OneSlot, Off

LEMMA ListEffect ==
    ASSUME DTypeOK, NEW w \in Workers, ListPending(w)
    PROVE  /\ OneSlot(w)
           /\ pass'[w].at = "get" /\ pass'[w].now = pass[w].now
           /\ pass'[w].keys = {e \in idx : e[1] = Queue}
           /\ pass'[w].entries = pass[w].entries /\ pass'[w].entry = None
<1>1. PICK r : r = pass[w]
  OBVIOUS
<1>2. PICK K : K = {e \in idx : e[1] = Queue}
  OBVIOUS
<1>3. PICK q : q = [r EXCEPT !.at = "get", !.keys = K]
  OBVIOUS
<1>4. r \in Pass /\ K \in SUBSET QueueKeys /\ r.entry = None
  BY <1>1, <1>2 DEF DTypeOK, TypeOK, QueueKeys, ListPending
<1>5. /\ q \in Pass
      /\ q.at = "get" /\ q.now = r.now /\ q.keys = K
      /\ q.entries = r.entries /\ q.entry = r.entry
  BY <1>3, <1>4 DEF Pass, PendingEntry
<1>6. pass' = [pass EXCEPT ![w] = q]
  <2>1. pass' = [pass EXCEPT ![w] = [pass[w] EXCEPT !.at = "get", !.keys = {e \in idx : e[1] = Queue}]]
    BY Zenon DEF DTypeOK, ListPending
  <2> QED
    BY <1>1, <1>2, <1>3, <2>1, Zenon
<1> QED
  BY <1>1, <1>2, <1>4, <1>5, <1>6 DEF DTypeOK, OneSlot

LEMMA GetEffect ==
    ASSUME DTypeOK, NEW w \in Workers, GetPending(w)
    PROVE  \E e \in pass[w].keys :
              /\ OneSlot(w)
              /\ e \in QueueKeys
              /\ pass'[w].at = "get" /\ pass'[w].now = pass[w].now
              /\ pass'[w].keys = pass[w].keys \ {e}
              /\ obj[e[3]] = None => pass'[w].entries = pass[w].entries
              /\ obj[e[3]] # None =>
                   pass'[w].entries = pass[w].entries \cup {[key |-> e, doc |-> obj[e[3]].doc]}
              /\ pass'[w].entry = None
<1>1. PICK e \in pass[w].keys :
        pass' = [pass EXCEPT
          ![w].keys = @ \ {e},
          ![w].entries = IF obj[e[3]] = None
                           THEN @ ELSE @ \cup {[key |-> e, doc |-> obj[e[3]].doc]}]
  BY DEF GetPending
<1>2. PICK r : r = pass[w]
  OBVIOUS
<1>3. r \in Pass /\ e \in QueueKeys /\ r.entry = None /\ r.at = "get"
  BY <1>2 DEF DTypeOK, Pass, GetPending
<1>4. obj[e[3]] # None => obj[e[3]].doc \in Docs
  BY <1>3 DEF DTypeOK, TypeOK, Record, QueueKeys
<1>5. PICK K : K = r.keys \ {e}
  OBVIOUS
<1>6. PICK E : E = IF obj[e[3]] = None
                     THEN r.entries ELSE r.entries \cup {[key |-> e, doc |-> obj[e[3]].doc]}
  OBVIOUS
<1>7. PICK q : q = [r EXCEPT !.keys = K, !.entries = E]
  OBVIOUS
<1>8. K \in SUBSET QueueKeys /\ E \in SUBSET PendingEntry
  BY <1>3, <1>4, <1>5, <1>6 DEF Pass, PendingEntry
<1>9. /\ q \in Pass
      /\ q.at = r.at /\ q.now = r.now /\ q.keys = K
      /\ q.entries = E /\ q.entry = r.entry
  BY <1>3, <1>7, <1>8 DEF Pass, PendingEntry
<1>10. pass' = [pass EXCEPT ![w] = q]
  <2>1. pass' = [pass EXCEPT ![w] = [pass[w] EXCEPT
                   !.keys = pass[w].keys \ {e},
                   !.entries = IF obj[e[3]] = None
                                 THEN pass[w].entries
                                 ELSE pass[w].entries \cup {[key |-> e, doc |-> obj[e[3]].doc]}]]
    BY <1>1 DEF DTypeOK
  <2> QED
    BY <1>2, <1>5, <1>6, <1>7, <2>1, Zenon
<1>11. OneSlot(w) /\ pass'[w] = q
  BY <1>9, <1>10 DEF DTypeOK, OneSlot
<1> QED
  BY <1>2, <1>3, <1>5, <1>6, <1>9, <1>11

LEMMA SkipEffect ==
    ASSUME DTypeOK, NEW w \in Workers, SkipEntry(w)
    PROVE  /\ OneSlot(w)
           /\ pass'[w].at = "get" /\ pass'[w].now = pass[w].now
           /\ pass'[w].keys = pass[w].keys
           /\ pass'[w].entries \subseteq pass[w].entries
           /\ pass'[w].entry = None
<1>1. PICK e \in FirstIn(pass[w].entries) : pass' = [pass EXCEPT ![w].entries = @ \ {e}]
  BY DEF SkipEntry
<1>2. PICK r : r = pass[w]
  OBVIOUS
<1>3. r \in Pass /\ r.entry = None /\ r.at = "get"
  BY <1>2 DEF DTypeOK, SkipEntry
<1>4. PICK E : E = r.entries \ {e}
  OBVIOUS
<1>5. PICK q : q = [r EXCEPT !.entries = E]
  OBVIOUS
<1>6. E \in SUBSET PendingEntry
  BY <1>3, <1>4 DEF Pass, PendingEntry
<1>7. /\ q \in Pass
      /\ q.at = r.at /\ q.now = r.now /\ q.keys = r.keys
      /\ q.entries = E /\ q.entry = r.entry
  BY <1>3, <1>5, <1>6 DEF Pass, PendingEntry
<1>8. pass' = [pass EXCEPT ![w] = q]
  BY <1>1, <1>2, <1>4, <1>5 DEF DTypeOK
<1> QED
  BY <1>2, <1>3, <1>4, <1>7, <1>8 DEF DTypeOK, OneSlot

LEMMA ResolveEffect ==
    ASSUME DTypeOK, NEW w \in Workers, Resolve(w)
    PROVE  \E e \in pass[w].entries :
              /\ OneSlot(w)
              /\ e \in PendingEntry /\ e.doc.next <= pass[w].now
              /\ pass'[w].at = "post" /\ pass'[w].now = pass[w].now
              /\ pass'[w].keys = pass[w].keys
              /\ pass'[w].entries = pass[w].entries \ {e}
              /\ pass'[w].entry # None
              /\ pass'[w].entry.id = e.key[3] /\ pass'[w].entry.doc = e.doc
              /\ ~pass'[w].failed => pass'[w].inboxes = Inboxes
              /\ tries' = [tries EXCEPT ![e.key[3]] = Append(@, pass[w].now)]
<1>1. PICK e \in FirstIn(pass[w].entries), resolved \in SUBSET Inboxes, errors \in BOOLEAN :
        /\ e.doc.next <= pass[w].now
        /\ resolved # Inboxes => errors
        /\ pass' = [pass EXCEPT ![w].at = "post",
                                ![w].entries = @ \ {e},
                                ![w].entry = [id |-> e.key[3], doc |-> e.doc],
                                ![w].inboxes = resolved,
                                ![w].failed = errors]
        /\ tries' = [tries EXCEPT ![e.key[3]] = Append(@, pass[w].now)]
  BY DEF Resolve
<1>2. PICK r : r = pass[w]
  OBVIOUS
<1>3. r \in Pass /\ r.entry = None /\ r.at = "get" /\ e \in r.entries
  BY <1>2 DEF DTypeOK, Resolve, FirstIn
<1>4. PICK E : E = r.entries \ {e}
  OBVIOUS
<1>5. PICK n : n = [id |-> e.key[3], doc |-> e.doc]
  OBVIOUS
<1>6. PICK f \in BOOLEAN : f = errors
  OBVIOUS
<1>7. e \in PendingEntry
  BY <1>3 DEF Pass, PendingEntry
<1>8. /\ E \in SUBSET PendingEntry /\ n \in [id : Ids, doc : Docs]
      /\ n.id = e.key[3] /\ n.doc = e.doc /\ n # None
  BY <1>3, <1>4, <1>5, <1>7, QueueAssumption DEF Pass, PendingEntry, QueueKeys
<1>9. PICK q : q = [r EXCEPT !.at = "post", !.entries = E, !.entry = n, !.inboxes = resolved, !.failed = f]
  OBVIOUS
<1>10. /\ q \in Pass
       /\ q.at = "post" /\ q.now = r.now /\ q.keys = r.keys
       /\ q.entries = E /\ q.entry = n /\ q.inboxes = resolved /\ (q.failed <=> f)
  BY <1>3, <1>8, <1>9 DEF Pass, PendingEntry
<1>11. pass' = [pass EXCEPT ![w] = q]
  <2>1. pass' = [pass EXCEPT ![w] = [pass[w] EXCEPT
                   !.at = "post", !.entries = pass[w].entries \ {e},
                   !.entry = [id |-> e.key[3], doc |-> e.doc],
                   !.inboxes = resolved, !.failed = errors]]
    BY <1>1 DEF DTypeOK
  <2> QED
    BY <1>2, <1>4, <1>5, <1>6, <1>9, <2>1, Zenon
<1>12. OneSlot(w) /\ pass'[w] = q
  BY <1>10, <1>11 DEF DTypeOK, OneSlot
<1> QED
  BY <1>1, <1>2, <1>3, <1>4, <1>6, <1>7, <1>8, <1>10, <1>12

LEMMA PostEffect ==
    ASSUME DTypeOK, NEW w \in Workers, Post(w)
    PROVE  \E i \in Inboxes, taken \in BOOLEAN :
              /\ OneSlot(w)
              /\ pass'[w].at = "post" /\ pass'[w].now = pass[w].now
              /\ pass'[w].keys = pass[w].keys
              /\ pass'[w].entries = pass[w].entries
              /\ pass'[w].entry = pass[w].entry /\ pass[w].entry \in [id : Ids, doc : Docs]
              /\ pass'[w].inboxes = pass[w].inboxes \ {i}
              /\ ~pass'[w].failed => ~pass[w].failed /\ taken
              /\ accepted' = IF taken
                               THEN [accepted EXCEPT ![pass[w].entry.id] = @ \cup {i}]
                               ELSE accepted
<1>1. PICK i \in pass[w].inboxes, taken \in BOOLEAN, ok \in BOOLEAN :
        /\ ok => taken
        /\ pass' = [pass EXCEPT ![w].inboxes = @ \ {i}, ![w].failed = HasFailures(@, ok)]
        /\ accepted' = IF taken
                         THEN [accepted EXCEPT ![pass[w].entry.id] = @ \cup {i}]
                         ELSE accepted
  BY DEF Post
<1>2. PICK r : r = pass[w]
  OBVIOUS
<1>3. r \in Pass /\ r.at = "post" /\ r.entry # None
  BY <1>2 DEF DTypeOK, Post
<1>4. PICK I : I = r.inboxes \ {i}
  OBVIOUS
<1>5. PICK f \in BOOLEAN : f = HasFailures(r.failed, ok)
  BY <1>3 DEF HasFailures, Pass
<1>6. PICK q : q = [r EXCEPT !.inboxes = I, !.failed = f]
  OBVIOUS
<1>7. I \in SUBSET Inboxes /\ i \in Inboxes /\ r.entry \in [id : Ids, doc : Docs]
  BY <1>1, <1>2, <1>3, <1>4 DEF Pass
<1>8. /\ q \in Pass
      /\ q.at = r.at /\ q.now = r.now /\ q.keys = r.keys
      /\ q.entries = r.entries /\ q.entry = r.entry /\ q.inboxes = I /\ (q.failed <=> f)
  BY <1>3, <1>6, <1>7 DEF Pass, PendingEntry
<1>9. pass' = [pass EXCEPT ![w] = q]
  <2>1. pass' = [pass EXCEPT ![w] = [pass[w] EXCEPT
                   !.inboxes = pass[w].inboxes \ {i}, !.failed = HasFailures(pass[w].failed, ok)]]
    BY <1>1 DEF DTypeOK
  <2> QED
    BY <1>2, <1>4, <1>5, <1>6, <2>1, Zenon
<1>10. OneSlot(w) /\ pass'[w] = q
  BY <1>8, <1>9 DEF DTypeOK, OneSlot
<1>11. ~f => ~r.failed /\ ok
  BY <1>5 DEF HasFailures
<1> QED
  BY <1>1, <1>2, <1>3, <1>4, <1>7, <1>8, <1>10, <1>11

LEMMA SettleEffect ==
    ASSUME DTypeOK, NEW w \in Workers, Settle(w)
    PROVE  /\ OneSlot(w)
           /\ pass'[w].at = "store" /\ pass'[w].now = pass[w].now
           /\ pass'[w].keys = pass[w].keys
           /\ pass'[w].entries = pass[w].entries
           /\ pass'[w].entry = pass[w].entry /\ pass[w].entry \in [id : Ids, doc : Docs]
           /\ pass[w].entry # None
<1>1. PICK r : r = pass[w]
  OBVIOUS
<1>2. PICK q : q = [r EXCEPT !.at = "store"]
  OBVIOUS
<1>3. r \in Pass /\ r.entry # None
  BY <1>1 DEF DTypeOK, Settle
<1>4. r.entry \in [id : Ids, doc : Docs]
  BY <1>3 DEF Pass
<1>5. /\ q \in Pass
      /\ q.at = "store" /\ q.now = r.now /\ q.keys = r.keys
      /\ q.entries = r.entries /\ q.entry = r.entry
  BY <1>2, <1>3 DEF Pass, PendingEntry
<1>6. pass' = [pass EXCEPT ![w] = q]
  BY <1>1, <1>2 DEF DTypeOK, Settle
<1> QED
  BY <1>1, <1>3, <1>4, <1>5, <1>6 DEF DTypeOK, OneSlot

LEMMA NextEffect ==
    ASSUME DTypeOK, NEW w \in Workers, NextEntry(w)
    PROVE  /\ OneSlot(w)
           /\ pass'[w].at = "get" /\ pass'[w].now = pass[w].now
           /\ pass'[w].keys = pass[w].keys
           /\ pass'[w].entries = pass[w].entries
           /\ pass'[w].entry = None
<1>1. PICK r : r = pass[w]
  OBVIOUS
<1>2. PICK q : q = [r EXCEPT !.at = "get", !.entry = None, !.failed = FALSE]
  OBVIOUS
<1>3. r \in Pass
  BY <1>1 DEF DTypeOK
<1>4. /\ q \in Pass
      /\ q.at = "get" /\ q.now = r.now /\ q.keys = r.keys
      /\ q.entries = r.entries /\ q.entry = None
  BY <1>2, <1>3 DEF Pass, PendingEntry
<1>5. pass' = [pass EXCEPT ![w] = q]
  BY <1>1, <1>2 DEF DTypeOK, NextEntry
<1> QED
  BY <1>1, <1>4, <1>5 DEF DTypeOK, OneSlot

LEMMA EndEffect ==
    ASSUME DTypeOK, NEW w \in Workers, EndPass(w)
    PROVE  /\ OneSlot(w)
           /\ pass'[w].at = "off" /\ pass'[w].keys = {} /\ pass'[w].entries = {}
           /\ pass'[w].entry = None
<1>1. Off \in Pass
  BY QueueAssumption DEF Off, Pass
<1> QED
  BY <1>1 DEF DTypeOK, EndPass, OneSlot, Off

-----------------------------------------------------------------------------
LEMMA EmptyLog == <<>> \in Seq(Times) /\ <<>> # None
<1>1. <<>> \in Seq(Times)
  OBVIOUS
<1>2. None \notin Seq(Times)
  BY QueueAssumption
<1> QED
  BY <1>1, <1>2, Zenon

LEMMA LocalKept ==
    ASSUME DTypeOK, Begun, NEW w \in Workers, OneSlot(w), pc[w] = "idle",
           pass'[w].entry = None, pass'[w].at \notin {"post", "store"},
           \A d \in pass'[w].entries : tries[d.key[3]] # None,
           UNCHANGED <<storeVars, crashes, clock, idle, asked, tries, accepted, cut>>,
           ran' \in BOOLEAN, overlaps' \in 0 .. MaxTroubles
    PROVE  DTypeOK' /\ Begun'
<1>1. TypeOK'
  BY DEF DTypeOK, TypeOK, storeVars
<1>2. DTypeOK'
  BY <1>1 DEF DTypeOK, OneSlot
<1>3. Begun'
  BY DEF Begun, OneSlot, storeVars
<1> QED
  BY <1>2, <1>3

\* Every step keeps the types, and a slot works on written entries only.
LEMMA DTypeKept ==
    ASSUME DTypeOK, Begun, [DNext]_dvars
    PROVE  DTypeOK' /\ Begun'
<1> USE QueueAssumption, StoreAssumption DEF hazardVars
<1>t. /\ TypeOK /\ clock \in Times /\ ran \in BOOLEAN /\ idle \in 0 .. MaxIdle
      /\ cut \subseteq Ids /\ overlaps \in 0 .. MaxTroubles
      /\ crashes \in 0 .. MaxTroubles /\ asked \in [Ids -> 0 .. MaxEnqueues]
      /\ tries \in [Ids -> {None} \cup Seq(Times)] /\ accepted \in [Ids -> SUBSET Inboxes]
      /\ pass \in [Workers -> Pass]
      /\ \A v \in Workers : pass[v].entry # None <=> pass[v].at \in {"post", "store"}
  BY DEF DTypeOK
<1>b. /\ \A id \in Ids : obj[id] # None => tries[id] # None
      /\ \A w \in Workers :
          /\ pc[w] # "idle" => pass[w].at = "store" /\ call[w].id = pass[w].entry.id
          /\ pass[w].entry # None => tries[pass[w].entry.id] # None
          /\ \A d \in pass[w].entries : tries[d.key[3]] # None
  BY DEF Begun
<1>u. UNCHANGED storeVars => TypeOK' /\ UNCHANGED <<obj, pc, call>>
  BY <1>t DEF TypeOK, storeVars
<1>1. CASE UNCHANGED dvars
  BY <1>1, <1>t, <1>b, <1>u DEF dvars, queueVars, DTypeOK, Begun
<1>2. CASE Tick
  <2>1. ran' \in BOOLEAN /\ clock' \in Times
    BY <1>2 DEF Tick
  <2>2. CASE ran
    BY <1>2, <2>1, <2>2, <1>t, <1>b, <1>u DEF Tick, DTypeOK, Begun
  <2>3. CASE ~ran
    <3>1. idle < MaxIdle /\ idle' = idle + 1
      BY <1>2, <2>3 DEF Tick
    <3>2. idle' \in 0 .. MaxIdle
      BY <3>1, <1>t
    <3> QED
      BY <1>2, <2>1, <3>2, <1>t, <1>b, <1>u DEF Tick, DTypeOK, Begun
  <2> QED
    BY <2>2, <2>3
<1>3. CASE Crash
  <2>1. TypeOK'
    BY <1>3, <1>t DEF Crash, TypeOK, PutPc, DeletePc
  <2>2. Off \in Pass /\ Off.entry = None /\ Off.at = "off" /\ Off.entries = {}
    BY DEF Off, Pass
  <2>3. crashes' \in 0 .. MaxTroubles
    BY <1>3, <1>t DEF Crash
  <2>4. cut' \subseteq Ids
    BY <1>3, <1>t DEF Crash, TypeOK, PutPc, PutCall
  <2> QED
    BY <1>3, <1>t, <1>b, <2>1, <2>2, <2>3, <2>4 DEF Crash, DTypeOK, Begun
<1>4. ASSUME NEW p \in Callers, NEW id \in Ids, Enqueue(p, id) PROVE DTypeOK' /\ Begun'
  <2>1. [attempts |-> 0, next |-> clock] \in Docs
    BY <1>t, EntryAssumption
  <2>2. [id |-> id, ts |-> clock, doc |-> [attempts |-> 0, next |-> clock], colls |-> {Queue}] \in PutCall
    BY <2>1, <1>t DEF PutCall
  <2>3. TypeOK'
    BY <1>4, <1>t, <2>2 DEF Enqueue, PutBegin, TypeOK, PutPc, DeletePc
  <2>4. asked' \in [Ids -> 0 .. MaxEnqueues]
    BY <1>4, <1>t DEF Enqueue
  <2>5. Begun'
    BY <1>4, <1>t, <1>b DEF Enqueue, PutBegin, TypeOK, Begun
  <2> QED
    BY <1>4, <1>t, <2>3, <2>4, <2>5 DEF Enqueue, DTypeOK
<1>5. ASSUME NEW p \in Callers, StoreStep(p) PROVE DTypeOK' /\ Begun'
  <2>1. CallStep(p)
    BY <1>5 DEF StoreStep
  <2>2. Next
    BY <2>1 DEF Next
  <2>3. TypeOK'
    BY <2>2, <1>t, TypeKept
  <2>4. ASSUME p \notin Workers, pc[p] = "unindex", pc'[p] = "index"
        PROVE  /\ tries' \in [Ids -> {None} \cup Seq(Times)] /\ accepted' \in [Ids -> SUBSET Inboxes]
               /\ \A id \in Ids : tries[id] # None => tries'[id] # None
    <3>1. /\ tries' = [tries EXCEPT ![call[p].id] = <<>>]
          /\ accepted' = [accepted EXCEPT ![call[p].id] = {}]
      BY <1>5, <2>4 DEF StoreStep
    <3>2. <<>> \in Seq(Times) /\ <<>> # None
      BY EmptyLog
    <3>3. /\ tries' \in [Ids -> {None} \cup Seq(Times)]
          /\ accepted' \in [Ids -> SUBSET Inboxes]
          /\ \A id \in Ids : tries[id] # None => tries'[id] # None
      BY <3>1, <3>2, <1>t
    <3> QED
      BY <3>3
  <2>5. ASSUME ~(p \notin Workers /\ pc[p] = "unindex" /\ pc'[p] = "index")
        PROVE  UNCHANGED <<tries, accepted>>
    BY <1>5, <2>5 DEF StoreStep
  <2>6. /\ tries' \in [Ids -> {None} \cup Seq(Times)] /\ accepted' \in [Ids -> SUBSET Inboxes]
        /\ \A id \in Ids : tries[id] # None => tries'[id] # None
    <3>1. CASE p \notin Workers /\ pc[p] = "unindex" /\ pc'[p] = "index"
      BY <3>1, <2>4
    <3>2. CASE ~(p \notin Workers /\ pc[p] = "unindex" /\ pc'[p] = "index")
      BY <3>2, <2>5, <1>t
    <3> QED
      BY <3>1, <3>2
  <2>7. \A id \in Ids : obj'[id] # None => tries'[id] # None
    <3>1. CASE PutWrite(p)
      <4>1. call[p] \in PutCall /\ call[p].id \in Ids
        BY <3>1, <1>t DEF PutWrite, TypeOK, PutPc, PutCall
      <4>2. tries'[call[p].id] # None
        <5>1. CASE p \in Workers
          BY <5>1, <4>1, <3>1, <1>t, <1>b, <2>6 DEF PutWrite
        <5>2. CASE p \notin Workers
          <6>1. pc[p] = "unindex" /\ pc'[p] = "index"
            BY <3>1, <1>t DEF PutWrite, TypeOK
          <6>2. tries' = [tries EXCEPT ![call[p].id] = <<>>]
            BY <1>5, <5>2, <6>1 DEF StoreStep
          <6> QED
            BY <4>1, <6>2, <1>t, EmptyLog
        <5> QED
          BY <5>1, <5>2
      <4> QED
        BY <3>1, <4>1, <4>2, <2>6, <1>b, <1>t DEF PutWrite, TypeOK
    <3>2. CASE PutRead(p) \/ PutUnindex(p) \/ PutIndex(p) \/ PutEmit(p) \/ DeleteRead(p) \/ DeleteUnindex(p) \/ DeleteEmit(p)
      BY <3>2, <2>6, <1>b DEF PutRead, PutUnindex, PutIndex, PutEmit, DeleteRead, DeleteUnindex, DeleteEmit
    <3>3. CASE DeleteObject(p)
      BY <3>3, <2>6, <1>b, <1>t DEF DeleteObject, TypeOK
    <3> QED
      BY <2>1, <3>1, <3>2, <3>3 DEF CallStep
  <2>8. \A v \in Workers : pc'[v] # "idle" => pc[v] # "idle" /\ call'[v] = call[v]
    BY <2>1, <1>t DEF CallStep, PutRead, PutUnindex, PutWrite, PutIndex, PutEmit, DeleteRead,
          DeleteObject, DeleteUnindex, DeleteEmit, Return, TypeOK
  <2>9. \A v \in Workers : /\ pass[v].entry # None => pass[v].entry.id \in Ids
                          /\ \A d \in pass[v].entries : d.key[3] \in Ids
    BY <1>t DEF Pass, QueueKeys
  <2>10. Begun'
    BY <1>5, <1>b, <2>6, <2>7, <2>8, <2>9 DEF StoreStep, Begun
  <2> QED
    BY <1>5, <1>t, <2>3, <2>6, <2>10 DEF StoreStep, DTypeOK
<1>6. ASSUME NEW w \in Workers, StartPass(w) PROVE DTypeOK' /\ Begun'
  <2>1. /\ OneSlot(w) /\ pass'[w].entry = None /\ pass'[w].at \notin {"post", "store"}
        /\ \A d \in pass'[w].entries : tries[d.key[3]] # None
    BY <1>6, <1>b, StartEffect
  <2>2. /\ UNCHANGED <<storeVars, crashes, clock, idle, asked, tries, accepted, cut>>
        /\ pc[w] = "idle" /\ ran' \in BOOLEAN /\ overlaps' \in 0 .. MaxTroubles
    <3>1. overlaps' = overlaps \/ (crashes + overlaps < MaxTroubles /\ overlaps' = overlaps + 1)
      BY <1>6 DEF StartPass
    <3>2. overlaps' \in 0 .. MaxTroubles
      BY <3>1, <1>t
    <3> QED
      BY <1>6, <1>t, <1>b, <3>2 DEF StartPass
  <2> QED
    BY <2>1, <2>2, LocalKept
<1>7. ASSUME NEW w \in Workers, ListPending(w) PROVE DTypeOK' /\ Begun'
  <2>1. /\ OneSlot(w) /\ pass'[w].entry = None /\ pass'[w].at \notin {"post", "store"}
        /\ \A d \in pass'[w].entries : tries[d.key[3]] # None
    BY <1>7, <1>b, ListEffect
  <2>2. /\ UNCHANGED <<storeVars, crashes, clock, idle, asked, tries, accepted, cut>>
        /\ pc[w] = "idle" /\ ran' \in BOOLEAN /\ overlaps' \in 0 .. MaxTroubles
    BY <1>7, <1>t, <1>b DEF ListPending
  <2> QED
    BY <2>1, <2>2, LocalKept
<1>8. ASSUME NEW w \in Workers, GetPending(w) PROVE DTypeOK' /\ Begun'
  <2>1. PICK e \in pass[w].keys :
          /\ OneSlot(w)
          /\ e \in QueueKeys
          /\ pass'[w].at = "get" /\ pass'[w].keys = pass[w].keys \ {e}
          /\ obj[e[3]] = None => pass'[w].entries = pass[w].entries
          /\ obj[e[3]] # None =>
               pass'[w].entries = pass[w].entries \cup {[key |-> e, doc |-> obj[e[3]].doc]}
          /\ pass'[w].entry = None
    BY <1>8, GetEffect
  <2>2. \A d \in pass'[w].entries : tries[d.key[3]] # None
    BY <2>1, <1>b DEF QueueKeys
  <2>3. /\ UNCHANGED <<storeVars, crashes, clock, idle, asked, tries, accepted, cut>>
        /\ pc[w] = "idle" /\ ran' \in BOOLEAN /\ overlaps' \in 0 .. MaxTroubles
    BY <1>8, <1>t, <1>b DEF GetPending
  <2> QED
    BY <2>1, <2>2, <2>3, LocalKept
<1>9. ASSUME NEW w \in Workers, SkipEntry(w) PROVE DTypeOK' /\ Begun'
  <2>1. /\ OneSlot(w) /\ pass'[w].entry = None /\ pass'[w].at \notin {"post", "store"}
        /\ \A d \in pass'[w].entries : tries[d.key[3]] # None
    BY <1>9, <1>b, SkipEffect
  <2>2. /\ UNCHANGED <<storeVars, crashes, clock, idle, asked, tries, accepted, cut>>
        /\ pc[w] = "idle" /\ ran' \in BOOLEAN /\ overlaps' \in 0 .. MaxTroubles
    BY <1>9, <1>t, <1>b DEF SkipEntry
  <2> QED
    BY <2>1, <2>2, LocalKept
<1>10. ASSUME NEW w \in Workers, Resolve(w) PROVE DTypeOK' /\ Begun'
  <2>1. PICK e \in pass[w].entries :
          /\ OneSlot(w)
          /\ e \in PendingEntry
          /\ pass'[w].at = "post"
          /\ pass'[w].entries = pass[w].entries \ {e}
          /\ pass'[w].entry # None /\ pass'[w].entry.id = e.key[3]
          /\ tries' = [tries EXCEPT ![e.key[3]] = Append(@, pass[w].now)]
    BY <1>10, ResolveEffect
  <2>2. e.key[3] \in Ids /\ tries[e.key[3]] \in Seq(Times) /\ pass[w].now \in Times
    BY <2>1, <1>t, <1>b DEF PendingEntry, QueueKeys, Pass
  <2>3. Append(tries[e.key[3]], pass[w].now) \in Seq(Times)
    BY <2>2
  <2>4. /\ tries' \in [Ids -> {None} \cup Seq(Times)]
        /\ tries'[e.key[3]] # None
        /\ \A id \in Ids : tries[id] # None => tries'[id] # None
    BY <2>1, <2>2, <2>3, <1>t
  <2>5. \A v \in Workers : /\ pass[v].entry # None => pass[v].entry.id \in Ids
                          /\ \A d \in pass[v].entries : d.key[3] \in Ids
    BY <1>t DEF Pass, QueueKeys
  <2>6. pc[w] = "idle" /\ UNCHANGED <<pc, call, obj>> /\ TypeOK'
    BY <1>10, <1>b, <1>u DEF Resolve
  <2>7. \A v \in Workers :
          /\ pc[v] # "idle" => pass'[v].at = "store" /\ call[v].id = pass'[v].entry.id
          /\ pass'[v].entry # None => tries'[pass'[v].entry.id] # None
          /\ \A d \in pass'[v].entries : tries'[d.key[3]] # None
    <3>1. TAKE v \in Workers
    <3>2. CASE v = w
      BY <3>2, <2>1, <2>4, <2>5, <2>6, <1>b
    <3>3. CASE v # w
      BY <3>3, <2>1, <2>4, <2>5, <1>b DEF OneSlot
    <3> QED
      BY <3>2, <3>3
  <2>8. Begun'
    BY <2>4, <2>6, <2>7, <1>b DEF Begun
  <2>9. UNCHANGED <<clock, ran, idle, crashes, asked, accepted, cut, overlaps>>
    BY <1>10 DEF Resolve
  <2>10. /\ pass' \in [Workers -> Pass]
         /\ \A v \in Workers : pass'[v].entry # None <=> pass'[v].at \in {"post", "store"}
    <3>1. pass' \in [Workers -> Pass] /\ \A v \in Workers \ {w} : pass'[v] = pass[v]
      BY <2>1 DEF OneSlot
    <3>2. pass'[w].entry # None /\ pass'[w].at = "post"
      BY <2>1
    <3>3. \A v \in Workers \ {w} : pass'[v].entry # None <=> pass'[v].at \in {"post", "store"}
      BY <3>1, <1>t
    <3> QED
      BY <3>1, <3>2, <3>3
  <2>11. DTypeOK'
    BY <1>t, <2>4, <2>6, <2>9, <2>10 DEF DTypeOK
  <2> QED
    BY <2>8, <2>11
<1>11. ASSUME NEW w \in Workers, Post(w) PROVE DTypeOK' /\ Begun'
  <2>1. PICK i \in Inboxes, taken \in BOOLEAN :
          /\ OneSlot(w)
          /\ pass'[w].at = "post" /\ pass'[w].entries = pass[w].entries
          /\ pass'[w].entry = pass[w].entry /\ pass[w].entry \in [id : Ids, doc : Docs]
          /\ accepted' = IF taken
                           THEN [accepted EXCEPT ![pass[w].entry.id] = @ \cup {i}]
                           ELSE accepted
    BY <1>11, PostEffect
  <2>2. accepted' \in [Ids -> SUBSET Inboxes]
    BY <2>1, <1>t
  <2>3. UNCHANGED <<storeVars, clock, ran, idle, crashes, asked, tries, cut, overlaps>>
    BY <1>11 DEF Post
  <2>4. DTypeOK'
    BY <1>t, <1>u, <2>1, <2>2, <2>3 DEF OneSlot, DTypeOK
  <2>5. Begun'
    BY <1>b, <1>u, <2>1, <2>3, <1>11 DEF Post, OneSlot, Begun
  <2> QED
    BY <2>4, <2>5
<1>12. ASSUME NEW w \in Workers, Settle(w) PROVE DTypeOK' /\ Begun'
  <2>1. w \in Callers /\ pass[w].entry \in [id : Ids, doc : Docs] /\ pass[w].now \in Times
    BY <1>12, <1>t, SettleEffect DEF Pass
  <2>d. ASSUME TypeOK' PROVE DTypeOK'
    <3>1. UNCHANGED <<clock, ran, idle, crashes, asked, tries, accepted, cut, overlaps>>
      BY <1>12 DEF Settle
    <3> QED
      BY <1>12, <1>t, <2>d, <3>1, SettleEffect DEF OneSlot, DTypeOK
  <2>2. CASE DeleteBegin(w, pass[w].entry.id)
    <3>1. TypeOK'
      BY <2>1, <2>2, <1>t DEF DeleteBegin, TypeOK, PutPc, DeletePc, DeleteCall
    <3>2. Begun'
      BY <1>12, <1>b, <1>t, <2>2, SettleEffect DEF Settle, DeleteBegin, OneSlot, Begun, TypeOK
    <3> QED
      BY <2>d, <3>1, <3>2
  <2>3. CASE ~IsLast(w) /\ PutBegin(w, pass[w].entry.id, Updated(w), {Queue}, pass[w].now)
    <3>1. pass[w].entry.doc.attempts + 1 \in 1 .. MaxAttempts - 1
      BY <2>1, <2>3 DEF IsLast
    <3>2. Updated(w) \in Docs
      BY <3>1, <2>1, EntryAssumption DEF Updated
    <3>3. [id |-> pass[w].entry.id, ts |-> pass[w].now, doc |-> Updated(w), colls |-> {Queue}] \in PutCall
      BY <3>2, <2>1 DEF PutCall
    <3>4. TypeOK'
      BY <2>1, <2>3, <3>3, <1>t DEF PutBegin, TypeOK, PutPc, DeletePc
    <3>5. Begun'
      BY <1>12, <1>b, <1>t, <2>3, SettleEffect DEF Settle, PutBegin, OneSlot, Begun, TypeOK
    <3> QED
      BY <2>d, <3>4, <3>5
  <2> QED
    BY <1>12, <2>2, <2>3 DEF Settle
<1>13. ASSUME NEW w \in Workers, NextEntry(w) PROVE DTypeOK' /\ Begun'
  <2>1. /\ OneSlot(w) /\ pass'[w].entry = None /\ pass'[w].at \notin {"post", "store"}
        /\ \A d \in pass'[w].entries : tries[d.key[3]] # None
    BY <1>13, <1>b, NextEffect
  <2>2. /\ UNCHANGED <<storeVars, crashes, clock, idle, asked, tries, accepted, cut>>
        /\ pc[w] = "idle" /\ ran' \in BOOLEAN /\ overlaps' \in 0 .. MaxTroubles
    BY <1>13, <1>t, <1>b DEF NextEntry
  <2> QED
    BY <2>1, <2>2, LocalKept
<1>14. ASSUME NEW w \in Workers, EndPass(w) PROVE DTypeOK' /\ Begun'
  <2>1. /\ OneSlot(w) /\ pass'[w].entry = None /\ pass'[w].at \notin {"post", "store"}
        /\ \A d \in pass'[w].entries : tries[d.key[3]] # None
    BY <1>14, <1>b, EndEffect
  <2>2. /\ UNCHANGED <<storeVars, crashes, clock, idle, asked, tries, accepted, cut>>
        /\ pc[w] = "idle" /\ ran' \in BOOLEAN /\ overlaps' \in 0 .. MaxTroubles
    BY <1>14, <1>t, <1>b DEF EndPass
  <2> QED
    BY <2>1, <2>2, LocalKept
<1> QED
  BY <1>1, <1>2, <1>3, <1>4, <1>5, <1>6, <1>7, <1>8, <1>9, <1>10, <1>11, <1>12, <1>13, <1>14
     DEF DNext, PassStep

LEMMA DTypeInit == DInit => DTypeOK /\ Begun
<1>1. DInit => TypeOK
  BY StoreAssumption DEF DInit, Init, TypeOK, PutPc, DeletePc
<1>2. Off \in Pass /\ Off.entry = None /\ Off.at = "off" /\ Off.entries = {}
  BY QueueAssumption DEF Off, Pass
<1> QED
  BY <1>1, <1>2, QueueAssumption DEF DInit, Init, DTypeOK, Begun

\* Every step of the queue, of its store calls and of a crash keeps the
\* variables in their types, however many passes overlap (queue.js:58-132).
THEOREM QueueTypeCorrect == DSpec => []DTypeOK
<1>1. DTypeOK /\ Begun /\ [DNext]_dvars => (DTypeOK /\ Begun)'
  BY DTypeKept
<1> QED
  BY DTypeInit, <1>1, PTL DEF DSpec

-----------------------------------------------------------------------------
\* The types the steps below use again and again.
LEMMA QueueTypes ==
    ASSUME DTypeOK
    PROVE  /\ obj \in [Ids -> Record \cup {None}] /\ idx \subseteq QueueKeys
           /\ crashes \in Nat
           /\ \A id \in Ids : obj[id] # None => obj[id].doc.attempts \in 0 .. MaxAttempts - 1
                                             /\ obj[id].doc.next \in Nat
           /\ \A p \in Callers : pc[p] \in PutPc \cup DeletePc => call[p].id \in Ids
           /\ \A w \in Workers : pass[w].entry # None => pass[w].entry \in [id : Ids, doc : Docs]
<1> USE QueueAssumption, StoreAssumption
<1>1. TypeOK /\ crashes \in 0 .. MaxTroubles /\ pass \in [Workers -> Pass]
  BY DEF DTypeOK
<1>2. \A id \in Ids : obj[id] # None => obj[id].doc \in Docs
  BY <1>1 DEF TypeOK, Record
<1>3. \A d \in Docs : d.attempts \in 0 .. MaxAttempts - 1 /\ d.next \in Nat
  OBVIOUS
<1>4. \A p \in Callers : pc[p] \in PutPc \cup DeletePc => call[p].id \in Ids
  BY <1>1 DEF TypeOK, PutCall, DeleteCall
<1>5. crashes \in Nat
  BY <1>1
<1>6. obj \in [Ids -> Record \cup {None}] /\ idx \subseteq QueueKeys
  BY <1>1 DEF TypeOK, QueueKeys
<1>7. \A w \in Workers : pass[w].entry # None => pass[w].entry \in [id : Ids, doc : Docs]
  BY <1>1 DEF Pass
<1> QED
  BY <1>2, <1>3, <1>4, <1>5, <1>6, <1>7

LEMMA QueueInvInit == DInit => QueueInv
BY QueueAssumption DEF DInit, Init, QueueInv, KeysOK, EnqueuesOK, PassOK, AttemptOK, CountsOK,
   EnqueueAt, PassAt, AttemptAt, DueOK, CountOK, DueAt, Attempting, Off, PutPc

\* A step that touches none of the variables it is about.
LEMMA QueueInvStutters ==
    ASSUME QueueInv, UNCHANGED <<storeVars, pass, crashes, asked, tries, accepted>>
    PROVE  QueueInv'
<1> USE DEF storeVars
<1>1. \A id : id \in Entered' <=> id \in Entered
  BY DEF Entered
<1>2. \A w, id : Attempting(w, id)' <=> Attempting(w, id)
  BY DEF Attempting
<1>3. KeysOK'
  BY <1>1 DEF QueueInv, KeysOK
<1>4. EnqueuesOK'
  BY DEF QueueInv, EnqueuesOK, EnqueueAt
<1>5. PassOK'
  BY <1>1 DEF QueueInv, PassOK, PassAt
<1>6. AttemptOK'
  BY <1>2 DEF QueueInv, AttemptOK, AttemptAt, Updated, IsLast, Delivered
<1>7. CountsOK'
  BY <1>2 DEF QueueInv, CountsOK, CountOK, UnderWay, Delivered
<1>8. DueOK'
  BY <1>2 DEF QueueInv, DueOK, DueAt, UnderWay
<1> QED
  BY <1>3, <1>4, <1>5, <1>6, <1>7, <1>8 DEF QueueInv

LEMMA CrashKeepsQueueInv ==
    ASSUME DTypeOK, QueueInv, Crash
    PROVE  QueueInv'
<1>1. /\ \A p \in Callers : pc'[p] = "idle" /\ todo'[p] = {}
      /\ \A w \in Workers : pass'[w].at = "off" /\ pass'[w].entry = None /\ pass'[w].keys = {}
                             /\ pass'[w].entries = {}
      /\ UNCHANGED <<obj, idx, asked, tries, accepted>> /\ crashes' = crashes + 1 /\ crashes \in Nat
  BY QueueTypes DEF Crash, Off
<1>w. Workers \subseteq Callers
  BY QueueAssumption
<1>2. \A id : id \in Entered => id \in Entered'
  BY <1>1 DEF Entered
<1>3. \A w \in Workers, id \in Ids : ~Attempting(w, id)'
  BY <1>1 DEF Attempting
<1>4. KeysOK'
  BY <1>1, <1>2 DEF QueueInv, KeysOK
<1>5. EnqueuesOK' /\ PassOK'
  BY <1>1 DEF EnqueuesOK, PassOK, PassAt
<1>6. AttemptOK'
  BY <1>1, <1>3, <1>w DEF AttemptOK, AttemptAt, PutPc
<1>7. CountsOK'
  <2>1. SUFFICES ASSUME NEW id \in Ids PROVE CountOK(id)'
    BY DEF CountsOK
  <2>2. ~UnderWay(id)' /\ CountOK(id)
    BY <1>3 DEF UnderWay, QueueInv, CountsOK
  <2>3. tries[id] # None => Len(tries[id]) \in Nat
    BY DEF DTypeOK
  <2>4. obj[id] # None => obj[id].doc.attempts \in Nat
    BY QueueTypes
  <2>5. CASE obj[id] # None
    BY <1>1, <2>2, <2>3, <2>4, <2>5 DEF CountOK
  <2>6. CASE obj[id] = None
    BY <1>1, <2>2, <2>3, <2>6, QueueAssumption DEF CountOK, Delivered
  <2> QED
    BY <2>5, <2>6
<1>8. DueOK'
  BY <1>1 DEF DueOK
<1> QED
  BY <1>4, <1>5, <1>6, <1>7, <1>8 DEF QueueInv

-----------------------------------------------------------------------------
\* What an enqueue() may do while a pass runs: it writes an entry no pass has
\* come upon, and a key for it.
EnqueueOnly ==
    /\ UNCHANGED <<pass, crashes>> /\ idx \subseteq idx'
    /\ \A w \in Workers : pc'[w] = pc[w] /\ call'[w] = call[w] /\ old'[w] = old[w] /\ todo'[w] = todo[w]
    /\ \A e \in idx' \ idx : e[3] \notin Entered
    /\ \A id \in Ids :
        /\ id \in Entered => id \in Entered'
        /\ \/ obj'[id] = obj[id] /\ tries'[id] = tries[id] /\ accepted'[id] = accepted[id]
           \/ /\ id \notin Entered /\ tries'[id] = <<>>
              /\ obj'[id] # None /\ obj'[id].doc.attempts = 0

LEMMA EnqueueOnlyKeeps ==
    ASSUME DTypeOK, Begun, QueueInv, EnqueueOnly
    PROVE  PassOK' /\ AttemptOK' /\ CountsOK' /\ DueOK'
<1>t. /\ pass \in [Workers -> Pass]
      /\ \A w \in Workers : pass[w].entry # None <=> pass[w].at \in {"post", "store"}
  BY DEF DTypeOK
<1>i. \A w \in Workers :
        /\ \A e \in pass[w].keys : e[3] \in Ids /\ e[3] \in Entered
        /\ \A d \in pass[w].entries : d.key[3] \in Ids /\ d.key[3] \in Entered
        /\ pass[w].entry # None => pass[w].entry.id \in Ids /\ pass[w].entry.id \in Entered
        /\ pc[w] # "idle" => call[w].id \in Ids /\ call[w].id \in Entered
  <2>1. TAKE w \in Workers
  <2>2. /\ \A e \in pass[w].keys : e[3] \in Ids
        /\ \A d \in pass[w].entries : d.key[3] \in Ids
        /\ pass[w].entry # None => pass[w].entry.id \in Ids
    BY <1>t DEF Pass, QueueKeys
  <2> QED
    BY <2>2, <1>t DEF QueueInv, PassOK, PassAt, Begun
<1>s. \A id \in Ids : id \in Entered =>
        /\ obj'[id] = obj[id] /\ tries'[id] = tries[id] /\ accepted'[id] = accepted[id]
        /\ id \in Entered'
        /\ \A e \in idx' : e[3] = id => e \in idx
  BY DEF EnqueueOnly
<1>1. PassOK'
  <2>1. SUFFICES ASSUME NEW w \in Workers PROVE PassAt(w)'
    BY DEF PassOK
  <2>2. PassAt(w) /\ pass' = pass
    BY DEF QueueInv, PassOK, EnqueueOnly
  <2>3. /\ \A e \in pass[w].keys : e[3] \in Entered'
        /\ \A d \in pass[w].entries : d.key[3] \in Entered' /\ obj'[d.key[3]] = obj[d.key[3]]
        /\ pass[w].entry # None => pass[w].entry.id \in Entered'
    BY <1>i, <1>s
  <2>4. pass[w].at \in {"post", "store"} => pass[w].entry # None
    BY <1>t
  <2> QED
    BY <2>2, <2>3, <2>4 DEF PassAt
<1>2. \A w \in Workers, id \in Ids :
        /\ Attempting(w, id)' <=> Attempting(w, id)
        /\ Attempting(w, id) => id \in Entered
  BY <1>i DEF Attempting, EnqueueOnly
<1>3. AttemptOK'
  <2>1. SUFFICES ASSUME NEW w \in Workers PROVE AttemptAt(w)'
    BY DEF AttemptOK
  <2>2. AttemptAt(w)
    BY DEF QueueInv, AttemptOK
  <2>3. /\ pass' = pass /\ pc'[w] = pc[w] /\ call'[w] = call[w]
        /\ old'[w] = old[w] /\ todo'[w] = todo[w]
    BY DEF EnqueueOnly
  <2>4. ASSUME NEW id \in Ids, Attempting(w, id)'
        PROVE  obj'[id] # None /\ obj'[id].doc = pass'[w].entry.doc
    BY <1>2, <1>s, <2>2, <2>3, <2>4 DEF AttemptAt
  <2>5. pass'[w].at = "post" /\ ~pass'[w].failed =>
          Inboxes \ pass'[w].inboxes \subseteq accepted'[pass'[w].entry.id]
    BY <1>i, <1>s, <1>t, <2>2, <2>3 DEF AttemptAt
  <2>6. pc'[w] # "idle" =>
          /\ obj'[call'[w].id] = obj[call[w].id]
          /\ \A e \in idx' : e[3] = call[w].id => e \in idx
          /\ tries'[call[w].id] = tries[call[w].id]
          /\ accepted'[call[w].id] = accepted[call[w].id]
    BY <1>i, <1>s, <2>3
  <2>7. (IsLast(w)' <=> IsLast(w)) /\ Updated(w)' = Updated(w)
    BY <2>3 DEF IsLast, Updated
  <2> QED
    BY <2>2, <2>3, <2>4, <2>5, <2>6, <2>7 DEF AttemptAt, Delivered, PutPc
<1>4. \A id \in Ids : UnderWay(id)' <=> UnderWay(id)
  BY <1>2 DEF UnderWay
<1>5. ASSUME NEW id \in Ids PROVE CountOK(id)' /\ (DueAt(id) => DueAt(id)')
  <2>1. CountOK(id)
    BY DEF QueueInv, CountsOK
  <2>2. CASE obj'[id] = obj[id] /\ tries'[id] = tries[id] /\ accepted'[id] = accepted[id]
    BY <2>1, <2>2, <1>2, <1>4 DEF CountOK, DueAt, Delivered, EnqueueOnly
  <2>3. CASE id \notin Entered /\ tries'[id] = <<>> /\ obj'[id] # None /\ obj'[id].doc.attempts = 0
    <3>1. ~UnderWay(id)'
      BY <2>3, <1>2 DEF UnderWay
    <3>2. Len(<<>>) = 0 /\ <<>> \in Seq(Times) /\ crashes' \in Nat
      BY QueueTypes DEF EnqueueOnly
    <3> QED
      BY <2>3, <3>1, <3>2 DEF CountOK, DueAt
  <2> QED
    BY <2>2, <2>3 DEF EnqueueOnly
<1> QED
  BY <1>1, <1>3, <1>5 DEF QueueInv, CountsOK, DueOK, EnqueueOnly

LEMMA EnqueueKeepsQueueInv ==
    ASSUME MaxEnqueues = 1, DTypeOK, Begun, QueueInv,
           NEW p \in Callers, NEW id \in Ids, Enqueue(p, id)
    PROVE  QueueInv'
<1> USE QueueAssumption
<1>t. TypeOK /\ asked \in [Ids -> 0 .. MaxEnqueues]
  BY DEF DTypeOK
<1>1. /\ p \notin Workers /\ pc[p] = "idle" /\ asked[id] = 0
      /\ pc' = [pc EXCEPT ![p] = "get"]
      /\ call' = [call EXCEPT ![p] = [id |-> id, ts |-> clock,
                                      doc |-> [attempts |-> 0, next |-> clock], colls |-> {Queue}]]
      /\ asked' = [asked EXCEPT ![id] = @ + 1]
      /\ UNCHANGED <<obj, idx, old, todo, pass, crashes, tries, accepted>>
  BY <1>t DEF Enqueue, PutBegin
<1>2. /\ pc'[p] = "get" /\ call'[p].id = id /\ call'[p].colls = {Queue} /\ call'[p].doc.attempts = 0
      /\ \A q \in Callers \ {p} : pc'[q] = pc[q] /\ call'[q] = call[q]
      /\ asked'[id] # 0 /\ \A x \in Ids \ {id} : asked'[x] = asked[x]
  BY <1>1, <1>t DEF TypeOK
<1>3. /\ id \notin Entered /\ obj[id] = None
      /\ \A q \in Callers \ Workers : pc[q] # "idle" => call[q].id # id
  BY <1>1 DEF QueueInv, KeysOK, EnqueuesOK, EnqueueAt, Entered
<1>4. \A x \in Entered : x \in Entered'
  BY <1>1, <1>2, <1>3 DEF Entered
<1>5. EnqueueOnly
  BY <1>1, <1>2, <1>4 DEF EnqueueOnly, Entered
<1>6. KeysOK'
  BY <1>1, <1>2, <1>3, <1>4 DEF QueueInv, KeysOK
<1>7. EnqueuesOK'
  <2>1. SUFFICES ASSUME NEW q \in Callers \ Workers, pc'[q] # "idle" PROVE EnqueueAt(q)'
    BY DEF EnqueuesOK
  <2>2. CASE q = p
    BY <2>2, <1>1, <1>2, <1>3 DEF EnqueueAt, PutPc
  <2>3. CASE q # p
    <3>1. EnqueueAt(q) /\ call[q].id \in Ids /\ call[q].id # id
      BY <2>1, <2>3, <1>t, <1>2, <1>3 DEF QueueInv, EnqueuesOK, EnqueueAt, TypeOK, PutCall
    <3> QED
      BY <2>1, <2>3, <3>1, <1>1, <1>2 DEF EnqueueAt
  <2> QED
    BY <2>2, <2>3
<1> QED
  BY <1>5, <1>6, <1>7, EnqueueOnlyKeeps DEF QueueInv

\* The next step of an enqueue()'s put().
LEMMA EnqueuerKeepsQueueInv ==
    ASSUME DTypeOK, Begun, QueueInv, NEW p \in Callers \ Workers, StoreStep(p)
    PROVE  QueueInv'
<1> USE QueueAssumption
<1> DEFINE x == call[p].id
<1>t. TypeOK /\ tries \in [Ids -> {None} \cup Seq(Times)] /\ accepted \in [Ids -> SUBSET Inboxes]
  BY DEF DTypeOK
<1>c. CallStep(p) /\ UNCHANGED <<pass, crashes, asked>>
  BY DEF StoreStep
<1>b. pc[p] # "idle"
  BY <1>c DEF CallStep, PutRead, PutUnindex, PutWrite, PutIndex, PutEmit, DeleteRead,
        DeleteObject, DeleteUnindex, DeleteEmit
<1>e. /\ pc[p] \in PutPc /\ call[p] \in PutCall /\ x \in Ids /\ call[p].colls = {Queue}
      /\ call[p].doc.attempts = 0 /\ asked[x] # 0
      /\ \A q \in Callers \ Workers : pc[q] # "idle" /\ call[q].id = x => q = p
      /\ pc[p] \in {"get", "unindex"} => obj[x] = None
      /\ pc[p] = "unindex" => todo[p] = {}
      /\ pc[p] = "index" /\ todo[p] # {} => obj[x] # None /\ obj[x].ts = call[p].ts
  BY <1>b, <1>t DEF QueueInv, EnqueuesOK, EnqueueAt, TypeOK, PutCall
<1>n. /\ pc[p] # "index" => x \notin Entered
      /\ todo[p] # {} => x \notin Entered
  BY <1>b, <1>e DEF Entered
<1>u. ~(pc[p] = "unindex" /\ pc'[p] = "index") => UNCHANGED <<tries, accepted>>
  BY DEF StoreStep
<1>q. ASSUME NEW q \in Callers \ Workers, q # p, pc[q] # "idle"
      PROVE  EnqueueAt(q) /\ call[q].id \in Ids /\ call[q].id # x
  <2>1. EnqueueAt(q)
    BY <1>q DEF QueueInv, EnqueuesOK
  <2>2. call[q].id \in Ids
    BY <2>1, <1>t DEF EnqueueAt, TypeOK, PutCall
  <2> QED
    BY <1>q, <1>e, <2>1, <2>2
<1>1. CASE PutRead(p)
  <2>1. /\ pc[p] = "get" /\ pc' = [pc EXCEPT ![p] = "unindex"] /\ todo' = [todo EXCEPT ![p] = {}]
        /\ old' = [old EXCEPT ![p] = obj[x]]
        /\ UNCHANGED <<obj, idx, call, tries, accepted>>
    BY <1>1, <1>e, <1>u, <1>t DEF PutRead, CollsOf, TypeOK
  <2>2. /\ pc'[p] = "unindex" /\ todo'[p] = {}
        /\ \A q \in Callers \ {p} : pc'[q] = pc[q] /\ todo'[q] = todo[q] /\ old'[q] = old[q]
    BY <2>1, <1>t DEF TypeOK
  <2>3. \A i \in Entered : i \in Entered'
    BY <2>1, <2>2, <1>c DEF Entered
  <2>4. EnqueueOnly
    BY <2>1, <2>2, <2>3, <1>c DEF EnqueueOnly
  <2>5. KeysOK'
    BY <2>1, <2>3, <1>c DEF QueueInv, KeysOK
  <2>6. EnqueueAt(p)'
    BY <2>1, <2>2, <1>e, <1>c DEF EnqueueAt, PutPc
  <2>7. ASSUME NEW q \in Callers \ Workers, q # p, pc'[q] # "idle" PROVE EnqueueAt(q)'
    BY <2>1, <2>2, <2>7, <1>q, <1>c, <1>e DEF EnqueueAt
  <2> QED
    BY <2>4, <2>5, <2>6, <2>7, EnqueueOnlyKeeps DEF QueueInv, EnqueuesOK
<1>2. CASE PutWrite(p)
  <2>1. /\ pc[p] = "unindex" /\ pc' = [pc EXCEPT ![p] = "index"]
        /\ obj' = [obj EXCEPT ![x] = [ts |-> call[p].ts, doc |-> call[p].doc, colls |-> call[p].colls]]
        /\ todo' = [todo EXCEPT ![p] = {Queue}]
        /\ UNCHANGED <<idx, call, old>>
    BY <1>2, <1>e DEF PutWrite
  <2>2. /\ pc'[p] = "index" /\ todo'[p] = {Queue}
        /\ \A q \in Callers \ {p} : pc'[q] = pc[q] /\ todo'[q] = todo[q]
        /\ obj'[x] # None /\ obj'[x].colls = {Queue} /\ obj'[x].ts = call[p].ts
        /\ obj'[x].doc.attempts = 0
        /\ \A i \in Ids \ {x} : obj'[i] = obj[i]
    <3>1. call[p].ts \in Times /\ call[p].doc \in Docs /\ call[p].colls \in SUBSET Colls
      BY <1>e DEF PutCall
    <3>2. [ts |-> call[p].ts, doc |-> call[p].doc, colls |-> call[p].colls] \in Record
      BY <3>1 DEF Record
    <3> QED
      BY <2>1, <3>2, <1>e, <1>t, StoreAssumption DEF TypeOK
  <2>3. /\ tries' = [tries EXCEPT ![x] = <<>>] /\ accepted' = [accepted EXCEPT ![x] = {}]
    BY <2>1, <2>2 DEF StoreStep
  <2>4. /\ tries'[x] = <<>> /\ x \notin Entered
        /\ \A i \in Ids \ {x} : tries'[i] = tries[i] /\ accepted'[i] = accepted[i]
    BY <2>1, <2>3, <1>t, <1>e, <1>n
  <2>5. \A i \in Entered : i \in Entered'
    BY <2>1, <2>2, <2>4, <1>c DEF Entered
  <2>6. EnqueueOnly
    BY <2>1, <2>2, <2>4, <2>5, <1>c DEF EnqueueOnly
  <2>7. KeysOK'
    BY <2>1, <2>2, <2>4, <2>5, <1>c, <1>e DEF QueueInv, KeysOK, Entered
  <2>8. EnqueueAt(p)'
    BY <2>1, <2>2, <1>e, <1>c DEF EnqueueAt, PutPc
  <2>9. ASSUME NEW q \in Callers \ Workers, q # p, pc'[q] # "idle" PROVE EnqueueAt(q)'
    BY <2>1, <2>2, <2>9, <1>q, <1>c DEF EnqueueAt
  <2> QED
    BY <2>6, <2>7, <2>8, <2>9, EnqueueOnlyKeeps DEF QueueInv, EnqueuesOK
<1>3. CASE PutIndex(p)
  <2>1. /\ pc[p] = "index" /\ Queue \in todo[p] /\ todo' = [todo EXCEPT ![p] = {}]
        /\ idx' = idx \cup {<<Queue, call[p].ts, x>>}
        /\ UNCHANGED <<obj, pc, call, old>>
    <3>1. todo[p] \subseteq {Queue}
      BY <1>3, <1>e, <1>t DEF PutIndex, TypeOK
    <3> QED
      BY <1>3, <3>1 DEF PutIndex, indexKey
  <2>2. /\ x \notin Entered /\ UNCHANGED <<tries, accepted>>
        /\ todo'[p] = {} /\ \A q \in Callers \ {p} : todo'[q] = todo[q]
    BY <2>1, <1>n, <1>u, <1>t DEF TypeOK
  <2>3. /\ \A i \in Entered : i \in Entered'
        /\ x \in Entered'
    BY <2>1, <2>2, <1>c, <1>e DEF Entered
  <2>4. EnqueueOnly
    BY <2>1, <2>2, <2>3, <1>c DEF EnqueueOnly
  <2>5. KeysOK'
    BY <2>1, <2>2, <2>3, <1>c, <1>e DEF QueueInv, KeysOK
  <2>6. EnqueueAt(p)'
    BY <2>1, <2>2, <1>e, <1>c DEF EnqueueAt, PutPc
  <2>7. ASSUME NEW q \in Callers \ Workers, q # p, pc'[q] # "idle" PROVE EnqueueAt(q)'
    BY <2>1, <2>2, <2>7, <1>q, <1>c DEF EnqueueAt
  <2> QED
    BY <2>4, <2>5, <2>6, <2>7, EnqueueOnlyKeeps DEF QueueInv, EnqueuesOK
<1>4. CASE PutEmit(p)
  <2>1. /\ pc' = [pc EXCEPT ![p] = "idle"] /\ call' = [call EXCEPT ![p] = None]
        /\ old' = [old EXCEPT ![p] = None] /\ todo' = [todo EXCEPT ![p] = {}]
        /\ UNCHANGED <<obj, idx>> /\ pc[p] = "index"
    BY <1>4 DEF PutEmit, Return
  <2>2. /\ pc'[p] = "idle" /\ UNCHANGED <<tries, accepted>>
        /\ \A q \in Callers \ {p} : /\ pc'[q] = pc[q] /\ todo'[q] = todo[q]
                                     /\ old'[q] = old[q] /\ call'[q] = call[q]
    BY <2>1, <1>u, <1>t DEF TypeOK
  <2>3. \A i \in Entered : i \in Entered'
    BY <2>2, <1>c DEF Entered
  <2>4. EnqueueOnly
    BY <2>1, <2>2, <2>3, <1>c DEF EnqueueOnly
  <2>5. KeysOK'
    BY <2>1, <2>3, <1>c DEF QueueInv, KeysOK
  <2>6. ASSUME NEW q \in Callers \ Workers, q # p, pc'[q] # "idle" PROVE EnqueueAt(q)'
    BY <2>1, <2>2, <2>6, <1>q, <1>c DEF EnqueueAt
  <2> QED
    BY <2>2, <2>4, <2>5, <2>6, EnqueueOnlyKeeps DEF QueueInv, EnqueuesOK
<1>5. CASE PutUnindex(p)
  BY <1>5, <1>e DEF PutUnindex
<1> QED
  BY <1>1, <1>2, <1>3, <1>4, <1>5, <1>c, <1>e
     DEF CallStep, DeleteRead, DeleteObject, DeleteUnindex, DeleteEmit, PutPc

-----------------------------------------------------------------------------
\* What a pass does is not seen by an enqueue().
LEMMA PassKeepsEnqueues ==
    ASSUME DTypeOK, QueueInv, NEW w \in Workers, UNCHANGED asked,
           \A q \in Callers \ {w} : pc'[q] = pc[q] /\ call'[q] = call[q] /\ todo'[q] = todo[q],
           \A i \in Ids \ Entered : obj'[i] = obj[i]
    PROVE  EnqueuesOK' /\ Entered' = Entered
<1>1. Entered' = Entered
  BY DEF Entered
<1>2. ASSUME NEW q \in Callers \ Workers, pc'[q] # "idle" PROVE EnqueueAt(q)'
  <2>1. /\ q # w /\ pc[q] # "idle" /\ EnqueueAt(q)
        /\ pc'[q] = pc[q] /\ call'[q] = call[q] /\ todo'[q] = todo[q]
    BY <1>2 DEF QueueInv, EnqueuesOK
  <2>2. call[q].id \in Ids
    BY <2>1, QueueTypes DEF EnqueueAt
  <2>3. pc[q] \in {"get", "unindex"} \/ todo[q] # {} => call[q].id \notin Entered
    BY <2>1 DEF Entered
  <2> QED
    BY <2>1, <2>2, <2>3 DEF EnqueueAt
<1> QED
  BY <1>1, <1>2 DEF EnqueuesOK

\* A step of processDue() between two entries.
LEMMA BetweenKeepsQueueInv ==
    ASSUME OneWorker, DTypeOK, QueueInv, NEW w \in Workers, pc[w] = "idle", PassAt(w)',
           pass[w].at # "post", pass'[w].at # "post", pass'[w].entry = None,
           UNCHANGED <<storeVars, crashes, asked, tries, accepted>>
    PROVE  QueueInv'
<1> USE DEF storeVars
<1>w. \A v \in Workers : v = w
  BY DEF OneWorker
<1>1. EnqueuesOK' /\ Entered' = Entered
  BY PassKeepsEnqueues
<1>2. KeysOK'
  BY <1>1 DEF QueueInv, KeysOK
<1>3. PassOK'
  BY <1>w DEF PassOK
<1>4. \A v \in Workers, id \in Ids : ~Attempting(v, id) /\ ~Attempting(v, id)'
  BY <1>w DEF Attempting
<1>5. AttemptAt(w)'
  BY <1>4 DEF AttemptAt, PutPc
<1>6. ASSUME NEW id \in Ids PROVE CountOK(id)' /\ (DueAt(id) => DueAt(id)')
  <2>1. CountOK(id) /\ ~UnderWay(id) /\ ~UnderWay(id)'
    BY <1>4 DEF QueueInv, CountsOK, UnderWay
  <2> QED
    BY <2>1, <1>4 DEF CountOK, DueAt, Delivered
<1> QED
  BY <1>1, <1>2, <1>3, <1>5, <1>6, <1>w DEF QueueInv, AttemptOK, CountsOK, DueOK

LEMMA LocalStepKeepsQueueInv ==
    ASSUME OneWorker, DTypeOK, Begun, QueueInv, NEW w \in Workers,
           StartPass(w) \/ ListPending(w) \/ GetPending(w) \/ SkipEntry(w) \/ NextEntry(w) \/ EndPass(w)
    PROVE  QueueInv'
<1>1. /\ UNCHANGED <<storeVars, crashes, asked, tries, accepted>>
      /\ pass[w].at # "post" /\ pc[w] = "idle"
  BY DEF StartPass, ListPending, GetPending, SkipEntry, NextEntry, EndPass, Begun
<1>2. PassAt(w) /\ KeysOK /\ idx \subseteq QueueKeys /\ pass[w] \in Pass
  BY QueueTypes DEF QueueInv, PassOK, DTypeOK
<1>3. Entered' = Entered /\ obj' = obj
  BY <1>1 DEF Entered, storeVars
<1>4. PassAt(w)' /\ pass'[w].at # "post" /\ pass'[w].entry = None
  <2>1. CASE StartPass(w)
    BY <2>1, StartEffect DEF PassAt
  <2>2. CASE ListPending(w)
    <3>1. /\ pass'[w].at = "get" /\ pass'[w].keys = {e \in idx : e[1] = Queue}
          /\ pass'[w].entries = pass[w].entries /\ pass'[w].entry = None /\ pass[w].at = "list"
      BY <2>2, ListEffect DEF ListPending
    <3>2. pass'[w].entries = {}
      BY <3>1, <1>2 DEF PassAt
    <3>3. \A e \in idx : e[3] \in Entered /\ \A f \in idx : f[3] = e[3] => f = e
      BY <1>2 DEF KeysOK
    <3>4. PassAt(w)'
      BY <1>3, <3>1, <3>2, <3>3 DEF PassAt
    <3> QED
      BY <3>1, <3>4
  <2>3. CASE GetPending(w)
    <3>1. PICK e \in pass[w].keys :
            /\ e \in QueueKeys
            /\ pass'[w].at = "get"
            /\ pass'[w].keys = pass[w].keys \ {e}
            /\ obj[e[3]] = None => pass'[w].entries = pass[w].entries
            /\ obj[e[3]] # None =>
                 pass'[w].entries = pass[w].entries \cup {[key |-> e, doc |-> obj[e[3]].doc]}
            /\ pass'[w].entry = None
      BY <2>3, GetEffect
    <3>2. /\ \A f \in pass'[w].keys : f[3] \in Entered /\ f[3] # e[3]
          /\ \A f, g \in pass'[w].keys : g[3] = f[3] => g = f
          /\ \A d \in pass[w].entries : d.key[3] # e[3]
          /\ e[3] \in Entered
      BY <1>2, <3>1 DEF PassAt
    <3>3. ASSUME NEW d \in pass'[w].entries
          PROVE  /\ d.key[3] \in Entered /\ obj[d.key[3]] # None /\ obj[d.key[3]].doc = d.doc
                 /\ \A f \in pass'[w].keys : f[3] # d.key[3]
                 /\ \A f \in pass'[w].entries : f.key[3] = d.key[3] => f = d
      <4>1. CASE d \in pass[w].entries
        BY <1>2, <3>1, <3>2, <4>1 DEF PassAt
      <4>2. CASE obj[e[3]] # None /\ d = [key |-> e, doc |-> obj[e[3]].doc]
        BY <1>2, <3>1, <3>2, <4>2 DEF PassAt
      <4> QED
        BY <3>1, <4>1, <4>2
    <3>4. PassAt(w)'
      BY <1>3, <3>1, <3>2, <3>3 DEF PassAt
    <3> QED
      BY <3>1, <3>4
  <2>4. CASE SkipEntry(w)
    <3>1. PassAt(w)'
      BY <2>4, <1>2, <1>3, SkipEffect DEF PassAt
    <3> QED
      BY <3>1, <2>4, SkipEffect
  <2>5. CASE NextEntry(w)
    <3>1. /\ pass'[w].at = "get" /\ pass'[w].keys = pass[w].keys
          /\ pass'[w].entries = pass[w].entries /\ pass'[w].entry = None
      BY <2>5, NextEffect
    <3> QED
      BY <1>2, <1>3, <3>1 DEF PassAt
  <2>6. CASE EndPass(w)
    BY <2>6, EndEffect DEF PassAt
  <2> QED
    BY <2>1, <2>2, <2>3, <2>4, <2>5, <2>6
<1> QED
  BY <1>1, <1>4, BetweenKeepsQueueInv

\* An attempt begins: it is counted in the history, and under way.
LEMMA ResolveKeepsQueueInv ==
    ASSUME OneWorker, DTypeOK, Begun, QueueInv, NEW w \in Workers, Resolve(w)
    PROVE  QueueInv'
<1>1. PICK e \in pass[w].entries :
        /\ OneSlot(w)
        /\ e \in PendingEntry
        /\ pass'[w].at = "post" /\ pass'[w].now = pass[w].now
        /\ pass'[w].keys = pass[w].keys
        /\ pass'[w].entries = pass[w].entries \ {e}
        /\ pass'[w].entry # None
        /\ pass'[w].entry.id = e.key[3] /\ pass'[w].entry.doc = e.doc
        /\ ~pass'[w].failed => pass'[w].inboxes = Inboxes
        /\ tries' = [tries EXCEPT ![e.key[3]] = Append(@, pass[w].now)]
  BY ResolveEffect
<1> DEFINE x == e.key[3]
<1>2. /\ UNCHANGED <<obj, idx, pc, call, old, todo, crashes, asked, accepted>>
      /\ pc[w] = "idle" /\ pass[w].keys = {} /\ pass[w].at = "get"
  BY DEF Resolve, storeVars, Begun
<1>3. PassAt(w) /\ x \in Ids /\ x \in Entered /\ obj[x] # None /\ obj[x].doc = e.doc
      /\ \A d \in pass'[w].entries : d \in pass[w].entries /\ d.key[3] # x
  BY <1>1 DEF QueueInv, PassOK, PassAt, PendingEntry, QueueKeys
<1>w. \A v \in Workers : v = w
  BY DEF OneWorker
<1>4. EnqueuesOK' /\ Entered' = Entered
  BY <1>2, PassKeepsEnqueues
<1>5. KeysOK'
  BY <1>2, <1>4 DEF QueueInv, KeysOK
<1>6. PassAt(w)'
  BY <1>1, <1>2, <1>3, <1>4 DEF PassAt
<1>7. /\ \A v \in Workers, id \in Ids : ~Attempting(v, id) /\ (Attempting(v, id)' <=> id = x)
      /\ \A id \in Ids : ~UnderWay(id) /\ (UnderWay(id)' <=> id = x)
  <2>1. pass[w].entry = None
    BY <1>2 DEF DTypeOK
  <2>2. \A id \in Ids : ~Attempting(w, id) /\ (Attempting(w, id)' <=> id = x)
    BY <1>1, <2>1 DEF Attempting
  <2> QED
    BY <2>2, <1>w DEF UnderWay
<1>8. AttemptAt(w)'
  BY <1>1, <1>2, <1>3, <1>7 DEF AttemptAt, PutPc
<1>9. ASSUME NEW id \in Ids PROVE CountOK(id)' /\ (DueAt(id) => DueAt(id)')
  <2>1. CountOK(id)
    BY DEF QueueInv, CountsOK
  <2>2. tries \in [Ids -> {None} \cup Seq(Times)] /\ pass[w].now \in Times
    BY DEF DTypeOK, Pass
  <2>3. CASE id = x
    <3>1. tries[x] \in Seq(Times) /\ tries'[x] = Append(tries[x], pass[w].now)
      BY <1>1, <1>3, <2>1, <2>2, <2>3 DEF CountOK
    <3>2. /\ tries'[x] \in Seq(Times) /\ Len(tries'[x]) = Len(tries[x]) + 1 /\ Len(tries[x]) \in Nat
          /\ tries'[x][Len(tries'[x])] = pass[w].now
      BY <3>1, <2>2
    <3>3. obj[x].doc.attempts \in Nat /\ crashes \in Nat
      BY <1>3, QueueTypes
    <3>4. CountOK(id)'
      <4>1. PICK a \in Nat : a = obj[x].doc.attempts
        BY <3>3
      <4>2. PICK n \in Nat : n = Len(tries[x])
        BY <3>2
      <4>3. a <= n /\ n <= a + crashes
        BY <1>3, <1>7, <2>1, <2>3, <3>3, <4>1, <4>2 DEF CountOK
      <4>4. a + 1 <= n + 1 /\ n + 1 <= a + 1 + crashes
        BY <3>3, <4>3
      <4>5. /\ UnderWay(id)' /\ obj'[id] # None /\ obj'[id].doc.attempts = a /\ crashes' = crashes
            /\ tries'[id] \in Seq(Times) /\ Len(tries'[id]) = n + 1
        BY <1>2, <1>3, <1>7, <2>3, <3>2, <4>1, <4>2
      <4> QED
        BY <4>4, <4>5 DEF CountOK
    <3>5. DueAt(id)'
      BY <1>1, <1>7, <1>w, <2>3, <3>2 DEF DueAt
    <3> QED
      BY <3>4, <3>5
  <2>4. CASE id # x
    <3>1. tries'[id] = tries[id] /\ ~UnderWay(id) /\ ~UnderWay(id)'
      BY <1>1, <1>7, <2>2, <2>4
    <3> QED
      BY <1>2, <1>7, <2>1, <2>4, <3>1 DEF CountOK, DueAt, Delivered
  <2> QED
    BY <2>3, <2>4
<1> QED
  BY <1>2, <1>4, <1>5, <1>6, <1>8, <1>9, <1>w DEF QueueInv, PassOK, AttemptOK, CountsOK, DueOK

\* An inbox answers.
LEMMA PostKeepsQueueInv ==
    ASSUME OneWorker, DTypeOK, Begun, QueueInv, NEW w \in Workers, Post(w)
    PROVE  QueueInv'
<1>1. PICK i \in Inboxes, taken \in BOOLEAN :
        /\ OneSlot(w)
        /\ pass'[w].at = "post" /\ pass'[w].now = pass[w].now
        /\ pass'[w].keys = pass[w].keys
        /\ pass'[w].entries = pass[w].entries
        /\ pass'[w].entry = pass[w].entry /\ pass[w].entry \in [id : Ids, doc : Docs]
        /\ pass'[w].inboxes = pass[w].inboxes \ {i}
        /\ ~pass'[w].failed => ~pass[w].failed /\ taken
        /\ accepted' = IF taken
                         THEN [accepted EXCEPT ![pass[w].entry.id] = @ \cup {i}]
                         ELSE accepted
  BY PostEffect
<1> DEFINE x == pass[w].entry.id
<1>2. /\ UNCHANGED <<obj, idx, pc, call, old, todo, crashes, asked, tries>>
      /\ pc[w] = "idle" /\ pass[w].at = "post"
  BY DEF Post, storeVars, Begun
<1>w. \A v \in Workers : v = w
  BY DEF OneWorker
<1>3. PassAt(w) /\ AttemptAt(w) /\ x \in Ids
  BY <1>1 DEF QueueInv, PassOK, AttemptOK
<1>4. EnqueuesOK' /\ Entered' = Entered
  BY <1>2, PassKeepsEnqueues
<1>5. KeysOK'
  BY <1>2, <1>4 DEF QueueInv, KeysOK
<1>6. PassAt(w)'
  BY <1>1, <1>2, <1>3, <1>4 DEF PassAt
<1>7. /\ \A v \in Workers, id \in Ids : Attempting(v, id)' <=> Attempting(v, id)
      /\ \A id \in Ids : UnderWay(id)' <=> UnderWay(id)
  <2>1. \A id \in Ids : Attempting(w, id)' <=> Attempting(w, id)
    BY <1>1, <1>2 DEF Attempting
  <2> QED
    BY <2>1, <1>w DEF UnderWay
<1>8. /\ accepted \in [Ids -> SUBSET Inboxes]
      /\ \A id \in Ids : accepted[id] \subseteq accepted'[id] /\ accepted'[id] \subseteq Inboxes
      /\ taken => i \in accepted'[x]
  BY <1>1, <1>3 DEF DTypeOK
<1>9. AttemptAt(w)'
  <2>1. ASSUME NEW id \in Ids, Attempting(w, id)'
        PROVE  obj'[id] # None /\ obj'[id].doc = pass'[w].entry.doc
    BY <1>1, <1>2, <1>3, <1>7, <2>1 DEF AttemptAt
  <2>2. ~pass'[w].failed => Inboxes \ pass'[w].inboxes \subseteq accepted'[pass'[w].entry.id]
    BY <1>1, <1>2, <1>3, <1>8 DEF AttemptAt
  <2> QED
    BY <1>2, <2>1, <2>2 DEF AttemptAt, PutPc
<1>10. ASSUME NEW id \in Ids PROVE CountOK(id)' /\ (DueAt(id) => DueAt(id)')
  <2>1. CountOK(id) /\ (Delivered(id) => Delivered(id)')
    BY <1>8 DEF QueueInv, CountsOK, Delivered
  <2>2. CountOK(id)'
    BY <1>2, <1>7, <2>1 DEF CountOK
  <2>3. DueAt(id) => DueAt(id)'
    BY <1>1, <1>2, <1>7, <1>w DEF DueAt
  <2> QED
    BY <2>2, <2>3
<1> QED
  BY <1>2, <1>4, <1>5, <1>6, <1>9, <1>10, <1>w DEF QueueInv, PassOK, AttemptOK, CountsOK, DueOK

\* The outcome of an attempt is handed to the store.
LEMMA SettleKeepsQueueInv ==
    ASSUME OneWorker, DTypeOK, Begun, QueueInv, NEW w \in Workers, Settle(w)
    PROVE  QueueInv'
<1> DEFINE x == pass[w].entry.id
<1>1. /\ OneSlot(w)
      /\ pass'[w].at = "store" /\ pass'[w].now = pass[w].now
      /\ pass'[w].keys = pass[w].keys
      /\ pass'[w].entries = pass[w].entries
      /\ pass'[w].entry = pass[w].entry /\ pass[w].entry \in [id : Ids, doc : Docs]
      /\ pass[w].entry # None /\ x \in Ids
  BY SettleEffect
<1>2. /\ UNCHANGED <<obj, idx, old, todo, crashes, asked, tries, accepted>>
      /\ pc[w] = "idle" /\ pass[w].at = "post" /\ pass[w].inboxes = {}
  BY DEF Settle, DeleteBegin, PutBegin
<1>w. \A v \in Workers : v = w
  BY DEF OneWorker
<1>3. PassAt(w) /\ AttemptAt(w) /\ CountOK(x)
  BY <1>1 DEF QueueInv, PassOK, AttemptOK, CountsOK
<1>4. /\ pc'[w] \in {"dget", "get"} /\ call'[w].id = x
      /\ pc'[w] = "dget" => ~pass[w].failed \/ IsLast(w)
      /\ pc'[w] = "get" => /\ ~IsLast(w) /\ call'[w].colls = {Queue} /\ call'[w].ts = pass[w].now
                           /\ call'[w].doc = Updated(w)
      /\ \A q \in Callers \ {w} : pc'[q] = pc[q] /\ call'[q] = call[q]
  <2>1. w \in Callers /\ TypeOK
    BY QueueAssumption DEF DTypeOK
  <2>2. CASE (~pass[w].failed \/ IsLast(w)) /\ DeleteBegin(w, x)
    BY <2>1, <2>2 DEF DeleteBegin, TypeOK
  <2>3. CASE pass[w].failed /\ ~IsLast(w) /\ PutBegin(w, x, Updated(w), {Queue}, pass[w].now)
    BY <2>1, <2>3 DEF PutBegin, TypeOK
  <2> QED
    BY <2>2, <2>3 DEF Settle
<1>5. EnqueuesOK' /\ Entered' = Entered
  BY <1>2, <1>4, PassKeepsEnqueues
<1>6. KeysOK'
  BY <1>2, <1>5 DEF QueueInv, KeysOK
<1>7. PassAt(w)'
  BY <1>1, <1>2, <1>3, <1>5 DEF PassAt
<1>8. /\ \A v \in Workers, id \in Ids : /\ Attempting(v, id)' <=> Attempting(v, id)
                                        /\ Attempting(v, id) <=> id = x
      /\ \A id \in Ids : UnderWay(id)' <=> UnderWay(id)
      /\ UnderWay(x)
  <2>1. \A id \in Ids : /\ Attempting(w, id)' <=> Attempting(w, id)
                        /\ Attempting(w, id) <=> id = x
    BY <1>1, <1>2, <1>4 DEF Attempting
  <2> QED
    BY <2>1, <1>1, <1>w DEF UnderWay
<1>9. pc'[w] = "dget" => Delivered(x) \/ Len(tries[x]) >= MaxAttempts
  <2>1. CASE ~pass[w].failed
    <3>1. Inboxes \subseteq accepted[x] /\ accepted[x] \subseteq Inboxes
      BY <2>1, <1>1, <1>2, <1>3 DEF AttemptAt, DTypeOK
    <3> QED
      BY <3>1 DEF Delivered
  <2>2. CASE IsLast(w)
    <3>1. obj[x] # None /\ obj[x].doc = pass[w].entry.doc
      BY <1>1, <1>3, <1>8 DEF AttemptAt
    <3>2. pass[w].entry.doc.attempts \in Nat
      BY <1>1, <3>1, QueueTypes
    <3>3. tries[x] \in Seq(Times) /\ pass[w].entry.doc.attempts + 1 <= Len(tries[x])
      BY <1>3, <1>8, <3>1 DEF CountOK
    <3>4. Len(tries[x]) \in Nat
      BY <3>3
    <3> QED
      BY <2>2, <3>2, <3>3, <3>4, QueueAssumption DEF IsLast
  <2> QED
    BY <1>4, <2>1, <2>2
<1>10. AttemptAt(w)'
  <2>1. (IsLast(w)' <=> IsLast(w)) /\ Updated(w)' = Updated(w)
    BY <1>1 DEF IsLast, Updated
  <2>2. \A id \in Ids : Attempting(w, id)' => obj'[id] # None /\ obj'[id].doc = pass'[w].entry.doc
    BY <1>1, <1>2, <1>3, <1>8 DEF AttemptAt
  <2> QED
    BY <1>1, <1>2, <1>4, <1>9, <2>1, <2>2 DEF AttemptAt, PutPc, Delivered
<1>11. ASSUME NEW id \in Ids PROVE CountOK(id)' /\ (DueAt(id) => DueAt(id)')
  <2>1. CountOK(id)
    BY DEF QueueInv, CountsOK
  <2>2. CountOK(id)'
    BY <1>2, <1>8, <2>1 DEF CountOK, Delivered
  <2>3. DueAt(id) => DueAt(id)'
    BY <1>1, <1>2, <1>8, <1>w DEF DueAt
  <2> QED
    BY <2>2, <2>3
<1> QED
  BY <1>2, <1>5, <1>6, <1>7, <1>10, <1>11, <1>w DEF QueueInv, PassOK, AttemptOK, CountsOK, DueOK

\* The outcome comes to the store: the next step of the pass's put() or delete().
LEMMA OutcomeKeepsQueueInv ==
    ASSUME OneWorker, DTypeOK, Begun, QueueInv, NEW w \in Workers, StoreStep(w)
    PROVE  QueueInv'
<1>x. PICK x : x = pass[w].entry.id
  OBVIOUS
<1> USE <1>x
<1>t. /\ w \in Callers /\ TypeOK /\ idx \subseteq QueueKeys
      /\ tries \in [Ids -> {None} \cup Seq(Times)]
  BY QueueTypes, QueueAssumption DEF DTypeOK
<1>c. CallStep(w) /\ UNCHANGED <<pass, crashes, asked, tries, accepted>>
  BY DEF StoreStep
<1>b. /\ pc[w] # "idle" /\ pass[w].at = "store" /\ pass[w].entry # None
      /\ pass[w].entry \in [id : Ids, doc : Docs] /\ call[w].id = x /\ x \in Ids
  <2>1. pc[w] # "idle"
    BY <1>c DEF CallStep, PutRead, PutUnindex, PutWrite, PutIndex, PutEmit, DeleteRead,
          DeleteObject, DeleteUnindex, DeleteEmit
  <2>2. pass[w].at = "store" /\ call[w].id = x /\ pass[w].entry # None
    BY <2>1 DEF Begun, DTypeOK
  <2> QED
    BY <2>1, <2>2, QueueTypes
<1>w. \A v \in Workers : v = w
  BY DEF OneWorker
<1>a. PassAt(w) /\ AttemptAt(w) /\ KeysOK /\ CountOK(x) /\ (crashes = 0 => DueAt(x)) /\ x \in Entered
  BY <1>b DEF QueueInv, PassOK, AttemptOK, CountsOK, DueOK, PassAt
<1>o. \A q \in Callers \ {w} : pc'[q] = pc[q] /\ call'[q] = call[q] /\ todo'[q] = todo[q]
  BY <1>c, <1>t DEF CallStep, PutRead, PutUnindex, PutWrite, PutIndex, PutEmit, DeleteRead,
        DeleteObject, DeleteUnindex, DeleteEmit, Return, TypeOK
<1>r. \A i \in Ids \ {x} : obj'[i] = obj[i]
  BY <1>c, <1>b, <1>t DEF CallStep, PutRead, PutUnindex, PutWrite, PutIndex, PutEmit, DeleteRead,
        DeleteObject, DeleteUnindex, DeleteEmit, TypeOK
<1>e. EnqueuesOK' /\ Entered' = Entered
  BY <1>a, <1>c, <1>o, <1>r, PassKeepsEnqueues
<1>p. PassAt(w)'
  <2>1. pass[w].keys = {} /\ \A d \in pass[w].entries : d.key[3] # x
    BY <1>a, <1>b DEF PassAt
  <2>2. \A d \in pass[w].entries : d.key[3] \in Ids
    BY DEF DTypeOK, Pass, QueueKeys
  <2> QED
    BY <1>a, <1>b, <1>c, <1>e, <1>r, <2>1, <2>2 DEF PassAt
<1>u. /\ \A id \in Ids : Attempting(w, id) <=> id = x /\ pc[w] \in {"get", "unindex", "dget", "dobj"}
      /\ \A id \in Ids : Attempting(w, id)' <=> id = x /\ pc'[w] \in {"get", "unindex", "dget", "dobj"}
      /\ \A id \in Ids : UnderWay(id) <=> id = x /\ pc[w] \in {"get", "unindex", "dget", "dobj"}
      /\ \A id \in Ids : UnderWay(id)' <=> id = x /\ pc'[w] \in {"get", "unindex", "dget", "dobj"}
  <2>1. /\ \A id \in Ids : Attempting(w, id) <=> id = x /\ pc[w] \in {"get", "unindex", "dget", "dobj"}
        /\ \A id \in Ids : Attempting(w, id)' <=> id = x /\ pc'[w] \in {"get", "unindex", "dget", "dobj"}
    BY <1>b, <1>c DEF Attempting
  <2> QED
    BY <2>1, <1>w DEF UnderWay
<1>f. (IsLast(w)' <=> IsLast(w)) /\ Updated(w)' = Updated(w) /\ (Delivered(x)' <=> Delivered(x))
  BY <1>c DEF IsLast, Updated, Delivered
<1>k. ASSUME KeysOK', AttemptAt(w)', CountOK(x)', crashes = 0 => DueAt(x)'
      PROVE  QueueInv'
  <2>1. ASSUME NEW id \in Ids \ {x} PROVE CountOK(id)' /\ (DueAt(id) => DueAt(id)')
    <3>1. CountOK(id) /\ obj'[id] = obj[id] /\ ~UnderWay(id) /\ ~UnderWay(id)'
          /\ \A v \in Workers : ~Attempting(v, id) /\ ~Attempting(v, id)'
      BY <1>r, <1>u, <1>w DEF QueueInv, CountsOK
    <3> QED
      BY <1>c, <3>1 DEF CountOK, DueAt, Delivered
  <2>2. CountsOK' /\ DueOK'
    BY <1>c, <1>k, <2>1 DEF QueueInv, CountsOK, DueOK
  <2> QED
    BY <1>e, <1>k, <1>p, <1>w, <2>2 DEF QueueInv, PassOK, AttemptOK
<1>s. ASSUME obj' = obj, pc'[w] \in {"get", "unindex", "dget", "dobj"}
                            <=> pc[w] \in {"get", "unindex", "dget", "dobj"}
      PROVE  CountOK(x)' /\ (crashes = 0 => DueAt(x)')
  <2>s. (UnderWay(x)' <=> UnderWay(x)) /\ (Attempting(w, x)' <=> Attempting(w, x))
    BY <1>s, <1>u, <1>b
  <2>1. CountOK(x)'
    BY <1>a, <1>c, <1>s, <2>s DEF CountOK, Delivered
  <2>2. DueAt(x) => DueAt(x)'
    BY <1>c, <1>s, <2>s, <1>w DEF DueAt
  <2> QED
    BY <1>a, <2>1, <2>2
<1>h. pc[w] \in {"get", "unindex", "dget", "dobj"} =>
        obj[x] # None /\ obj[x].doc = pass[w].entry.doc /\ obj[x].colls = {Queue}
  BY <1>a, <1>b, <1>u DEF AttemptAt, KeysOK
<1>1. CASE PutRead(w)
  <2>1. /\ pc[w] = "get" /\ pc'[w] = "unindex" /\ old'[w] = obj[x] /\ todo'[w] = {Queue}
        /\ UNCHANGED <<obj, idx, call>>
    BY <1>1, <1>b, <1>h, <1>t DEF PutRead, CollsOf, TypeOK
  <2>2. KeysOK'
    BY <2>1, <1>a, <1>c, <1>e DEF KeysOK
  <2>3. AttemptAt(w)'
    BY <2>1, <1>a, <1>b, <1>c, <1>f, <1>h, <1>u DEF AttemptAt, PutPc
  <2>q. CountOK(x)' /\ (crashes = 0 => DueAt(x)')
    BY <2>1, <1>s
  <2> QED
    BY <2>2, <2>3, <2>q, <1>k
<1>2. CASE PutUnindex(w)
  <2>1. /\ pc[w] = "unindex" /\ pc'[w] = "unindex" /\ todo'[w] = todo[w] \ {Queue}
        /\ idx' = idx \ {<<Queue, obj[x].ts, x>>}
        /\ UNCHANGED <<obj, call, old>>
    <3>1. todo[w] \subseteq {Queue} /\ old[w] = obj[x]
      BY <1>2, <1>a, <1>b, <1>h, <1>t DEF PutUnindex, AttemptAt, TypeOK, CollsOf
    <3> QED
      BY <1>2, <1>b, <1>t, <3>1 DEF PutUnindex, indexKey, TypeOK
  <2>2. KeysOK'
    BY <2>1, <1>a, <1>c, <1>e DEF KeysOK
  <2>3. \A e \in idx' : e[3] # x
    <3>1. SUFFICES ASSUME NEW e \in idx, e[3] = x PROVE e = <<Queue, obj[x].ts, x>>
      BY <2>1
    <3>2. e[1] = Queue /\ e[2] = obj[x].ts
      BY <3>1, <2>1, <1>a, <1>h DEF KeysOK
    <3> QED
      BY <3>1, <3>2, <1>t DEF QueueKeys
  <2>4. AttemptAt(w)'
    BY <2>1, <2>3, <1>a, <1>b, <1>c, <1>f, <1>h, <1>u DEF AttemptAt, PutPc
  <2>q. CountOK(x)' /\ (crashes = 0 => DueAt(x)')
    BY <2>1, <1>s
  <2> QED
    BY <2>2, <2>4, <2>q, <1>k
<1>3. CASE PutWrite(w)
  <2>1. /\ pc[w] = "unindex" /\ pc' = [pc EXCEPT ![w] = "index"] /\ todo[w] = {}
        /\ obj' = [obj EXCEPT ![x] = [ts |-> call[w].ts, doc |-> call[w].doc, colls |-> call[w].colls]]
        /\ todo' = [todo EXCEPT ![w] = call[w].colls]
        /\ UNCHANGED <<idx, call, old>>
    BY <1>3, <1>b DEF PutWrite
  <2>2. /\ call[w].colls = {Queue} /\ call[w].doc = Updated(w) /\ \A e \in idx : e[3] # x
    BY <2>1, <1>a, <1>b DEF AttemptAt, PutPc
  <2>3. /\ pc'[w] = "index" /\ todo'[w] = {Queue}
        /\ obj'[x] # None /\ obj'[x].ts = call[w].ts /\ obj'[x].colls = {Queue}
        /\ obj'[x].doc = Updated(w)
    <3>1. call[w] \in PutCall
      BY <2>1, <1>t DEF TypeOK, PutPc
    <3>2. call[w].ts \in Times /\ call[w].doc \in Docs /\ call[w].colls \in SUBSET Colls
      BY <3>1 DEF PutCall
    <3>3. [ts |-> call[w].ts, doc |-> call[w].doc, colls |-> call[w].colls] \in Record
      BY <3>2 DEF Record
    <3> QED
      BY <2>1, <2>2, <3>3, <1>b, <1>t, StoreAssumption DEF TypeOK
  <2>4. KeysOK'
    BY <2>1, <2>2, <2>3, <1>a, <1>c, <1>e, <1>r DEF KeysOK, Entered
  <2>5. AttemptAt(w)'
    BY <2>1, <2>2, <2>3, <1>a, <1>b, <1>c, <1>u DEF AttemptAt, PutPc
  <2>6. PICK a \in Nat : a = pass[w].entry.doc.attempts
    BY <2>1, <1>b, <1>h, QueueTypes
  <2>7. /\ UnderWay(x) /\ ~UnderWay(x)' /\ \A v \in Workers : ~Attempting(v, x)'
        /\ Attempting(w, x)
    BY <2>1, <2>3, <1>b, <1>u, <1>w
  <2>8. /\ tries[x] \in Seq(Times) /\ a + 1 <= Len(tries[x]) /\ Len(tries[x]) <= a + 1 + crashes
    BY <2>1, <2>6, <2>7, <1>a, <1>h DEF CountOK
  <2>9. obj'[x].doc.attempts = a + 1 /\ obj'[x].doc.next = pass[w].now + backoffMs(a + 1)
    BY <2>3, <2>6 DEF Updated
  <2>10. CountOK(x)'
    BY <2>3, <2>7, <2>8, <2>9, <1>c DEF CountOK
  <2>11. ASSUME crashes = 0 PROVE DueAt(x)'
    <3>1. PICK n \in Nat : n = Len(tries[x])
      BY <2>8
    <3>2. n = a + 1
      BY <2>6, <2>8, <2>11, <3>1
    <3>3. tries[x][Len(tries[x])] = pass[w].now \/ tries[x] = <<>>
      BY <2>1, <2>7, <2>11, <1>a, <1>h DEF DueAt
    <3>4. backoffMs(a + 1) \in Nat /\ pass[w].now \in Nat
      <4>1. a + 1 < MaxAttempts
        BY <2>1, <2>6, <1>a, QueueAssumption DEF AttemptAt, IsLast
      <4>2. a + 1 \in 1 .. MaxAttempts
        BY <4>1, QueueAssumption
      <4>3. pass[w].now \in Times
        BY DEF DTypeOK, Pass
      <4> QED
        BY <4>2, <4>3, QueueAssumption
    <3>5. PICK m \in Nat, b \in Nat : m = pass[w].now /\ b = backoffMs(a + 1)
      BY <3>4
    <3>6. tries'[x] = tries[x] /\ Len(tries[x]) = a + 1 /\ obj'[x].doc.next = m + b
      BY <2>9, <3>1, <3>2, <3>5, <1>c
    <3>7. tries'[x] # <<>> => tries'[x][Len(tries'[x])] + backoffMs(Len(tries'[x])) = m + b
      BY <3>3, <3>5, <3>6
    <3>8. m + b >= m + b
      BY <3>5
    <3> QED
      BY <2>7, <3>6, <3>7, <3>8 DEF DueAt
  <2> QED
    BY <2>4, <2>5, <2>10, <2>11, <1>k
<1>4. CASE PutIndex(w)
  <2>1. /\ pc[w] = "index" /\ pc'[w] = "index" /\ Queue \in todo[w] /\ todo'[w] = {}
        /\ idx' = idx \cup {<<Queue, call[w].ts, x>>}
        /\ UNCHANGED <<obj, call, old>>
    <3>1. todo[w] \subseteq {Queue}
      BY <1>4, <1>a, <1>t DEF PutIndex, AttemptAt, TypeOK, PutPc
    <3> QED
      BY <1>4, <1>b, <1>t, <3>1 DEF PutIndex, indexKey, TypeOK
  <2>2. obj[x] # None /\ obj[x].ts = call[w].ts /\ \A e \in idx : e[3] # x
    BY <2>1, <1>a, <1>b DEF AttemptAt
  <2>3. KeysOK'
    BY <2>1, <2>2, <1>a, <1>c, <1>e DEF KeysOK
  <2>4. AttemptAt(w)'
    BY <2>1, <2>2, <1>a, <1>b, <1>c, <1>u DEF AttemptAt, PutPc
  <2>q. CountOK(x)' /\ (crashes = 0 => DueAt(x)')
    BY <2>1, <1>s
  <2> QED
    BY <2>3, <2>4, <2>q, <1>k
<1>5. CASE DeleteRead(w)
  <2>1. /\ pc[w] = "dget" /\ pc'[w] = "dobj" /\ UNCHANGED <<obj, idx, call>>
    BY <1>5, <1>b, <1>h, <1>t DEF DeleteRead, TypeOK
  <2>2. KeysOK'
    BY <2>1, <1>a, <1>c, <1>e DEF KeysOK
  <2>3. AttemptAt(w)'
    BY <2>1, <1>a, <1>b, <1>c, <1>f, <1>h, <1>u DEF AttemptAt, PutPc, Delivered
  <2>q. CountOK(x)' /\ (crashes = 0 => DueAt(x)')
    BY <2>1, <1>s
  <2> QED
    BY <2>2, <2>3, <2>q, <1>k
<1>6. CASE DeleteObject(w)
  <2>1. /\ pc[w] = "dobj" /\ pc'[w] = "dunindex" /\ obj'[x] = None
        /\ UNCHANGED <<idx, call>>
    BY <1>6, <1>b, <1>t DEF DeleteObject, TypeOK
  <2>2. KeysOK'
    BY <2>1, <1>a, <1>c, <1>e, <1>r DEF KeysOK, Entered
  <2>3. AttemptAt(w)'
    BY <2>1, <1>b, <1>c, <1>u DEF AttemptAt, PutPc
  <2>4. PICK a \in Nat : a = obj[x].doc.attempts /\ a + 1 <= MaxAttempts
    BY <2>1, <1>b, <1>h, QueueTypes, QueueAssumption
  <2>5. PICK n \in Nat : n = Len(tries[x])
    BY <2>1, <1>h, <1>b, <1>a DEF CountOK
  <2>6. n <= a + 1 + crashes
    BY <2>1, <2>4, <2>5, <1>a, <1>b, <1>h, <1>u DEF CountOK
  <2>7. Len(tries[x]) <= MaxAttempts + crashes
    <3>1. crashes \in Nat /\ MaxAttempts \in Nat
      BY QueueTypes, QueueAssumption
    <3>2. a + 1 <= MaxAttempts /\ n <= a + 1 + crashes
      BY <2>4, <2>6
    <3>3. n <= MaxAttempts + crashes
      BY <3>1, <3>2
    <3> QED
      BY <2>5, <3>3
  <2>8. Delivered(x) \/ Len(tries[x]) >= MaxAttempts
    BY <2>1, <1>a, <1>b DEF AttemptAt
  <2>9. CountOK(x)' /\ DueAt(x)'
    BY <2>1, <2>7, <2>8, <1>c DEF CountOK, DueAt, Delivered
  <2> QED
    BY <2>2, <2>3, <2>9, <1>k
<1>7. CASE DeleteUnindex(w)
  <2>1. /\ pc[w] = "dunindex" /\ pc'[w] = "dunindex" /\ idx' \subseteq idx /\ UNCHANGED <<obj, call>>
    BY <1>7 DEF DeleteUnindex
  <2>2. KeysOK'
    BY <2>1, <1>a, <1>c, <1>e DEF KeysOK
  <2>3. AttemptAt(w)'
    BY <2>1, <1>b, <1>c, <1>u DEF AttemptAt, PutPc
  <2>q. CountOK(x)' /\ (crashes = 0 => DueAt(x)')
    BY <2>1, <1>s
  <2> QED
    BY <2>2, <2>3, <2>q, <1>k
<1>8. CASE PutEmit(w) \/ DeleteEmit(w)
  <2>1. /\ pc[w] \in {"index", "dunindex"} /\ pc'[w] = "idle" /\ UNCHANGED <<obj, idx>>
    BY <1>8, <1>t DEF PutEmit, DeleteEmit, Return, TypeOK
  <2>2. KeysOK'
    BY <2>1, <1>a, <1>c, <1>e DEF KeysOK
  <2>3. AttemptAt(w)'
    BY <2>1, <1>b, <1>c, <1>u DEF AttemptAt, PutPc
  <2>q. CountOK(x)' /\ (crashes = 0 => DueAt(x)')
    BY <2>1, <1>s
  <2> QED
    BY <2>2, <2>3, <2>q, <1>k
<1> QED
  BY <1>1, <1>2, <1>3, <1>4, <1>5, <1>6, <1>7, <1>8, <1>c DEF CallStep

-----------------------------------------------------------------------------
LEMMA QueueInvKept ==
    ASSUME OneWorker, MaxEnqueues = 1, DTypeOK, Begun, QueueInv, [DNext]_dvars
    PROVE  QueueInv'
<1>1. CASE UNCHANGED dvars \/ Tick
  BY <1>1, QueueInvStutters DEF dvars, queueVars, Tick
<1>2. CASE Crash
  BY <1>2, CrashKeepsQueueInv
<1>3. ASSUME NEW p \in Callers, NEW id \in Ids, Enqueue(p, id) PROVE QueueInv'
  BY <1>3, EnqueueKeepsQueueInv
<1>4. ASSUME NEW p \in Callers, StoreStep(p) PROVE QueueInv'
  BY <1>4, EnqueuerKeepsQueueInv, OutcomeKeepsQueueInv
<1>5. ASSUME NEW w \in Workers, StartPass(w) \/ PassStep(w) PROVE QueueInv'
  BY <1>5, LocalStepKeepsQueueInv, ResolveKeepsQueueInv, PostKeepsQueueInv, SettleKeepsQueueInv
     DEF PassStep
<1> QED
  BY <1>1, <1>2, <1>3, <1>4, <1>5 DEF DNext

LEMMA QueueInvHolds ==
    ASSUME OneWorker, MaxEnqueues = 1
    PROVE  DSpec => [](DTypeOK /\ Begun /\ QueueInv)
<1> DEFINE IInv == DTypeOK /\ Begun /\ QueueInv
<1>1. DInit => IInv
  BY DTypeInit, QueueInvInit
<1>2. IInv /\ [DNext]_dvars => IInv'
  BY DTypeKept, QueueInvKept
<1> QED
  BY <1>1, <1>2, PTL DEF DSpec

\* maxAttempts bounds the attempts made on an activity, but for one more per
\* crash, and the stored entry counts them (queue.js:109-125).
THEOREM AttemptsCountedCorrect ==
    ASSUME OneWorker, MaxEnqueues = 1
    PROVE  DSpec => []AttemptsCounted
<1>1. ASSUME DTypeOK, QueueInv, NEW id \in Ids, tries[id] # None
      PROVE  /\ Len(tries[id]) <= MaxAttempts + crashes
             /\ obj[id] # None /\ (\A w \in Workers : pass[w].entry = None) =>
                  /\ obj[id].doc.attempts <= Len(tries[id])
                  /\ Len(tries[id]) <= obj[id].doc.attempts + crashes
  <2>1. CountOK(id)
    BY <1>1 DEF QueueInv, CountsOK
  <2>2. CASE obj[id] = None
    BY <1>1, <2>1, <2>2 DEF CountOK
  <2>3. CASE obj[id] # None
    <3>1. PICK a \in Nat : a = obj[id].doc.attempts /\ a + 1 <= MaxAttempts
      BY <1>1, <2>3, QueueTypes, QueueAssumption
    <3>2. PICK n \in Nat : n = Len(tries[id])
      BY <2>1, <2>3 DEF CountOK
    <3>3. crashes \in Nat /\ MaxAttempts \in Nat
      BY <1>1, QueueTypes, QueueAssumption
    <3>4. CASE UnderWay(id)
      <4>1. n <= a + 1 + crashes /\ \E w \in Workers : pass[w].entry # None
        BY <2>1, <2>3, <3>1, <3>2, <3>4 DEF CountOK, UnderWay, Attempting
      <4>2. n <= MaxAttempts + crashes
        BY <3>1, <3>3, <4>1
      <4> QED
        BY <3>2, <4>1, <4>2
    <3>5. CASE ~UnderWay(id)
      <4>1. a <= n /\ n <= a + crashes
        BY <2>1, <2>3, <3>1, <3>2, <3>3, <3>5 DEF CountOK
      <4>2. n <= MaxAttempts + crashes
        BY <3>1, <3>3, <4>1
      <4> QED
        BY <3>1, <3>2, <4>1, <4>2
    <3> QED
      BY <3>4, <3>5
  <2> QED
    BY <2>2, <2>3
<1>2. DTypeOK /\ QueueInv => AttemptsCounted
  BY <1>1 DEF AttemptsCounted
<1> QED
  BY <1>2, QueueInvHolds, PTL

-----------------------------------------------------------------------------
LEMMA BackedOffKept ==
    ASSUME OneWorker, DTypeOK, Begun, QueueInv, BackedOff, [DNext]_dvars
    PROVE  BackedOff'
<1>t. tries \in [Ids -> {None} \cup Seq(Times)] /\ crashes \in Nat
  BY QueueTypes DEF DTypeOK
<1>v. overlaps' = 0 => overlaps = 0
  <2>1. overlaps \in Nat
    BY QueueAssumption DEF DTypeOK
  <2>2. UNCHANGED overlaps \/ overlaps' = overlaps + 1
    BY DEF DNext, dvars, queueVars, hazardVars, Tick, Crash, Enqueue, StoreStep, StartPass, PassStep,
          ListPending, GetPending, SkipEntry, Resolve, Post, Settle, NextEntry, EndPass
  <2> QED
    BY <2>1, <2>2
<1>1. ASSUME UNCHANGED <<tries, crashes>> PROVE BackedOff'
  BY <1>1, <1>v DEF BackedOff
<1>2. CASE Crash
  <2>1. crashes' # 0
    BY <1>2, <1>t DEF Crash
  <2> QED
    BY <2>1 DEF BackedOff
<1>3. ASSUME NEW p \in Callers, StoreStep(p) PROVE BackedOff'
  <2>1. CASE UNCHANGED <<tries, crashes>>
    BY <2>1, <1>1
  <2>2. CASE p \notin Workers /\ pc[p] = "unindex" /\ pc'[p] = "index"
    <3>1. tries' = [tries EXCEPT ![call[p].id] = <<>>] /\ crashes' = crashes
      BY <1>3, <2>2 DEF StoreStep
    <3>2. \A id \in Ids : tries'[id] = tries[id] \/ tries'[id] = <<>>
      BY <3>1, <1>t
    <3>3. Len(<<>>) = 0
      OBVIOUS
    <3> QED
      BY <1>v, <3>1, <3>2, <3>3 DEF BackedOff
  <2> QED
    BY <1>3, <2>1, <2>2 DEF StoreStep
<1>4. ASSUME NEW w \in Workers, Resolve(w) PROVE BackedOff'
  <2>1. PICK e \in pass[w].entries :
          /\ e \in PendingEntry /\ e.doc.next <= pass[w].now
          /\ tries' = [tries EXCEPT ![e.key[3]] = Append(@, pass[w].now)]
    BY <1>4, ResolveEffect
  <2>2. PICK x : x = e.key[3]
    OBVIOUS
  <2>3. x \in Ids /\ obj[x] # None /\ obj[x].doc = e.doc /\ CountOK(x)
    BY <2>1, <2>2 DEF QueueInv, PassOK, PassAt, CountsOK, PendingEntry, QueueKeys
  <2>4. ~UnderWay(x)
    <3>1. pass[w].entry = None
      BY <1>4 DEF Resolve, DTypeOK
    <3> QED
      BY <3>1 DEF UnderWay, Attempting, OneWorker
  <2>5. PICK now \in Times : now = pass[w].now
    BY DEF DTypeOK, Pass
  <2>6. tries[x] \in Seq(Times) /\ tries'[x] = Append(tries[x], now)
    BY <1>t, <2>1, <2>2, <2>3, <2>5 DEF CountOK
  <2>7. UNCHANGED crashes
    BY <1>4 DEF Resolve
  <2> SUFFICES ASSUME crashes = 0, overlaps = 0, NEW id \in Ids, tries'[id] # None, NEW i \in 1 .. Len(tries'[id]) - 1
               PROVE  tries'[id][i + 1] - tries'[id][i] >= backoffMs(i)
    BY <2>7, <1>v DEF BackedOff
  <2>8. CASE id # x
    <3>1. tries'[id] = tries[id]
      BY <1>t, <2>1, <2>2, <2>3, <2>8
    <3> QED
      BY <3>1 DEF BackedOff
  <2>9. CASE id = x
    <3> DEFINE L == tries[x]
    <3>1. /\ Len(L) \in Nat /\ Len(tries'[x]) = Len(L) + 1 /\ tries'[x][Len(L) + 1] = now
          /\ \A j \in 1 .. Len(L) : tries'[x][j] = L[j] /\ L[j] \in Nat
      <4>1. /\ Len(L) \in Nat /\ \A j \in 1 .. Len(L) : L[j] \in Times
        BY <2>6
      <4>2. /\ Len(Append(L, now)) = Len(L) + 1 /\ Append(L, now)[Len(L) + 1] = now
            /\ \A j \in 1 .. Len(L) : Append(L, now)[j] = L[j]
        BY <2>6
      <4> QED
        BY <2>6, <4>1, <4>2, QueueAssumption
    <3>2. CASE i + 1 <= Len(L)
      <4>1. /\ i \in 1 .. Len(L) - 1 /\ tries'[x][i] = L[i] /\ tries'[x][i + 1] = L[i + 1]
        BY <2>9, <3>1, <3>2
      <4>2. L # None
        BY <2>6, QueueAssumption
      <4> QED
        BY <2>3, <2>9, <4>1, <4>2 DEF BackedOff
    <3>3. CASE i = Len(L)
      <4>1. L # <<>> /\ i \in 1 .. Len(L)
        BY <2>9, <3>1, <3>3
      <4>2. DueAt(x)
        BY <2>3 DEF QueueInv, DueOK
      <4>3. obj[x].doc.next >= L[i] + backoffMs(i)
        BY <2>3, <2>4, <3>3, <4>1, <4>2 DEF DueAt
      <4>4. obj[x].doc.next <= now /\ obj[x].doc.next \in Nat /\ now \in Nat
        BY <2>1, <2>3, <2>5, QueueTypes, QueueAssumption
      <4>5. backoffMs(i) \in Nat
        <5>1. Len(L) <= MaxAttempts
          <6>1. PICK a \in Nat : a = obj[x].doc.attempts /\ a + 1 <= MaxAttempts
            BY <2>3, QueueTypes, QueueAssumption
          <6>2. PICK n \in Nat : n = Len(L)
            BY <3>1
          <6>3. n <= a
            BY <2>3, <2>4, <6>1, <6>2 DEF CountOK
          <6> QED
            BY <6>1, <6>2, <6>3, QueueAssumption
        <5>2. i \in 1 .. MaxAttempts
          BY <3>1, <3>3, <4>1, <5>1, QueueAssumption
        <5> QED
          BY <5>2, QueueAssumption
      <4>6. L[i] \in Nat /\ tries'[x][i] = L[i] /\ tries'[x][i + 1] = now
        BY <3>1, <3>3, <4>1
      <4>7. now - L[i] >= backoffMs(i)
        BY <4>3, <4>4, <4>5, <4>6
      <4> QED
        BY <2>9, <4>6, <4>7
    <3> QED
      BY <2>9, <3>1, <3>2, <3>3
  <2> QED
    BY <2>8, <2>9
<1> QED
  BY <1>1, <1>2, <1>3, <1>4 DEF DNext, dvars, queueVars, Tick, Enqueue, StartPass, PassStep, ListPending, GetPending,
     SkipEntry, Post, Settle, NextEntry, EndPass

\* Unless the process stopped in between, attempt i + 1 on an activity begins
\* at least backoffMs(i) after attempt i (queue.js:21-23, 87-97, 124).
THEOREM BackedOffCorrect ==
    ASSUME OneWorker, MaxEnqueues = 1
    PROVE  DSpec => []BackedOff
<1>1. DInit => BackedOff
  BY DEF DInit, BackedOff
<1>2. DTypeOK /\ Begun /\ QueueInv /\ BackedOff /\ [DNext]_dvars => BackedOff'
  BY BackedOffKept
<1> QED
  BY <1>1, <1>2, QueueInvHolds, PTL DEF DSpec
-----------------------------------------------------------------------------
LEMMA KeptInit == DInit => KeptInv
BY QueueAssumption DEF DInit, Init, KeptInv, FirstEntry, CopiesCount, DeletedWhenDone, ListedOrOwed, Off, PutPc, DeletePc

\* The types KeptInv needs.
LEMMA KeptTypes ==
    ASSUME DTypeOK
    PROVE  /\ Workers \subseteq Callers /\ MaxAttempts \in Nat
           /\ tries \in [Ids -> {None} \cup Seq(Times)] /\ accepted \in [Ids -> SUBSET Inboxes]
           /\ \A id \in Ids : tries[id] # None => tries[id] \in Seq(Times) /\ Len(tries[id]) \in Nat
           /\ obj \in [Ids -> Record \cup {None}] /\ idx \subseteq QueueKeys
           /\ \A id \in Ids : obj[id] # None => obj[id].doc.attempts \in Nat
           /\ \A p \in Callers : pc[p] # "idle" => call[p].id \in Ids
           /\ \A p \in Callers : pc[p] \in PutPc => call[p].doc.attempts \in Nat
           /\ \A w \in Workers :
                /\ pass[w] \in Pass
                /\ \A e \in pass[w].keys : e[3] \in Ids
                /\ \A d \in pass[w].entries : d.key[3] \in Ids /\ d.doc.attempts \in Nat
                /\ pass[w].entry # None => /\ pass[w].entry.id \in Ids
                                           /\ pass[w].entry.doc.attempts \in Nat
<1> USE QueueAssumption
<1>1. TypeOK /\ pass \in [Workers -> Pass] /\ tries \in [Ids -> {None} \cup Seq(Times)]
      /\ accepted \in [Ids -> SUBSET Inboxes]
  BY DEF DTypeOK
<1>2. \A d \in Docs : d.attempts \in Nat
  OBVIOUS
<1>3. \A id \in Ids : tries[id] # None => tries[id] \in Seq(Times) /\ Len(tries[id]) \in Nat
  BY <1>1
<1>4. \A p \in Callers : pc[p] # "idle" => call[p].id \in Ids
  BY <1>1 DEF TypeOK, PutCall, DeleteCall
<1>5. \A p \in Callers : pc[p] \in PutPc => call[p].doc \in Docs
  BY <1>1 DEF TypeOK, PutCall
<1>6. ASSUME NEW w \in Workers
      PROVE  /\ pass[w] \in Pass
             /\ \A e \in pass[w].keys : e[3] \in Ids
             /\ \A d \in pass[w].entries : d.key[3] \in Ids /\ d.doc \in Docs
             /\ pass[w].entry # None => pass[w].entry.id \in Ids /\ pass[w].entry.doc \in Docs
  BY <1>1 DEF Pass, QueueKeys
<1> QED
  BY <1>1, <1>2, <1>3, <1>4, <1>5, <1>6, QueueTypes

\* A step of a pass that leaves the store's calls alone and adds to the history
\* of attempts at most.
LEMMA KeptByPassStep ==
    ASSUME DTypeOK, Begun, KeptInv, NEW w \in Workers,
           UNCHANGED <<obj, idx, pc, call, todo, asked, cut>>,
           \A v \in Workers \ {w} : pass'[v] = pass[v],
           \A id \in Ids :
                /\ tries'[id] = None <=> tries[id] = None
                /\ tries[id] # None => Len(tries'[id]) \in Nat /\ Len(tries[id]) <= Len(tries'[id])
                /\ accepted[id] \subseteq accepted'[id] /\ accepted'[id] \subseteq Inboxes,
           \A e \in pass'[w].keys : e[3] \in Ids /\ tries[e[3]] # None,
           \A d \in pass'[w].entries :
                d.key[3] \in Ids /\ tries[d.key[3]] # None /\ d.doc.attempts \in Nat
                /\ d.doc.attempts <= Len(tries'[d.key[3]]),
           pass'[w].entry # None => pass'[w].entry.doc.attempts + 1 <= Len(tries'[pass'[w].entry.id]),
           pass'[w].at = "post" /\ ~pass'[w].failed =>
                Inboxes \ pass'[w].inboxes \subseteq accepted'[pass'[w].entry.id]
    PROVE  KeptInv'
<1>t. /\ \A v \in Workers :
           /\ \A e \in pass[v].keys : e[3] \in Ids
           /\ \A d \in pass[v].entries : d.key[3] \in Ids /\ d.doc.attempts \in Nat
           /\ pass[v].entry # None => pass[v].entry.id \in Ids /\ pass[v].entry.doc.attempts \in Nat
           /\ pass[v].entry # None <=> pass[v].at \in {"post", "store"}
      /\ \A p \in Callers : pc[p] # "idle" => call[p].id \in Ids
      /\ \A p \in Callers : pc[p] \in PutPc => call[p].doc.attempts \in Nat
      /\ \A e \in idx : e[3] \in Ids
      /\ \A id \in Ids : tries[id] # None => Len(tries[id]) \in Nat
      /\ \A id \in Ids : obj[id] # None => obj[id].doc.attempts \in Nat
      /\ Workers \subseteq Callers /\ MaxAttempts \in Nat
  BY KeptTypes DEF DTypeOK, QueueKeys
<1>k. FirstEntry /\ CopiesCount /\ DeletedWhenDone /\ ListedOrOwed
  BY DEF KeptInv
<1>d. ASSUME NEW id \in Ids, Done(id) PROVE Done(id)'
  <2>1. tries'[id] # None /\ Len(tries[id]) <= Len(tries'[id]) /\ Len(tries[id]) \in Nat
        /\ Len(tries'[id]) \in Nat
    BY <1>d, <1>t DEF Done
  <2>2. Delivered(id) => Delivered(id)'
    <3>1. accepted[id] \subseteq accepted'[id] /\ accepted'[id] \subseteq Inboxes
      BY <1>d
    <3> QED
      BY <3>1 DEF Delivered
  <2>3. Len(tries[id]) >= MaxAttempts => Len(tries'[id]) >= MaxAttempts
    BY <2>1, <1>t
  <2> QED
    BY <1>d, <2>1, <2>2, <2>3 DEF Done
<1>l. ASSUME NEW id \in Ids, tries[id] # None, NEW n \in Nat, n <= Len(tries[id]) PROVE n <= Len(tries'[id])
  BY <1>l, <1>t
<1>1. FirstEntry'
  <2>1. \A v \in Workers : \A e \in pass'[v].keys : tries'[e[3]] # None
    <3>1. TAKE v \in Workers
    <3>2. CASE v = w
      BY <3>2
    <3>3. CASE v # w
      BY <3>3, <1>t, <1>k DEF FirstEntry
    <3> QED
      BY <3>2, <3>3
  <2> QED
    BY <2>1, <1>t, <1>k, QueueAssumption DEF FirstEntry, PutPc
<1>2. CopiesCount'
  <2>1. \A id \in Ids : obj'[id] # None => obj'[id].doc.attempts <= Len(tries'[id])
    BY <1>t, <1>k, <1>l DEF CopiesCount, Begun
  <2>2. \A p \in Callers : pc'[p] \in {"get", "unindex"} /\ tries'[call'[p].id] # None =>
          call'[p].doc.attempts <= Len(tries'[call'[p].id])
    BY <1>t, <1>k, <1>l DEF CopiesCount, PutPc
  <2>3. ASSUME NEW v \in Workers
        PROVE  /\ \A d \in pass'[v].entries : d.doc.attempts <= Len(tries'[d.key[3]])
               /\ pass'[v].entry # None =>
                    pass'[v].entry.doc.attempts + 1 <= Len(tries'[pass'[v].entry.id])
    <3>1. CASE v = w
      BY <3>1
    <3>2. CASE v # w
      <4>1. \A d \in pass[v].entries : d.doc.attempts <= Len(tries'[d.key[3]])
        BY <1>t, <1>k, <1>l DEF CopiesCount, Begun
      <4>2. ASSUME pass[v].entry # None
            PROVE  pass[v].entry.doc.attempts + 1 <= Len(tries'[pass[v].entry.id])
        <5>1. pass[v].entry.doc.attempts + 1 \in Nat
          BY <4>2, <1>t
        <5> QED
          BY <4>2, <5>1, <1>t, <1>k, <1>l DEF CopiesCount, Begun
      <4> QED
        BY <3>2, <4>1, <4>2
    <3> QED
      BY <3>1, <3>2
  <2> QED
    BY <2>1, <2>2, <2>3 DEF CopiesCount
<1>3. DeletedWhenDone'
  <2>1. \A id \in Ids : obj'[id] = None /\ tries'[id] # None => Done(id)'
    BY <1>d, <1>k DEF DeletedWhenDone
  <2>2. ASSUME NEW v \in Workers, pc'[v] \in DeletePc PROVE Done(call[v].id)'
    <3>1. PICK i : i = call[v].id
      OBVIOUS
    <3>2. i \in Ids /\ Done(i)
      BY <2>2, <3>1, <1>k, <1>t DEF DeletedWhenDone, DeletePc
    <3>3. Done(i)'
      BY <3>2, <1>d
    <3> QED
      BY <3>1, <3>3 DEF Done, Delivered
  <2>3. ASSUME NEW v \in Workers, pass'[v].at = "post", ~pass'[v].failed
        PROVE  Inboxes \ pass'[v].inboxes \subseteq accepted'[pass'[v].entry.id]
    <3>1. CASE v = w
      BY <2>3, <3>1
    <3>2. CASE v # w
      BY <2>3, <3>2, <1>t, <1>k DEF DeletedWhenDone
    <3> QED
      BY <3>1, <3>2
  <2> QED
    BY <2>1, <2>2, <2>3 DEF DeletedWhenDone
<1>4. ListedOrOwed'
  <2>1. \A p \in Callers, id \in Ids : WillList(p, id)' <=> WillList(p, id)
    BY DEF WillList
  <2>2. \A id \in Ids : Queued(id)' <=> Queued(id)
    BY DEF Queued
  <2> QED
    BY <1>d, <1>k, <2>1, <2>2 DEF ListedOrOwed
<1> QED
  BY <1>1, <1>2, <1>3, <1>4 DEF KeptInv

\* The steps of processDue() between two store calls.
LEMMA PassKeepsKept ==
    ASSUME DTypeOK, Begun, KeptInv, NEW w \in Workers,
           \/ StartPass(w) \/ ListPending(w) \/ GetPending(w) \/ SkipEntry(w) \/ Resolve(w)
           \/ Post(w) \/ NextEntry(w) \/ EndPass(w)
    PROVE  KeptInv'
<1>t. /\ \A e \in pass[w].keys : e[3] \in Ids
      /\ \A d \in pass[w].entries : d.key[3] \in Ids /\ d.doc.attempts \in Nat
      /\ pass[w].entry # None => pass[w].entry.id \in Ids /\ pass[w].entry.doc.attempts \in Nat
      /\ \A e \in idx : e[3] \in Ids
      /\ \A id \in Ids : obj[id] # None => obj[id].doc.attempts \in Nat
      /\ \A id \in Ids : tries[id] # None => tries[id] \in Seq(Times) /\ Len(tries[id]) \in Nat
      /\ tries \in [Ids -> {None} \cup Seq(Times)] /\ accepted \in [Ids -> SUBSET Inboxes]
      /\ pass[w] \in Pass
  BY KeptTypes DEF QueueKeys
<1>k. /\ FirstEntry /\ CopiesCount /\ DeletedWhenDone
      /\ \A e \in pass[w].keys : tries[e[3]] # None
      /\ \A e \in idx : tries[e[3]] # None
      /\ \A d \in pass[w].entries : tries[d.key[3]] # None /\ d.doc.attempts <= Len(tries[d.key[3]])
      /\ pass[w].entry # None => tries[pass[w].entry.id] # None
      /\ \A id \in Ids : obj[id] # None => tries[id] # None /\ obj[id].doc.attempts <= Len(tries[id])
  BY DEF KeptInv, FirstEntry, CopiesCount, Begun
<1>u. /\ UNCHANGED <<obj, idx, pc, call, todo, asked, cut>>
      /\ \A v \in Workers \ {w} : pass'[v] = pass[v]
  <2>1. OneSlot(w)
    BY StartEffect, ListEffect, GetEffect, SkipEffect, ResolveEffect, PostEffect, NextEffect, EndEffect
  <2> QED
    BY <2>1 DEF OneSlot, StartPass, ListPending, GetPending, SkipEntry, Resolve, Post, NextEntry, EndPass,
       storeVars, hazardVars
<1>h. ASSUME UNCHANGED <<tries, accepted>>, pass'[w].entry = None, pass'[w].at # "post",
             \A e \in pass'[w].keys : e \in pass[w].keys \/ e \in idx,
             \A d \in pass'[w].entries : \/ d \in pass[w].entries
                                         \/ /\ d.key \in pass[w].keys /\ obj[d.key[3]] # None
                                            /\ d.doc = obj[d.key[3]].doc
      PROVE  KeptInv'
  <2>1. \A e \in pass'[w].keys : e[3] \in Ids /\ tries[e[3]] # None
    BY <1>h, <1>t, <1>k
  <2>2. \A d \in pass'[w].entries : d.key[3] \in Ids /\ tries[d.key[3]] # None /\ d.doc.attempts \in Nat
                                    /\ d.doc.attempts <= Len(tries'[d.key[3]])
    BY <1>h, <1>t, <1>k
  <2>3. \A id \in Ids :
          /\ tries'[id] = None <=> tries[id] = None
          /\ tries[id] # None => Len(tries'[id]) \in Nat /\ Len(tries[id]) <= Len(tries'[id])
          /\ accepted[id] \subseteq accepted'[id] /\ accepted'[id] \subseteq Inboxes
    BY <1>h, <1>t
  <2> QED
    BY <2>1, <2>2, <2>3, <1>h, <1>u, KeptByPassStep
<1>1. CASE StartPass(w) \/ EndPass(w)
  <2>1. /\ pass'[w].at # "post" /\ pass'[w].keys = {} /\ pass'[w].entries = {} /\ pass'[w].entry = None
    BY <1>1, StartEffect, EndEffect
  <2>2. UNCHANGED <<tries, accepted>>
    BY <1>1 DEF StartPass, EndPass
  <2> QED
    BY <2>1, <2>2, <1>h
<1>2. CASE ListPending(w)
  <2>1. /\ pass'[w].at = "get" /\ pass'[w].keys = {e \in idx : e[1] = Queue}
        /\ pass'[w].entries = pass[w].entries /\ pass'[w].entry = None
    BY <1>2, ListEffect
  <2>2. UNCHANGED <<tries, accepted>>
    BY <1>2 DEF ListPending
  <2> QED
    BY <2>1, <2>2, <1>h
<1>3. CASE GetPending(w)
  <2>1. PICK e \in pass[w].keys :
          /\ pass'[w].at = "get"
          /\ pass'[w].keys = pass[w].keys \ {e}
          /\ obj[e[3]] = None => pass'[w].entries = pass[w].entries
          /\ obj[e[3]] # None =>
               pass'[w].entries = pass[w].entries \cup {[key |-> e, doc |-> obj[e[3]].doc]}
          /\ pass'[w].entry = None
    BY <1>3, GetEffect
  <2>2. UNCHANGED <<tries, accepted>>
    BY <1>3 DEF GetPending
  <2>3. \A d \in pass'[w].entries : \/ d \in pass[w].entries
                                    \/ /\ d.key \in pass[w].keys /\ obj[d.key[3]] # None
                                       /\ d.doc = obj[d.key[3]].doc
    BY <2>1
  <2> QED
    BY <2>1, <2>2, <2>3, <1>h
<1>4. CASE SkipEntry(w) \/ NextEntry(w)
  <2>1. /\ pass'[w].at = "get" /\ pass'[w].keys = pass[w].keys
        /\ pass'[w].entries \subseteq pass[w].entries /\ pass'[w].entry = None
    BY <1>4, SkipEffect, NextEffect
  <2>2. UNCHANGED <<tries, accepted>>
    BY <1>4 DEF SkipEntry, NextEntry
  <2> QED
    BY <2>1, <2>2, <1>h
<1>5. CASE Resolve(w)
  <2>1. PICK e \in pass[w].entries :
          /\ pass'[w].keys = pass[w].keys
          /\ pass'[w].entries = pass[w].entries \ {e}
          /\ pass'[w].entry.id = e.key[3] /\ pass'[w].entry.doc = e.doc
          /\ ~pass'[w].failed => pass'[w].inboxes = Inboxes
          /\ tries' = [tries EXCEPT ![e.key[3]] = Append(@, pass[w].now)]
    BY <1>5, ResolveEffect
  <2> DEFINE x == e.key[3]
  <2>2. /\ x \in Ids /\ tries[x] \in Seq(Times) /\ Len(tries[x]) \in Nat /\ pass[w].now \in Times
        /\ e.doc.attempts \in Nat /\ e.doc.attempts <= Len(tries[x])
    BY <2>1, <1>t, <1>k DEF Pass
  <2>3. /\ tries'[x] = Append(tries[x], pass[w].now) /\ tries'[x] \in Seq(Times)
        /\ Len(tries'[x]) = Len(tries[x]) + 1
        /\ \A id \in Ids \ {x} : tries'[id] = tries[id]
    BY <2>1, <2>2, <1>t
  <2>4. tries'[x] # None /\ accepted' = accepted
    BY <2>3, <1>5, QueueAssumption DEF Resolve
  <2>5. \A id \in Ids :
          /\ tries'[id] = None <=> tries[id] = None
          /\ tries[id] # None => Len(tries'[id]) \in Nat /\ Len(tries[id]) <= Len(tries'[id])
          /\ accepted[id] \subseteq accepted'[id] /\ accepted'[id] \subseteq Inboxes
    <3>1. TAKE id \in Ids
    <3>2. CASE id = x
      BY <3>2, <2>1, <2>2, <2>3, <2>4, <1>k, <1>t
    <3>3. CASE id # x
      BY <3>3, <2>3, <2>4, <1>t
    <3> QED
      BY <3>2, <3>3
  <2>6. \A d \in pass'[w].entries : d.key[3] \in Ids /\ tries[d.key[3]] # None /\ d.doc.attempts \in Nat
                                    /\ d.doc.attempts <= Len(tries'[d.key[3]])
    BY <2>1, <2>5, <1>t, <1>k
  <2>7. pass'[w].entry.doc.attempts + 1 <= Len(tries'[pass'[w].entry.id])
    BY <2>1, <2>2, <2>3
  <2>8. ~pass'[w].failed => Inboxes \ pass'[w].inboxes \subseteq accepted'[pass'[w].entry.id]
    BY <2>1
  <2>9. \A k \in pass'[w].keys : k[3] \in Ids /\ tries[k[3]] # None
    BY <2>1, <1>t, <1>k
  <2> HIDE DEF x
  <2> QED
    BY <2>5, <2>6, <2>7, <2>8, <2>9, <1>u, KeptByPassStep
<1>6. CASE Post(w)
  <2>1. PICK i \in Inboxes, taken \in BOOLEAN :
          /\ pass'[w].keys = pass[w].keys
          /\ pass'[w].entries = pass[w].entries
          /\ pass'[w].entry = pass[w].entry
          /\ pass'[w].inboxes = pass[w].inboxes \ {i}
          /\ ~pass'[w].failed => ~pass[w].failed /\ taken
          /\ accepted' = IF taken
                           THEN [accepted EXCEPT ![pass[w].entry.id] = @ \cup {i}]
                           ELSE accepted
    BY <1>6, PostEffect
  <2>2. tries' = tries /\ pass[w].at = "post" /\ pass[w].entry # None
    BY <1>6 DEF Post, DTypeOK
  <2>3. /\ \A id \in Ids : accepted[id] \subseteq accepted'[id] /\ accepted'[id] \subseteq Inboxes
        /\ taken => i \in accepted'[pass[w].entry.id]
    BY <2>1, <2>2, <1>t
  <2>4. \A id \in Ids :
          /\ tries'[id] = None <=> tries[id] = None
          /\ tries[id] # None => Len(tries'[id]) \in Nat /\ Len(tries[id]) <= Len(tries'[id])
          /\ accepted[id] \subseteq accepted'[id] /\ accepted'[id] \subseteq Inboxes
    BY <2>2, <2>3, <1>t
  <2>5. \A d \in pass'[w].entries : d.key[3] \in Ids /\ tries[d.key[3]] # None /\ d.doc.attempts \in Nat
                                    /\ d.doc.attempts <= Len(tries'[d.key[3]])
    BY <2>1, <2>2, <1>t, <1>k
  <2>6. pass'[w].entry.doc.attempts + 1 <= Len(tries'[pass'[w].entry.id])
    BY <2>1, <2>2, <1>k DEF CopiesCount
  <2>7. ~pass'[w].failed => Inboxes \ pass'[w].inboxes \subseteq accepted'[pass'[w].entry.id]
    <3>1. SUFFICES ASSUME ~pass'[w].failed PROVE Inboxes \ pass'[w].inboxes \subseteq accepted'[pass'[w].entry.id]
      OBVIOUS
    <3>2. Inboxes \ pass[w].inboxes \subseteq accepted[pass[w].entry.id] /\ taken
      BY <2>1, <2>2, <3>1, <1>k DEF DeletedWhenDone
    <3> QED
      BY <2>1, <2>2, <2>3, <3>2, <1>t
  <2>8. \A e \in pass'[w].keys : e[3] \in Ids /\ tries[e[3]] # None
    BY <2>1, <1>t, <1>k
  <2> QED
    BY <2>4, <2>5, <2>6, <2>7, <2>8, <1>u, KeptByPassStep
<1> QED
  BY <1>1, <1>2, <1>3, <1>4, <1>5, <1>6

LEMMA KeptStutters ==
    ASSUME KeptInv, UNCHANGED <<storeVars, pass, asked, tries, accepted, cut>>
    PROVE  KeptInv'
<1> USE DEF storeVars
<1>d. \A id : Done(id)' <=> Done(id)
  BY DEF Done, Delivered
<1>1. FirstEntry' /\ CopiesCount'
  BY DEF KeptInv, FirstEntry, CopiesCount
<1>2. DeletedWhenDone'
  BY DEF KeptInv, DeletedWhenDone, Done, Delivered
<1>3. ListedOrOwed'
  BY <1>d DEF KeptInv, ListedOrOwed, WillList, Queued
<1> QED
  BY <1>1, <1>2, <1>3 DEF KeptInv

\* A put() that a stop cuts short is in the history: what the other calls had
\* still to list does not count.
LEMMA CrashKeepsKept ==
    ASSUME DTypeOK, Begun, KeptInv, Crash
    PROVE  KeptInv'
<1>1. /\ \A p \in Callers : pc'[p] = "idle"
      /\ \A w \in Workers : pass'[w].at = "off" /\ pass'[w].entry = None /\ pass'[w].keys = {}
                             /\ pass'[w].entries = {}
      /\ UNCHANGED <<obj, idx, asked, tries, accepted>>
      /\ cut' = cut \cup {call[p].id : p \in {q \in Callers : pc[q] \in {"unindex", "index"}}}
      /\ Workers \subseteq Callers
  BY QueueAssumption DEF Crash, Off
<1>d. \A id : Done(id)' <=> Done(id)
  BY <1>1 DEF Done, Delivered
<1>2. FirstEntry' /\ CopiesCount'
  BY <1>1 DEF KeptInv, FirstEntry, CopiesCount
<1>3. DeletedWhenDone'
  BY <1>1, <1>d DEF KeptInv, DeletedWhenDone, DeletePc
<1>4. ListedOrOwed'
  <2>1. ASSUME NEW id \in Ids, tries[id] # None, id \notin cut', ~Done(id) PROVE Queued(id)'
    <3>1. Queued(id) \/ \E p \in Callers : WillList(p, id)
      BY <2>1, <1>1 DEF KeptInv, ListedOrOwed
    <3>2. \A p \in Callers : ~WillList(p, id)
      BY <2>1, <1>1 DEF WillList
    <3> QED
      BY <3>1, <3>2, <1>1 DEF Queued
  <2> QED
    BY <2>1, <1>1, <1>d DEF ListedOrOwed, PutPc
<1> QED
  BY <1>2, <1>3, <1>4 DEF KeptInv

LEMMA EnqueueKeepsKept ==
    ASSUME MaxEnqueues = 1, DTypeOK, Begun, KeptInv,
           NEW p \in Callers, NEW id \in Ids, Enqueue(p, id)
    PROVE  KeptInv'
<1>t. TypeOK /\ asked \in [Ids -> 0 .. MaxEnqueues] /\ Workers \subseteq Callers
  BY QueueAssumption DEF DTypeOK
<1>1. /\ p \notin Workers /\ pc[p] = "idle" /\ asked[id] = 0
      /\ pc' = [pc EXCEPT ![p] = "get"]
      /\ call' = [call EXCEPT ![p] = [id |-> id, ts |-> clock,
                                      doc |-> [attempts |-> 0, next |-> clock], colls |-> {Queue}]]
      /\ asked' = [asked EXCEPT ![id] = @ + 1]
      /\ UNCHANGED <<obj, idx, old, todo, pass, tries, accepted, cut>>
  BY <1>t DEF Enqueue, PutBegin, hazardVars
<1>2. /\ pc'[p] = "get" /\ call'[p].id = id /\ call'[p].colls = {Queue} /\ call'[p].doc.attempts = 0
      /\ \A q \in Callers \ {p} : pc'[q] = pc[q] /\ call'[q] = call[q]
      /\ asked'[id] # 0 /\ \A x \in Ids \ {id} : asked'[x] = asked[x]
  BY <1>1, <1>t DEF TypeOK
<1>3. FirstEntry /\ CopiesCount /\ DeletedWhenDone /\ ListedOrOwed
  BY DEF KeptInv
<1>4. tries[id] = None
  BY <1>1, <1>3 DEF FirstEntry
<1>5. \A q \in Callers \ Workers : pc[q] # "idle" => call[q].id \in Ids /\ call[q].id # id
  BY <1>1, <1>3, KeptTypes DEF FirstEntry
<1>d. \A x : Done(x)' <=> Done(x)
  BY <1>1 DEF Done, Delivered
<1>6. FirstEntry'
  <2>1. ASSUME NEW q \in Callers \ Workers, pc'[q] # "idle"
        PROVE  /\ pc'[q] \in PutPc /\ asked'[call'[q].id] # 0 /\ call'[q].doc.attempts = 0
               /\ \A r \in Callers \ Workers : pc'[r] # "idle" /\ call'[r].id = call'[q].id => r = q
               /\ pc'[q] \in {"get", "unindex"} <=> tries'[call'[q].id] = None
    <3>1. CASE q = p
      BY <3>1, <1>1, <1>2, <1>4, <1>5 DEF PutPc
    <3>2. CASE q # p
      BY <2>1, <3>2, <1>1, <1>2, <1>3, <1>5 DEF FirstEntry
    <3> QED
      BY <3>1, <3>2
  <2>2. \A x \in Ids : tries'[x] # None => asked'[x] # 0
    BY <1>1, <1>2, <1>3 DEF FirstEntry
  <2> QED
    BY <2>1, <2>2, <1>1, <1>3 DEF FirstEntry
<1>7. CopiesCount'
  <2>1. \A q \in Callers : pc'[q] \in {"get", "unindex"} /\ tries'[call'[q].id] # None =>
          call'[q].doc.attempts <= Len(tries'[call'[q].id])
    BY <1>1, <1>2, <1>3, <1>4 DEF CopiesCount
  <2> QED
    BY <2>1, <1>1, <1>3 DEF CopiesCount
<1>8. DeletedWhenDone'
  <2>1. \A w \in Workers : pc'[w] = pc[w] /\ call'[w] = call[w]
    BY <1>1, <1>2, <1>t
  <2> QED
    BY <2>1, <1>1, <1>3 DEF DeletedWhenDone, Done, Delivered
<1>9. ListedOrOwed'
  <2>1. \A q \in Callers, x \in Ids : WillList(q, x) => WillList(q, x)'
    <3>1. TAKE q \in Callers, x \in Ids
    <3>2. CASE q = p
      BY <3>2, <1>1 DEF WillList, PutPc
    <3>3. CASE q # p
      BY <3>3, <1>1, <1>2 DEF WillList
    <3> QED
      BY <3>2, <3>3
  <2>2. \A q \in Callers : pc'[q] \in PutPc => call'[q].colls = {Queue}
    BY <1>2, <1>3 DEF ListedOrOwed
  <2> QED
    BY <2>1, <2>2, <1>1, <1>3, <1>d DEF ListedOrOwed, Queued
<1> QED
  BY <1>6, <1>7, <1>8, <1>9 DEF KeptInv

\* The outcome of an attempt is handed to the store: the entry is deleted only
\* when the activity is done.
LEMMA SettleKeepsKept ==
    ASSUME DTypeOK, Begun, KeptInv, NEW w \in Workers, Settle(w)
    PROVE  KeptInv'
<1> DEFINE x == pass[w].entry.id
<1>t. TypeOK /\ w \in Callers /\ Workers \subseteq Callers /\ MaxAttempts \in Nat
  BY QueueAssumption DEF DTypeOK
<1>1. /\ OneSlot(w)
      /\ pass'[w].at = "store"
      /\ pass'[w].keys = pass[w].keys
      /\ pass'[w].entries = pass[w].entries
      /\ pass'[w].entry = pass[w].entry
      /\ pass[w].entry # None /\ x \in Ids /\ pass[w].entry.doc.attempts \in Nat
      /\ \A v \in Workers \ {w} : pass'[v] = pass[v]
  BY SettleEffect, KeptTypes DEF OneSlot
<1>2. /\ UNCHANGED <<obj, idx, todo, asked, tries, accepted, cut>>
      /\ pc[w] = "idle" /\ pass[w].at = "post" /\ pass[w].inboxes = {}
  BY DEF Settle, DeleteBegin, PutBegin, hazardVars
<1>3. FirstEntry /\ CopiesCount /\ DeletedWhenDone /\ ListedOrOwed
  BY DEF KeptInv
<1>4. /\ pc'[w] \in {"dget", "get"} /\ call'[w].id = x
      /\ pc'[w] = "dget" => ~pass[w].failed \/ IsLast(w)
      /\ pc'[w] = "get" => /\ call'[w].colls = {Queue}
                           /\ call'[w].doc.attempts = pass[w].entry.doc.attempts + 1
      /\ \A q \in Callers \ {w} : pc'[q] = pc[q] /\ call'[q] = call[q]
  <2>1. CASE (~pass[w].failed \/ IsLast(w)) /\ DeleteBegin(w, x)
    BY <2>1, <1>t DEF DeleteBegin, TypeOK
  <2>2. CASE pass[w].failed /\ ~IsLast(w) /\ PutBegin(w, x, Updated(w), {Queue}, pass[w].now)
    BY <2>2, <1>t DEF PutBegin, TypeOK, Updated
  <2> QED
    BY <2>1, <2>2 DEF Settle
<1>5. tries[x] # None /\ Len(tries[x]) \in Nat /\ pass[w].entry.doc.attempts + 1 <= Len(tries[x])
  BY <1>1, <1>3, KeptTypes DEF Begun, CopiesCount
<1>d. \A id : Done(id)' <=> Done(id)
  BY <1>2 DEF Done, Delivered
<1>6. FirstEntry'
  <2>1. \A v \in Workers : pass'[v].keys = pass[v].keys
    BY <1>1
  <2>2. \A q \in Callers \ Workers : pc'[q] = pc[q] /\ call'[q] = call[q]
    BY <1>4
  <2> QED
    BY <2>1, <2>2, <1>2, <1>3 DEF FirstEntry
<1>7. CopiesCount'
  <2>1. \A q \in Callers : pc'[q] \in {"get", "unindex"} /\ tries'[call'[q].id] # None =>
          call'[q].doc.attempts <= Len(tries'[call'[q].id])
    BY <1>2, <1>3, <1>4, <1>5 DEF CopiesCount
  <2>2. \A v \in Workers : pass'[v].entries = pass[v].entries /\ pass'[v].entry = pass[v].entry
    BY <1>1
  <2> QED
    BY <2>1, <2>2, <1>2, <1>3 DEF CopiesCount
<1>8. DeletedWhenDone'
  <2>1. pc'[w] = "dget" => Done(x)
    <3>1. CASE ~pass[w].failed
      <4>1. Inboxes \subseteq accepted[x] /\ accepted[x] \subseteq Inboxes
        BY <3>1, <1>1, <1>2, <1>3 DEF DeletedWhenDone, DTypeOK
      <4> QED
        BY <4>1, <1>5 DEF Done, Delivered
    <3>2. CASE IsLast(w)
      <4>1. Len(tries[x]) >= MaxAttempts
        BY <3>2, <1>1, <1>5, <1>t DEF IsLast
      <4> QED
        BY <4>1, <1>5 DEF Done
    <3> QED
      BY <3>1, <3>2, <1>4
  <2>2. \A v \in Workers : pc'[v] \in DeletePc => Done(call[v].id)' 
    <3>1. TAKE v \in Workers
    <3>2. CASE v = w
      BY <3>2, <2>1, <1>2, <1>4 DEF Done, Delivered, DeletePc
    <3>3. CASE v # w
      BY <3>3, <1>2, <1>3, <1>4, <1>t DEF DeletedWhenDone, Done, Delivered
    <3> QED
      BY <3>2, <3>3
  <2>3. \A v \in Workers : pass'[v].at = "post" /\ ~pass'[v].failed =>
          Inboxes \ pass'[v].inboxes \subseteq accepted'[pass'[v].entry.id]
    BY <1>1, <1>2, <1>3 DEF DeletedWhenDone
  <2>4. \A id \in Ids : obj'[id] = None /\ tries'[id] # None => Done(id)'
    BY <1>2, <1>3, <1>d DEF DeletedWhenDone
  <2> QED
    BY <2>2, <2>3, <2>4 DEF DeletedWhenDone
<1>9. ListedOrOwed'
  <2>1. \A q \in Callers, id \in Ids : WillList(q, id) => WillList(q, id)'
    <3>1. TAKE q \in Callers, id \in Ids
    <3>2. CASE q = w
      BY <3>2, <1>2 DEF WillList, PutPc
    <3>3. CASE q # w
      BY <3>3, <1>2, <1>4 DEF WillList
    <3> QED
      BY <3>2, <3>3
  <2>2. \A q \in Callers : pc'[q] \in PutPc => call'[q].colls = {Queue}
    BY <1>3, <1>4 DEF ListedOrOwed, PutPc
  <2> QED
    BY <2>1, <2>2, <1>2, <1>3, <1>d DEF ListedOrOwed, Queued
<1> QED
  BY <1>6, <1>7, <1>8, <1>9 DEF KeptInv

\* What a store step changes of the calls, and of the history, is slot p's own.
LEMMA StoreStepEffect ==
    ASSUME DTypeOK, Begun, KeptInv, NEW p \in Callers, StoreStep(p)
    PROVE  /\ CallStep(p) /\ pc[p] # "idle" /\ call[p].id \in Ids /\ TypeOK
           /\ UNCHANGED <<pass, asked, cut>>
           /\ \A q \in Callers \ {p} : pc'[q] = pc[q] /\ call'[q] = call[q] /\ todo'[q] = todo[q]
           /\ p \in Workers => tries[call[p].id] # None
           /\ p \notin Workers => pc[p] \in PutPc
           /\ ~(p \notin Workers /\ PutWrite(p)) => UNCHANGED <<tries, accepted>>
           /\ p \notin Workers /\ PutWrite(p) =>
                /\ tries' = [tries EXCEPT ![call[p].id] = <<>>]
                /\ accepted' = [accepted EXCEPT ![call[p].id] = {}]
<1>1. CallStep(p) /\ TypeOK /\ UNCHANGED <<pass, asked, cut>>
  BY DEF StoreStep, DTypeOK, hazardVars
<1>2. pc[p] # "idle"
  BY <1>1 DEF CallStep, PutRead, PutUnindex, PutWrite, PutIndex, PutEmit, DeleteRead,
        DeleteObject, DeleteUnindex, DeleteEmit
<1>3. call[p].id \in Ids
  BY <1>2, KeptTypes
<1>4. \A q \in Callers \ {p} : pc'[q] = pc[q] /\ call'[q] = call[q] /\ todo'[q] = todo[q]
  BY <1>1 DEF CallStep, PutRead, PutUnindex, PutWrite, PutIndex, PutEmit, DeleteRead,
        DeleteObject, DeleteUnindex, DeleteEmit, Return, TypeOK
<1>5. p \in Workers => tries[call[p].id] # None
  BY <1>2 DEF Begun, DTypeOK
<1>6. p \notin Workers => pc[p] \in PutPc
  BY <1>2 DEF KeptInv, FirstEntry
<1>7. PutWrite(p) <=> pc[p] = "unindex" /\ pc'[p] = "index"
  BY <1>1 DEF CallStep, PutRead, PutUnindex, PutWrite, PutIndex, PutEmit, DeleteRead,
        DeleteObject, DeleteUnindex, DeleteEmit, Return, TypeOK
<1> QED
  BY <1>1, <1>2, <1>3, <1>4, <1>5, <1>6, <1>7 DEF StoreStep

\* A store step that writes no record and no history.
LEMMA KeptByCallStep ==
    ASSUME DTypeOK, Begun, KeptInv, NEW p \in Callers, StoreStep(p),
           UNCHANGED <<tries, accepted>>,
           \A id \in Ids : obj'[id] = obj[id] \/ (obj'[id] = None /\ Done(id)),
           \A e \in idx' : e \in idx \/ tries[e[3]] # None,
           pc'[p] # "idle" => call'[p] = call[p],
           pc'[p] \in PutPc => pc[p] \in PutPc,
           pc'[p] \in {"get", "unindex"} <=> pc[p] \in {"get", "unindex"},
           pc'[p] \in DeletePc => pc[p] \in DeletePc,
           \A id \in Ids : tries[id] # None /\ id \notin cut /\ ~Done(id) /\ (Queued(id) \/ WillList(p, id))
                => Queued(id)' \/ WillList(p, id)'
    PROVE  KeptInv'
<1>e. /\ UNCHANGED <<pass, asked, cut>> /\ pc[p] # "idle"
      /\ \A q \in Callers \ {p} : pc'[q] = pc[q] /\ call'[q] = call[q] /\ todo'[q] = todo[q]
      /\ p \notin Workers => pc[p] \in PutPc /\ Workers \subseteq Callers
  BY StoreStepEffect, QueueAssumption
<1>3. FirstEntry /\ CopiesCount /\ DeletedWhenDone /\ ListedOrOwed /\ Workers \subseteq Callers
  BY QueueAssumption DEF KeptInv
<1>c. \A q \in Callers : pc'[q] # "idle" => pc[q] # "idle" /\ call'[q] = call[q]
  BY <1>e
<1>d. \A id : Done(id)' <=> Done(id)
  BY DEF Done, Delivered
<1>6. FirstEntry'
  <2>1. \A q \in Callers \ Workers : pc'[q] # "idle" =>
          /\ pc'[q] \in PutPc
          /\ pc'[q] \in {"get", "unindex"} <=> pc[q] \in {"get", "unindex"}
    <3>1. pc'[p] \in {"idle"} \cup PutPc \cup DeletePc
      BY StoreStepEffect DEF CallStep, PutRead, PutUnindex, PutWrite, PutIndex, PutEmit, DeleteRead,
        DeleteObject, DeleteUnindex, DeleteEmit, Return, TypeOK, PutPc, DeletePc
    <3>2. p \notin Workers => pc'[p] \notin DeletePc
      BY <1>e DEF PutPc, DeletePc
    <3> QED
      BY <3>1, <3>2, <1>e, <1>3 DEF FirstEntry
  <2> QED
    BY <2>1, <1>c, <1>e, <1>3 DEF FirstEntry
<1>7. CopiesCount'
  <2>1. \A q \in Callers : pc'[q] \in {"get", "unindex"} => pc[q] \in {"get", "unindex"}
    BY <1>e
  <2>2. None \notin Record
    BY StoreAssumption
  <2> QED
    BY <2>1, <1>c, <1>e, <1>3 DEF CopiesCount
<1>8. DeletedWhenDone'
  <2>1. \A q \in Callers : pc'[q] \in DeletePc => pc[q] \in DeletePc /\ call'[q] = call[q]
    BY <1>e DEF DeletePc
  <2>2. \A q \in Workers : pc'[q] \in DeletePc => Done(call'[q].id)
    BY <2>1, <1>3 DEF DeletedWhenDone
  <2>3. \A id \in Ids : obj'[id] = None /\ tries'[id] # None => Done(id)
    BY <1>3 DEF DeletedWhenDone
  <2> QED
    BY <2>2, <2>3, <1>e, <1>3 DEF DeletedWhenDone, Done, Delivered
<1>9. ListedOrOwed'
  <2>1. ASSUME NEW id \in Ids, tries[id] # None, id \notin cut, ~Done(id)
        PROVE  Queued(id)' \/ \E q \in Callers : WillList(q, id)'
    <3>1. CASE Queued(id) \/ WillList(p, id)
      BY <2>1, <3>1
    <3>2. CASE \E q \in Callers \ {p} : WillList(q, id)
      <4>1. obj'[id] = obj[id]
        BY <2>1
      <4> QED
        BY <3>2, <4>1, <1>e DEF WillList
    <3> QED
      BY <2>1, <3>1, <3>2, <1>3 DEF ListedOrOwed
  <2>2. \A q \in Callers : pc'[q] \in PutPc => call'[q].colls = {Queue}
    BY <1>c, <1>e, <1>3 DEF ListedOrOwed, PutPc
  <2> QED
    BY <2>1, <2>2, <1>e, <1>d DEF ListedOrOwed
<1> QED
  BY <1>6, <1>7, <1>8, <1>9 DEF KeptInv

\* The write of a put(): the entry it writes is its own to list.
LEMMA WriteKeepsKept ==
    ASSUME DTypeOK, Begun, KeptInv, NEW p \in Callers, StoreStep(p), PutWrite(p)
    PROVE  KeptInv'
<1>x. PICK x : x = call[p].id
  OBVIOUS
<1> USE <1>x
<1>e. /\ UNCHANGED <<pass, asked, cut>> /\ x \in Ids /\ TypeOK /\ Workers \subseteq Callers
      /\ \A q \in Callers \ {p} : pc'[q] = pc[q] /\ call'[q] = call[q] /\ todo'[q] = todo[q]
      /\ p \in Workers => tries[x] # None /\ UNCHANGED <<tries, accepted>>
      /\ p \notin Workers => /\ tries' = [tries EXCEPT ![x] = <<>>]
                             /\ accepted' = [accepted EXCEPT ![x] = {}]
  BY StoreStepEffect, QueueAssumption
<1>1. /\ pc[p] = "unindex" /\ todo[p] = {} /\ UNCHANGED <<idx, call>>
      /\ obj' = [obj EXCEPT ![x] = [ts |-> call[p].ts, doc |-> call[p].doc, colls |-> call[p].colls]]
      /\ pc' = [pc EXCEPT ![p] = "index"] /\ todo' = [todo EXCEPT ![p] = call[p].colls]
  BY DEF PutWrite
<1>3. FirstEntry /\ CopiesCount /\ DeletedWhenDone /\ ListedOrOwed
  BY DEF KeptInv
<1>2. /\ pc'[p] = "index" /\ todo'[p] = {Queue}
      /\ obj'[x] # None /\ obj'[x].ts = call[p].ts /\ obj'[x].doc = call[p].doc
      /\ \A id \in Ids \ {x} : obj'[id] = obj[id]
  <2>1. call[p] \in PutCall
    BY <1>1, <1>e DEF TypeOK, PutPc
  <2>2. call[p].ts \in Times /\ call[p].doc \in Docs /\ call[p].colls \in SUBSET Colls
    BY <2>1 DEF PutCall
  <2>3. [ts |-> call[p].ts, doc |-> call[p].doc, colls |-> call[p].colls] \in Record
    BY <2>2 DEF Record
  <2>4. call[p].colls = {Queue}
    BY <1>1, <1>3 DEF ListedOrOwed, PutPc
  <2> QED
    BY <1>1, <1>e, <2>3, <2>4, StoreAssumption DEF TypeOK
<1>4. p \notin Workers => tries[x] = None /\ call[p].doc.attempts = 0
  BY <1>1, <1>3 DEF FirstEntry, PutPc
<1>5. /\ \A id \in Ids \ {x} : tries'[id] = tries[id] /\ accepted'[id] = accepted[id]
      /\ tries'[x] # None
      /\ tries[x] # None => tries' = tries /\ accepted' = accepted
      /\ p \notin Workers => tries'[x] = <<>>
  BY <1>e, <1>4, KeptTypes, EmptyLog
<1>d. \A id \in Ids : tries[id] # None => tries'[id] = tries[id] /\ accepted'[id] = accepted[id]
  BY <1>5
<1>b. /\ \A w \in Workers :
           /\ \A e \in pass[w].keys : e[3] \in Ids /\ tries[e[3]] # None
           /\ \A d \in pass[w].entries : d.key[3] \in Ids /\ tries[d.key[3]] # None
           /\ pass[w].entry # None => pass[w].entry.id \in Ids /\ tries[pass[w].entry.id] # None
           /\ pass[w].at = "post" => pass[w].entry # None
           /\ pc[w] # "idle" => call[w].id \in Ids /\ tries[call[w].id] # None
      /\ \A e \in idx : e[3] \in Ids /\ tries[e[3]] # None
      /\ \A q \in Callers : pc[q] # "idle" => call[q].id \in Ids
  BY <1>3, KeptTypes DEF FirstEntry, Begun, DTypeOK, QueueKeys
<1>6. FirstEntry'
  <2>1. ASSUME NEW q \in Callers \ Workers, pc'[q] # "idle"
        PROVE  /\ pc'[q] \in PutPc /\ asked'[call'[q].id] # 0 /\ call'[q].doc.attempts = 0
               /\ \A r \in Callers \ Workers : pc'[r] # "idle" /\ call'[r].id = call'[q].id => r = q
               /\ pc'[q] \in {"get", "unindex"} <=> tries'[call'[q].id] = None
    <3>1. \A r \in Callers : pc'[r] # "idle" => pc[r] # "idle"
      BY <1>1, <1>e
    <3>2. pc[q] # "idle" /\ call'[q] = call[q] /\ call[q].id \in Ids
      BY <2>1, <3>1, <1>1, <1>b
    <3>3. /\ pc[q] \in PutPc /\ asked[call[q].id] # 0 /\ call[q].doc.attempts = 0
          /\ \A r \in Callers \ Workers : pc[r] # "idle" /\ call[r].id = call[q].id => r = q
          /\ pc[q] \in {"get", "unindex"} <=> tries[call[q].id] = None
      BY <3>2, <1>3 DEF FirstEntry
    <3>4. CASE q = p
      BY <3>1, <3>2, <3>3, <3>4, <1>1, <1>2, <1>5, <1>e DEF PutPc
    <3>5. CASE q # p /\ p \in Workers
      BY <3>1, <3>2, <3>3, <3>5, <1>1, <1>e
    <3>6. CASE q # p /\ p \notin Workers
      <4>1. call[q].id # x
        BY <3>3, <3>6, <1>1
      <4> QED
        BY <3>1, <3>2, <3>3, <3>6, <4>1, <1>1, <1>5, <1>e
    <3> QED
      BY <3>4, <3>5, <3>6
  <2>2. \A id \in Ids : tries'[id] # None => asked'[id] # 0
    <3>1. p \notin Workers => asked[x] # 0
      BY <1>1, <1>3 DEF FirstEntry
    <3> QED
      BY <3>1, <1>3, <1>5, <1>e DEF FirstEntry
  <2>3. \A e \in idx' : tries'[e[3]] # None
    BY <1>1, <1>b, <1>d
  <2>4. \A w \in Workers : \A e \in pass'[w].keys : tries'[e[3]] # None
    BY <1>e, <1>b, <1>d
  <2> QED
    BY <2>1, <2>2, <2>3, <2>4 DEF FirstEntry
<1>7. CopiesCount'
  <2>1. call[p].doc.attempts <= Len(tries'[x])
    <3>1. CASE p \in Workers
      BY <3>1, <1>1, <1>3, <1>e DEF CopiesCount
    <3>2. CASE p \notin Workers
      <4>1. Len(<<>>) = 0 /\ 0 <= 0
        OBVIOUS
      <4> QED
        BY <3>2, <4>1, <1>4, <1>5
    <3> QED
      BY <3>1, <3>2
  <2>2. \A id \in Ids : obj'[id] # None => obj'[id].doc.attempts <= Len(tries'[id])
    BY <2>1, <1>2, <1>3, <1>5 DEF CopiesCount
  <2>3. ASSUME NEW q \in Callers, pc'[q] \in {"get", "unindex"}, tries'[call'[q].id] # None
        PROVE  call'[q].doc.attempts <= Len(tries'[call'[q].id])
    <3>1. q # p /\ pc[q] \in {"get", "unindex"} /\ call'[q] = call[q] /\ call[q].id \in Ids
      BY <2>3, <1>1, <1>2, <1>e, <1>b
    <3>2. CASE tries[call[q].id] # None
      BY <3>1, <3>2, <1>d, <1>3 DEF CopiesCount
    <3>3. CASE tries[call[q].id] = None
      <4>1. q \notin Workers /\ call[q].doc.attempts = 0
        BY <3>1, <3>3, <1>b, <1>3 DEF FirstEntry
      <4>2. call[q].id = x /\ p \notin Workers
        BY <2>3, <3>1, <3>3, <1>5, <1>e
      <4>3. q = p
        BY <3>1, <4>1, <4>2, <1>1, <1>3 DEF FirstEntry
      <4> QED
        BY <3>1, <4>3
    <3> QED
      BY <3>2, <3>3
  <2>4. \A w \in Workers :
          /\ \A d \in pass'[w].entries : d.doc.attempts <= Len(tries'[d.key[3]])
          /\ pass'[w].entry # None =>
               pass'[w].entry.doc.attempts + 1 <= Len(tries'[pass'[w].entry.id])
    BY <1>e, <1>b, <1>d, <1>3 DEF CopiesCount
  <2> QED
    BY <2>2, <2>3, <2>4 DEF CopiesCount
<1>8. DeletedWhenDone'
  <2>1. \A id \in Ids : obj'[id] = None /\ tries'[id] # None => Done(id)'
    BY <1>2, <1>3, <1>5 DEF DeletedWhenDone, Done, Delivered
  <2>2. ASSUME NEW w \in Workers, pc'[w] \in DeletePc PROVE Done(call[w].id)'
    <3>1. w # p /\ pc[w] \in DeletePc /\ call[w].id \in Ids /\ tries[call[w].id] # None
      BY <2>2, <1>2, <1>e, <1>b DEF DeletePc
    <3> QED
      BY <3>1, <1>1, <1>3, <1>d DEF DeletedWhenDone, Done, Delivered
  <2>3. \A w \in Workers : pass'[w].at = "post" /\ ~pass'[w].failed =>
          Inboxes \ pass'[w].inboxes \subseteq accepted'[pass'[w].entry.id]
    BY <1>e, <1>b, <1>d, <1>3 DEF DeletedWhenDone
  <2> QED
    BY <2>1, <2>2, <2>3 DEF DeletedWhenDone
<1>9. ListedOrOwed'
  <2>1. WillList(p, x)'
    BY <1>1, <1>2 DEF WillList, PutPc
  <2>2. ASSUME NEW id \in Ids \ {x}, tries'[id] # None, id \notin cut', ~Done(id)'
        PROVE  Queued(id)' \/ \E q \in Callers : WillList(q, id)'
    <3>1. tries[id] # None /\ id \notin cut /\ ~Done(id) /\ obj'[id] = obj[id]
      BY <2>2, <1>2, <1>5, <1>e DEF Done, Delivered
    <3>2. Queued(id) \/ \E q \in Callers : WillList(q, id)
      BY <3>1, <1>3 DEF ListedOrOwed
    <3>3. Queued(id) => Queued(id)'
      BY <3>1, <1>1 DEF Queued
    <3>4. \A q \in Callers : WillList(q, id) => WillList(q, id)'
      <4>1. TAKE q \in Callers
      <4>2. CASE q = p
        BY <4>2 DEF WillList
      <4>3. CASE q # p
        BY <4>3, <3>1, <1>e DEF WillList
      <4> QED
        BY <4>2, <4>3
    <3> QED
      BY <3>2, <3>3, <3>4
  <2>3. \A q \in Callers : pc'[q] \in PutPc => call'[q].colls = {Queue}
    BY <1>1, <1>e, <1>3 DEF ListedOrOwed, PutPc
  <2> QED
    BY <2>1, <2>2, <2>3 DEF ListedOrOwed
<1> QED
  BY <1>6, <1>7, <1>8, <1>9 DEF KeptInv

LEMMA StoreKeepsKept ==
    ASSUME DTypeOK, Begun, KeptInv, NEW p \in Callers, StoreStep(p)
    PROVE  KeptInv'
<1>x. PICK x : x = call[p].id
  OBVIOUS
<1> USE <1>x
<1>e. /\ CallStep(p) /\ pc[p] # "idle" /\ x \in Ids /\ TypeOK
      /\ p \notin Workers => pc[p] \in PutPc
      /\ p \in Workers => tries[x] # None
      /\ ~PutWrite(p) => UNCHANGED <<tries, accepted>>
  BY StoreStepEffect
<1>3. FirstEntry /\ CopiesCount /\ DeletedWhenDone /\ ListedOrOwed
  BY DEF KeptInv
<1>4. pc[p] \in DeletePc => Done(x)
  BY <1>e, <1>3 DEF DeletedWhenDone, PutPc, DeletePc
<1>q. \A id \in Ids : Queued(id) <=> obj[id] # None /\ <<Queue, obj[id].ts, id>> \in idx
  BY DEF Queued, indexKey
<1>1. CASE PutRead(p)
  <2>1. /\ pc[p] = "get" /\ pc'[p] = "unindex" /\ UNCHANGED <<obj, idx, call>>
    BY <1>1, <1>e DEF PutRead, TypeOK
  <2>2. ~PutWrite(p)
    BY <2>1 DEF PutWrite
  <2>3. \A id \in Ids : Queued(id) \/ WillList(p, id) => Queued(id)' \/ WillList(p, id)'
    BY <2>1 DEF Queued, WillList, PutPc
  <2> QED
    BY <2>1, <2>2, <2>3, <1>e, KeptByCallStep DEF PutPc, DeletePc
<1>2. CASE PutUnindex(p)
  <2>1. /\ pc[p] = "unindex" /\ UNCHANGED <<obj, call, pc>>
        /\ idx' = idx \/ \E c \in Colls : \E t : idx' = idx \ {<<c, t, x>>}
    BY <1>2, <1>e DEF PutUnindex, TypeOK, indexKey
  <2>2. ~PutWrite(p)
    BY <1>2, <1>e DEF PutWrite, PutUnindex, TypeOK
  <2>3. \A id \in Ids : Queued(id) \/ WillList(p, id) => Queued(id)' \/ WillList(p, id)'
    <3>1. WillList(p, x)'
      BY <2>1 DEF WillList, PutPc
    <3>2. ASSUME NEW id \in Ids \ {x} PROVE Queued(id) => Queued(id)'
      BY <2>1 DEF Queued, indexKey
    <3>3. ASSUME NEW id \in Ids \ {x} PROVE ~WillList(p, id)
      BY DEF WillList
    <3> QED
      BY <3>1, <3>2, <3>3
  <2> QED
    BY <2>1, <2>2, <2>3, <1>e, KeptByCallStep DEF PutPc, DeletePc
<1>5. CASE PutWrite(p)
  BY <1>5, WriteKeepsKept
<1>6. CASE PutIndex(p)
  <2>1. /\ pc[p] = "index" /\ UNCHANGED <<obj, call, pc>>
        /\ Queue \in todo[p] /\ idx' = idx \cup {<<Queue, call[p].ts, x>>}
    <3>1. todo[p] \subseteq {Queue}
      BY <1>6, <1>e, <1>3 DEF PutIndex, TypeOK, ListedOrOwed, PutPc
    <3> QED
      BY <1>6, <3>1 DEF PutIndex, indexKey
  <2>2. ~PutWrite(p) /\ tries[x] # None
    BY <2>1, <1>e, <1>3 DEF PutWrite, FirstEntry
  <2>3. ASSUME NEW id \in Ids, tries[id] # None, ~Done(id), Queued(id) \/ WillList(p, id)
        PROVE  Queued(id)' \/ WillList(p, id)'
    <3>1. CASE Queued(id)
      BY <3>1, <2>1 DEF Queued
    <3>2. CASE WillList(p, id)
      <4>1. id = x /\ call[p].ts = obj[id].ts
        BY <3>2, <2>1 DEF WillList
      <4>2. obj[id] # None
        BY <2>3, <1>3 DEF DeletedWhenDone
      <4> QED
        BY <4>1, <4>2, <2>1 DEF Queued, indexKey
    <3> QED
      BY <2>3, <3>1, <3>2
  <2>4. \A e \in idx' : e \in idx \/ tries[e[3]] # None
    BY <2>1, <2>2
  <2> QED
    BY <2>1, <2>2, <2>3, <2>4, <1>e, KeptByCallStep DEF PutPc, DeletePc
<1>7. CASE PutEmit(p) \/ DeleteEmit(p)
  <2>1. /\ pc[p] \in {"index", "dunindex"} /\ todo[p] = {} /\ pc'[p] = "idle" /\ UNCHANGED <<obj, idx>>
    BY <1>7, <1>e DEF PutEmit, DeleteEmit, Return, TypeOK
  <2>2. ~PutWrite(p)
    BY <2>1 DEF PutWrite
  <2>3. \A id \in Ids : ~WillList(p, id) /\ (Queued(id) => Queued(id)')
    BY <2>1 DEF Queued, WillList
  <2> QED
    BY <2>1, <2>2, <2>3, <1>e, KeptByCallStep DEF PutPc, DeletePc
<1>8. CASE DeleteRead(p)
  <2>1. /\ pc[p] = "dget" /\ UNCHANGED <<obj, idx>>
        /\ pc'[p] = "idle" \/ (pc'[p] = "dobj" /\ call'[p] = call[p])
    BY <1>8, <1>e DEF DeleteRead, Return, TypeOK
  <2>2. ~PutWrite(p)
    BY <2>1 DEF PutWrite
  <2>3. \A id \in Ids : ~WillList(p, id) /\ (Queued(id) => Queued(id)')
    BY <2>1 DEF Queued, WillList
  <2> QED
    BY <2>1, <2>2, <2>3, <1>e, KeptByCallStep DEF PutPc, DeletePc
<1>9. CASE DeleteObject(p)
  <2>1. /\ pc[p] = "dobj" /\ pc'[p] = "dunindex" /\ UNCHANGED <<idx, call>>
        /\ obj'[x] = None /\ \A id \in Ids \ {x} : obj'[id] = obj[id]
    BY <1>9, <1>e DEF DeleteObject, TypeOK
  <2>2. ~PutWrite(p) /\ Done(x)
    BY <2>1, <1>4 DEF PutWrite, DeletePc
  <2>3. \A id \in Ids : ~Done(id) => ~WillList(p, id) /\ (Queued(id) => Queued(id)')
    BY <2>1, <2>2 DEF Queued, WillList
  <2> QED
    BY <2>1, <2>2, <2>3, <1>e, KeptByCallStep DEF PutPc, DeletePc
<1>10. CASE DeleteUnindex(p)
  <2>1. /\ pc[p] = "dunindex" /\ UNCHANGED <<obj, call, pc>>
        /\ \E c \in Colls : \E t : idx' = idx \ {<<c, t, x>>}
    BY <1>10, <1>e DEF DeleteUnindex, TypeOK, indexKey
  <2>2. ~PutWrite(p) /\ Done(x)
    BY <2>1, <1>4 DEF PutWrite, DeletePc
  <2>3. ASSUME NEW id \in Ids, ~Done(id) PROVE ~WillList(p, id) /\ (Queued(id) => Queued(id)')
    BY <2>1, <2>2, <2>3 DEF Queued, WillList, indexKey
  <2> QED
    BY <2>1, <2>2, <2>3, <1>e, KeptByCallStep DEF PutPc, DeletePc
<1> QED
  BY <1>1, <1>2, <1>5, <1>6, <1>7, <1>8, <1>9, <1>10, <1>e DEF CallStep

\* An activity stays queued, where the next pass finds it, until it is delivered
\* to every inbox or was attempted MaxAttempts times, however many passes overlap
\* and wherever the process stops, but inside a put() of the entry (queue.js:3-7,
\* 58-82, 90-132; store.js:111-128).
THEOREM KeptUntilDoneCorrect ==
    ASSUME MaxEnqueues = 1
    PROVE  DSpec => []KeptUntilDone
<1> DEFINE IInv == DTypeOK /\ Begun /\ KeptInv
<1>1. DInit => IInv
  BY DTypeInit, KeptInit
<1>2. ASSUME IInv, [DNext]_dvars PROVE IInv'
  <2>1. DTypeOK' /\ Begun'
    BY <1>2, DTypeKept
  <2>2. CASE UNCHANGED dvars \/ Tick
    BY <1>2, <2>1, <2>2, KeptStutters DEF dvars, queueVars, hazardVars, Tick
  <2>3. CASE Crash
    BY <1>2, <2>1, <2>3, CrashKeepsKept
  <2>4. ASSUME NEW p \in Callers, NEW id \in Ids, Enqueue(p, id) PROVE KeptInv'
    BY <1>2, <2>4, EnqueueKeepsKept
  <2>5. ASSUME NEW p \in Callers, StoreStep(p) PROVE KeptInv'
    BY <1>2, <2>5, StoreKeepsKept
  <2>6. ASSUME NEW w \in Workers, StartPass(w) \/ PassStep(w) PROVE KeptInv'
    BY <1>2, <2>6, PassKeepsKept, SettleKeepsKept DEF PassStep
  <2> QED
    BY <1>2, <2>1, <2>2, <2>3, <2>4, <2>5, <2>6 DEF DNext
<1>3. IInv => KeptUntilDone
  <2>1. ASSUME IInv, NEW id \in Ids, tries[id] # None, ~Busy(id), id \notin cut PROVE Done(id) \/ Queued(id)
    <3>1. \A p \in Callers : ~WillList(p, id)
      BY <2>1 DEF WillList, Busy, PutPc
    <3> QED
      BY <2>1, <3>1 DEF KeptInv, ListedOrOwed
  <2> QED
    BY <2>1 DEF KeptUntilDone
<1> QED
  BY <1>1, <1>2, <1>3, PTL DEF DSpec
=============================================================================
