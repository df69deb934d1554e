----------------------------- MODULE RelayProofs -----------------------------
(* Theorems about what runs in a relay's process besides its persistent     *)
(* store: its inbox (Ingest), its identity (LocalIdentity, ActorIdentity),    *)
(* the tiers that are not persisted (VolatileTiers) and its event bus         *)
(* (QuEvents), for any activities, recipients, requests, processes, keys,     *)
(* restarts, sessions, ttls, listeners and emissions.                         *)
EXTENDS Ingest, ActorIdentity, VolatileTiers, QuEvents, SequenceTheorems, FiniteSetTheorems, WellFoundedInduction, TLAPS

(* The inbox.                                                                  *)

\* Of the local candidates there is a first, and it is a local actor.
LEMMA FirstIsLocal ==
    ASSUME NEW a \in Activities, LocalCandidates[a] # {}
    PROVE  FirstRecipient(a) \in Locals /\ FirstRecipient(a) \in LocalRecipients(a)
<1> DEFINE S == LocalCandidates[a]
           R == OpToRel(<, Nat)
<1>1. S \subseteq Nat /\ S = {k \in Candidates(a) : Named(a)[k] \in Locals}
  <2>1. Addressees(a) \in Seq(Names) /\ ObjectOf[a] \in Names
    BY IngestAssumption DEF Addressees
  <2>2. Named(a) \in Seq(Names)
    BY <2>1 DEF Named
  <2>3. DOMAIN Addressees(a) \subseteq Nat /\ Len(Named(a)) \in Nat
    BY <2>1, <2>2
  <2> QED
    BY <2>3 DEF LocalCandidates, Candidates, Recipients
<1>2. IsWellFoundedOn(R, Nat)
  BY NatLessThanWellFounded
<1>3. \A n, m \in Nat : <<n, m>> \in R <=> n < m
  BY DEF OpToRel
<1> HIDE DEF R
<1>4. PICK m \in S : \A n \in S : ~(<<n, m>> \in R)
  BY <1>1, <1>2, WFMin, Zenon
<1>5. \A n \in S : m <= n
  <2>1. \A n \in S : n \in Nat /\ ~(n < m)
    BY <1>1, <1>3, <1>4
  <2> HIDE <1>1, <1>3, <1>4 DEF S
  <2> QED
    BY <2>1
<1>6. Min(S) \in S
  BY <1>5 DEF Min
<1> QED
  BY <1>1, <1>6 DEF FirstRecipient, LocalRecipients

-----------------------------------------------------------------------------
\* The other slots' puts stay where they are, and what is stored stays stored.
OthersStay(s) ==
    \A t \in Slots \ {s} :
        putPc'[t] = putPc[t] /\ putCall'[t] = putCall[t] /\ putTodo'[t] = putTodo[t]
NothingLost == \A id \in Documents : Stored(id) => Stored(id)'

\* What the store's steps rest on and keep.
PutsOK ==
    /\ Store!TypeOK /\ ListedOrOwed
    /\ \A s \in Slots : putPc[s] \in {"idle", "get", "unindex", "index"}
    /\ \A s \in Slots : putPc[s] = "index" => Stored(putCall[s].id)

LEMMA PutsUnchanged ==
    ASSUME PutsOK, UNCHANGED <<persistedVars, putVars, cut>>
    PROVE  PutsOK' /\ NothingLost
BY DEF PutsOK, persistedVars, putVars, ListedOrOwed, Stored, NothingLost, Store!TypeOK

LEMMA PutBeginKeeps ==
    ASSUME PutsOK, NEW s \in Slots, NEW id \in Documents, NEW cs \in SUBSET Locals,
           NEW ts \in Stamps, Store!PutBegin(s, id, "body", cs, ts), UNCHANGED cut
    PROVE  /\ PutsOK' /\ NothingLost /\ OthersStay(s)
           /\ (InPut(s, id, cs))'
<1>1. /\ putPc[s] = "idle"
      /\ putPc' = [putPc EXCEPT ![s] = "get"]
      /\ putCall' = [putCall EXCEPT ![s] = [id |-> id, ts |-> ts, doc |-> "body", colls |-> cs]]
      /\ UNCHANGED <<records, index, putOld, putTodo>>
  BY DEF Store!PutBegin
<1>2. [id |-> id, ts |-> ts, doc |-> "body", colls |-> cs] \in Store!PutCall
  BY DEF Store!PutCall
<1>3. Store!TypeOK'
  BY <1>1, <1>2 DEF PutsOK, Store!TypeOK, Store!PutPc, Store!DeletePc
<1>4. OthersStay(s) /\ (InPut(s, id, cs))'
  BY <1>1 DEF OthersStay, InPut, PutsOK, Store!TypeOK
<1>5. ListedOrOwed'
  <2> SUFFICES ASSUME NEW a \in Activities \ cut, Stored(a), NEW c \in records[a].colls,
                      <<c, records[a].ts, a>> \notin index
               PROVE  \E t \in Slots :
                        /\ putPc'[t] \in {"unindex", "index"} /\ putCall'[t].id = a
                        /\ putPc'[t] = "index" => putCall'[t].ts = records[a].ts /\ c \in putTodo'[t]
    BY <1>1 DEF ListedOrOwed, Stored
  <2> QED
    BY <1>1, <1>4 DEF PutsOK, ListedOrOwed, OthersStay
<1> QED
  BY <1>1, <1>3, <1>4, <1>5 DEF PutsOK, NothingLost, Stored, Store!TypeOK

LEMMA PutReadKeeps ==
    ASSUME PutsOK, NEW s \in Slots, Store!PutRead(s), UNCHANGED cut
    PROVE  /\ PutsOK' /\ NothingLost /\ OthersStay(s)
           /\ putPc'[s] = "unindex" /\ putCall' = putCall
<1>1. /\ putPc[s] = "get" /\ putPc' = [putPc EXCEPT ![s] = "unindex"]
      /\ putOld' = [putOld EXCEPT ![s] = records[putCall[s].id]]
      /\ putTodo' = [putTodo EXCEPT ![s] = Store!CollsOf(records[putCall[s].id])]
      /\ UNCHANGED <<records, index, putCall>>
  BY DEF Store!PutRead
<1>2. putCall[s].id \in Documents
  BY <1>1 DEF PutsOK, Store!TypeOK, Store!PutCall, Store!PutPc
<1>3. Store!CollsOf(records[putCall[s].id]) \subseteq Locals
  BY <1>2 DEF PutsOK, Store!TypeOK, Store!CollsOf, Store!Record
<1>4. Store!TypeOK'
  BY <1>1, <1>2, <1>3 DEF PutsOK, Store!TypeOK, Store!PutPc, Store!DeletePc
<1>5. OthersStay(s) /\ putPc'[s] = "unindex"
  BY <1>1 DEF OthersStay, PutsOK, Store!TypeOK
<1>6. ListedOrOwed'
  BY <1>1, <1>5 DEF PutsOK, ListedOrOwed, Stored, OthersStay, Store!TypeOK
<1> QED
  BY <1>1, <1>4, <1>5, <1>6 DEF PutsOK, NothingLost, Stored, Store!TypeOK

LEMMA PutUnindexKeeps ==
    ASSUME PutsOK, NEW s \in Slots, Store!PutUnindex(s), UNCHANGED cut
    PROVE  PutsOK' /\ NothingLost /\ OthersStay(s) /\ putPc' = putPc /\ putCall' = putCall
<1>1. PICK c \in putTodo[s] :
        /\ index' = index \ {<<c, putOld[s].ts, putCall[s].id>>}
        /\ putTodo' = [putTodo EXCEPT ![s] = @ \ {c}]
  BY DEF Store!PutUnindex, Store!indexKey
<1>2. putPc[s] = "unindex" /\ UNCHANGED <<records, putPc, putCall, putOld>>
  BY DEF Store!PutUnindex
<1>3. Store!TypeOK'
  BY <1>1, <1>2 DEF PutsOK, Store!TypeOK
<1>4. OthersStay(s)
  BY <1>1, <1>2 DEF OthersStay, PutsOK, Store!TypeOK
<1>5. ListedOrOwed'
  <2> SUFFICES ASSUME NEW a \in Activities \ cut, Stored(a), NEW k \in records[a].colls,
                      <<k, records[a].ts, a>> \notin index'
               PROVE  \E t \in Slots :
                        /\ putPc[t] \in {"unindex", "index"} /\ putCall[t].id = a
                        /\ putPc[t] = "index" => putCall[t].ts = records[a].ts /\ k \in putTodo'[t]
    BY <1>2 DEF ListedOrOwed, Stored
  <2>1. CASE putCall[s].id = a
    BY <1>2, <2>1
  <2>2. CASE putCall[s].id # a
    BY <1>1, <1>2, <1>4, <2>2 DEF PutsOK, ListedOrOwed, OthersStay
  <2> QED
    BY <2>1, <2>2
<1> QED
  BY <1>2, <1>3, <1>4, <1>5 DEF PutsOK, NothingLost, Stored

LEMMA PutWriteKeeps ==
    ASSUME PutsOK, NEW s \in Slots, Store!PutWrite(s), cut' = cut \ {putCall[s].id}
    PROVE  /\ PutsOK' /\ NothingLost /\ OthersStay(s)
           /\ putPc'[s] = "index" /\ putCall' = putCall
           /\ records'[putCall[s].id].colls = putCall[s].colls
           /\ \A id \in Documents \ {putCall[s].id} : records'[id] = records[id]
<1> DEFINE id == putCall[s].id
           rec == [ts |-> putCall[s].ts, doc |-> putCall[s].doc, colls |-> putCall[s].colls]
<1>1. /\ putPc[s] = "unindex" /\ putPc' = [putPc EXCEPT ![s] = "index"]
      /\ records' = [records EXCEPT ![id] = rec]
      /\ putTodo' = [putTodo EXCEPT ![s] = putCall[s].colls]
      /\ UNCHANGED <<index, putCall, putOld>>
  BY DEF Store!PutWrite
<1>2. putCall[s] \in Store!PutCall /\ id \in Documents
  BY <1>1 DEF PutsOK, Store!TypeOK, Store!PutCall, Store!PutPc
<1>3. rec \in Store!Record /\ rec # NoRecord
  BY <1>2, IngestAssumption DEF Store!PutCall, Store!Record
<1>4. Store!TypeOK'
  BY <1>1, <1>2, <1>3 DEF PutsOK, Store!TypeOK, Store!PutPc, Store!DeletePc, Store!PutCall
<1>5. OthersStay(s) /\ putPc'[s] = "index" /\ putTodo'[s] = putCall[s].colls
  BY <1>1 DEF OthersStay, PutsOK, Store!TypeOK
<1>6. records'[id] = rec /\ \A j \in Documents \ {id} : records'[j] = records[j]
  BY <1>1, <1>2 DEF PutsOK, Store!TypeOK
<1>7. NothingLost
  BY <1>3, <1>6 DEF NothingLost, Stored
<1>8. ListedOrOwed'
  <2> SUFFICES ASSUME NEW a \in Activities \ cut', Stored(a)', NEW c \in records'[a].colls,
                      <<c, records'[a].ts, a>> \notin index
               PROVE  \E t \in Slots :
                        /\ putPc'[t] \in {"unindex", "index"} /\ putCall[t].id = a
                        /\ putPc'[t] = "index" => putCall[t].ts = records'[a].ts /\ c \in putTodo'[t]
    BY <1>1 DEF ListedOrOwed, Stored
  <2>1. CASE a = id
    BY <1>1, <1>3, <1>5, <1>6, <2>1
  <2>2. CASE a # id
    <3>1. a \in Activities \ cut /\ records'[a] = records[a] /\ Stored(a)
      BY <1>6, <2>2 DEF Documents, Stored
    <3>2. PICK t \in Slots :
            /\ putPc[t] \in {"unindex", "index"} /\ putCall[t].id = a
            /\ putPc[t] = "index" => putCall[t].ts = records[a].ts /\ c \in putTodo[t]
      BY <3>1 DEF PutsOK, ListedOrOwed
    <3> QED
      BY <1>5, <2>2, <3>1, <3>2 DEF OthersStay
  <2> QED
    BY <2>1, <2>2
<1>9. \A t \in Slots : putPc'[t] = "index" => Stored(putCall[t].id)'
  <2> SUFFICES ASSUME NEW t \in Slots, putPc'[t] = "index" PROVE Stored(putCall[t].id)'
    OBVIOUS
  <2>1. CASE t = s
    BY <1>1, <1>3, <1>6, <2>1 DEF Stored
  <2>2. CASE t # s
    <3>1. putPc[t] = "index" /\ Stored(putCall[t].id)
      BY <1>5, <2>2 DEF OthersStay, PutsOK
    <3>2. putCall[t].id \in Documents
      BY <3>1 DEF PutsOK, Store!TypeOK, Store!PutCall, Store!PutPc
    <3> QED
      BY <1>1, <1>7, <3>1, <3>2 DEF NothingLost, Stored
  <2> QED
    BY <2>1, <2>2
<1> QED
  BY <1>1, <1>3, <1>4, <1>5, <1>6, <1>7, <1>8, <1>9 DEF PutsOK, OthersStay

LEMMA PutIndexKeeps ==
    ASSUME PutsOK, NEW s \in Slots, Store!PutIndex(s), UNCHANGED cut
    PROVE  PutsOK' /\ NothingLost /\ OthersStay(s) /\ putPc' = putPc /\ putCall' = putCall
<1>1. PICK c \in putTodo[s] :
        /\ index' = index \cup {<<c, putCall[s].ts, putCall[s].id>>}
        /\ putTodo' = [putTodo EXCEPT ![s] = @ \ {c}]
  BY DEF Store!PutIndex, Store!indexKey
<1>2. putPc[s] = "index" /\ UNCHANGED <<records, putPc, putCall, putOld>>
  BY DEF Store!PutIndex
<1>3. putCall[s].ts \in Stamps /\ putCall[s].id \in Documents /\ c \in Locals
  BY <1>1, <1>2 DEF PutsOK, Store!TypeOK, Store!PutCall, Store!PutPc
<1>4. Store!TypeOK'
  BY <1>1, <1>2, <1>3 DEF PutsOK, Store!TypeOK
<1>5. OthersStay(s) /\ putTodo'[s] = putTodo[s] \ {c}
  BY <1>1, <1>2 DEF OthersStay, PutsOK, Store!TypeOK
<1>6. ListedOrOwed'
  <2> SUFFICES ASSUME NEW a \in Activities \ cut, Stored(a), NEW k \in records[a].colls,
                      <<k, records[a].ts, a>> \notin index'
               PROVE  \E t \in Slots :
                        /\ putPc[t] \in {"unindex", "index"} /\ putCall[t].id = a
                        /\ putPc[t] = "index" => putCall[t].ts = records[a].ts /\ k \in putTodo'[t]
    BY <1>2 DEF ListedOrOwed, Stored
  <2>1. PICK t \in Slots :
          /\ putPc[t] \in {"unindex", "index"} /\ putCall[t].id = a
          /\ putPc[t] = "index" => putCall[t].ts = records[a].ts /\ k \in putTodo[t]
    BY <1>1 DEF PutsOK, ListedOrOwed
  <2> QED
    BY <1>1, <1>2, <1>5, <2>1 DEF OthersStay
<1> QED
  BY <1>2, <1>4, <1>5, <1>6 DEF PutsOK, NothingLost, Stored

\* A put that ends, with everything written or in `cut`, owes nothing.
LEMMA PutEndKeeps ==
    ASSUME PutsOK, NEW s \in Slots,
           \/ Store!PutEmit(s) /\ UNCHANGED cut
           \/ Store!Abort(s) /\ cut' = cut \cup Underway({s})
    PROVE  PutsOK' /\ NothingLost /\ OthersStay(s) /\ putPc'[s] = "idle"
<1>1. /\ putPc' = [putPc EXCEPT ![s] = "idle"]
      /\ putCall' = [putCall EXCEPT ![s] = NoRecord]
      /\ putOld' = [putOld EXCEPT ![s] = NoRecord]
      /\ putTodo' = [putTodo EXCEPT ![s] = {}]
      /\ UNCHANGED <<records, index>>
  BY DEF Store!PutEmit, Store!Abort, Store!Return
<1>2. OthersStay(s) /\ putPc'[s] = "idle"
  BY <1>1 DEF OthersStay, PutsOK, Store!TypeOK
<1>3. Store!TypeOK'
  BY <1>1 DEF PutsOK, Store!TypeOK, Store!PutPc, Store!DeletePc
<1>4. ListedOrOwed'
  <2> SUFFICES ASSUME NEW a \in Activities \ cut', Stored(a), NEW c \in records[a].colls,
                      <<c, records[a].ts, a>> \notin index
               PROVE  \E t \in Slots :
                        /\ putPc'[t] \in {"unindex", "index"} /\ putCall'[t].id = a
                        /\ putPc'[t] = "index" => putCall'[t].ts = records[a].ts /\ c \in putTodo'[t]
    BY <1>1 DEF ListedOrOwed, Stored
  <2>1. PICK t \in Slots :
          /\ putPc[t] \in {"unindex", "index"} /\ putCall[t].id = a
          /\ putPc[t] = "index" => putCall[t].ts = records[a].ts /\ c \in putTodo[t]
    BY DEF PutsOK, ListedOrOwed, Underway
  <2>2. t # s
    <3>1. CASE Store!PutEmit(s)
      BY <2>1, <3>1 DEF Store!PutEmit
    <3>2. CASE cut' = cut \cup Underway({s})
      BY <2>1, <3>2 DEF Underway
    <3> QED
      BY <3>1, <3>2
  <2> QED
    BY <1>2, <2>1, <2>2 DEF OthersStay
<1> QED
  BY <1>1, <1>2, <1>3, <1>4 DEF PutsOK, NothingLost, Stored, OthersStay

-----------------------------------------------------------------------------
LEMMA PutsOfInv == IngestInv => PutsOK
BY DEF IngestInv, PutsOK, RequestsOK, RequestOK, InPut, StoredForRecipient

\* A request that holds keeps holding where nothing stored is lost.
LEMMA RequestsKeep ==
    ASSUME RequestsOK, NEW s \in Slots, NEW r \in Requests, RequestOK(s)',
           reqs' = [reqs EXCEPT ![s] = r], OthersStay(s), NothingLost, tried \subseteq tried'
    PROVE  RequestsOK'
<1>1. reqs' \in [Slots -> Requests] /\ \A t \in Slots \ {s} : reqs'[t] = reqs[t]
  BY DEF RequestsOK
<1>2. ASSUME NEW t \in Slots \ {s} PROVE RequestOK(t)'
  <2>1. reqs[t] \in Requests /\ reqs'[t] = reqs[t] /\ RequestOK(t)
    BY <1>1 DEF RequestsOK
  <2>2. putPc'[t] = putPc[t] /\ putCall'[t] = putCall[t]
    BY DEF OthersStay
  <2>3. ASSUME NEW a, a = reqs[t].d[1], reqs[t].at # "free"
        PROVE  /\ Stored(a) => Stored(a)'
               /\ a \in Creates /\ Stored(ObjectOf[a]) => Stored(ObjectOf[a])'
    <3>1. a \in Activities
      BY <2>1, <2>3 DEF Requests, Free, Deliveries
    <3> QED
      BY <3>1 DEF NothingLost, Documents
  <2> QED
    BY <2>1, <2>2, <2>3 DEF RequestOK, InPut, For, LocalRecipients
<1> QED
  BY <1>1, <1>2 DEF RequestsOK

\* What is stored stays placed, if what is written is written for a delivery.
LEMMA RecipientsKeep ==
    ASSUME StoredForRecipient, PutsOK', NothingLost, UNCHANGED sent,
           tried \subseteq tried', tried' \subseteq Deliveries, cut' \subseteq Documents,
           \A a \in Activities :
              \/ records'[a] = records[a]
              \/ /\ a \in Valid
                 /\ \E d \in tried : \E i \in For(d) : d[1] = a /\ records'[a].colls = {i}
    PROVE  StoredForRecipient'
<1>1. ASSUME NEW a \in Activities, Stored(a)'
      PROVE  a \in Valid /\ \E d \in tried' : \E i \in For(d) : d[1] = a /\ records'[a].colls = {i}
  BY <1>1 DEF StoredForRecipient, Stored
<1>2. ASSUME NEW d \in sent
      PROVE  Stored(d[1])' /\ (d[1] \in Creates => Stored(ObjectOf[d[1]])')
  BY <1>2 DEF StoredForRecipient, NothingLost, Documents, Deliveries
<1> QED
  BY <1>1, <1>2 DEF StoredForRecipient, PutsOK, For, LocalRecipients

LEMMA AcceptsKeep ==
    ASSUME AcceptsMade, NothingLost, UNCHANGED acceptVars
    PROVE  AcceptsMade'
BY DEF AcceptsMade, NothingLost, acceptVars, Documents, Concerns, Followed

\* What a request that is not at its end is about.
LEMMA RequestKnown ==
    ASSUME RequestsOK, NEW s \in Slots, reqs[s].at # "free"
    PROVE  /\ reqs[s] \in Requests /\ RequestOK(s)
           /\ reqs[s].d \in Deliveries /\ reqs[s].d[1] \in Activities
           /\ reqs[s].d[1] \in Documents
           /\ reqs[s].d[1] \in Creates => ObjectOf[reqs[s].d[1]] \in Documents \ Activities
           /\ reqs[s].at \in {"verify", "store", "object", "embed", "notify"} =>
                reqs[s] \in [at : {"verify", "store", "object", "embed", "notify"}, d : Deliveries,
                             inbox : Locals]
           /\ reqs[s].at = "reply" => reqs[s].ok \in BOOLEAN
BY IngestAssumption DEF RequestsOK, Requests, Free, Deliveries, Documents

\* A step of a request that leaves the store and the Accepts alone.
LEMMA AnswerKeeps ==
    ASSUME IngestInv, NEW s \in Slots, NEW r \in Requests, RequestOK(s)',
           reqs' = [reqs EXCEPT ![s] = r], UNCHANGED <<sent, storeVars>>
    PROVE  RequestsOK' /\ StoredForRecipient' /\ PutsOK' /\ NothingLost
<1>1. PutsOK' /\ NothingLost /\ OthersStay(s)
  BY PutsOfInv, PutsUnchanged DEF storeVars, putVars, OthersStay
<1>2. tried' = tried /\ cut' = cut /\ records' = records
  BY DEF storeVars, persistedVars
<1>3. RequestsOK'
  BY <1>1, <1>2, RequestsKeep DEF IngestInv
<1>4. StoredForRecipient'
  BY <1>1, <1>2, RecipientsKeep DEF IngestInv, StoredForRecipient
<1> QED
  BY <1>1, <1>3, <1>4

\* Every step of a request, a handler or a restart keeps the inductive invariant
\* of AckedIsStored and AcceptsJustified.
LEMMA IngestInvStep ==
    ASSUME IngestInv, [INext]_vars
    PROVE  IngestInv'
<1> USE IngestAssumption
<1>a. PutsOK' /\ RequestsOK' /\ StoredForRecipient' /\ AcceptsMade' => IngestInv'
  BY DEF IngestInv, PutsOK
<1>b. PutsOK /\ RequestsOK /\ StoredForRecipient /\ AcceptsMade
  BY PutsOfInv DEF IngestInv
<1>1. CASE UNCHANGED vars
  <2>1. PutsOK' /\ NothingLost
    BY <1>1, PutsOfInv, PutsUnchanged DEF vars, storeVars
  <2>2. UNCHANGED <<reqs, records, putPc, putCall, sent, tried, cut, handlers, minted, outbox, queue>>
    BY <1>1 DEF vars, senderVars, storeVars, persistedVars, putVars, acceptVars
  <2>3. RequestsOK'
    <3> SUFFICES ASSUME NEW s \in Slots PROVE RequestOK(s)'
      BY <1>b, <2>2 DEF RequestsOK
    <3>1. RequestOK(s)
      BY <1>b DEF RequestsOK
    <3>2. /\ reqs'[s] = reqs[s] /\ putPc'[s] = putPc[s] /\ putCall'[s] = putCall[s]
          /\ tried' = tried /\ records' = records
      BY <2>2
    <3> QED
      BY <3>1, <3>2 DEF RequestOK, InPut, For, LocalRecipients, LocalCandidates, Stored
  <2>4. StoredForRecipient'
    BY <1>b, <2>1, <2>2, RecipientsKeep DEF StoredForRecipient
  <2>5. AcceptsMade'
    BY <1>b, <2>1, <2>2, AcceptsKeep DEF acceptVars
  <2> QED
    BY <1>a, <2>1, <2>3, <2>4, <2>5
<1>2. ASSUME NEW s \in Slots, NEW d \in Deliveries, Post(s, d) PROVE IngestInv'
  <2> DEFINE r == [at |-> "route", d |-> d]
  <2>1. r \in Requests /\ r.at = "route"
    BY DEF Requests
  <2> HIDE DEF r
  <2>2. reqs' = [reqs EXCEPT ![s] = r] /\ reqs[s] = Free /\ UNCHANGED <<sent, storeVars, acceptVars>>
    BY <1>2 DEF Post, r
  <2>3. RequestOK(s)'
    <3>0. RequestOK(s) /\ reqs[s].at = "free" /\ reqs'[s] = r
      BY <1>b, <2>2 DEF RequestsOK, Free
    <3>1. putPc[s] = "idle" /\ reqs'[s] = r
      BY <3>0 DEF RequestOK
    <3>2. putPc'[s] = "idle"
      BY <2>2, <3>1 DEF storeVars, putVars
    <3> QED
      BY <2>1, <3>1, <3>2 DEF RequestOK
  <2>4. RequestsOK' /\ StoredForRecipient' /\ PutsOK' /\ NothingLost
    BY <2>1, <2>2, <2>3, AnswerKeeps
  <2> QED
    BY <1>a, <1>b, <2>2, <2>4, AcceptsKeep
<1>3. ASSUME NEW s \in Slots, Route(s) PROVE IngestInv'
  <2> DEFINE a == reqs[s].d[1]
             i == reqs[s].d[2]
  <2>1. /\ reqs[s].d \in Deliveries /\ a \in Activities /\ putPc[s] = "idle"
        /\ UNCHANGED <<sent, storeVars, acceptVars>>
    BY <1>3, <1>b, RequestKnown DEF Route, RequestOK, senderVars
  <2>2. PICK r \in Requests :
          /\ reqs' = [reqs EXCEPT ![s] = r]
          /\ \/ r.at = "verify" /\ r.inbox \in For(r.d)
             \/ r.at = "reply" /\ ~r.ok
    <3>1. CASE i # Shared
      <4>1. i \in For(reqs[s].d) /\ i \in Locals
        BY <2>1, <3>1 DEF Deliveries, For, LocalRecipients, LocalCandidates
      <4>2. [at |-> "verify", d |-> reqs[s].d, inbox |-> i] \in Requests
        BY <2>1, <4>1 DEF Requests
      <4> QED
        BY <1>3, <3>1, <4>1, <4>2 DEF Route
    <3>2. CASE i = Shared /\ LocalCandidates[a] = {}
      <4>1. [at |-> "reply", d |-> reqs[s].d, ok |-> FALSE] \in Requests
        BY <2>1 DEF Requests
      <4> QED
        BY <1>3, <3>2, <4>1 DEF Route
    <3>3. CASE i = Shared /\ LocalCandidates[a] # {}
      <4>1. FirstRecipient(a) \in For(reqs[s].d) /\ FirstRecipient(a) \in Locals
        BY <2>1, <3>3, FirstIsLocal DEF For
      <4>2. [at |-> "verify", d |-> reqs[s].d, inbox |-> FirstRecipient(a)] \in Requests
        BY <2>1, <4>1 DEF Requests
      <4> QED
        BY <1>3, <3>3, <4>1, <4>2 DEF Route
    <3> QED
      BY <3>1, <3>2, <3>3
  <2>3. RequestOK(s)'
    <3>1. reqs'[s] = r /\ putPc'[s] = "idle"
      BY <1>b, <2>1, <2>2 DEF RequestsOK, storeVars, putVars
    <3>2. CASE r.at = "verify" /\ r.inbox \in For(r.d)
      BY <3>1, <3>2 DEF RequestOK, For, LocalRecipients, LocalCandidates
    <3>3. CASE r.at = "reply" /\ ~r.ok
      BY <3>1, <3>3 DEF RequestOK
    <3> QED
      BY <2>2, <3>2, <3>3
  <2>4. RequestsOK' /\ StoredForRecipient' /\ PutsOK' /\ NothingLost
    BY <2>1, <2>2, <2>3, AnswerKeeps
  <2> QED
    BY <1>a, <1>b, <2>1, <2>4, AcceptsKeep
<1>4. ASSUME NEW s \in Slots, Verify(s) PROVE IngestInv'
  <2>1. /\ reqs[s].d \in Deliveries /\ reqs[s].d[1] \in Documents /\ RequestOK(s)
        /\ reqs[s] \in [at : {"verify", "store", "object", "embed", "notify"}, d : Deliveries,
                        inbox : Locals]
        /\ putPc[s] = "idle" /\ reqs[s].at = "verify" /\ reqs[s].inbox \in For(reqs[s].d)
    BY <1>b, <1>4, RequestKnown DEF Verify, RequestOK
  <2>2. CASE reqs[s].d[1] \in Valid /\ BeginPut(s)
    <3>1. PICK ts \in Stamps : Store!PutBegin(s, reqs[s].d[1], "body", {reqs[s].inbox}, ts)
      BY <2>2 DEF BeginPut
    <3>2. PICK a \in Documents, cs \in SUBSET Locals : a = reqs[s].d[1] /\ cs = {reqs[s].inbox}
      BY <2>1
    <3> PICK r : r = [reqs[s] EXCEPT !.at = "store"]
      OBVIOUS
    <3>3. /\ reqs' = [reqs EXCEPT ![s] = r] /\ tried' = tried \cup {reqs[s].d}
          /\ UNCHANGED <<sent, cut, acceptVars, records>>
      BY <2>2, <3>1, <3>2 DEF BeginPut, senderVars, Store!PutBegin
    <3>4. PutsOK' /\ NothingLost /\ OthersStay(s) /\ InPut(s, a, cs)'
      <4>1. Store!PutBegin(s, a, "body", cs, ts)
        BY <3>1, <3>2
      <4> QED
        BY <3>3, <4>1, PutsOfInv, PutBeginKeeps
    <3>5. r \in Requests /\ r.at = "store" /\ r.d = reqs[s].d /\ r.inbox = reqs[s].inbox
      <4>1. r \in [at : {"verify", "store", "object", "embed", "notify"}, d : Deliveries, inbox : Locals]
        BY <2>1, <3>2
      <4> QED
        BY <2>1, <3>2, <4>1 DEF Requests
    <3>6. RequestOK(s)'
      <4>1. reqs'[s] = r
        BY <1>b, <3>3 DEF RequestsOK
      <4>2. r.inbox \in For(r.d) /\ r.d[1] \in Valid /\ r.d \in tried' /\ InPut(s, r.d[1], {r.inbox})'
        BY <2>1, <2>2, <3>2, <3>3, <3>4, <3>5 DEF InPut
      <4> QED
        BY <3>5, <4>1, <4>2 DEF RequestOK, InPut, For, LocalRecipients, LocalCandidates
    <3>7. RequestsOK'
      BY <1>b, <3>3, <3>4, <3>5, <3>6, RequestsKeep
    <3>8. StoredForRecipient'
      BY <1>b, <2>1, <3>3, <3>4, RecipientsKeep DEF StoredForRecipient
    <3> QED
      BY <1>a, <1>b, <3>3, <3>4, <3>7, <3>8, AcceptsKeep
  <2>3. CASE Refuse(s)
    <3>1. PICK r \in Requests : r = [at |-> "reply", d |-> reqs[s].d, ok |-> FALSE]
      BY <2>1 DEF Requests
    <3>2. reqs' = [reqs EXCEPT ![s] = r] /\ UNCHANGED <<sent, storeVars, acceptVars>>
      BY <2>3, <3>1 DEF Refuse, senderVars
    <3>3. reqs'[s] = r /\ putPc'[s] = "idle"
      BY <1>b, <2>1, <3>2 DEF RequestsOK, storeVars, putVars
    <3>4. RequestOK(s)'
      BY <3>1, <3>3 DEF RequestOK
    <3>5. RequestsOK' /\ StoredForRecipient' /\ PutsOK' /\ NothingLost
      BY <3>2, <3>4, AnswerKeeps
    <3> QED
      BY <1>a, <1>b, <3>2, <3>5, AcceptsKeep
  <2> QED
    BY <1>4, <2>2, <2>3 DEF Verify
<1>5. ASSUME NEW s \in Slots, PutStep(s) PROVE IngestInv'
  <2>1. /\ reqs[s].at \in {"store", "embed"} /\ RequestOK(s) /\ reqs[s] \in Requests
        /\ UNCHANGED <<sent, reqs, tried, acceptVars>>
    BY <1>b, <1>5, RequestKnown DEF PutStep, senderVars
  <2>2. ASSUME PutsOK', NothingLost, OthersStay(s), putCall' = putCall,
               putPc'[s] \in {"get", "unindex", "index"}, cut' \subseteq cut,
               \A a \in Activities : records'[a] = records[a] \/ a = putCall[s].id,
               putCall[s].id \in Activities /\ records'[putCall[s].id] # records[putCall[s].id] =>
                  records'[putCall[s].id].colls = putCall[s].colls
        PROVE  IngestInv'
    <3>1. RequestOK(s)'
      <4>1. /\ reqs'[s] = reqs[s] /\ putCall'[s] = putCall[s]
        BY <2>1, <2>2
      <4>2. reqs[s].at = "embed" => Stored(reqs[s].d[1])'
        BY <1>b, <2>1, <2>2, RequestKnown DEF RequestOK, NothingLost
      <4> QED
        BY <2>1, <2>2, <4>1, <4>2 DEF RequestOK, InPut, For, LocalRecipients, LocalCandidates
    <3>2. RequestsOK'
      <4>1. reqs' = [reqs EXCEPT ![s] = reqs[s]]
        BY <1>b, <2>1 DEF RequestsOK
      <4>2. PICK r \in Requests : r = reqs[s]
        BY <2>1
      <4> QED
        BY <1>b, <2>1, <2>2, <3>1, <4>1, <4>2, RequestsKeep
    <3>3. ASSUME NEW a \in Activities, records'[a] # records[a]
          PROVE  a \in Valid /\ \E d \in tried : \E i \in For(d) : d[1] = a /\ records'[a].colls = {i}
      <4>1. a = putCall[s].id /\ records'[a].colls = putCall[s].colls
        BY <2>2, <3>3
      <4>2. reqs[s].at = "store"
        BY <1>b, <2>1, <4>1, RequestKnown DEF RequestOK, InPut
      <4> QED
        BY <2>1, <4>1, <4>2 DEF RequestOK, InPut
    <3>4. StoredForRecipient'
      BY <1>b, <2>1, <2>2, <3>3, RecipientsKeep DEF StoredForRecipient
    <3> QED
      BY <1>a, <1>b, <2>1, <2>2, <3>2, <3>4, AcceptsKeep
  <2>3. CASE Store!PutRead(s) /\ UNCHANGED cut
    BY <2>2, <2>3, PutsOfInv, PutReadKeeps DEF Store!PutRead
  <2>4. CASE Store!PutUnindex(s) /\ UNCHANGED cut
    BY <2>2, <2>4, PutsOfInv, PutUnindexKeeps DEF Store!PutUnindex
  <2>5. CASE Store!PutIndex(s) /\ UNCHANGED cut
    BY <2>2, <2>5, PutsOfInv, PutIndexKeeps DEF Store!PutIndex
  <2>6. CASE Store!PutWrite(s) /\ cut' = cut \ {putCall[s].id}
    BY <2>2, <2>6, PutsOfInv, PutWriteKeeps DEF Documents
  <2> QED
    BY <1>5, <2>3, <2>4, <2>5, <2>6 DEF PutStep
<1>6. ASSUME NEW s \in Slots, PutReturns(s) PROVE IngestInv'
  <2>1. /\ reqs[s].at \in {"store", "embed"} /\ RequestOK(s) /\ reqs[s].d \in Deliveries
        /\ reqs[s].d[1] \in Documents /\ putPc[s] = "index"
        /\ reqs[s].d[1] \in Creates => ObjectOf[reqs[s].d[1]] \in Documents
        /\ reqs[s] \in [at : {"verify", "store", "object", "embed", "notify"}, d : Deliveries,
                        inbox : Locals]
    BY <1>b, <1>6, RequestKnown DEF PutReturns, Store!PutEmit
  <2>2. Store!PutEmit(s) /\ UNCHANGED <<sent, tried, cut, acceptVars, records>>
    BY <1>6 DEF PutReturns, senderVars, Store!PutEmit
  <2>3. PutsOK' /\ NothingLost /\ OthersStay(s) /\ putPc'[s] = "idle"
    BY <2>2, PutsOfInv, PutEndKeeps
  <2>4. PICK r : r = [reqs[s] EXCEPT !.at =
                        IF @ = "store" /\ reqs[s].d[1] \in Creates THEN "object" ELSE "notify"]
    OBVIOUS
  <2>5. /\ r.at = (IF reqs[s].at = "store" /\ reqs[s].d[1] \in Creates THEN "object" ELSE "notify")
        /\ r.d = reqs[s].d /\ r.inbox = reqs[s].inbox /\ r \in Requests
    <3>1. r \in [at : {"verify", "store", "object", "embed", "notify"}, d : Deliveries, inbox : Locals]
      BY <2>1, <2>4
    <3> QED
      BY <2>1, <2>4, <3>1 DEF Requests
  <2>6. reqs' = [reqs EXCEPT ![s] = r]
    BY <1>6, <2>4 DEF PutReturns
  <2>7. RequestOK(s)'
    <3>1. reqs'[s] = r
      BY <1>b, <2>6 DEF RequestsOK
    <3>2. Stored(putCall[s].id)
      BY <1>b, <2>1 DEF PutsOK
    <3>3. /\ Stored(reqs[s].d[1])
          /\ reqs[s].at = "embed" => Stored(ObjectOf[reqs[s].d[1]])
      BY <2>1, <3>2 DEF RequestOK, InPut
    <3>4. /\ Stored(r.d[1])'
          /\ r.at = "notify" /\ r.d[1] \in Creates => Stored(ObjectOf[r.d[1]])'
      BY <2>1, <2>2, <2>5, <3>3 DEF Stored
    <3>5. r.inbox \in For(r.d) /\ r.d[1] \in Valid /\ r.d \in tried
      BY <2>1, <2>5 DEF RequestOK
    <3>6. r.at \in {"object", "notify"} /\ (r.at = "object" => r.d[1] \in Creates)
      BY <2>5
    <3> QED
      BY <2>2, <2>3, <3>1, <3>4, <3>5, <3>6 DEF RequestOK, For, LocalRecipients, LocalCandidates
  <2>8. RequestsOK'
    BY <1>b, <2>2, <2>3, <2>5, <2>6, <2>7, RequestsKeep
  <2>9. StoredForRecipient'
    BY <1>b, <2>2, <2>3, RecipientsKeep DEF StoredForRecipient
  <2> QED
    BY <1>a, <1>b, <2>2, <2>3, <2>8, <2>9, AcceptsKeep
<1>7. ASSUME NEW s \in Slots, PutObject(s) PROVE IngestInv'
  <2>1. /\ reqs[s].at = "object" /\ RequestOK(s) /\ reqs[s].d \in Deliveries
        /\ reqs[s].d[1] \in Creates /\ ObjectOf[reqs[s].d[1]] \in Documents
        /\ reqs[s] \in [at : {"verify", "store", "object", "embed", "notify"}, d : Deliveries,
                        inbox : Locals]
    BY <1>b, <1>7, RequestKnown DEF PutObject, RequestOK
  <2>2. PICK ts \in Stamps : Store!PutBegin(s, ObjectOf[reqs[s].d[1]], "body", {}, ts)
    BY <1>7 DEF PutObject
  <2>3. PICK o \in Documents, cs \in SUBSET Locals : o = ObjectOf[reqs[s].d[1]] /\ cs = {}
    BY <2>1
  <2> PICK r : r = [reqs[s] EXCEPT !.at = "embed"]
    OBVIOUS
  <2>4. /\ reqs' = [reqs EXCEPT ![s] = r]
        /\ UNCHANGED <<sent, tried, cut, acceptVars, records>>
    BY <1>7, <2>2, <2>3 DEF PutObject, senderVars, Store!PutBegin
  <2>5. PutsOK' /\ NothingLost /\ OthersStay(s) /\ InPut(s, o, cs)'
    <3>1. Store!PutBegin(s, o, "body", cs, ts)
      BY <2>2, <2>3
    <3> QED
      BY <2>4, <3>1, PutsOfInv, PutBeginKeeps
  <2>6. r \in Requests /\ r.at = "embed" /\ r.d = reqs[s].d /\ r.inbox = reqs[s].inbox
    <3>1. r \in [at : {"verify", "store", "object", "embed", "notify"}, d : Deliveries, inbox : Locals]
      BY <2>1, <2>3
    <3> QED
      BY <2>1, <2>3, <3>1 DEF Requests
  <2>7. RequestOK(s)'
    <3>1. reqs'[s] = r
      BY <1>b, <2>4 DEF RequestsOK
    <3>2. InPut(s, ObjectOf[r.d[1]], {})' /\ Stored(r.d[1])'
      BY <2>1, <2>3, <2>4, <2>5, <2>6 DEF InPut, RequestOK, Stored
    <3>3. r.inbox \in For(r.d) /\ r.d[1] \in Valid /\ r.d \in tried' /\ r.d[1] \in Creates
      BY <2>1, <2>4, <2>6 DEF RequestOK
    <3>4. r.at = "embed"
      BY <2>6
    <3> QED
      BY <3>1, <3>2, <3>3, <3>4, SMTT(30)
         DEF RequestOK, InPut, Stored, For, LocalRecipients, LocalCandidates
  <2>8. RequestsOK'
    BY <1>b, <2>4, <2>5, <2>6, <2>7, RequestsKeep
  <2>9. StoredForRecipient'
    BY <1>b, <2>4, <2>5, RecipientsKeep DEF StoredForRecipient
  <2> QED
    BY <1>a, <1>b, <2>4, <2>5, <2>8, <2>9, AcceptsKeep
<1>8. ASSUME NEW s \in Slots, StoreFails(s) PROVE IngestInv'
  <2>1. /\ Store!Abort(s) /\ cut' = cut \cup Underway({s})
        /\ UNCHANGED <<sent, tried, acceptVars, records>>
    BY <1>8 DEF StoreFails, senderVars, Store!Abort
  <2>2. PutsOK' /\ NothingLost /\ OthersStay(s) /\ putPc'[s] = "idle"
    BY <2>1, PutsOfInv, PutEndKeeps
  <2>3. reqs[s].d \in Deliveries
    BY <1>b, <1>8, RequestKnown DEF StoreFails
  <2>4. PICK r \in Requests : r = [at |-> "reply", d |-> reqs[s].d, ok |-> FALSE]
    BY <2>3 DEF Requests
  <2>5. reqs' = [reqs EXCEPT ![s] = r]
    BY <1>8, <2>4 DEF StoreFails
  <2>6. RequestOK(s)'
    <3>1. reqs'[s] = r
      BY <1>b, <2>5 DEF RequestsOK
    <3> QED
      BY <2>2, <2>4, <3>1 DEF RequestOK
  <2>7. RequestsOK'
    BY <1>b, <2>1, <2>2, <2>5, <2>6, RequestsKeep
  <2>8. cut' \subseteq Documents
    <3>1. Underway({s}) \subseteq Documents
      BY <1>b DEF Underway, PutsOK, Store!TypeOK, Store!PutPc, Store!PutCall
    <3> QED
      BY <1>b, <2>1, <3>1 DEF StoredForRecipient
  <2>9. StoredForRecipient'
    BY <1>b, <2>1, <2>2, <2>8, RecipientsKeep DEF StoredForRecipient
  <2> QED
    BY <1>a, <1>b, <2>1, <2>2, <2>7, <2>9, AcceptsKeep
<1>9. ASSUME NEW s \in Slots, Notify(s) PROVE IngestInv'
  <2> DEFINE a == reqs[s].d[1]
             new == IF Concerns(a) THEN {NextAccept(a)} ELSE {}
  <2>1. /\ RequestOK(s) /\ reqs[s].d \in Deliveries /\ a \in Activities /\ reqs[s].at = "notify"
        /\ Stored(a) /\ (a \in Creates => Stored(ObjectOf[a]))
    BY <1>b, <1>9, RequestKnown DEF Notify, RequestOK
  <2>2. PICK r \in Requests : r = [at |-> "reply", d |-> reqs[s].d, ok |-> TRUE]
    BY <2>1 DEF Requests
  <2>3. /\ minted' = minted \cup new /\ reqs' = [reqs EXCEPT ![s] = r]
        /\ handlers' = handlers \cup {[at |-> "put", accept |-> m] : m \in new}
        /\ UNCHANGED <<sent, storeVars, outbox, queue>>
    BY <1>9, <2>2 DEF Notify, senderVars
  <2>4. UNCHANGED <<records, tried, putPc>>
    BY <2>3 DEF storeVars, persistedVars, putVars
  <2>5. RequestOK(s)'
    <3>1. reqs'[s] = r /\ putPc[s] = "idle" /\ r.at = "reply" /\ r.d = reqs[s].d
      BY <1>b, <2>1, <2>2, <2>3 DEF RequestsOK, RequestOK
    <3>2. r.d \in tried /\ Stored(r.d[1]) /\ (r.d[1] \in Creates => Stored(ObjectOf[r.d[1]]))
      BY <2>1, <3>1 DEF RequestOK
    <3> QED
      BY <2>4, <3>1, <3>2 DEF RequestOK, Stored
  <2>6. RequestsOK' /\ StoredForRecipient' /\ PutsOK' /\ NothingLost
    BY <2>3, <2>5, AnswerKeeps
  <2>7. \A m \in new : m[1] = a /\ Concerns(a)
    BY DEF NextAccept
  <2> HIDE DEF new
  <2>8. AcceptsMade'
    <3>1. \A m \in minted' : m[1] \in Activities /\ Concerns(m[1]) /\ Stored(m[1])
      BY <1>b, <2>1, <2>3, <2>7 DEF AcceptsMade
    <3>2. handlers' \subseteq [at : {"put", "enqueue"}, accept : minted']
      <4>1. \A h \in handlers : h \in [at : {"put", "enqueue"}, accept : minted']
        BY <1>b, <2>3 DEF AcceptsMade
      <4>2. \A m \in new : [at |-> "put", accept |-> m] \in [at : {"put", "enqueue"}, accept : minted']
        BY <2>3
      <4> QED
        BY <2>3, <4>1, <4>2
    <3>3. \A h \in handlers' : h.at = "enqueue" => h.accept \in outbox
      BY <1>b, <2>3 DEF AcceptsMade
    <3> QED
      BY <1>b, <2>3, <2>4, <3>1, <3>2, <3>3 DEF AcceptsMade, Concerns, Followed, Stored
  <2> QED
    BY <1>a, <2>6, <2>8
<1>10. ASSUME NEW s \in Slots, Reply(s) PROVE IngestInv'
  <2>1. /\ RequestOK(s) /\ reqs[s].d \in Deliveries /\ reqs[s].d[1] \in Activities
        /\ reqs[s].at = "reply" /\ reqs[s].ok \in BOOLEAN /\ putPc[s] = "idle"
    BY <1>b, <1>10, RequestKnown DEF Reply, RequestOK
  <2>2. PICK r \in Requests : r = Free
    BY DEF Requests
  <2>3. /\ reqs' = [reqs EXCEPT ![s] = r] /\ UNCHANGED <<storeVars, acceptVars>>
        /\ sent' \in {sent, IF reqs[s].ok THEN sent \cup {reqs[s].d} ELSE sent}
    BY <1>10, <2>2 DEF Reply
  <2>4. PutsOK' /\ NothingLost /\ OthersStay(s)
    BY <2>3, PutsOfInv, PutsUnchanged DEF storeVars, putVars, OthersStay
  <2>5. UNCHANGED <<records, tried, cut, putPc>>
    BY <2>3 DEF storeVars, persistedVars, putVars
  <2>6. RequestOK(s)'
    <3>1. reqs'[s] = r
      BY <1>b, <2>3 DEF RequestsOK
    <3> QED
      BY <2>1, <2>2, <2>5, <3>1 DEF RequestOK, Free
  <2>7. RequestsOK'
    BY <1>b, <2>3, <2>4, <2>5, <2>6, RequestsKeep
  <2>8. ASSUME NEW d \in sent'
        PROVE  d \in tried /\ Stored(d[1]) /\ (d[1] \in Creates => Stored(ObjectOf[d[1]]))
    BY <1>b, <2>1, <2>3 DEF RequestOK, StoredForRecipient
  <2>9. StoredForRecipient'
    <3>1. \A a \in Activities : Stored(a)' =>
            a \in Valid /\ \E d \in tried' : \E i \in For(d) : d[1] = a /\ records'[a].colls = {i}
      BY <1>b, <2>5 DEF StoredForRecipient, Stored
    <3>2. \A t \in Slots : putPc'[t] = "index" => Stored(putCall[t].id)'
      BY <2>4 DEF PutsOK
    <3>3. sent' \subseteq tried' /\ tried' \subseteq Deliveries /\ cut' \subseteq Documents
      BY <1>b, <2>5, <2>8 DEF StoredForRecipient
    <3>4. \A d \in sent' : Stored(d[1])' /\ (d[1] \in Creates => Stored(ObjectOf[d[1]])')
      BY <2>5, <2>8 DEF Stored
    <3> QED
      BY <3>1, <3>2, <3>3, <3>4 DEF StoredForRecipient, For, LocalRecipients, LocalCandidates
  <2> QED
    BY <1>a, <1>b, <2>3, <2>4, <2>7, <2>9, AcceptsKeep
<1>11. CASE Handle
  <2>1. PICK h \in handlers : StoreAccept(h) \/ EnqueueAccept(h)
    BY <1>11 DEF Handle
  <2>2. UNCHANGED <<sent, storeVars, reqs, minted>>
    BY <2>1 DEF StoreAccept, EnqueueAccept, senderVars
  <2>3. UNCHANGED <<records, putPc, putCall, tried, cut>>
    BY <2>2 DEF storeVars, persistedVars, putVars
  <2>4. PutsOK' /\ NothingLost
    BY <2>2, PutsOfInv, PutsUnchanged DEF storeVars
  <2>5. RequestsOK'
    <3> SUFFICES ASSUME NEW s \in Slots PROVE RequestOK(s)'
      BY <1>b, <2>2 DEF RequestsOK
    <3>1. RequestOK(s)
      BY <1>b DEF RequestsOK
    <3> QED
      BY <2>2, <2>3, <3>1 DEF RequestOK, InPut, For, LocalRecipients, LocalCandidates, Stored
  <2>6. StoredForRecipient'
    BY <1>b, <2>2, <2>3, <2>4, RecipientsKeep DEF StoredForRecipient
  <2>7. AcceptsMade'
    <3>1. /\ \A m \in minted : m[1] \in Activities /\ Concerns(m[1]) /\ Stored(m[1])'
          /\ h \in [at : {"put", "enqueue"}, accept : minted] /\ (h.at = "enqueue" => h.accept \in outbox)
      BY <1>b, <2>1, <2>3 DEF AcceptsMade, Stored
    <3>2. CASE StoreAccept(h)
      <4>1. /\ outbox' = outbox \cup {h.accept} /\ UNCHANGED <<queue, minted>>
            /\ handlers' = (handlers \ {h}) \cup {[h EXCEPT !.at = "enqueue"]}
        BY <3>2 DEF StoreAccept
      <4>2. /\ [h EXCEPT !.at = "enqueue"] \in [at : {"put", "enqueue"}, accept : minted]
            /\ [h EXCEPT !.at = "enqueue"].accept = h.accept
        BY <3>1
      <4> QED
        BY <1>b, <3>1, <4>1, <4>2 DEF AcceptsMade, Concerns, Followed
    <3>3. CASE EnqueueAccept(h)
      BY <1>b, <3>1, <3>3 DEF EnqueueAccept, AcceptsMade, Concerns, Followed
    <3> QED
      BY <2>1, <3>2, <3>3
  <2> QED
    BY <1>a, <2>4, <2>5, <2>6, <2>7
<1>12. CASE Crash
  <2>1. /\ reqs' = [s \in Slots |-> Free] /\ cut' = cut \cup Underway(Slots)
        /\ putPc' = [s \in Slots |-> "idle"] /\ putCall' = [s \in Slots |-> NoRecord]
        /\ putOld' = [s \in Slots |-> NoRecord] /\ putTodo' = [s \in Slots |-> {}]
        /\ handlers' = {} /\ UNCHANGED <<sent, records, index, tried, minted, outbox, queue>>
    BY <1>12 DEF Crash, senderVars, persistedVars
  <2>2. PutsOK' /\ NothingLost
    <3>1. Store!TypeOK'
      BY <1>b, <2>1 DEF PutsOK, Store!TypeOK, Store!PutPc, Store!DeletePc
    <3>2. ListedOrOwed'
      <4> SUFFICES ASSUME NEW a \in Activities \ cut', Stored(a), NEW c \in records[a].colls
                   PROVE  <<c, records[a].ts, a>> \in index
        BY <2>1 DEF ListedOrOwed, Stored
      <4>1. \A t \in Slots : ~(putPc[t] \in {"unindex", "index"} /\ putCall[t].id = a)
        BY <2>1 DEF Underway
      <4> QED
        BY <1>b, <2>1, <4>1 DEF PutsOK, ListedOrOwed
    <3> QED
      BY <2>1, <3>1, <3>2 DEF PutsOK, NothingLost, Stored
  <2>3. RequestsOK'
    BY <2>1 DEF RequestsOK, Requests, RequestOK, Free
  <2>4. cut' \subseteq Documents
    <3>1. Underway(Slots) \subseteq Documents
      BY <1>b DEF Underway, PutsOK, Store!TypeOK, Store!PutPc, Store!PutCall
    <3> QED
      BY <1>b, <2>1, <3>1 DEF StoredForRecipient
  <2>5. StoredForRecipient'
    BY <1>b, <2>1, <2>2, <2>4, RecipientsKeep DEF StoredForRecipient
  <2>6. AcceptsMade'
    BY <1>b, <2>1 DEF AcceptsMade, Concerns, Followed, Stored
  <2> QED
    BY <1>a, <2>2, <2>3, <2>5, <2>6
<1> QED
  BY <1>1, <1>2, <1>3, <1>4, <1>5, <1>6, <1>7, <1>8, <1>9, <1>10, <1>11, <1>12 DEF INext, Serve

LEMMA IngestInvHolds == ISpec => []IngestInv
<1>1. IInit => IngestInv
  <2> SUFFICES ASSUME IInit PROVE IngestInv
    OBVIOUS
  <2>1. Store!TypeOK
    BY DEF IInit, Store!TypeOK, Store!PutPc, Store!DeletePc
  <2>2. RequestsOK
    BY DEF IInit, RequestsOK, Requests, RequestOK, Free
  <2>3. StoredForRecipient /\ ListedOrOwed /\ AcceptsMade
    BY DEF IInit, StoredForRecipient, ListedOrOwed, AcceptsMade, Stored, Documents
  <2> QED
    BY <2>1, <2>2, <2>3 DEF IngestInv
<1>2. IngestInv /\ [INext]_vars => IngestInv'
  BY IngestInvStep
<1> QED
  BY <1>1, <1>2, PTL DEF ISpec

\* A sender that has read 202 need not post again: the activity is stored, with
\* its embedded object, and once no put of it is under way the inbox of one of
\* its deliveries lists it, however requests for it overlapped, failed, were cut
\* short by a stop before the acknowledged put wrote, or were posted again.  A
\* later put that is cut short may take the listing back until the next one
\* writes (ap-router.js:116-140, pipeline.js:97-108, store.js:111-128).
THEOREM AckedIsStoredCorrect == ISpec => []AckedIsStored
<1>1. IngestInv => AckedIsStored
  <2> SUFFICES ASSUME IngestInv, NEW d \in sent, NEW a, a = d[1]
               PROVE  /\ Held(a)
                      /\ a \in Creates => Held(ObjectOf[a])
                      /\ Store!Busy(a) \/ a \in cut \/ InInbox(a)
    BY DEF AckedIsStored
  <2>1. a \in Activities /\ Stored(a) /\ (a \in Creates => Stored(ObjectOf[a]))
    BY DEF IngestInv, StoredForRecipient, Deliveries
  <2>2. ASSUME ~Store!Busy(a), a \notin cut PROVE InInbox(a)
    <3>1. \E e \in tried : \E i \in For(e) : e[1] = a /\ records[a].colls = {i}
      BY <2>1 DEF IngestInv, StoredForRecipient
    <3>2. \A c \in records[a].colls : <<c, records[a].ts, a>> \in index
      BY <2>1, <2>2 DEF IngestInv, ListedOrOwed, Store!Busy
    <3>3. Store!Entries(a, records[a]) \subseteq index
      BY <2>1, <3>2 DEF Store!Entries, Store!CollsOf, Store!indexKey, Stored
    <3> QED
      BY <3>1, <3>3 DEF InInbox
  <2> QED
    BY <2>1, <2>2 DEF Held, Stored
<1> QED
  BY <1>1, IngestInvHolds, PTL

\* Accepts are queued only for persisted Follows of an actor wired to accept
\* them, and only after they are in its outbox (auto-accept-follows.js:29-46).
THEOREM AcceptsJustifiedCorrect == ISpec => []AcceptsJustified
<1>1. IngestInv => AcceptsJustified
  BY DEF IngestInv, AcceptsMade, AcceptsJustified, Concerns, Held, Stored
<1> QED
  BY <1>1, IngestInvHolds, PTL

-----------------------------------------------------------------------------
\* No step makes an Accept that was not posted for.
LEMMA PostsCountedStep ==
    ASSUME IngestInv, PostsCounted, [INext]_vars
    PROVE  PostsCounted'
<1> USE IngestAssumption DEF PostsCounted
<1>1. /\ posts \in Nat /\ Cardinality(minted) \in Nat /\ Cardinality(Undecided) \in Nat
      /\ IsFiniteSet(minted) /\ IsFiniteSet(Undecided)
  BY FS_CardinalityType
<1>2. DOMAIN reqs = Slots
  BY DEF IngestInv, RequestsOK
<1>3. ASSUME Undecided' \subseteq Undecided, UNCHANGED <<posts, minted>>
      PROVE  PostsCounted'
  <2>1. IsFiniteSet(Undecided') /\ Cardinality(Undecided') <= Cardinality(Undecided)
        /\ Cardinality(Undecided') \in Nat
    BY <1>1, <1>3, FS_Subset, FS_CardinalityType
  <2> QED
    BY <1>1, <1>3, <2>1
<1>4. ASSUME NEW s \in Slots, NEW d \in Deliveries, Post(s, d) PROVE PostsCounted'
  <2>1. Undecided' = Undecided \cup {s} /\ posts' = posts + 1 /\ posts' \in 0 .. MaxPosts
        /\ minted' = minted
    BY <1>1, <1>2, <1>4 DEF Post, acceptVars, Undecided
  <2>2. IsFiniteSet(Undecided') /\ Cardinality(Undecided') <= Cardinality(Undecided) + 1
        /\ Cardinality(Undecided') \in Nat
    <3>2. IsFiniteSet(Undecided \cup {s})
          /\ Cardinality(Undecided \cup {s})
               = IF s \in Undecided THEN Cardinality(Undecided) ELSE Cardinality(Undecided) + 1
      BY <1>1, FS_AddElement
    <3> QED
      BY <1>1, <2>1, <3>2
  <2> QED
    BY <1>1, <2>1, <2>2
<1>5. ASSUME NEW s \in Slots, Notify(s) PROVE PostsCounted'
  <2> DEFINE a == reqs[s].d[1]
             m == NextAccept(a)
             mine == {x \in minted : x[1] = a}
  <2>1. Undecided' = Undecided \ {s} /\ s \in Undecided /\ posts' = posts
        /\ (minted' = minted \/ (minted' = minted \cup {m} /\ a \in Follows))
    BY <1>2, <1>5 DEF Notify, senderVars, Undecided, Concerns
  <2>2. IsFiniteSet(Undecided') /\ Cardinality(Undecided') = Cardinality(Undecided) - 1
    BY <1>1, <2>1, FS_RemoveElement
  <2>3. Cardinality(mine) \in Nat /\ Cardinality(mine) <= Cardinality(minted)
    BY <1>1, FS_Subset, FS_CardinalityType
  <2>4. m = <<a, Cardinality(mine) + 1>>
    BY DEF NextAccept
  <2> HIDE DEF m, mine, a
  <2>5. CASE minted' = minted
    BY <1>1, <2>1, <2>2, <2>5
  <2>6. CASE minted' = minted \cup {m} /\ m \notin minted /\ a \in Follows
    <3>1. IsFiniteSet(minted') /\ Cardinality(minted') = Cardinality(minted) + 1
      BY <1>1, <2>6, FS_AddElement
    <3>2. m \in Follows \X (1 .. Cardinality(minted'))
      BY <1>1, <2>3, <2>4, <2>6, <3>1
    <3>3. 1 .. Cardinality(minted) \subseteq 1 .. Cardinality(minted')
      BY <1>1, <3>1
    <3>4. \A x \in minted' : x \in Follows \X (1 .. Cardinality(minted'))
      BY <2>6, <3>2, <3>3
    <3> QED
      BY <1>1, <2>1, <2>2, <3>1, <3>4
  <2> QED
    <3>1. m \in minted => minted \cup {m} = minted
      OBVIOUS
    <3> QED
      BY <2>1, <2>5, <2>6, <3>1
<1>6. CASE UNCHANGED vars
  BY <1>3, <1>6 DEF vars, senderVars, acceptVars, Undecided
<1>7. ASSUME NEW s \in Slots,
             Route(s) \/ Verify(s) \/ PutStep(s) \/ PutReturns(s) \/ PutObject(s)
      PROVE  PostsCounted'
  <2>1. UNCHANGED <<posts, minted>>
    BY <1>7 DEF Route, Verify, BeginPut, Refuse, PutStep, PutReturns, PutObject, senderVars, acceptVars
  <2>2. reqs[s].at \notin {"free", "reply"} /\ \A t \in Slots \ {s} : reqs'[t] = reqs[t]
    BY <1>2, <1>7 DEF Route, Verify, BeginPut, Refuse, PutStep, PutReturns, PutObject
  <2>3. Undecided' \subseteq Undecided
    BY <2>2 DEF Undecided
  <2> QED
    BY <1>3, <2>1, <2>3
<1>8. ASSUME NEW s \in Slots, StoreFails(s) \/ Reply(s) PROVE PostsCounted'
  <2>1. Undecided' \subseteq Undecided
    <3>1. reqs'[s].at \in {"free", "reply"} /\ \A t \in Slots \ {s} : reqs'[t] = reqs[t]
      BY <1>2, <1>8 DEF StoreFails, Reply, Free
    <3> QED
      BY <3>1 DEF Undecided
  <2> QED
    BY <1>3, <1>8, <2>1 DEF StoreFails, Reply, senderVars, acceptVars
<1>9. CASE Handle \/ Crash
  BY <1>2, <1>3, <1>9 DEF Handle, StoreAccept, EnqueueAccept, Crash, senderVars, Undecided, Free
<1> QED
  BY <1>4, <1>5, <1>6, <1>7, <1>8, <1>9 DEF INext, Serve

CrashesCounted == crashes \in 0 .. MaxCrashes

\* Type correctness of the inbox routes, the pipeline and the auto-Accept; only
\* an activity its actor signed is ever stored, and no more Accepts are made
\* than there were posts.
THEOREM IngestTypeCorrect == ISpec => []ITypeOK
<1> USE IngestAssumption
<1>1. IInit => PostsCounted /\ CrashesCounted
  <2> SUFFICES ASSUME IInit PROVE PostsCounted /\ CrashesCounted
    OBVIOUS
  <2>1. Undecided = {} /\ minted = {} /\ posts = 0 /\ crashes = 0
    BY DEF IInit, Undecided, Free
  <2> QED
    BY <2>1, FS_EmptySet DEF PostsCounted, CrashesCounted
<1>2. /\ IngestInv /\ PostsCounted /\ CrashesCounted
      /\ [INext]_vars
      => PostsCounted' /\ CrashesCounted'
  <2> SUFFICES ASSUME IngestInv, PostsCounted, CrashesCounted, [INext]_vars
               PROVE  PostsCounted' /\ CrashesCounted'
    OBVIOUS
  <2>1. PostsCounted'
    BY PostsCountedStep
  <2>2. crashes' = crashes \/ (crashes < MaxCrashes /\ crashes' = crashes + 1)
    BY DEF INext, Serve, Post, Route, Verify, BeginPut, Refuse, PutStep, PutReturns, PutObject,
           StoreFails, Notify, Reply, Handle, StoreAccept, EnqueueAccept, Crash, vars
  <2> QED
    BY <2>1, <2>2 DEF CrashesCounted
<1>3. IngestInv /\ PostsCounted /\ CrashesCounted => ITypeOK
  <2> SUFFICES ASSUME IngestInv, PostsCounted, CrashesCounted PROVE ITypeOK
    OBVIOUS
  <2>1. 1 .. Cardinality(minted) \subseteq 1 .. MaxPosts
    BY FS_CardinalityType DEF PostsCounted
  <2>2. minted \subseteq Accepts
    BY <2>1 DEF PostsCounted, Accepts
  <2>3. \A s \in Slots :
          reqs[s].at \in {"free", "route", "verify", "store", "object", "embed", "notify", "reply"}
    BY DEF IngestInv, RequestsOK, Requests, Free
  <2>4. /\ \A h \in handlers : h.at \in {"put", "enqueue"} /\ h.accept \in Accepts
        /\ outbox \subseteq minted /\ queue \subseteq minted
    BY <2>2 DEF IngestInv, AcceptsMade
  <2> QED
    BY <2>2, <2>3, <2>4
       DEF ITypeOK, IngestInv, StoredForRecipient, Stored, PostsCounted, CrashesCounted
<1> QED
  BY <1>1, <1>2, <1>3, IngestInvHolds, PTL DEF ISpec
-----------------------------------------------------------------------------
(* The identity.                                                               *)

\* The steps of a start keep the variables in their types.
LEMMA IdentityTypeStep ==
    ASSUME LTypeOK, [LNext]_identityVars
    PROVE  LTypeOK'
<1> USE IdentityAssumption
<1>0. made \in Nat /\ starts \in Nat /\ MaxStarts \in Nat
  BY DEF LTypeOK
<1>1. CASE UNCHANGED identityVars
  BY <1>1 DEF identityVars, LTypeOK
<1>2. ASSUME NEW p \in Processes, Start(p) PROVE LTypeOK'
  BY <1>0, <1>2 DEF Start, Keys, AtSet, AtWrite, LTypeOK
<1>3. ASSUME NEW p \in Processes, Build(p) \/ Stop(p) PROVE LTypeOK'
  BY <1>3 DEF Build, Stop, Nothing, Keys, AtSet, AtWrite, LTypeOK
<1>4. ASSUME NEW p \in Processes, NEW k \in Keys, Get(p, k) PROVE LTypeOK'
  <2>1. CASE Found(p, k)
    <3>1. file[k] \in 1..made /\ file[k] # Absent
      BY <1>0, <2>1 DEF Found, LTypeOK
    <3> QED
      BY <1>0, <1>4, <2>1, <3>1 DEF Get, Found, Keys, AtGet, AtSet, AtWrite, After, LTypeOK
  <2>2. CASE Generate(p, k)
    <3>1. made' = made + 1 /\ made' \in Nat /\ 1..made \subseteq 1..made' /\ made' \in 1..made'
          /\ made' # Absent
      BY <1>0, <2>2 DEF Generate
    <3>2. held' = [held EXCEPT ![p][k] = made'] /\ pc' = [pc EXCEPT ![p] = AtSet[k]]
          /\ UNCHANGED <<file, starts>>
      BY <1>4, <2>2 DEF Get, Generate
    <3>3. /\ file' \in [Keys -> (1..made') \cup {Absent, Torn}]
          /\ held' \in [Processes -> [Keys -> (1..made') \cup {Absent}]]
      BY <3>1, <3>2 DEF LTypeOK
    <3>4. AtSet[k] \in {"setSeed", "setTransport"} /\ pc[p] = AtGet[k]
          /\ (k = "seed" => AtSet[k] = "setSeed" /\ AtGet[k] = "getSeed")
          /\ (k = "transport" => AtSet[k] = "setTransport" /\ AtGet[k] = "getTransport")
      BY <1>4 DEF Get, Keys, AtSet, AtGet
    <3>5. \A q \in Processes :
            /\ pc'[q] \in {"build", "serving"} => Absent \notin {held'[q][j] : j \in Keys}
            /\ pc'[q] \in {"getTransport", "setTransport", "writeTransport"}
                 => held'[q]["seed"] # Absent
            /\ \A j \in Keys : pc'[q] \in {AtSet[j], AtWrite[j]} => held'[q][j] # Absent
      BY <3>1, <3>2, <3>4 DEF LTypeOK, Keys, AtSet, AtWrite
    <3> QED
      BY <3>1, <3>2, <3>3, <3>4, <3>5 DEF LTypeOK
  <2>3. CASE Unreadable(p, k)
    BY <1>4, <2>3 DEF Get, Unreadable, Keys, AtSet, AtWrite, LTypeOK
  <2> QED
    BY <1>4, <2>1, <2>2, <2>3 DEF Get
<1>5. ASSUME NEW p \in Processes, NEW k \in Keys, Truncate(p, k) \/ Write(p, k) PROVE LTypeOK'
  <2>1. CASE Truncate(p, k)
    BY <2>1 DEF Truncate, Keys, AtSet, AtWrite, LTypeOK
  <2>2. CASE Write(p, k)
    BY <2>2 DEF Write, Keys, AtSet, AtWrite, After, LTypeOK
  <2> QED
    BY <1>5, <2>1, <2>2
<1> QED
  BY <1>1, <1>2, <1>3, <1>4, <1>5 DEF LNext

\* Type correctness of ensureLocalActor(), also when starts overlap: no process
\* comes past a key without having it in hand (local-actor.js:24-49).
THEOREM IdentityTypeCorrect == LSpec => []LTypeOK
<1>1. LInit => LTypeOK
  BY IdentityAssumption DEF LInit, LTypeOK, Nothing, Keys, AtSet, AtWrite
<1>2. LTypeOK /\ [LNext]_identityVars => LTypeOK'
  BY IdentityTypeStep
<1> QED
  BY <1>1, <1>2, PTL DEF LSpec

-----------------------------------------------------------------------------
\* A file that holds a key keeps it.
LEMMA KeyKept ==
    ASSUME LTypeOK, IdentityInv, [LNext]_identityVars, NEW k \in Keys, file[k] \in 1..made
    PROVE  file'[k] = file[k] /\ file'[k] \in 1..made'
<1> USE IdentityAssumption
<1>1. made \in Nat /\ made' \in {made, made + 1}
  BY DEF LTypeOK, identityVars, LNext, Start, Build, Stop, Get, Found, Generate, Unreadable,
         Truncate, Write
<1>2. file'[k] = file[k]
  <2>1. ASSUME NEW p \in Processes, NEW j \in Keys, Truncate(p, j) \/ Write(p, j)
        PROVE  file'[k] = file[k]
    <3>1. file[j] \in {Absent, Torn}
      BY <2>1 DEF Truncate, Write, IdentityInv, WritesMissing
    <3>2. j # k
      BY <1>1, <3>1
    <3> QED
      BY <2>1, <3>2 DEF Truncate, Write, LTypeOK
  <2> QED
    BY <2>1 DEF identityVars, LNext, Start, Build, Stop, Get
<1> QED
  BY <1>1, <1>2

\* Every step keeps the inductive invariant of OneIdentity, if no process starts
\* while another one is starting.
LEMMA IdentityInvStep ==
    ASSUME ~Overlap, LTypeOK, LTypeOK', IdentityInv, [LNext]_identityVars
    PROVE  IdentityInv'
<1> USE IdentityAssumption
<1>0. made \in Nat
  BY DEF LTypeOK
<1>k. \A k \in Keys : file[k] \in 1..made => file'[k] = file[k] /\ file'[k] \in 1..made'
  BY KeyKept
<1>s. \A k \in Keys :
        /\ AtGet[k] \in {"getSeed", "getTransport"} /\ AtSet[k] \in {"setSeed", "setTransport"}
        /\ AtWrite[k] \in {"writeSeed", "writeTransport"}
        /\ After[k] \in {"getTransport", "build"}
  BY DEF Keys, AtGet, AtSet, AtWrite, After
<1>1. CASE UNCHANGED identityVars
  BY <1>1 DEF identityVars, IdentityInv, OneStarts, Starting, WritesMissing, RunsOnFiles, Known
<1>2. ASSUME NEW p \in Processes, Start(p) PROVE IdentityInv'
  BY <1>2, <1>s DEF Start, LTypeOK, IdentityInv, OneStarts, Starting, WritesMissing,
                    RunsOnFiles, Known
<1>3. ASSUME NEW p \in Processes, Build(p) PROVE IdentityInv'
  <2>1. held[p] = file /\ \A k \in Keys : file[k] \in 1..made
    BY <1>3 DEF Build, LTypeOK, IdentityInv, RunsOnFiles, Known, Keys
  <2>2. OneStarts' /\ WritesMissing' /\ RunsOnFiles'
    BY <1>3, <1>s DEF Build, LTypeOK, IdentityInv, OneStarts, Starting, WritesMissing,
                      RunsOnFiles, Known
  <2> QED
    BY <1>3, <2>1, <2>2 DEF Build, IdentityInv
<1>4. ASSUME NEW p \in Processes, Stop(p) PROVE IdentityInv'
  BY <1>4, <1>s DEF Stop, LTypeOK, IdentityInv, OneStarts, Starting, WritesMissing,
                    RunsOnFiles, Known
<1>5. ASSUME NEW p \in Processes, NEW k \in Keys, Get(p, k) PROVE IdentityInv'
  <2>2. UNCHANGED <<file, returned>> /\ Starting(p)
    BY <1>5, <1>s DEF Get, Starting
  <2>3. \A q \in Processes \ {p} : pc'[q] = pc[q] /\ held'[q] = held[q]
    BY <1>5 DEF Get, Found, Generate, Unreadable, LTypeOK
  <2>1. OneStarts'
    BY <2>2, <2>3 DEF IdentityInv, OneStarts, Starting
  <2>4. 1..made \subseteq 1..made'
    BY <1>0, <1>5 DEF Get, Found, Generate, Unreadable
  <2>5. /\ \A j \in Keys : /\ pc'[p] = AtSet[j] => file[j] = Absent /\ held'[p][j] \in 1..made'
                          /\ pc'[p] # AtWrite[j]
        /\ pc'[p] \in {"getTransport", "setTransport", "writeTransport", "build", "serving"}
             => file["seed"] \in 1..made /\ held'[p]["seed"] = file["seed"]
        /\ pc'[p] \in {"build", "serving"}
             => file["transport"] \in 1..made /\ held'[p]["transport"] = file["transport"]
    <3>1. CASE Found(p, k)
      <4>1. file[k] \in 1..made
        BY <3>1 DEF Found, LTypeOK
      <4> QED
        BY <1>5, <3>1, <4>1 DEF Get, Found, Keys, AtGet, AtSet, AtWrite, After, LTypeOK,
                                IdentityInv, RunsOnFiles, Known
    <3>2. CASE Generate(p, k)
      <4>1. made' = made + 1 /\ made' \in 1..made'
        BY <1>0, <3>2 DEF Generate
      <4>2. held' = [held EXCEPT ![p][k] = made'] /\ pc' = [pc EXCEPT ![p] = AtSet[k]]
            /\ file[k] = Absent /\ pc[p] = AtGet[k]
        BY <1>5, <3>2 DEF Get, Generate
      <4> QED
        BY <4>1, <4>2 DEF Keys, AtGet, AtSet, AtWrite, LTypeOK, IdentityInv, RunsOnFiles, Known
    <3>3. CASE Unreadable(p, k)
      BY <1>s, <3>3 DEF Unreadable, LTypeOK
    <3> QED
      BY <1>5, <3>1, <3>2, <3>3 DEF Get
  <2>6. WritesMissing' /\ RunsOnFiles'
    BY <2>2, <2>3, <2>4, <2>5 DEF IdentityInv, WritesMissing, RunsOnFiles, Known, Keys
  <2> QED
    BY <2>1, <2>2, <2>4, <2>6 DEF IdentityInv
<1>6. ASSUME NEW p \in Processes, NEW k \in Keys, Truncate(p, k) \/ Write(p, k) PROVE IdentityInv'
  <2>1. Starting(p) /\ file[k] \in {Absent, Torn} /\ held[p][k] \in 1..made
    BY <1>6, <1>s DEF Truncate, Write, Starting, IdentityInv, WritesMissing
  <2>2. file[k] \notin 1..made
    BY <1>0, <2>1
  <2>3. returned = {}
    BY <2>2 DEF IdentityInv
  <2>4. \A q \in Processes \ {p} : ~Starting(q)
    BY <2>1 DEF IdentityInv, OneStarts
  <2>5. \A q \in Processes : pc[q] # "serving"
    BY <2>2 DEF IdentityInv, RunsOnFiles, Known, Keys
  <2>6. /\ UNCHANGED <<held, made, returned>> /\ \A q \in Processes \ {p} : pc'[q] = pc[q]
        /\ \A j \in Keys \ {k} : file'[j] = file[j]
    BY <1>6 DEF Truncate, Write, LTypeOK
  <2>7. OneStarts'
    BY <2>4, <2>6 DEF OneStarts, Starting
  <2>8. \A q \in Processes \ {p} : pc'[q] \in {"down", "failed"}
    BY <2>4, <2>5, <2>6 DEF Starting
  <2>9. WritesMissing' /\ RunsOnFiles'
    <3>1. CASE Truncate(p, k)
      BY <1>s, <2>1, <2>6, <2>8, <3>1 DEF Truncate, LTypeOK, IdentityInv, WritesMissing,
                       RunsOnFiles, Known, Keys, AtSet, AtWrite
    <3>2. CASE Write(p, k)
      BY <1>s, <2>1, <2>6, <2>8, <3>2 DEF Write, LTypeOK, IdentityInv, WritesMissing,
                       RunsOnFiles, Known, Keys, AtSet, AtWrite, After
    <3> QED
      BY <1>6, <3>1, <3>2
  <2> QED
    BY <2>3, <2>6, <2>7, <2>9 DEF IdentityInv
<1> QED
  BY <1>1, <1>2, <1>3, <1>4, <1>5, <1>6 DEF LNext

LEMMA IdentityInvHolds ==
    ASSUME ~Overlap
    PROVE  LSpec => [](LTypeOK /\ IdentityInv)
<1>1. LInit => IdentityInv
  BY DEF LInit, IdentityInv, OneStarts, Starting, WritesMissing, RunsOnFiles, Known, Keys,
         AtSet, AtWrite
<1>2. LTypeOK /\ LTypeOK' /\ IdentityInv /\ [LNext]_identityVars => IdentityInv'
  BY IdentityInvStep
<1> QED
  BY <1>1, <1>2, IdentityTypeCorrect, PTL DEF LSpec

\* What finds actors and verifies requests only reads the identity: the starts
\* and stops of the relay are those of LocalIdentity.
THEOREM IdentityImplemented == ASpec => LSpec
<1>1. AInit => LInit
  BY DEF AInit
<1>2. [ANext]_actorVars => [LNext]_identityVars
  BY DEF ANext, Discover, Send, Rewrite, Judge, actorVars
<1> QED
  BY <1>1, <1>2, PTL DEF ASpec, LSpec

\* A relay never serves a second identity, however often it stops, wherever it
\* stops, and is started again, if the starts over one data directory do not
\* overlap (local-actor.js:1-4, 33-45).
THEOREM OneIdentityCorrect ==
    ASSUME ~Overlap
    PROVE  ASpec => []OneIdentity
<1>1. IdentityInv => OneIdentity
  <2> SUFFICES ASSUME IdentityInv PROVE Cardinality(returned) <= 1
    BY DEF OneIdentity
  <2>1. returned \in SUBSET {file}
    BY DEF IdentityInv
  <2>2. IsFiniteSet({file}) /\ Cardinality({file}) = 1
    BY FS_Singleton
  <2> QED
    BY <2>1, <2>2, FS_Subset
<1> QED
  BY <1>1, IdentityImplemented, IdentityInvHolds, PTL

-----------------------------------------------------------------------------
\* verifyRequest() under the key in the relay's file accepts exactly the intact
\* requests: what the signature does not cover, the digest it covers does.
LEMMA VerifiedIffIntact ==
    ASSUME NEW r \in Outgoing, NEW k, k = file["transport"],
           SignedByFile(asSigned[r]), Carried(request[r], asSigned[r])
    PROVE  Verified(request[r], k) <=> Intact(r)
<1> DEFINE req == request[r]
           original == asSigned[r]
           names == original.signature.names
<1>1. /\ req.signature = original.signature /\ original.signature.key = k
      /\ original.signature.text = SigningString(original, names)
  BY DEF SignedByFile, Carried
<1>2. ASSUME original.body # NoBody
      PROVE  /\ req.body # NoBody /\ "digest" \in names /\ "digest" # RequestTarget
             /\ SigningString(original, names)["digest"] = digestHeaderFor(original.body)
             /\ SigningString(req, names)["digest"] = req.headers["digest"]
  BY <1>2, RequestAssumption DEF SignedByFile, Carried, SigningString, RequestTarget
<1>3. digestHeaderFor(req.body) = digestHeaderFor(original.body) <=> req.body = original.body
  BY DEF digestHeaderFor
<1>4. ASSUME Verified(req, k) PROVE Intact(r)
  <2>1. /\ names \subseteq DOMAIN req.headers \cup {RequestTarget}
        /\ SigningString(original, names) = SigningString(req, names)
    BY <1>1, <1>4 DEF Verified
  <2>2. CASE original.body = NoBody
    BY <2>1, <2>2 DEF Carried, Intact
  <2>3. CASE original.body # NoBody
    <3>1. req.headers["digest"] = digestHeaderFor(req.body)
      BY <1>2, <1>4, <2>1, <2>3 DEF Verified, DigestFits
    <3>2. req.body = original.body
      BY <1>2, <1>3, <2>1, <2>3, <3>1
    <3> QED
      BY <2>1, <3>2 DEF Intact
  <2> QED
    BY <2>2, <2>3
<1>5. ASSUME Intact(r) PROVE Verified(req, k)
  <2>1. /\ req.body = original.body
        /\ names \subseteq DOMAIN req.headers \cup {RequestTarget}
        /\ SigningString(req, names) = SigningString(original, names)
    BY <1>5 DEF Intact
  <2>2. DigestFits(req)
    BY <1>2, <2>1 DEF DigestFits
  <2> QED
    BY <1>1, <2>1, <2>2 DEF Verified
<1> QED
  BY <1>4, <1>5

\* What signRequest() makes is signed with the key in the relay's file.
LEMMA SignedWithFile ==
    ASSUME IdentityInv, NEW p \in Serving, NEW method, NEW body
    PROVE  /\ SignedByFile(Signed(method, body, p))
           /\ Carried(Signed(method, body, p), Signed(method, body, p))
           /\ Signed(method, body, p) # NoRequest
<1> DEFINE s == Signed(method, body, p)
<1>1. file["transport"] \in 1..made /\ held[p]["transport"] = file["transport"]
  BY DEF Serving, IdentityInv, RunsOnFiles, Known
<1> DEFINE hs == [n \in {"content-type", "host", "date"}
                        \cup (IF body = NoBody THEN {} ELSE {"digest"}) |->
                     IF n = "digest" THEN digestHeaderFor(body) ELSE "as sent"]
           signed == SignedNames(hs)
           text == SigningString([method |-> method, path |-> "inbox", headers |-> hs], signed)
<1>2. s = [method |-> method, path |-> "inbox", headers |-> hs, body |-> body,
           signature |-> [keyId |-> <<Base, "transport-key">>, names |-> signed,
                          text |-> text, key |-> held[p]["transport"]]]
  BY DEF Signed
<1> HIDE DEF hs, signed
<1>t. text = [n \in signed |-> IF n = RequestTarget THEN <<method, "inbox">> ELSE hs[n]]
  BY DEF SigningString
<1> HIDE DEF s, text
<1>a. /\ DOMAIN s = {"method", "path", "headers", "body", "signature"}
      /\ s.signature.key = held[p]["transport"] /\ s.body = body /\ s.headers = hs
      /\ s.signature.keyId = <<Base, "transport-key">> /\ s.signature.names = signed
      /\ s.signature.text = text /\ s.method = method /\ s.path = "inbox"
  BY <1>2
<1>b. s.signature.text = SigningString(s, s.signature.names)
  BY <1>t, <1>a DEF SigningString
<1>3. s.body # NoBody =>
        "digest" \in s.signature.names /\ s.headers["digest"] = digestHeaderFor(s.body)
  BY <1>a DEF SignedNames, hs, signed
<1>4. DOMAIN NoRequest = {"method"}
  BY DEF NoRequest
<1>5. s # NoRequest
  BY <1>a, <1>4
<1> QED
  BY <1>1, <1>a, <1>b, <1>3, <1>5 DEF SignedByFile, Carried, s

\* However a request is rewritten on its way, it carries its signature, and a
\* body only if it was sent with one.
LEMMA RewrittenCarried ==
    ASSUME NEW req, NEW original, Carried(req, original), req = original, NEW new \in Rewritten(req)
    PROVE  Carried(new, original) /\ new # NoRequest
<1>1. DOMAIN req = {"method", "path", "headers", "body", "signature"}
  BY DEF Carried
<1>2. /\ DOMAIN new = {"method", "path", "headers", "body", "signature"}
      /\ new.signature = req.signature
      /\ new.body = req.body \/ (new.body = "rewritten" /\ req.body # NoBody)
  <2>1. CASE new \in {[req EXCEPT !.path = "rewritten"], [req EXCEPT !.method = "PUT"]}
    BY <1>1, <2>1
  <2>2. CASE \E n \in DOMAIN req.headers : new = [req EXCEPT !.headers[n] = Other(n)]
    BY <1>1, <2>2
  <2>3. CASE \E n \in DOMAIN req.headers :
               new = [req EXCEPT !.headers = [m \in DOMAIN @ \ {n} |-> @[m]]]
    BY <1>1, <2>3
  <2>4. CASE req.body # NoBody /\ \E old \in {req, [req EXCEPT !.headers["digest"] = Other("digest")]} :
               new = [old EXCEPT !.body = "rewritten"]
    BY <1>1, <2>4
  <2> QED
    BY <2>1, <2>2, <2>3, <2>4 DEF Rewritten
<1>3. DOMAIN NoRequest = {"method"}
  BY DEF NoRequest
<1> QED
  BY <1>2, <1>3 DEF Carried

\* Every step keeps the inductive invariant of VerifiedIfIntact and
\* LearnedIsServed, as long as the identity is the one in the files.
LEMMA FederationInvStep ==
    ASSUME LTypeOK, IdentityInv, FederationInv, [ANext]_actorVars
    PROVE  FederationInv'
<1> USE DEF FederationInv
<1>1. ASSUME [LNext]_identityVars, UNCHANGED federationVars PROVE FederationInv'
  <2>1. \A k \in Keys : file[k] \in 1..made => file'[k] = file[k] /\ file'[k] \in 1..made'
    BY <1>1, KeyKept
  <2>2. "transport" \in Keys /\ "seed" \in Keys
    BY DEF Keys
  <2>3. \A r \in Outgoing : request[r] # NoRequest => SignedByFile(asSigned[r])'
    BY <1>1, <2>1, <2>2 DEF federationVars, OutgoingOK, SignedByFile, SigningString
  <2>4. OutgoingOK'
    BY <1>1, <2>3 DEF federationVars, OutgoingOK, Carried
  <2>5. VerifiedIfIntact'
    BY <1>1 DEF federationVars, VerifiedIfIntact, Intact, SigningString
  <2>6. LearnedFromFile'
    BY <1>1, <2>1, <2>2 DEF federationVars, LearnedFromFile, PublicKey
  <2> QED
    BY <2>4, <2>5, <2>6
<1>2. ASSUME NEW p \in Processes, Discover(p) PROVE FederationInv'
  <2>1. file["seed"] \in 1..made /\ held[p]["seed"] = file["seed"]
    BY <1>2 DEF Discover, Serving, IdentityInv, RunsOnFiles, Known
  <2>2. learned' = learned \cup {decodeMultikey(encodeMultikey(PublicKey(file["seed"])))}
    BY <1>2, <2>1 DEF Discover, Actor
  <2>3. LearnedFromFile'
    BY <1>2, <2>1, <2>2 DEF Discover, identityVars, LearnedFromFile, PublicKey
  <2> QED
    BY <1>2, <2>3 DEF Discover, identityVars, OutgoingOK, SignedByFile, Carried, SigningString,
                      VerifiedIfIntact, Intact
<1>3. ASSUME NEW p \in Processes, NEW q \in Outgoing, Send(p, q) PROVE FederationInv'
  <2>1. PICK shape \in {<<"GET", NoBody>>, <<"POST", "activity">>} :
          request' = [request EXCEPT ![q] = Signed(shape[1], shape[2], p)]
    BY <1>3 DEF Send
  <2>2. PICK s : s = Signed(shape[1], shape[2], p)
    OBVIOUS
  <2>3. SignedByFile(s) /\ Carried(s, s) /\ s # NoRequest
    BY <1>3, <2>2, SignedWithFile DEF Send
  <2>4. /\ request' = [request EXCEPT ![q] = s] /\ asSigned' = [asSigned EXCEPT ![q] = s]
        /\ verdict[q] = Pending /\ UNCHANGED <<verdict, file, made>>
    BY <1>3, <2>1, <2>2 DEF Send, identityVars, OutgoingOK
  <2>5. OutgoingOK'
    BY <2>3, <2>4 DEF OutgoingOK, SignedByFile, Carried, SigningString
  <2>6. VerifiedIfIntact'
    BY <2>4 DEF OutgoingOK, VerifiedIfIntact, Intact, SigningString, Pending
  <2> QED
    BY <1>3, <2>5, <2>6 DEF Send, identityVars, LearnedFromFile, PublicKey
<1>4. ASSUME NEW q \in Outgoing, Rewrite(q) PROVE FederationInv'
  <2>1. PICK req \in Rewritten(request[q]) : request' = [request EXCEPT ![q] = req]
    BY <1>4 DEF Rewrite
  <2>2. /\ Carried(request[q], asSigned[q]) /\ request[q] = asSigned[q] /\ SignedByFile(asSigned[q])
        /\ verdict[q] = Pending /\ UNCHANGED <<asSigned, verdict, file, made>>
    BY <1>4 DEF Rewrite, identityVars, OutgoingOK
  <2>3. Carried(req, asSigned[q]) /\ req # NoRequest
    BY <2>2, RewrittenCarried
  <2>4. OutgoingOK'
    BY <2>1, <2>2, <2>3 DEF OutgoingOK, SignedByFile, Carried, SigningString
  <2>5. VerifiedIfIntact'
    BY <2>1, <2>2 DEF OutgoingOK, VerifiedIfIntact, Intact, SigningString, Pending
  <2> QED
    BY <1>4, <2>4, <2>5 DEF Rewrite, identityVars, LearnedFromFile, PublicKey
<1>5. ASSUME NEW q \in Outgoing, Judge(q) PROVE FederationInv'
  <2>1. /\ UNCHANGED <<request, asSigned, learned, salt, file, made>>
        /\ SignedByFile(asSigned[q]) /\ Carried(request[q], asSigned[q])
    BY <1>5 DEF Judge, identityVars, OutgoingOK
  <2>2. \A p \in Serving : Actor(p).publicKey.publicKeyPem = file["transport"]
    BY DEF Serving, Actor, IdentityInv, RunsOnFiles, Known
  <2>3. PICK v \in {"verified", "invalid", "unresolved"} :
          /\ verdict' = [verdict EXCEPT ![q] = v]
          /\ v = "verified" => Verified(request[q], file["transport"])
          /\ v = "invalid" => ~Verified(request[q], file["transport"])
    BY <1>5, <2>2 DEF Judge
  <2>4. Verified(request[q], file["transport"]) <=> Intact(q)
    <3>1. PICK k : k = file["transport"]
      OBVIOUS
    <3> QED
      BY <2>1, <3>1, VerifiedIffIntact
  <2>5. VerifiedIfIntact'
    BY <2>1, <2>3, <2>4 DEF OutgoingOK, VerifiedIfIntact, Intact, SigningString
  <2>6. OutgoingOK'
    BY <1>5, <2>1, <2>3 DEF Judge, OutgoingOK, SignedByFile, Carried, SigningString
  <2> QED
    BY <2>1, <2>5, <2>6 DEF LearnedFromFile, PublicKey
<1>6. CASE UNCHANGED actorVars
  BY <1>1, <1>6 DEF actorVars
<1> QED
  BY <1>1, <1>2, <1>3, <1>4, <1>5, <1>6 DEF ANext

LEMMA FederationInvHolds ==
    ASSUME ~Overlap
    PROVE  ASpec => [](LTypeOK /\ IdentityInv /\ FederationInv)
<1>1. AInit => FederationInv
  BY DEF AInit, FederationInv, OutgoingOK, LearnedFromFile, VerifiedIfIntact, Pending
<1>2. LTypeOK /\ IdentityInv /\ FederationInv /\ [ANext]_actorVars => FederationInv'
  BY FederationInvStep
<1> QED
  BY <1>1, <1>2, IdentityImplemented, IdentityInvHolds, PTL DEF ASpec

\* A request the relay signed verifies at its receiver exactly if its target,
\* host, date, digest and body are as they were sent, through any stops and
\* starts of the relay that do not overlap (http-signature.js:46-138,
\* resolve.js:47-61, local-actor.js:40-45).
THEOREM VerifiedIfIntactCorrect ==
    ASSUME ~Overlap
    PROVE  ASpec => []VerifiedIfIntact
<1>1. FederationInv => VerifiedIfIntact
  BY DEF FederationInv
<1> QED
  BY <1>1, FederationInvHolds, PTL

\* The identity key other servers have read, at any time, is that of the seed
\* the relay runs on, for all keys that the Multikey string carries unchanged:
\* what encode and decode do is computed by recursion over the digits of a
\* number, and model-checked (multikey.js, base58.js, local-actor.js:33-39).
THEOREM LearnedIsServedCorrect ==
    ASSUME ~Overlap,
           \A raw \in RawKeys : decodeMultikey(encodeMultikey(raw)) = raw
    PROVE  ASpec => []LearnedIsServed
<1>1. LTypeOK /\ IdentityInv /\ FederationInv => LearnedIsServed
  <2> SUFFICES ASSUME LTypeOK, IdentityInv, FederationInv, NEW p \in Serving, NEW k \in learned
               PROVE  k = PublicKey(held[p]["seed"])
    BY DEF LearnedIsServed
  <2>1. file["seed"] \in 1..made /\ held[p]["seed"] = file["seed"]
    BY DEF Serving, IdentityInv, RunsOnFiles, Known
  <2>2. PublicKey(file["seed"]) \in RawKeys
    <3>1. ASSUME NEW i \in 1..KeyLen PROVE (salt[i] + file["seed"]) % ByteBase \in 0..ByteBase - 1
      <4>1. salt[i] \in Nat /\ file["seed"] \in Nat
        BY <2>1, MultikeyAssumption DEF FederationInv, LearnedFromFile, RawKeys, LTypeOK
      <4> QED
        BY <4>1, MultikeyAssumption
    <3> QED
      BY <3>1 DEF PublicKey, RawKeys
  <2> QED
    BY <2>1, <2>2 DEF FederationInv, LearnedFromFile
<1> QED
  BY <1>1, FederationInvHolds, PTL

-----------------------------------------------------------------------------
(* The tiers that are not persisted.                                           *)

\* What has expired is gone, the rest stays.
LEMMA PrunedIs ==
    ASSUME NEW S, NEW B \in Nat, NEW m \in [S -> 0..B], NEW now
    PROVE  /\ Pruned(m, now) \in [S -> 0..B]
           /\ \A x \in S : /\ m[x] > now => Pruned(m, now)[x] = m[x]
                           /\ Pruned(m, now)[x] = m[x] \/ Pruned(m, now)[x] = 0
                           /\ Pruned(m, now)[x] # 0 => m[x] > now
BY DEF Pruned

LEMMA PrunedAt ==
    ASSUME NEW m, NEW x \in DOMAIN m, NEW now
    PROVE  /\ m[x] > now => Pruned(m, now)[x] = m[x]
           /\ Pruned(m, now)[x] # 0 => m[x] > now
BY DEF Pruned

\* The clocks of calls and of what is put are not ahead.
ClocksOK ==
    /\ \A p \in Puts : call[p] \in Emitting => call[p].e \in MayEmit[p] /\ call[p].came <= clock
    /\ \A p \in Puts : call[p] \in Indexing => call[p].ts <= clock
    /\ \A e \in Events : emitted[e] <= clock
    /\ \A s \in Sessions : \A w \in since[s] : w.ts <= clock /\ w.ts + SessionTtl > clock

\* The kinds of calls are told apart by where they are.
LEMMA CallKinds ==
    ASSUME TTypeOK, NEW p \in Puts
    PROVE  /\ call[p] = Idle => call[p].at = "idle"
           /\ call[p].at \in {"mark", "emit"} <=> call[p] \in Emitting
           /\ call[p].at = "index" <=> call[p] \in Indexing
           /\ call[p] \in {Idle} \cup Emitting \cup Indexing
BY DEF TTypeOK, Idle, Emitting, Indexing

LEMMA TypesStep ==
    ASSUME TTypeOK, [TNext]_tierVars
    PROVE  TTypeOK'
<1> USE TiersAssumption
<1> DEFINE O == [Docs -> 0 .. MaxTime + SessionTtl]
           K == [Key -> 0 .. MaxTime + SessionTtl]
<1>0. /\ clock \in Nat /\ clock \in Times /\ MaxTime \in Nat /\ DedupTtl \in Nat /\ SessionTtl \in Nat
      /\ clock + DedupTtl \in 0 .. MaxTime + DedupTtl
      /\ clock + SessionTtl \in 0 .. MaxTime + SessionTtl
      /\ MaxTime + DedupTtl \in Nat /\ MaxTime + SessionTtl \in Nat
  BY DEF TTypeOK, Times
<1>1. CASE UNCHANGED tierVars
  BY <1>1 DEF tierVars, TTypeOK
<1>2. CASE Tick
  <2>1. dedup' \in [Events -> 0 .. MaxTime + DedupTtl]
    BY <1>0, <1>2, PrunedIs DEF Tick, TTypeOK
  <2>2. \A s \in Sessions : Pruned(objs[s], clock') \in O
    BY <1>0, PrunedIs DEF TTypeOK
  <2>3. \A s \in Sessions : Pruned(keys[s], clock') \in K
    BY <1>0, PrunedIs DEF TTypeOK
  <2>4. objs' \in [Sessions -> O] /\ keys' \in [Sessions -> K]
    BY <1>2, <2>2, <2>3 DEF Tick
  <2>5. since' \in [Sessions -> SUBSET [d : Docs, ts : Times, colls : SUBSET Colls]]
    BY <1>2 DEF Tick, TTypeOK
  <2>6. clock' \in Times /\ call' = call /\ emitted' = emitted
    BY <1>0, <1>2 DEF Tick, Times
  <2> QED
    BY <2>1, <2>4, <2>5, <2>6 DEF TTypeOK
<1>3. ASSUME NEW p \in Puts, NEW e \in Events, PutEphemeral(p, e) PROVE TTypeOK'
  <2>1. [at |-> "mark", e |-> e, came |-> clock, seen |-> dedup[e] # 0] \in Emitting
    BY <1>0 DEF Emitting
  <2> QED
    BY <1>3, <2>1 DEF PutEphemeral, TTypeOK
<1>4. ASSUME NEW p \in Puts, Mark(p) PROVE TTypeOK'
  <2>1. call[p] \in Emitting /\ [call[p] EXCEPT !.at = "emit"] \in Emitting
    BY <1>4, CallKinds DEF Mark, Emitting
  <2>2. call' = [call EXCEPT ![p] = [call[p] EXCEPT !.at = "emit"]]
    BY <1>4 DEF Mark, TTypeOK
  <2>3. call' \in [Puts -> {Idle} \cup Emitting \cup Indexing]
    BY <2>1, <2>2 DEF TTypeOK
  <2>4. dedup' \in [Events -> 0 .. MaxTime + DedupTtl]
    BY <1>0, <1>4 DEF Mark, TTypeOK
  <2> QED
    BY <1>4, <2>3, <2>4 DEF Mark, TTypeOK
<1>5. ASSUME NEW p \in Puts, EmitOnce(p) PROVE TTypeOK'
  <2>1. call[p] \in Emitting
    BY <1>5, CallKinds DEF EmitOnce
  <2>2. call[p].came \in 0 .. MaxTime
    BY <2>1 DEF Emitting, Times
  <2> QED
    BY <1>5, <2>1, <2>2 DEF EmitOnce, TTypeOK
<1>6. ASSUME NEW p \in Puts, NEW s \in Sessions, NEW d \in Docs, NEW cs \in SUBSET Colls,
             PutSession(p, s, d, cs)
      PROVE  TTypeOK'
  <2>1. /\ [at |-> "index", s |-> s, d |-> d, ts |-> clock, todo |-> cs] \in Indexing
        /\ [d |-> d, ts |-> clock, colls |-> cs] \in [d : Docs, ts : Times, colls : SUBSET Colls]
    BY <1>0 DEF Indexing
  <2>2. objs' \in [Sessions -> O]
    BY <1>0, <1>6 DEF PutSession, TTypeOK
  <2>3. /\ call' \in [Puts -> {Idle} \cup Emitting \cup Indexing]
        /\ since' \in [Sessions -> SUBSET [d : Docs, ts : Times, colls : SUBSET Colls]]
    BY <1>6, <2>1 DEF PutSession, TTypeOK
  <2> QED
    BY <1>6, <2>2, <2>3 DEF PutSession, TTypeOK
<1>7. ASSUME NEW p \in Puts, IndexSession(p) PROVE TTypeOK'
  <2>1. PICK c \in call[p].todo :
          /\ keys' = [keys EXCEPT ![call[p].s][<<c, call[p].ts, call[p].d>>] = clock + SessionTtl]
          /\ call' = [call EXCEPT ![p].todo = @ \ {c}]
    BY <1>7 DEF IndexSession
  <2>2. call[p] \in Indexing
    BY <1>7, CallKinds DEF IndexSession
  <2>3. call' = [call EXCEPT ![p] = [call[p] EXCEPT !.todo = call[p].todo \ {c}]]
    BY <2>1 DEF TTypeOK
  <2>4. [call[p] EXCEPT !.todo = call[p].todo \ {c}] \in Indexing
    BY <2>2 DEF Indexing
  <2>5. call' \in [Puts -> {Idle} \cup Emitting \cup Indexing]
    BY <2>3, <2>4 DEF TTypeOK
  <2>6. call[p].s \in Sessions /\ <<c, call[p].ts, call[p].d>> \in Key
    BY <2>1, <2>2 DEF Indexing, Key
  <2>7. keys' \in [Sessions -> K]
    BY <1>0, <2>1, <2>6 DEF TTypeOK
  <2> QED
    BY <1>7, <2>5, <2>7 DEF IndexSession, TTypeOK
<1>8. ASSUME NEW p \in Puts, EmitSession(p) PROVE TTypeOK'
  BY <1>8 DEF EmitSession, TTypeOK
<1>9. ASSUME NEW t \in Sessions, EndSession(t) PROVE TTypeOK'
  <2>1. [x \in DOMAIN objs[t] |-> 0] \in O /\ [x \in DOMAIN keys[t] |-> 0] \in K
    BY <1>0 DEF TTypeOK
  <2>2. objs' \in [Sessions -> O] /\ keys' \in [Sessions -> K]
    BY <1>9, <2>1 DEF EndSession, Cleared, TTypeOK
  <2> QED
    BY <1>9, <2>2 DEF EndSession, TTypeOK
<1> QED
  BY <1>1, <1>2, <1>3, <1>4, <1>5, <1>6, <1>7, <1>8, <1>9 DEF TNext

LEMMA TypesInit == TInit => TTypeOK
BY TiersAssumption DEF TInit, TTypeOK, Times, Never, Key

\* A step is an action of the tiers or leaves them alone.
LEMMA TierSteps ==
    ASSUME [TNext]_tierVars
    PROVE  \/ UNCHANGED tierVars
           \/ Tick
           \/ \E p \in Puts, e \in Events : PutEphemeral(p, e)
           \/ \E p \in Puts : Mark(p) \/ EmitOnce(p)
           \/ \E p \in Puts, s \in Sessions, d \in Docs, cs \in SUBSET Colls : PutSession(p, s, d, cs)
           \/ \E p \in Puts : IndexSession(p) \/ EmitSession(p)
           \/ \E s \in Sessions : EndSession(s)
BY DEF TNext

\* What is kept of an object was put since the session was last ended, and is
\* gone when its ttl is over.
ObjsBegun ==
    \A s \in Sessions, d \in Docs :
        objs[s][d] # 0 =>
            /\ objs[s][d] > clock
            /\ \E w \in since[s] : w.d = d /\ w.ts + SessionTtl = objs[s][d]

\* p has still to list d under c, in s, by its timestamp ts.
WillList(p, s, d, ts, c) ==
    call[p] \in Indexing /\ call[p].s = s /\ call[p].d = d /\ call[p].ts = ts /\ c \in call[p].todo

\* Every put since the end of a session is kept, and listed or to be listed, for
\* as long as its ttl.
Listed ==
    \A s \in Sessions : \A w \in since[s] :
        /\ objs[s][w.d] >= w.ts + SessionTtl
        /\ \A c \in w.colls :
            \/ \E p \in Puts : WillList(p, s, w.d, w.ts, c)
            \/ keys[s][<<c, w.ts, w.d>>] >= w.ts + SessionTtl

LEMMA ClocksStep ==
    ASSUME TTypeOK, ClocksOK, [TNext]_tierVars
    PROVE  ClocksOK'
<1> USE TiersAssumption
<1>0. /\ clock \in Nat /\ SessionTtl \in Nat /\ MaxTime \in Nat
      /\ \A p \in Puts : call[p] \in Emitting => call[p].came \in Nat
      /\ \A p \in Puts : call[p] \in Indexing => call[p].ts \in Nat
      /\ \A e \in Events : emitted[e] \in Nat
      /\ \A s \in Sessions : \A w \in since[s] : w.ts \in Nat
  BY DEF TTypeOK, Times, Emitting, Indexing
<1>1. CASE UNCHANGED tierVars
  BY <1>1 DEF tierVars, ClocksOK
<1>2. CASE Tick
  BY <1>0, <1>2 DEF Tick, ClocksOK
<1>3. ASSUME NEW p \in Puts, NEW e \in Events, PutEphemeral(p, e) PROVE ClocksOK'
  <2> DEFINE new == [at |-> "mark", e |-> e, came |-> clock, seen |-> dedup[e] # 0]
  <2>1. /\ \A q \in Puts : call'[q] = IF q = p THEN new ELSE call[q]
        /\ e \in MayEmit[p] /\ UNCHANGED <<clock, emitted, since>>
    BY <1>3 DEF PutEphemeral, TTypeOK
  <2>2. new.at # "index" /\ new.e = e /\ new.came = clock
    OBVIOUS
  <2>3. new \notin Indexing
    BY DEF Indexing
  <2> HIDE DEF new
  <2> QED
    BY <1>0, <2>1, <2>2, <2>3 DEF ClocksOK
<1>4. ASSUME NEW p \in Puts, Mark(p) PROVE ClocksOK'
  <2>1. call[p] \in Emitting
    BY <1>4, CallKinds DEF Mark
  <2>2. PICK new : new = [call[p] EXCEPT !.at = "emit"]
    OBVIOUS
  <2>3. /\ \A q \in Puts : call'[q] = IF q = p THEN new ELSE call[q]
        /\ UNCHANGED <<clock, emitted, since>>
    BY <1>4, <2>2 DEF Mark, TTypeOK
  <2>4. new \notin Indexing /\ new.e = call[p].e /\ new.came = call[p].came
    BY <2>1, <2>2 DEF Emitting, Indexing
  <2> QED
    BY <2>1, <2>3, <2>4 DEF ClocksOK
<1>5. ASSUME NEW p \in Puts, EmitOnce(p) PROVE ClocksOK'
  <2>1. call[p] \in Emitting
    BY <1>5, CallKinds DEF EmitOnce
  <2>2. /\ \A q \in Puts : call'[q] = IF q = p THEN Idle ELSE call[q]
        /\ UNCHANGED <<clock, since>>
        /\ \A e \in Events : emitted'[e] = emitted[e] \/ emitted'[e] = call[p].came
    BY <1>5 DEF EmitOnce, TTypeOK
  <2>3. Idle \notin Emitting /\ Idle \notin Indexing
    BY DEF Idle, Emitting, Indexing
  <2> QED
    BY <2>1, <2>2, <2>3 DEF ClocksOK
<1>6. ASSUME NEW p \in Puts, NEW s \in Sessions, NEW d \in Docs, NEW cs \in SUBSET Colls,
             PutSession(p, s, d, cs)
      PROVE  ClocksOK'
  <2> DEFINE new == [at |-> "index", s |-> s, d |-> d, ts |-> clock, todo |-> cs]
             put == [d |-> d, ts |-> clock, colls |-> cs]
  <2>1. /\ \A q \in Puts : call'[q] = IF q = p THEN new ELSE call[q]
        /\ \A t \in Sessions : \A w \in since'[t] : w \in since[t] \/ w = put
        /\ UNCHANGED <<clock, emitted>>
    BY <1>6 DEF PutSession, TTypeOK
  <2>2. new.ts = clock /\ put.ts = clock /\ new \notin Emitting
    BY DEF Emitting
  <2> HIDE DEF new, put
  <2> QED
    BY <1>0, <2>1, <2>2 DEF ClocksOK
<1>7. ASSUME NEW p \in Puts, IndexSession(p) PROVE ClocksOK'
  <2>1. call[p] \in Indexing
    BY <1>7, CallKinds DEF IndexSession
  <2>2. PICK c : call' = [call EXCEPT ![p].todo = @ \ {c}]
    BY <1>7 DEF IndexSession
  <2>3. PICK new : new = [call[p] EXCEPT !.todo = call[p].todo \ {c}]
    OBVIOUS
  <2>4. /\ \A q \in Puts : call'[q] = IF q = p THEN new ELSE call[q]
        /\ UNCHANGED <<clock, emitted, since>>
    BY <1>7, <2>2, <2>3 DEF IndexSession, TTypeOK
  <2>5. new \notin Emitting /\ new.ts = call[p].ts
    BY <2>1, <2>3 DEF Emitting, Indexing
  <2> QED
    BY <2>1, <2>4, <2>5 DEF ClocksOK
<1>8. ASSUME NEW p \in Puts, EmitSession(p) PROVE ClocksOK'
  <2>1. /\ \A q \in Puts : call'[q] = IF q = p THEN Idle ELSE call[q]
        /\ UNCHANGED <<clock, emitted, since>>
    BY <1>8 DEF EmitSession, TTypeOK
  <2>2. Idle \notin Emitting /\ Idle \notin Indexing
    BY DEF Idle, Emitting, Indexing
  <2> QED
    BY <2>1, <2>2 DEF ClocksOK
<1>9. ASSUME NEW t \in Sessions, EndSession(t) PROVE ClocksOK'
  <2>1. /\ \A s \in Sessions : since'[s] \subseteq since[s]
        /\ UNCHANGED <<clock, call, emitted>>
    BY <1>9 DEF EndSession, TTypeOK
  <2> QED
    BY <2>1 DEF ClocksOK
<1> QED
  BY TierSteps, <1>1, <1>2, <1>3, <1>4, <1>5, <1>6, <1>7, <1>8, <1>9

LEMMA ObjsStep ==
    ASSUME TTypeOK, ObjsBegun, [TNext]_tierVars
    PROVE  ObjsBegun'
<1> USE TiersAssumption
<1>0. clock \in Nat /\ SessionTtl \in Nat \ {0} /\ MaxTime + SessionTtl \in Nat
  BY DEF TTypeOK, Times
<1>1. ASSUME UNCHANGED <<clock, objs, since>> PROVE ObjsBegun'
  BY <1>1 DEF ObjsBegun
<1>2. CASE Tick
  <2> SUFFICES ASSUME NEW s \in Sessions, NEW d \in Docs, objs'[s][d] # 0
               PROVE  /\ objs'[s][d] > clock'
                      /\ \E w \in since'[s] : w.d = d /\ w.ts + SessionTtl = objs'[s][d]
    BY DEF ObjsBegun
  <2>1. objs'[s] = Pruned(objs[s], clock') /\ objs[s] \in [Docs -> 0 .. MaxTime + SessionTtl]
    BY <1>2 DEF Tick, TTypeOK
  <2>2. objs'[s][d] = objs[s][d] /\ objs[s][d] > clock'
    <3>1. /\ Pruned(objs[s], clock')[d] # 0 => objs[s][d] > clock'
          /\ objs[s][d] > clock' => Pruned(objs[s], clock')[d] = objs[s][d]
      BY <2>1, PrunedAt
    <3> QED
      BY <2>1, <3>1
  <2>3. PICK w \in since[s] : w.d = d /\ w.ts + SessionTtl = objs[s][d]
    BY <2>2 DEF ObjsBegun
  <2>4. w \in since'[s]
    BY <1>2, <2>2, <2>3 DEF Tick
  <2> QED
    BY <2>2, <2>3, <2>4
<1>3. ASSUME NEW p \in Puts, NEW s \in Sessions, NEW d \in Docs, NEW cs \in SUBSET Colls,
             PutSession(p, s, d, cs)
      PROVE  ObjsBegun'
  <2> DEFINE put == [d |-> d, ts |-> clock, colls |-> cs]
  <2>1. /\ put.d = d /\ put.ts = clock /\ put \in since'[s]
        /\ \A t \in Sessions : since[t] \subseteq since'[t]
        /\ clock' = clock
        /\ \A t \in Sessions, x \in Docs :
              objs'[t][x] = IF t = s /\ x = d THEN clock + SessionTtl ELSE objs[t][x]
    BY <1>3 DEF PutSession, TTypeOK
  <2> HIDE DEF put
  <2>2. clock + SessionTtl > clock
    BY <1>0
  <2> SUFFICES ASSUME NEW t \in Sessions, NEW x \in Docs, objs'[t][x] # 0
               PROVE  /\ objs'[t][x] > clock
                      /\ \E w \in since'[t] : w.d = x /\ w.ts + SessionTtl = objs'[t][x]
    BY <2>1 DEF ObjsBegun
  <2>3. CASE t = s /\ x = d
    BY <2>1, <2>2, <2>3
  <2>4. CASE ~(t = s /\ x = d)
    BY <2>1, <2>4 DEF ObjsBegun
  <2> QED
    BY <2>3, <2>4
<1>4. ASSUME NEW t \in Sessions, EndSession(t) PROVE ObjsBegun'
  <2>1. /\ clock' = clock
        /\ \A s \in Sessions, d \in Docs : objs'[s][d] = IF s = t THEN 0 ELSE objs[s][d]
        /\ \A s \in Sessions : s # t => since'[s] = since[s]
    BY <1>4 DEF EndSession, Cleared, TTypeOK
  <2> QED
    BY <2>1 DEF ObjsBegun
<1> QED
  BY TierSteps, <1>1, <1>2, <1>3, <1>4
     DEF tierVars, PutEphemeral, Mark, EmitOnce, IndexSession, EmitSession

LEMMA ListedStep ==
    ASSUME TTypeOK, ClocksOK, Listed, [TNext]_tierVars
    PROVE  Listed'
<1> USE TiersAssumption
<1>0. /\ clock \in Nat /\ SessionTtl \in Nat \ {0} /\ MaxTime + SessionTtl \in Nat
      /\ \A s \in Sessions : \A w \in since[s] :
            w.d \in Docs /\ w.ts \in Nat /\ w.ts \in Times /\ w.colls \subseteq Colls
      /\ \A s \in Sessions, d \in Docs : objs[s][d] \in Nat
      /\ \A s \in Sessions, k \in Key : keys[s][k] \in Nat
      /\ \A s \in Sessions : \A w \in since[s] : \A c \in w.colls : <<c, w.ts, w.d>> \in Key
  BY DEF TTypeOK, Times, Key
<1>1. ASSUME UNCHANGED <<objs, keys, since>>,
             \A p \in Puts : \A s, d, ts, c : WillList(p, s, d, ts, c) => WillList(p, s, d, ts, c)'
      PROVE  Listed'
  BY <1>1 DEF Listed
<1>2. CASE UNCHANGED tierVars
  BY <1>1, <1>2 DEF tierVars, WillList
<1>3. CASE Tick
  <2> SUFFICES ASSUME NEW s \in Sessions, NEW w \in since'[s]
               PROVE  /\ objs'[s][w.d] >= w.ts + SessionTtl
                      /\ \A c \in w.colls :
                          \/ \E p \in Puts : WillList(p, s, w.d, w.ts, c)'
                          \/ keys'[s][<<c, w.ts, w.d>>] >= w.ts + SessionTtl
    BY DEF Listed
  <2>1. w \in since[s] /\ w.ts + SessionTtl > clock' /\ clock' \in Nat
    BY <1>0, <1>3 DEF Tick, TTypeOK
  <2>2. /\ objs'[s] = Pruned(objs[s], clock') /\ keys'[s] = Pruned(keys[s], clock')
        /\ objs[s] \in [Docs -> 0 .. MaxTime + SessionTtl]
        /\ keys[s] \in [Key -> 0 .. MaxTime + SessionTtl]
    BY <1>3 DEF Tick, TTypeOK
  <2>3. objs'[s][w.d] >= w.ts + SessionTtl
    <3>1. objs[s][w.d] > clock' => Pruned(objs[s], clock')[w.d] = objs[s][w.d]
      BY <1>0, <2>1, <2>2, PrunedAt
    <3>2. objs[s][w.d] >= w.ts + SessionTtl
      BY <2>1 DEF Listed
    <3> QED
      BY <1>0, <2>1, <2>2, <3>1, <3>2
  <2>4. ASSUME NEW c \in w.colls, ~(\E p \in Puts : WillList(p, s, w.d, w.ts, c)')
        PROVE  keys'[s][<<c, w.ts, w.d>>] >= w.ts + SessionTtl
    <3>1. \A p \in Puts : WillList(p, s, w.d, w.ts, c)' <=> WillList(p, s, w.d, w.ts, c)
      BY <1>3 DEF Tick, WillList
    <3>2. keys[s][<<c, w.ts, w.d>>] >= w.ts + SessionTtl
      BY <2>1, <2>4, <3>1 DEF Listed
    <3>3. PICK k \in Key : k = <<c, w.ts, w.d>>
      BY <1>0, <2>1
    <3>4. keys[s][k] > clock' => Pruned(keys[s], clock')[k] = keys[s][k]
      BY <2>2, PrunedAt
    <3> QED
      BY <1>0, <2>1, <2>2, <3>2, <3>3, <3>4
  <2> QED
    BY <2>3, <2>4
<1>4. ASSUME NEW p \in Puts, NEW e \in Events, PutEphemeral(p, e) PROVE Listed'
  <2>1. UNCHANGED <<objs, keys, since>> /\ call[p] \notin Indexing
    BY <1>4, CallKinds DEF PutEphemeral, Idle, Indexing
  <2>2. \A q \in Puts : q # p => call'[q] = call[q]
    BY <1>4 DEF PutEphemeral, TTypeOK
  <2> QED
    BY <1>1, <2>1, <2>2 DEF WillList
<1>5. ASSUME NEW p \in Puts, Mark(p) \/ EmitOnce(p) PROVE Listed'
  <2>1. UNCHANGED <<objs, keys, since>> /\ call[p] \notin Indexing
    BY <1>5, CallKinds DEF Mark, EmitOnce, Indexing
  <2>2. \A q \in Puts : q # p => call'[q] = call[q]
    BY <1>5 DEF Mark, EmitOnce, TTypeOK
  <2> QED
    BY <1>1, <2>1, <2>2 DEF WillList
<1>6. ASSUME NEW p \in Puts, NEW s \in Sessions, NEW d \in Docs, NEW cs \in SUBSET Colls,
             PutSession(p, s, d, cs)
      PROVE  Listed'
  <2>1. PICK new : new = [at |-> "index", s |-> s, d |-> d, ts |-> clock, todo |-> cs]
    OBVIOUS
  <2>2. PICK put : put = [d |-> d, ts |-> clock, colls |-> cs]
    OBVIOUS
  <2>3. new \in Indexing /\ new.s = s /\ new.d = d /\ new.ts = clock /\ new.todo = cs
    BY <2>1 DEF Indexing, TTypeOK
  <2>4. put.d = d /\ put.ts = clock /\ put.colls = cs
    BY <2>2
  <2>5. /\ call[p] \notin Indexing
        /\ call'[p] = new /\ \A q \in Puts : q # p => call'[q] = call[q]
        /\ keys' = keys
        /\ \A t \in Sessions : \A w \in since'[t] : w \in since[t] \/ (t = s /\ w = put)
        /\ \A t \in Sessions, x \in Docs :
              objs'[t][x] = IF t = s /\ x = d THEN clock + SessionTtl ELSE objs[t][x]
    <3>1. call[p] \notin Indexing
      BY <1>6 DEF PutSession, Idle, Indexing
    <3>2. /\ call' = [call EXCEPT ![p] = new]
          /\ since' = [since EXCEPT ![s] = @ \cup {put}]
          /\ objs' = [objs EXCEPT ![s][d] = clock + SessionTtl]
          /\ keys' = keys
      BY <1>6, <2>1, <2>2 DEF PutSession
    <3>3. call'[p] = new /\ \A q \in Puts : q # p => call'[q] = call[q]
      BY <3>2 DEF TTypeOK
    <3>4. \A t \in Sessions : \A w \in since'[t] : w \in since[t] \/ (t = s /\ w = put)
      <4>1. since'[s] = since[s] \cup {put}
        BY <3>2 DEF TTypeOK
      <4>2. ASSUME NEW t \in Sessions, t # s PROVE since'[t] = since[t]
        BY <3>2, <4>2 DEF TTypeOK
      <4> QED
        BY <4>1, <4>2
    <3>5. \A t \in Sessions, x \in Docs :
              objs'[t][x] = IF t = s /\ x = d THEN clock + SessionTtl ELSE objs[t][x]
      BY <3>2 DEF TTypeOK
    <3> QED
      BY <3>1, <3>2, <3>3, <3>4, <3>5
  <2>6. \A q \in Puts : \A t, x, ts, c : WillList(q, t, x, ts, c) => WillList(q, t, x, ts, c)'
    BY <2>5 DEF WillList
  <2>7. \A ts, c : ts = clock /\ c \in cs => WillList(p, s, d, ts, c)'
    BY <2>3, <2>5 DEF WillList
  <2> SUFFICES ASSUME NEW t \in Sessions, NEW w \in since'[t]
               PROVE  /\ objs'[t][w.d] >= w.ts + SessionTtl
                      /\ \A c \in w.colls :
                          \/ \E q \in Puts : WillList(q, t, w.d, w.ts, c)'
                          \/ keys'[t][<<c, w.ts, w.d>>] >= w.ts + SessionTtl
    BY DEF Listed
  <2>8. CASE w \in since[t]
    <3>1. objs[t][w.d] >= w.ts + SessionTtl /\ w.ts <= clock
      BY <2>8 DEF Listed, ClocksOK
    <3>2. objs'[t][w.d] >= w.ts + SessionTtl
      BY <1>0, <2>5, <2>8, <3>1
    <3>3. ASSUME NEW c \in w.colls
          PROVE  \/ \E q \in Puts : WillList(q, t, w.d, w.ts, c)'
                 \/ keys'[t][<<c, w.ts, w.d>>] >= w.ts + SessionTtl
      BY <2>5, <2>6, <2>8 DEF Listed
    <3> QED
      BY <3>2, <3>3
  <2>9. CASE t = s /\ w = put
    <3>1. w.d = d /\ w.ts = clock /\ w.colls = cs /\ objs'[s][d] = clock + SessionTtl
      BY <2>4, <2>5, <2>9
    <3>2. ASSUME NEW c \in w.colls PROVE \E q \in Puts : WillList(q, t, w.d, w.ts, c)'
      <4>1. WillList(p, t, w.d, w.ts, c)'
        BY <2>7, <2>9, <3>1
      <4> QED
        BY <4>1
    <3> QED
      BY <1>0, <2>9, <3>1, <3>2
  <2> QED
    BY <2>5, <2>8, <2>9
<1>7. ASSUME NEW p \in Puts, IndexSession(p) PROVE Listed'
  <2>1. call[p] \in Indexing
    BY <1>7, CallKinds DEF IndexSession
  <2>2. PICK c \in call[p].todo :
          /\ keys' = [keys EXCEPT ![call[p].s][<<c, call[p].ts, call[p].d>>] = clock + SessionTtl]
          /\ call' = [call EXCEPT ![p].todo = @ \ {c}]
    BY <1>7 DEF IndexSession
  <2>3. PICK old : old = call[p]
    OBVIOUS
  <2>4. PICK k \in Key : k = <<c, old.ts, old.d>>
    BY <2>1, <2>2, <2>3 DEF Indexing, Key
  <2>5. PICK new : new = [old EXCEPT !.todo = old.todo \ {c}]
    OBVIOUS
  <2>6. /\ new \in Indexing /\ new.s = old.s /\ new.d = old.d /\ new.ts = old.ts
        /\ new.todo = old.todo \ {c} /\ old.s \in Sessions /\ old.ts <= clock /\ old.ts \in Nat
    BY <2>1, <2>3, <2>5 DEF Indexing, ClocksOK, Times
  <2>7. /\ call'[p] = new /\ \A q \in Puts : q # p => call'[q] = call[q]
        /\ UNCHANGED <<objs, since>>
        /\ \A t \in Sessions, j \in Key :
              keys'[t][j] = IF t = old.s /\ j = k THEN clock + SessionTtl ELSE keys[t][j]
    BY <1>7, <2>2, <2>3, <2>4, <2>5 DEF IndexSession, TTypeOK
  <2> SUFFICES ASSUME NEW s \in Sessions, NEW w \in since[s], NEW b \in w.colls
               PROVE  \/ \E q \in Puts : WillList(q, s, w.d, w.ts, b)'
                      \/ keys'[s][<<b, w.ts, w.d>>] >= w.ts + SessionTtl
    BY <2>7 DEF Listed
  <2>8. PICK j \in Key : j = <<b, w.ts, w.d>>
    BY <1>0
  <2>9. CASE keys[s][j] >= w.ts + SessionTtl
    <3>1. w.ts <= clock
      BY DEF ClocksOK
    <3>2. keys'[s][j] >= w.ts + SessionTtl
      BY <1>0, <2>7, <2>9, <3>1
    <3> QED
      BY <2>8, <3>2
  <2>10. ASSUME NEW q \in Puts, WillList(q, s, w.d, w.ts, b)
         PROVE  \/ \E r \in Puts : WillList(r, s, w.d, w.ts, b)'
                \/ keys'[s][<<b, w.ts, w.d>>] >= w.ts + SessionTtl
    <3>1. CASE q # p
      <4>1. WillList(q, s, w.d, w.ts, b)'
        BY <2>7, <2>10, <3>1 DEF WillList
      <4> QED
        BY <4>1
    <3>2. CASE q = p /\ b # c
      <4>1. WillList(p, s, w.d, w.ts, b)'
        BY <2>3, <2>6, <2>7, <2>10, <3>2 DEF WillList
      <4> QED
        BY <4>1
    <3>3. CASE q = p /\ b = c
      <4>1. old.s = s /\ old.d = w.d /\ old.ts = w.ts
        BY <2>3, <2>10, <3>3 DEF WillList
      <4>2. j = k
        BY <2>4, <2>8, <3>3, <4>1
      <4>3. keys'[s][j] = clock + SessionTtl
        BY <2>7, <4>1, <4>2
      <4>4. keys'[s][j] >= w.ts + SessionTtl
        BY <1>0, <2>6, <4>1, <4>3
      <4> QED
        BY <2>8, <4>4
    <3> QED
      BY <3>1, <3>2, <3>3
  <2> QED
    BY <2>8, <2>9, <2>10 DEF Listed
<1>8. ASSUME NEW p \in Puts, EmitSession(p) PROVE Listed'
  <2>1. UNCHANGED <<objs, keys, since>> /\ call[p].todo = {}
    BY <1>8 DEF EmitSession
  <2>2. \A q \in Puts : q # p => call'[q] = call[q]
    BY <1>8 DEF EmitSession, TTypeOK
  <2> QED
    BY <1>1, <2>1, <2>2 DEF WillList
<1>9. ASSUME NEW t \in Sessions, EndSession(t) PROVE Listed'
  <2>1. \A s \in Sessions : s # t => objs'[s] = objs[s] /\ keys'[s] = keys[s] /\ since'[s] = since[s]
    BY <1>9 DEF EndSession, Cleared, TTypeOK
  <2>2. since'[t] = {}
    BY <1>9 DEF EndSession, TTypeOK
  <2>3. \A q \in Puts : \A s, x, ts, c : WillList(q, s, x, ts, c)' <=> WillList(q, s, x, ts, c)
    BY <1>9 DEF EndSession, WillList
  <2> QED
    BY <2>1, <2>2, <2>3 DEF Listed
<1> QED
  BY TierSteps, <1>2, <1>3, <1>4, <1>5, <1>6, <1>7, <1>8, <1>9

\* An id is put through one slot at a time.
RoutesApart == \A p, q \in Puts : p # q => MayEmit[p] \cap MayEmit[q] = {}

\* While the window of the put that emitted last is not over, the dedup knows
\* the id; so a call that has not seen it comes at least the window later, and
\* once its mark is set the window it opens is known as well.
Deduped ==
    /\ \A e \in Events :
        \/ emitted[e] = Never
        \/ emitted[e] + DedupTtl <= clock
        \/ dedup[e] >= emitted[e] + DedupTtl
    /\ \A p \in Puts : call[p] \in Emitting /\ ~call[p].seen =>
        LET e == call[p].e  came == call[p].came IN
        /\ emitted[e] = Never \/ emitted[e] + DedupTtl <= came
        /\ call[p].at = "emit" => came + DedupTtl <= clock \/ dedup[e] >= came + DedupTtl

LEMMA DedupedStep ==
    ASSUME TTypeOK, ClocksOK, Deduped, RoutesApart, [TNext]_tierVars
    PROVE  Deduped'
<1> USE TiersAssumption
<1>0. /\ clock \in Nat /\ DedupTtl \in Nat \ {0} /\ MaxTime + DedupTtl \in Nat
      /\ \A e \in Events : emitted[e] \in Nat /\ dedup[e] \in Nat
      /\ \A p \in Puts : call[p] \in Emitting =>
            call[p].e \in Events /\ call[p].came \in Nat /\ call[p].came <= clock
      /\ \A p \in Puts : call[p] \in Emitting => call[p].e \in MayEmit[p]
  BY DEF TTypeOK, ClocksOK, Times, Emitting
<1>1. CASE UNCHANGED tierVars
  BY <1>1 DEF tierVars, Deduped
<1>2. CASE Tick
  <2>1. clock' \in Nat /\ clock' > clock /\ UNCHANGED <<call, emitted>>
    BY <1>0, <1>2 DEF Tick
  <2>2. \A e \in Events : dedup[e] > clock' => dedup'[e] = dedup[e]
    <3>1. dedup' = Pruned(dedup, clock') /\ DOMAIN dedup = Events
      BY <1>2 DEF Tick, TTypeOK
    <3> QED
      BY <3>1, PrunedAt
  <2>3. ASSUME NEW e \in Events, NEW t \in Nat, dedup[e] >= t + DedupTtl, ~(t + DedupTtl <= clock')
        PROVE  dedup'[e] >= t + DedupTtl
    BY <1>0, <2>1, <2>2, <2>3
  <2>4. ASSUME NEW e \in Events
        PROVE  \/ emitted[e] = Never
               \/ emitted[e] + DedupTtl <= clock'
               \/ dedup'[e] >= emitted[e] + DedupTtl
    <3>1. \/ emitted[e] = Never
          \/ emitted[e] + DedupTtl <= clock
          \/ dedup[e] >= emitted[e] + DedupTtl
      BY DEF Deduped
    <3> QED
      BY <1>0, <2>1, <2>3, <3>1
  <2>5. ASSUME NEW p \in Puts, call[p] \in Emitting, ~call[p].seen
        PROVE  /\ emitted[call[p].e] = Never \/ emitted[call[p].e] + DedupTtl <= call[p].came
               /\ call[p].at = "emit" => \/ call[p].came + DedupTtl <= clock'
                                         \/ dedup'[call[p].e] >= call[p].came + DedupTtl
    <3>1. /\ emitted[call[p].e] = Never \/ emitted[call[p].e] + DedupTtl <= call[p].came
          /\ call[p].at = "emit" => \/ call[p].came + DedupTtl <= clock
                                    \/ dedup[call[p].e] >= call[p].came + DedupTtl
      BY <2>5 DEF Deduped
    <3>2. call[p].e \in Events /\ call[p].came \in Nat
      BY <1>0, <2>5
    <3>3. call[p].came + DedupTtl <= clock => call[p].came + DedupTtl <= clock'
      BY <1>0, <2>1, <3>2
    <3> QED
      BY <2>3, <3>1, <3>2, <3>3
  <2> QED
    BY <2>1, <2>4, <2>5 DEF Deduped
<1>3. ASSUME NEW p \in Puts, NEW e \in Events, PutEphemeral(p, e) PROVE Deduped'
  <2>1. PICK new : new = [at |-> "mark", e |-> e, came |-> clock, seen |-> dedup[e] # 0]
    OBVIOUS
  <2>2. new.at # "emit" /\ new.e = e /\ new.came = clock /\ (new.seen <=> dedup[e] # 0)
    BY <2>1
  <2>3. /\ \A q \in Puts : call'[q] = IF q = p THEN new ELSE call[q]
        /\ UNCHANGED <<clock, dedup, emitted>>
    BY <1>3, <2>1 DEF PutEphemeral, TTypeOK
  <2>4. ~new.seen => emitted[e] = Never \/ emitted[e] + DedupTtl <= clock
    BY <1>0, <2>2 DEF Deduped, Never
  <2> QED
    BY <2>2, <2>3, <2>4 DEF Deduped
<1>4. ASSUME NEW p \in Puts, Mark(p) PROVE Deduped'
  <2>1. call[p] \in Emitting
    BY <1>4, CallKinds DEF Mark
  <2>2. PICK old : old = call[p]
    OBVIOUS
  <2>3. PICK new : new = [old EXCEPT !.at = "emit"]
    OBVIOUS
  <2>4. new.e = old.e /\ new.came = old.came /\ new.seen = old.seen
    BY <2>1, <2>2, <2>3 DEF Emitting
  <2>5. /\ \A q \in Puts : call'[q] = IF q = p THEN new ELSE call[q]
        /\ UNCHANGED <<clock, emitted>>
        /\ \A e \in Events : dedup'[e] = IF e = old.e THEN clock + DedupTtl ELSE dedup[e]
    BY <1>4, <2>2, <2>3 DEF Mark, TTypeOK
  <2>6. \A e \in Events, t \in Nat : t <= clock /\ dedup[e] >= t + DedupTtl => dedup'[e] >= t + DedupTtl
    BY <1>0, <2>5
  <2>7. ASSUME NEW e \in Events
        PROVE  \/ emitted[e] = Never
               \/ emitted[e] + DedupTtl <= clock
               \/ dedup'[e] >= emitted[e] + DedupTtl
    BY <1>0, <2>6 DEF Deduped, ClocksOK
  <2>8. ASSUME NEW q \in Puts, call'[q] \in Emitting, ~call'[q].seen
        PROVE  /\ emitted[call'[q].e] = Never \/ emitted[call'[q].e] + DedupTtl <= call'[q].came
               /\ call'[q].at = "emit" => \/ call'[q].came + DedupTtl <= clock
                                          \/ dedup'[call'[q].e] >= call'[q].came + DedupTtl
    <3>1. CASE q # p
      BY <1>0, <2>5, <2>6, <2>8, <3>1 DEF Deduped
    <3>2. CASE q = p
      <4>1. emitted[old.e] = Never \/ emitted[old.e] + DedupTtl <= old.came
        BY <2>1, <2>2, <2>4, <2>5, <2>8, <3>2 DEF Deduped
      <4>2. old.e \in Events /\ old.came \in Nat /\ old.came <= clock
        BY <1>0, <2>1, <2>2
      <4>3. dedup'[old.e] >= old.came + DedupTtl
        BY <1>0, <2>5, <4>2
      <4> QED
        BY <2>4, <2>5, <3>2, <4>1, <4>3
    <3> QED
      BY <3>1, <3>2
  <2> QED
    BY <2>5, <2>7, <2>8 DEF Deduped
<1>5. ASSUME NEW p \in Puts, EmitOnce(p) PROVE Deduped'
  <2>1. call[p] \in Emitting
    BY <1>5, CallKinds DEF EmitOnce
  <2>2. PICK old : old = call[p]
    OBVIOUS
  <2>3. /\ call'[p] = Idle /\ \A q \in Puts : q # p => call'[q] = call[q]
        /\ UNCHANGED <<clock, dedup>>
        /\ \A e \in Events : emitted'[e] = IF ~old.seen /\ e = old.e THEN old.came ELSE emitted[e]
    BY <1>5, <2>2 DEF EmitOnce, TTypeOK
  <2>4. ASSUME NEW e \in Events
        PROVE  \/ emitted'[e] = Never
               \/ emitted'[e] + DedupTtl <= clock
               \/ dedup[e] >= emitted'[e] + DedupTtl
    <3>1. old.at = "emit"
      BY <1>5, <2>2 DEF EmitOnce
    <3> QED
      BY <2>1, <2>2, <2>3, <3>1 DEF Deduped
  <2>5. ASSUME NEW q \in Puts, call'[q] \in Emitting, ~call'[q].seen
        PROVE  /\ call'[q] = call[q] /\ call[q].e \in Events
               /\ emitted'[call[q].e] = emitted[call[q].e]
    <3>1. q # p
      BY <2>3, <2>5 DEF Idle, Emitting
    <3>2. call[q].e # old.e
      BY <1>0, <2>1, <2>2, <2>3, <2>5, <3>1 DEF RoutesApart
    <3> QED
      BY <1>0, <2>3, <2>5, <3>1, <3>2
  <2> QED
    BY <2>3, <2>4, <2>5 DEF Deduped
<1>6. ASSUME NEW p \in Puts, NEW s \in Sessions, NEW d \in Docs, NEW cs \in SUBSET Colls,
             PutSession(p, s, d, cs)
      PROVE  Deduped'
  <2>1. /\ call'[p] \notin Emitting /\ \A q \in Puts : q # p => call'[q] = call[q]
        /\ UNCHANGED <<clock, dedup, emitted>>
    BY <1>6 DEF PutSession, TTypeOK, Emitting
  <2> QED
    BY <2>1 DEF Deduped
<1>7. ASSUME NEW p \in Puts, IndexSession(p) \/ EmitSession(p) PROVE Deduped'
  <2>1. UNCHANGED <<clock, dedup, emitted>> /\ \A q \in Puts : q # p => call'[q] = call[q]
    BY <1>7 DEF IndexSession, EmitSession, TTypeOK
  <2>2. call'[p] \notin Emitting
    <3>1. CASE EmitSession(p)
      BY <3>1 DEF EmitSession, TTypeOK, Idle, Emitting
    <3>2. CASE IndexSession(p)
      <4>1. PICK c : call' = [call EXCEPT ![p].todo = @ \ {c}]
        BY <3>2 DEF IndexSession
      <4>2. call'[p] = [call[p] EXCEPT !.todo = call[p].todo \ {c}] /\ call[p] \in Indexing
        BY <3>2, <4>1, CallKinds DEF IndexSession, TTypeOK
      <4>3. call'[p].at = "index"
        BY <4>2 DEF Indexing
      <4> QED
        BY <4>3 DEF Emitting
    <3> QED
      BY <1>7, <3>1, <3>2
  <2> QED
    BY <2>1, <2>2 DEF Deduped
<1>8. ASSUME NEW t \in Sessions, EndSession(t) PROVE Deduped'
  BY <1>8 DEF EndSession, Deduped
<1> QED
  BY TierSteps, <1>1, <1>2, <1>3, <1>4, <1>5, <1>6, <1>7, <1>8

LEMMA TiersInv ==
    TSpec => [](TTypeOK /\ ClocksOK /\ ObjsBegun /\ Listed)
<1> DEFINE Inv == TTypeOK /\ ClocksOK /\ ObjsBegun /\ Listed
<1>1. TInit => Inv
  <2>1. TInit => ClocksOK
    BY TiersAssumption DEF TInit, ClocksOK, Idle, Emitting, Indexing, Never
  <2>2. TInit => ObjsBegun /\ Listed
    BY DEF TInit, ObjsBegun, Listed
  <2> QED
    BY TypesInit, <2>1, <2>2
<1>2. Inv /\ [TNext]_tierVars => Inv'
  BY TypesStep, ClocksStep, ObjsStep, ListedStep
<1> QED
  BY <1>1, <1>2, PTL DEF TSpec

\* The volatile tiers keep their types: no id, session, document or time that is
\* not theirs, and no expiry beyond the ttl (volatile-adapter.js).
THEOREM TiersTypeOK == TSpec => []TTypeOK
BY TiersInv, PTL

\* Ending a session takes effect at once, for any number of puts in flight,
\* sessions, documents and collections: readers find only what was put since
\* (store.js:215-218).
THEOREM EndedSessionsEmpty == TSpec => []EndedIsEmpty
<1>1. ObjsBegun => EndedIsEmpty
  BY DEF ObjsBegun, EndedIsEmpty, SessionChildren
<1> QED
  BY <1>1, TiersInv, PTL

\* What was put into a session is listed under its collections, or about to be,
\* until the session ends or the ttl is over, whatever other sessions do
\* (store.js:98-109, 201-213).
THEOREM SessionsListed == TSpec => []SessionListed
<1>1. TTypeOK /\ ClocksOK /\ Listed => SessionListed
  <2> SUFFICES ASSUME TTypeOK, ClocksOK, Listed, NEW s \in Sessions, NEW w \in since[s]
               PROVE  \/ \E p \in Puts : call[p].at = "index" /\ call[p].s = s /\ call[p].d = w.d
                      \/ \A c \in w.colls : w.d \in SessionChildren(s, c)
    BY DEF SessionListed
  <2>1. /\ w.ts \in Times /\ w.ts \in Nat /\ w.d \in Docs /\ clock \in Nat /\ SessionTtl \in Nat
        /\ w.ts + SessionTtl > clock
    BY TiersAssumption DEF TTypeOK, ClocksOK, Times
  <2>2. objs[s][w.d] # 0
    <3>1. objs[s][w.d] >= w.ts + SessionTtl
      BY DEF Listed
    <3> QED
      BY <2>1, <3>1
  <2>3. ASSUME NEW c \in w.colls, keys[s][<<c, w.ts, w.d>>] >= w.ts + SessionTtl
        PROVE  w.d \in SessionChildren(s, c)
    BY <2>1, <2>2, <2>3 DEF SessionChildren
  <2>4. ASSUME NEW c \in w.colls, NEW p \in Puts, WillList(p, s, w.d, w.ts, c)
        PROVE  call[p].at = "index" /\ call[p].s = s /\ call[p].d = w.d
    BY <2>4, CallKinds DEF WillList
  <2> QED
    BY <2>3, <2>4 DEF Listed
<1> QED
  BY <1>1, TiersInv, PTL

\* An id is emitted once in a dedup window, when its puts go through one slot
\* at a time: two puts of one id at the same time may both read the window
\* before either opens it (store.js:89-96).
THEOREM EmitsOnce ==
    ASSUME RoutesApart
    PROVE  TSpec => EmittedOnce
<1> DEFINE Inv == TTypeOK /\ ClocksOK /\ Deduped
           Apart == \A e \in Events :
                emitted'[e] # emitted[e] =>
                    emitted[e] = Never \/ emitted[e] + DedupTtl <= emitted'[e]
<1>1. TInit => Inv
  <2>1. TInit => ClocksOK
    BY TiersAssumption DEF TInit, ClocksOK, Idle, Emitting, Indexing, Never
  <2>2. TInit => Deduped
    BY DEF TInit, Deduped, Idle, Emitting
  <2> QED
    BY TypesInit, <2>1, <2>2
<1>2. Inv /\ [TNext]_tierVars => Inv'
  BY RoutesApart, TypesStep, ClocksStep, DedupedStep
<1>3. Inv /\ [TNext]_tierVars => [Apart]_tierVars
  <2> SUFFICES ASSUME Inv, [TNext]_tierVars, NEW e \in Events, emitted'[e] # emitted[e]
               PROVE  emitted[e] = Never \/ emitted[e] + DedupTtl <= emitted'[e]
    OBVIOUS
  <2>1. PICK p \in Puts : EmitOnce(p)
    BY TierSteps DEF tierVars, Tick, PutEphemeral, Mark, PutSession, IndexSession, EmitSession, EndSession
  <2>2. call[p] \in Emitting
    BY <2>1, CallKinds DEF EmitOnce
  <2>3. ~call[p].seen /\ e = call[p].e /\ emitted'[e] = call[p].came
    BY <2>1, <2>2 DEF EmitOnce, TTypeOK
  <2> QED
    BY <2>2, <2>3 DEF Deduped
<1> QED
  BY <1>1, <1>2, <1>3, PTL DEF TSpec, EmittedOnce

-----------------------------------------------------------------------------
(* The event bus.                                                              *)

\* A sequence with one more element.
LEMMA OneMore ==
    ASSUME NEW S, NEW s \in Seq(S), NEW e \in S
    PROVE  /\ Append(s, e) \in Seq(S) /\ Len(s) \in Nat /\ Len(Append(s, e)) = Len(s) + 1
           /\ DOMAIN s = 1..Len(s) /\ DOMAIN Append(s, e) = 1..Len(s) + 1
           /\ \A i \in DOMAIN s : Append(s, e)[i] = s[i]
           /\ Append(s, e)[Len(s) + 1] = e
           /\ ToSet(Append(s, e)) = ToSet(s) \cup {e}
<1>1. /\ Append(s, e) \in Seq(S) /\ Len(s) \in Nat /\ Len(Append(s, e)) = Len(s) + 1
      /\ DOMAIN s = 1..Len(s) /\ DOMAIN Append(s, e) = 1..Len(s) + 1
      /\ \A i \in DOMAIN s : Append(s, e)[i] = s[i]
      /\ Append(s, e)[Len(s) + 1] = e
  BY AppendProperties, LenProperties
<1>2. PICK n \in Nat : n = Len(s)
  BY <1>1
<1>3. PICK u \in Seq(S) : u = Append(s, e)
  BY <1>1
<1>4. /\ DOMAIN s = 1..n /\ DOMAIN u = 1..n + 1
      /\ \A i \in 1..n : u[i] = s[i]
      /\ u[n + 1] = e
  BY <1>1, <1>2, <1>3
<1>5. 1..n + 1 = (1..n) \cup {n + 1}
  BY <1>2
<1>6. ToSet(u) = ToSet(s) \cup {e}
  <2> HIDE <1>1, <1>2, <1>3
  <2> QED
    BY <1>4, <1>5 DEF ToSet
<1> QED
  BY <1>1, <1>3, <1>6

\* The outer of the calls of emit().
LEMMA Outer ==
    ASSUME NEW S, NEW s \in Seq(S), NEW n \in 0..Len(s)
    PROVE  /\ SubSeq(s, 1, n) \in Seq(S) /\ DOMAIN SubSeq(s, 1, n) = 1..n /\ Len(s) \in Nat
           /\ \A i \in 1..n : SubSeq(s, 1, n)[i] = s[i] /\ i \in DOMAIN s
<1>1. Len(s) \in Nat /\ DOMAIN s = 1..Len(s) /\ \A i \in 1..Len(s) : s[i] \in S
  BY LenProperties, ElementOfSeq
<1>2. n \in Nat /\ n <= Len(s)
  BY <1>1
<1>3. \A i \in 1..n : s[i] \in S /\ i \in DOMAIN s
  BY <1>1, <1>2
<1>4. /\ SubSeq(s, 1, n) \in Seq(S)
      /\ Len(SubSeq(s, 1, n)) = IF 1 <= n THEN n - 1 + 1 ELSE 0
      /\ \A i \in 1..n - 1 + 1 : SubSeq(s, 1, n)[i] = s[1 + i - 1]
  <2>1. 1 \in Int /\ n \in Int
    BY <1>2
  <2> QED
    BY <1>3, <2>1, SubSeqProperties
<1>5. Len(SubSeq(s, 1, n)) = n
  BY <1>2, <1>4
<1>6. DOMAIN SubSeq(s, 1, n) = 1..n
  BY <1>4, <1>5, LenProperties
<1>7. \A i \in 1..n : i \in 1..n - 1 + 1 /\ 1 + i - 1 = i
  BY <1>2
<1>8. \A i \in 1..n : SubSeq(s, 1, n)[i] = s[i]
  BY <1>4, <1>7
<1> QED
  BY <1>1, <1>3, <1>4, <1>6, <1>8

\* The called entries of emission k are those that were bound and are not left
\* to do, in the order they subscribed; what is left to do is younger.
Halfway(called, todo, all) ==
    /\ ToSet(called) \cup todo = all
    /\ \A e, g \in todo : e.n = g.n => e = g
    /\ \A i \in DOMAIN called : \A e \in todo : called[i].n < e.n
    /\ \A i, j \in DOMAIN called : i < j => called[i].n < called[j].n

\* The emissions under way are called inside each other, and each is halfway.
Dispatching ==
    /\ \A i, j \in DOMAIN stack : i < j => stack[i].k < stack[j].k
    /\ \A i \in DOMAIN stack : Halfway(calls[stack[i].k], stack[i].todo, bound[stack[i].k])

\* What was called or will be is subscribed before; what once() made and was
\* called is not subscribed.
OnceCalled ==
    /\ \A k \in DOMAIN bound : \A e \in bound[k] : e.n <= added
    /\ \A i \in DOMAIN stack : stack[i].todo \subseteq bound[stack[i].k]
    /\ \A j \in DOMAIN calls : \A e \in ToSet(calls[j]) :
        e.n <= added /\ (e.once => e \notin listeners)

LEMMA BusTypes ==
    ASSUME ETypeOK
    PROVE  /\ added \in Nat /\ emits \in Nat /\ MaxEntries \in Nat /\ MaxEmits \in Nat
           /\ DOMAIN calls = 1..emits /\ DOMAIN bound = 1..emits
           /\ Len(stack) \in Nat /\ DOMAIN stack = 1..Len(stack)
           /\ \A i \in DOMAIN stack : stack[i] \in Frame /\ stack[i].k \in 1..emits
           /\ \A k \in 1..emits : calls[k] \in Seq(Entry) /\ bound[k] \in SUBSET Entry
           /\ \A e \in Entry : e.n \in Nat
<1>1. /\ DOMAIN calls = 1..emits /\ \A k \in 1..emits : calls[k] \in Seq(Entry)
  BY LenProperties, ElementOfSeq DEF ETypeOK
<1>2. /\ DOMAIN bound = 1..emits /\ \A k \in 1..emits : bound[k] \in SUBSET Entry
  BY LenProperties, ElementOfSeq DEF ETypeOK
<1>3. /\ Len(stack) \in Nat /\ DOMAIN stack = 1..Len(stack)
      /\ \A i \in DOMAIN stack : stack[i] \in Frame
  BY LenProperties, ElementOfSeq DEF ETypeOK
<1>4. \A i \in DOMAIN stack : stack[i].k \in 1..emits
  BY <1>3, EventsAssumption DEF ETypeOK, Frame
<1> QED
  BY <1>1, <1>2, <1>3, <1>4, EventsAssumption DEF ETypeOK, Entry

LEMMA BusSteps ==
    ASSUME [ENext]_eventVars
    PROVE  \/ UNCHANGED eventVars
           \/ \E fn \in Fns : Off(fn)
           \/ \E fn \in Fns, once \in BOOLEAN : Subscribe(fn, once)
           \/ \E e \in listeners : Unsubscribe(e)
           \/ Emit \/ CallNext \/ ListenerReturns \/ ListenerThrows \/ EmitReturns
BY DEF ENext

\* The invariant of the bus.
BusInv == ETypeOK /\ Dispatching /\ OnceCalled

\* The emissions of stack' are those of stack, or the outer of them.
Outside ==
    /\ stack' \in Seq(Frame)
    /\ \A i \in DOMAIN stack' :
        i \in DOMAIN stack /\ stack'[i].k = stack[i].k /\ stack'[i].todo = stack[i].todo

LEMMA LessInv ==
    ASSUME BusInv, Outside, listeners' \subseteq listeners, UNCHANGED <<added, emits, calls, bound>>
    PROVE  BusInv'
<1>1. ETypeOK'
  BY DEF BusInv, ETypeOK, Outside
<1>2. Dispatching'
  BY DEF BusInv, Dispatching, Outside
<1>3. OnceCalled'
  BY DEF BusInv, OnceCalled, Outside
<1> QED
  BY <1>1, <1>2, <1>3 DEF BusInv

LEMMA SubscribeInv ==
    ASSUME BusInv, NEW fn \in Fns, NEW once \in BOOLEAN, Subscribe(fn, once)
    PROVE  BusInv'
<1>1. PICK new : new = [n |-> added + 1, fn |-> fn, once |-> once]
  OBVIOUS
<1>2. /\ added \in Nat /\ new.n = added + 1 /\ new.n \in Nat /\ new \in Entry
      /\ \A e \in Entry : e.n \in Nat
  BY <1>1, BusTypes DEF Subscribe, BusInv, Entry
<1>3. /\ added' = added + 1 /\ listeners' = listeners \cup {new} /\ added' \in 0 .. MaxEntries
      /\ UNCHANGED <<stack, emits, calls, bound>>
  BY <1>1, <1>2, EventsAssumption DEF Subscribe
<1>4. ETypeOK'
  BY <1>2, <1>3 DEF BusInv, ETypeOK
<1>5. Dispatching'
  BY <1>3 DEF BusInv, Dispatching
<1>6. OnceCalled'
  <2>1. \A k \in DOMAIN bound : bound[k] \subseteq Entry
    BY BusTypes DEF BusInv
  <2>2. \A j \in DOMAIN calls : ToSet(calls[j]) \subseteq Entry
    BY BusTypes, ElementOfSeq, LenProperties DEF BusInv, ToSet
  <2>3. \A e \in Entry : e.n <= added => e.n <= added' /\ e # new
    BY <1>2, <1>3
  <2> QED
    BY <1>3, <2>1, <2>2, <2>3 DEF BusInv, OnceCalled
<1> QED
  BY <1>4, <1>5, <1>6 DEF BusInv

LEMMA EmitInv ==
    ASSUME BusInv, Emit
    PROVE  BusInv'
<1> USE BusTypes
<1>t. ETypeOK
  BY DEF BusInv
<1>1. PICK f : f = [k |-> emits + 1, todo |-> listeners, running |-> FALSE]
  OBVIOUS
<1>2. f \in Frame /\ f.k = emits + 1 /\ f.todo = listeners
  BY <1>t, <1>1 DEF Frame, Emit, ETypeOK
<1>3. /\ emits' = emits + 1 /\ emits' \in 0 .. MaxEmits /\ UNCHANGED <<listeners, added>>
      /\ calls' = Append(calls, <<>>) /\ bound' = Append(bound, listeners)
      /\ stack' = Append(stack, f)
  BY <1>t, <1>1 DEF Emit
<1>4. /\ calls' \in Seq(Seq(Entry)) /\ Len(calls') = emits' /\ DOMAIN calls' = 1..emits + 1
      /\ \A k \in 1..emits : calls'[k] = calls[k]
      /\ calls'[emits + 1] = <<>>
  <2>1. calls \in Seq(Seq(Entry)) /\ <<>> \in Seq(Entry) /\ Len(calls) = emits
    BY <1>t, EmptySeq DEF ETypeOK
  <2> QED
    BY <1>t, <1>3, <2>1, OneMore
<1>5. /\ bound' \in Seq(SUBSET Entry) /\ Len(bound') = emits' /\ DOMAIN bound' = 1..emits + 1
      /\ \A k \in 1..emits : bound'[k] = bound[k]
      /\ bound'[emits + 1] = listeners
  <2>1. bound \in Seq(SUBSET Entry) /\ listeners \in SUBSET Entry /\ Len(bound) = emits
    BY <1>t DEF ETypeOK
  <2> QED
    BY <1>t, <1>3, <2>1, OneMore
<1>6. /\ stack' \in Seq(Frame) /\ DOMAIN stack' = 1..Len(stack) + 1
      /\ \A i \in DOMAIN stack : stack'[i] = stack[i]
      /\ stack'[Len(stack) + 1] = f
  <2>1. stack \in Seq(Frame)
    BY <1>t DEF ETypeOK
  <2> QED
    BY <1>2, <1>3, <2>1, OneMore
<1>7. \A i \in DOMAIN stack' : i \in DOMAIN stack \/ i = Len(stack) + 1
  BY <1>t, <1>6
<1>8. ETypeOK'
  <2>1. \A i \in DOMAIN stack' : stack'[i].k <= emits'
    BY <1>t, <1>2, <1>3, <1>6, <1>7
  <2> QED
    BY <1>t, <1>3, <1>4, <1>5, <1>6, <2>1 DEF ETypeOK
<1>9. Dispatching'
  <2>1. ASSUME NEW i \in DOMAIN stack', NEW j \in DOMAIN stack', i < j
        PROVE  stack'[i].k < stack'[j].k
    <3>1. i \in DOMAIN stack
      BY <1>t, <1>7, <2>1
    <3>2. CASE j \in DOMAIN stack
      BY <1>6, <2>1, <3>1, <3>2 DEF BusInv, Dispatching
    <3>3. CASE j = Len(stack) + 1
      BY <1>t, <1>2, <1>6, <3>1, <3>3
    <3> QED
      BY <1>7, <3>2, <3>3
  <2>2. ASSUME NEW i \in DOMAIN stack'
        PROVE  Halfway(calls'[stack'[i].k], stack'[i].todo, bound'[stack'[i].k])
    <3>1. CASE i \in DOMAIN stack
      <4>1. stack'[i] = stack[i] /\ stack[i].k \in 1..emits
        BY <1>t, <1>6, <3>1
      <4>2. calls'[stack[i].k] = calls[stack[i].k] /\ bound'[stack[i].k] = bound[stack[i].k]
        BY <1>4, <1>5, <4>1
      <4>3. Halfway(calls[stack[i].k], stack[i].todo, bound[stack[i].k])
        BY <3>1 DEF BusInv, Dispatching
      <4> QED
        BY <4>1, <4>2, <4>3
    <3>2. CASE i = Len(stack) + 1
      <4>1. DOMAIN << >> = {} /\ ToSet(<< >>) = {}
        BY DEF ToSet
      <4>2. \A e, g \in listeners : e.n = g.n => e = g
        BY <1>t DEF ETypeOK
      <4>3. Halfway(<< >>, listeners, listeners)
        BY <4>1, <4>2 DEF Halfway
      <4> QED
        BY <1>2, <1>4, <1>5, <1>6, <3>2, <4>3
    <3> QED
      BY <1>7, <3>1, <3>2
  <2> QED
    BY <2>1, <2>2 DEF Dispatching
<1>10. OnceCalled'
  <2>1. \A k \in 1..emits + 1 : k \in 1..emits \/ k = emits + 1
    BY <1>t
  <2>2. \A k \in DOMAIN bound' : \A e \in bound'[k] : e.n <= added'
    BY <1>t, <1>3, <1>5, <2>1 DEF BusInv, OnceCalled, ETypeOK
  <2>3. ASSUME NEW i \in DOMAIN stack' PROVE stack'[i].todo \subseteq bound'[stack'[i].k]
    <3>1. CASE i \in DOMAIN stack
      <4>1. stack'[i] = stack[i] /\ stack[i].k \in 1..emits /\ bound'[stack[i].k] = bound[stack[i].k]
        BY <1>t, <1>5, <1>6, <3>1
      <4> QED
        BY <3>1, <4>1 DEF BusInv, OnceCalled
    <3>2. CASE i = Len(stack) + 1
      BY <1>2, <1>5, <1>6, <3>2
    <3> QED
      BY <1>7, <3>1, <3>2
  <2>4. ASSUME NEW j \in DOMAIN calls', NEW e \in ToSet(calls'[j])
        PROVE  e.n <= added' /\ (e.once => e \notin listeners')
    <3>1. j # emits + 1
      <4>1. ToSet(<< >>) = {}
        BY DEF ToSet
      <4> QED
        BY <1>4, <2>4, <4>1
    <3>2. j \in 1..emits
      BY <1>4, <2>1, <3>1
    <3> QED
      BY <1>t, <1>3, <1>4, <2>4, <3>2 DEF BusInv, OnceCalled
  <2> QED
    BY <2>2, <2>3, <2>4 DEF OnceCalled
<1> QED
  BY <1>8, <1>9, <1>10 DEF BusInv

\* What calling e, the oldest entry of the copy of the emission at L, does.
CallOf(L, e) ==
    /\ \A i \in DOMAIN stack : i <= L
    /\ \A g \in stack[L].todo : e.n <= g.n
    /\ listeners' \subseteq listeners /\ (e.once => e \notin listeners')
    /\ calls' = [calls EXCEPT ![stack[L].k] = Append(calls[stack[L].k], e)]
    /\ stack' \in Seq(Frame) /\ DOMAIN stack' = DOMAIN stack
    /\ \A i \in DOMAIN stack : i # L => stack'[i] = stack[i]
    /\ stack'[L].k = stack[L].k /\ stack'[L].todo = stack[L].todo \ {e}
    /\ Len(stack') = Len(stack)

LEMMA CalledNext ==
    ASSUME ETypeOK, CallNext
    PROVE  \E L \in DOMAIN stack : \E e \in stack[L].todo : CallOf(L, e)
<1> USE BusTypes
<1>1. PICK L \in DOMAIN stack : L = Len(stack)
  <2>1. stack \in Seq(Frame) /\ stack # <<>>
    BY DEF CallNext, Running, ETypeOK
  <2>2. Len(stack) \in Nat \ {0}
    BY <2>1, EmptySeq
  <2> QED
    BY <2>2
<1>2. PICK f : f = stack[L]
  OBVIOUS
<1>3. f \in Frame /\ f = Last(stack) /\ \A i \in DOMAIN stack : i <= L
  BY <1>1, <1>2 DEF Last
<1>4. PICK e \in f.todo :
        /\ \A g \in f.todo : e.n <= g.n
        /\ listeners' = Kept(e)
        /\ calls' = [calls EXCEPT ![f.k] = Append(@, e)]
        /\ stack' = [stack EXCEPT ![L].todo = f.todo \ {e}, ![L].running = TRUE]
  BY <1>1, <1>3 DEF CallNext, Turn
<1>5. PICK g : g = [f EXCEPT !.todo = f.todo \ {e}, !.running = TRUE]
  OBVIOUS
<1>6. g \in Frame /\ g.k = f.k /\ g.todo = f.todo \ {e}
  BY <1>3, <1>5 DEF Frame
<1>7. stack' = [stack EXCEPT ![L] = g]
  <2>1. stack \in Seq(Frame)
    BY DEF ETypeOK
  <2>2. stack' = [stack EXCEPT ![L] = [[stack[L] EXCEPT !.todo = f.todo \ {e}] EXCEPT !.running = TRUE]]
    BY <1>4, <2>1
  <2> QED
    BY <1>2, <1>5, <2>2
<1>8. /\ stack' \in Seq(Frame) /\ DOMAIN stack' = DOMAIN stack /\ Len(stack') = Len(stack)
      /\ \A i \in DOMAIN stack : i # L => stack'[i] = stack[i]
      /\ stack'[L] = g
  <2>1. stack \in Seq(Frame) /\ L \in 1..Len(stack)
    BY DEF ETypeOK
  <2> QED
    BY <1>6, <1>7, <2>1, ExceptSeq, LenProperties
<1>9. listeners' \subseteq listeners /\ (e.once => e \notin listeners')
  BY <1>4 DEF Kept, Without
<1>10. calls' = [calls EXCEPT ![f.k] = Append(calls[f.k], e)]
  BY <1>2, <1>4
<1>11. CallOf(L, e)
  BY <1>2, <1>3, <1>4, <1>6, <1>8, <1>9, <1>10 DEF CallOf
<1> QED
  BY <1>2, <1>11

LEMMA CallNextInv ==
    ASSUME BusInv, CallNext
    PROVE  BusInv'
<1> USE BusTypes
<1>t. ETypeOK /\ Dispatching /\ OnceCalled
  BY DEF BusInv
<1>0. PICK L \in DOMAIN stack : \E e \in stack[L].todo : CallOf(L, e)
  BY <1>t, CalledNext
<1>e. PICK e \in stack[L].todo : CallOf(L, e)
  BY <1>0
<1>1. /\ \A i \in DOMAIN stack : i <= L
      /\ \A g \in stack[L].todo : e.n <= g.n
      /\ listeners' \subseteq listeners /\ (e.once => e \notin listeners')
      /\ calls' = [calls EXCEPT ![stack[L].k] = Append(calls[stack[L].k], e)]
      /\ stack' \in Seq(Frame) /\ DOMAIN stack' = DOMAIN stack
      /\ \A i \in DOMAIN stack : i # L => stack'[i] = stack[i]
      /\ stack'[L].k = stack[L].k /\ stack'[L].todo = stack[L].todo \ {e}
      /\ Len(stack') = Len(stack)
  BY <1>e DEF CallOf
<1>2. UNCHANGED <<added, emits, bound>>
  BY DEF CallNext
<1>3. PICK k : k = stack[L].k
  OBVIOUS
<1>4. PICK called : called = calls[k]
  OBVIOUS
<1>5. k \in 1..emits /\ called \in Seq(Entry) /\ e \in Entry /\ calls \in Seq(Seq(Entry))
  BY <1>t, <1>3, <1>4 DEF Frame, ETypeOK
<1>6. /\ Append(called, e) \in Seq(Entry) /\ Len(called) \in Nat
      /\ DOMAIN called = 1..Len(called) /\ DOMAIN Append(called, e) = 1..Len(called) + 1
      /\ \A i \in DOMAIN called : Append(called, e)[i] = called[i]
      /\ Append(called, e)[Len(called) + 1] = e
      /\ ToSet(Append(called, e)) = ToSet(called) \cup {e}
  BY <1>5, OneMore
<1>7. PICK now : now = Append(called, e)
  OBVIOUS
<1>8. /\ calls' \in Seq(Seq(Entry)) /\ Len(calls') = emits /\ DOMAIN calls' = 1..emits
      /\ \A j \in 1..emits : calls'[j] = IF j = k THEN now ELSE calls[j]
  <2>1. calls' = [calls EXCEPT ![k] = now]
    BY <1>1, <1>3, <1>4, <1>7
  <2>2. k \in 1..Len(calls) /\ Len(calls) = emits /\ now \in Seq(Entry)
    BY <1>t, <1>5, <1>6, <1>7 DEF ETypeOK
  <2> QED
    BY <1>5, <2>1, <2>2, ExceptSeq, LenProperties
<1>9. \A i \in DOMAIN stack : stack'[i].k = stack[i].k /\ stack'[i].todo \subseteq stack[i].todo
  BY <1>1
<1>10. ETypeOK'
  BY <1>t, <1>1, <1>2, <1>8, <1>9 DEF ETypeOK
<1>11. Dispatching'
  <2>1. \A i, j \in DOMAIN stack' : i < j => stack'[i].k < stack'[j].k
    BY <1>t, <1>1, <1>9 DEF Dispatching
  <2>2. ASSUME NEW i \in DOMAIN stack, i # L
        PROVE  Halfway(calls'[stack'[i].k], stack'[i].todo, bound'[stack'[i].k])
    <3>1. i < L
      BY <1>t, <1>1, <2>2
    <3>2. stack[i].k < stack[L].k
      BY <1>t, <3>1 DEF Dispatching
    <3>3. stack[i].k # k /\ stack[i].k \in 1..emits
      BY <1>t, <1>3, <3>2
    <3>4. calls'[stack[i].k] = calls[stack[i].k]
      BY <1>8, <3>3
    <3>5. Halfway(calls[stack[i].k], stack[i].todo, bound[stack[i].k])
      BY <1>t DEF Dispatching
    <3> QED
      BY <1>1, <1>2, <2>2, <3>4, <3>5
  <2>3. Halfway(now, stack[L].todo \ {e}, bound[k])
    <3>1. PICK todo : todo = stack[L].todo
      OBVIOUS
    <3>2. /\ ToSet(called) \cup todo = bound[k]
          /\ \A d, g \in todo : d.n = g.n => d = g
          /\ \A i \in DOMAIN called : \A g \in todo : called[i].n < g.n
          /\ \A i, j \in DOMAIN called : i < j => called[i].n < called[j].n
      BY <1>t, <1>3, <1>4, <3>1 DEF Dispatching, Halfway
    <3>3. e \in todo /\ todo \subseteq Entry /\ \A g \in todo : e.n <= g.n
      BY <1>t, <1>1, <3>1 DEF Frame
    <3>4. \A g \in todo \ {e} : e.n < g.n
      <4>1. \A g \in todo : e.n \in Nat /\ g.n \in Nat
        BY <1>t, <3>3
      <4> QED
        BY <3>2, <3>3, <4>1
    <3>5. ToSet(now) \cup (todo \ {e}) = bound[k]
      BY <1>6, <1>7, <3>2, <3>3
    <3>6. ASSUME NEW i \in DOMAIN now
          PROVE  (i \in DOMAIN called /\ now[i] = called[i]) \/ (i = Len(called) + 1 /\ now[i] = e)
      <4>1. PICK m \in Nat : m = Len(called)
        BY <1>6
      <4>2. i \in 1..m + 1 /\ DOMAIN called = 1..m
        BY <1>6, <1>7, <4>1
      <4>3. i \in 1..m \/ i = m + 1
        BY <4>1, <4>2
      <4>4. CASE i \in 1..m
        BY <1>6, <1>7, <4>2, <4>4
      <4>5. CASE i = m + 1
        BY <1>6, <1>7, <4>1, <4>5
      <4> QED
        BY <4>3, <4>4, <4>5
    <3>7. \A i \in DOMAIN now : \A g \in todo \ {e} : now[i].n < g.n
      BY <3>2, <3>4, <3>6
    <3>8. ASSUME NEW i \in DOMAIN now, NEW j \in DOMAIN now, i < j
          PROVE  now[i].n < now[j].n
      <4>1. i \in DOMAIN called
        BY <1>6, <1>7, <3>8
      <4>2. now[i] = called[i]
        BY <1>6, <1>7, <4>1
      <4> QED
        BY <3>2, <3>3, <3>6, <3>8, <4>1, <4>2
    <3>9. \A d, g \in todo \ {e} : d.n = g.n => d = g
      BY <3>2
    <3> QED
      BY <3>1, <3>5, <3>7, <3>8, <3>9 DEF Halfway
  <2>4. Halfway(calls'[stack'[L].k], stack'[L].todo, bound'[stack'[L].k])
    <3>1. stack'[L].k = k /\ stack'[L].todo = stack[L].todo \ {e} /\ calls'[k] = now /\ bound' = bound
      BY <1>1, <1>2, <1>3, <1>5, <1>8
    <3> QED
      BY <2>3, <3>1
  <2> QED
    BY <1>1, <2>1, <2>2, <2>4 DEF Dispatching
<1>12. OnceCalled'
  <2>1. \A i \in DOMAIN stack' : stack'[i].todo \subseteq bound'[stack'[i].k]
    BY <1>t, <1>1, <1>2, <1>9 DEF OnceCalled
  <2>2. e.n <= added
    BY <1>t, <1>1, <1>3, <1>5 DEF OnceCalled
  <2>3. ASSUME NEW j \in DOMAIN calls', NEW g \in ToSet(calls'[j])
        PROVE  g.n <= added /\ (g.once => g \notin listeners')
    <3>1. g \in ToSet(calls[j]) \/ g = e
      <4>1. CASE j = k
        <5>1. calls'[j] = now /\ calls[j] = called
          BY <1>4, <1>5, <1>8, <4>1
        <5>2. ToSet(now) = ToSet(called) \cup {e}
          BY <1>6, <1>7
        <5> QED
          BY <2>3, <5>1, <5>2
      <4>2. CASE j # k
        BY <1>8, <2>3, <4>2
      <4> QED
        BY <4>1, <4>2
    <3>2. CASE g = e
      BY <1>1, <2>2, <3>2
    <3>3. CASE g \in ToSet(calls[j])
      BY <1>t, <1>1, <1>8, <2>3, <3>3 DEF OnceCalled
    <3> QED
      BY <3>1, <3>2, <3>3
  <2> QED
    BY <1>t, <1>2, <2>1, <2>3 DEF OnceCalled
<1> QED
  BY <1>10, <1>11, <1>12 DEF BusInv

LEMMA BusStep ==
    ASSUME BusInv, [ENext]_eventVars
    PROVE  BusInv'
<1> USE BusTypes
<1>t. ETypeOK
  BY DEF BusInv
<1>s. stack \in Seq(Frame)
  BY <1>t DEF ETypeOK
<1>1. ASSUME stack' = stack, listeners' \subseteq listeners, UNCHANGED <<added, emits, calls, bound>>
      PROVE  BusInv'
  <2>1. Outside
    BY <1>s, <1>1 DEF Outside
  <2> QED
    BY <1>1, <2>1, LessInv
<1>2. ASSUME NEW n \in 0..Len(stack), stack' = SubSeq(stack, 1, n),
             UNCHANGED <<listeners, added, emits, calls, bound>>
      PROVE  BusInv'
  <2>1. Outside
    BY <1>s, <1>2, Outer DEF Outside
  <2> QED
    BY <1>2, <2>1, LessInv
<1>3. CASE ListenerReturns
  <2>1. Len(stack) \in 1..Len(stack)
    <3>1. stack # <<>>
      BY <1>3 DEF ListenerReturns
    <3>2. Len(stack) \in Nat \ {0}
      BY <1>s, <3>1, EmptySeq
    <3> QED
      BY <3>2
  <2>2. PICK L \in DOMAIN stack : L = Len(stack)
    BY <1>t, <2>1
  <2>3. PICK f \in Frame : f = stack[L]
    BY <1>t
  <2>4. PICK g : g = [f EXCEPT !.running = FALSE]
    OBVIOUS
  <2>5. g \in Frame /\ g.k = f.k /\ g.todo = f.todo
    BY <2>3, <2>4 DEF Frame
  <2>6. stack' = [stack EXCEPT ![L] = g]
    BY <1>3, <1>s, <2>2, <2>3, <2>4 DEF ListenerReturns
  <2>7. /\ stack' \in Seq(Frame) /\ DOMAIN stack' = DOMAIN stack
        /\ \A i \in DOMAIN stack : stack'[i] = IF i = L THEN g ELSE stack[i]
    <3>1. L \in 1..Len(stack)
      BY <2>1, <2>2
    <3> QED
      BY <1>s, <2>5, <2>6, <3>1, ExceptSeq, LenProperties
  <2>8. Outside
    BY <2>3, <2>5, <2>7 DEF Outside
  <2> QED
    BY <1>3, <2>8, LessInv DEF ListenerReturns
<1>4. CASE ListenerThrows
  <2>1. PICK n \in 0 .. Len(stack) - 1 : stack' = SubSeq(stack, 1, n)
    BY <1>4 DEF ListenerThrows
  <2>2. n \in 0..Len(stack)
    BY <1>t
  <2> QED
    BY <1>2, <1>4, <2>1, <2>2 DEF ListenerThrows
<1>5. CASE EmitReturns
  <2>1. stack # <<>>
    BY <1>5 DEF EmitReturns, Running
  <2>2. Len(stack) \in Nat \ {0}
    BY <1>s, <2>1, EmptySeq
  <2>3. Len(stack) - 1 \in 0..Len(stack)
    BY <2>2
  <2>4. stack' = SubSeq(stack, 1, Len(stack) - 1)
    BY <1>5 DEF EmitReturns, Front
  <2> QED
    BY <1>2, <1>5, <2>3, <2>4 DEF EmitReturns
<1>6. ASSUME NEW fn \in Fns, Off(fn) PROVE BusInv'
  BY <1>1, <1>6 DEF Off
<1>7. ASSUME NEW e \in listeners, Unsubscribe(e) PROVE BusInv'
  BY <1>1, <1>7 DEF Unsubscribe, Without
<1>8. CASE UNCHANGED eventVars
  BY <1>1, <1>8 DEF eventVars
<1> QED
  BY BusSteps, SubscribeInv, EmitInv, CallNextInv, <1>3, <1>4, <1>5, <1>6, <1>7, <1>8

LEMMA BusInvHolds == ESpec => []BusInv
<1>1. EInit => BusInv
  <2> SUFFICES ASSUME EInit PROVE BusInv
    OBVIOUS
  <2>1. \A S : << >> \in Seq(S) /\ Len(<< >>) = 0 /\ DOMAIN << >> = {}
    BY EmptySeq
  <2>2. ETypeOK
    BY <2>1, EventsAssumption DEF EInit, ETypeOK
  <2>3. Dispatching /\ OnceCalled
    BY <2>1 DEF EInit, Dispatching, OnceCalled
  <2> QED
    BY <2>2, <2>3 DEF BusInv
<1>2. BusInv /\ [ENext]_eventVars => BusInv'
  BY BusStep
<1> QED
  BY <1>1, <1>2, PTL DEF ESpec

\* The bus keeps its types, and no entry is registered twice, whatever listeners
\* do inside each other's emit() (events.js:8-71).
THEOREM BusTypeOK == ESpec => []ETypeOK
<1>1. BusInv => ETypeOK
  BY DEF BusInv
<1> QED
  BY <1>1, BusInvHolds, PTL

\* For any listeners, subscriptions and emissions inside each other: an emit()
\* that returns has called exactly the entries subscribed when it was called,
\* in the order they subscribed (events.js:52-54).
THEOREM SnapshotDispatched == ESpec => DispatchesSnapshot
<1> DEFINE Step == ~Running /\ Len(stack') < Len(stack) =>
          LET called == calls[Last(stack).k]
          IN  /\ ToSet(called) = bound[Last(stack).k]
              /\ \A i, j \in DOMAIN called : i < j => called[i].n < called[j].n
<1>1. BusInv /\ [ENext]_eventVars => [Step]_eventVars
  <2> SUFFICES ASSUME BusInv, [ENext]_eventVars, ~Running, Len(stack') < Len(stack) PROVE Step
    OBVIOUS
  <2>t. ETypeOK /\ stack \in Seq(Frame)
    BY DEF BusInv, ETypeOK
  <2>1. EmitReturns
    <3>1. Len(stack) \in Nat
      BY <2>t, BusTypes
    <3>2. CASE CallNext
      <4>1. Len(stack') = Len(stack)
        BY <2>t, <3>2, CalledNext DEF CallOf
      <4> QED
        BY <3>1, <4>1
    <3>3. CASE UNCHANGED stack
      BY <3>1, <3>3
    <3> QED
      BY BusSteps, <3>2, <3>3
         DEF eventVars, Off, Subscribe, Unsubscribe, Emit, ListenerReturns, ListenerThrows
  <2>2. Len(stack) \in DOMAIN stack
    <3>1. stack # <<>>
      BY DEF Running
    <3>2. Len(stack) \in Nat \ {0}
      BY <2>t, <3>1, EmptySeq
    <3> QED
      BY <2>t, <3>2, BusTypes
  <2>3. PICK f : f = stack[Len(stack)]
    OBVIOUS
  <2>4. Halfway(calls[f.k], f.todo, bound[f.k])
    BY <2>2, <2>3 DEF BusInv, Dispatching
  <2>5. f = Last(stack) /\ f.todo = {}
    BY <2>1, <2>3 DEF EmitReturns, Turn, Last
  <2> QED
    BY <2>4, <2>5 DEF Halfway
<1> QED
  BY <1>1, BusInvHolds, PTL DEF ESpec, DispatchesSnapshot

\* For the same: what once() subscribed and was called is in no later emission,
\* though its listener may emit again before it returns (events.js:24-35, 55).
THEOREM OnceStaysGone == ESpec => OnceUnsubscribed
<1> DEFINE Step == \A k \in DOMAIN bound' \ DOMAIN bound : \A j \in DOMAIN calls :
                      \A e \in bound'[k] : e.once => e \notin ToSet(calls[j])
<1>1. BusInv /\ [ENext]_eventVars => [Step]_eventVars
  <2> SUFFICES ASSUME BusInv, [ENext]_eventVars,
                      NEW k \in DOMAIN bound' \ DOMAIN bound, NEW j \in DOMAIN calls,
                      NEW e \in bound'[k], e.once
               PROVE  e \notin ToSet(calls[j])
    OBVIOUS
  <2>1. Emit
    <3>1. bound' # bound
      OBVIOUS
    <3> QED
      BY BusSteps, <3>1
         DEF eventVars, Off, Subscribe, Unsubscribe, CallNext, ListenerReturns, ListenerThrows, EmitReturns
  <2>2. bound'[k] = listeners
    <3>1. /\ bound \in Seq(SUBSET Entry) /\ listeners \in SUBSET Entry
          /\ bound' = Append(bound, listeners)
      BY <2>1 DEF Emit, BusInv, ETypeOK
    <3>2. /\ DOMAIN bound = 1..Len(bound) /\ DOMAIN bound' = 1..Len(bound) + 1 /\ Len(bound) \in Nat
          /\ bound'[Len(bound) + 1] = listeners
      BY <3>1, OneMore
    <3>3. k = Len(bound) + 1
      BY <3>2
    <3> QED
      BY <3>2, <3>3
  <2> QED
    BY <2>2 DEF BusInv, OnceCalled
<1> QED
  BY <1>1, BusInvHolds, PTL DEF ESpec, OnceUnsubscribed
=============================================================================
