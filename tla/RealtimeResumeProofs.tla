----------------------- MODULE RealtimeResumeProofs -----------------------
(* Theorems about RealtimeResume: one client, for any documents, collections,
   puts and drops, and any interleaving of frames, replays and cursor writes. *)
EXTENDS RealtimeResume, SequenceTheorems, TLAPS

\* A task that is done leaves the others as they are.
LEMMA RemovedAt ==
    ASSUME NEW S, NEW s \in Seq(S), NEW n \in DOMAIN s, NEW r, r = RemoveAt(s, n)
    PROVE  /\ r \in Seq(S)
           /\ \A i \in DOMAIN r : \E j \in DOMAIN s : j # n /\ r[i] = s[j]
           /\ \A j \in DOMAIN s : j # n => \E i \in DOMAIN r : r[i] = s[j]
<1>1. PICK L \in Nat : L = Len(s) /\ DOMAIN s = 1..L
  BY LenProperties
<1>a. n \in 1..L /\ \A i \in 1..L : s[i] \in S
  BY <1>1, ElementOfSeq
<1>2. PICK head \in Seq(S) :
        head = SubSeq(s, 1, n - 1) /\ Len(head) = n - 1 /\ \A i \in 1..(n - 1) : head[i] = s[i]
  <2> DEFINE h == SubSeq(s, 1, n - 1)
  <2>1. 1 \in Int /\ n - 1 \in Int /\ \A i \in 1..(n - 1) : s[i] \in S
    BY <1>a
  <2>2. /\ h \in Seq(S) /\ Len(h) = (IF 1 <= n - 1 THEN (n - 1) - 1 + 1 ELSE 0)
        /\ \A i \in 1..((n - 1) - 1 + 1) : h[i] = s[1 + i - 1]
    BY <2>1, SubSeqProperties
  <2> HIDE DEF h
  <2>3. Len(h) = n - 1
    BY <1>a, <2>2
  <2>4. ASSUME NEW i \in 1..(n - 1) PROVE h[i] = s[i]
    <3>1. i \in 1..((n - 1) - 1 + 1) /\ 1 + i - 1 = i
      BY <1>a
    <3> QED
      BY <2>2, <3>1
  <2> QED
    BY <2>2, <2>3, <2>4 DEF h
<1>3. PICK tail \in Seq(S) :
        tail = SubSeq(s, n + 1, L) /\ Len(tail) = L - n /\ \A i \in 1..(L - n) : tail[i] = s[n + i]
  <2> DEFINE t == SubSeq(s, n + 1, L)
  <2>1. n + 1 \in Int /\ L \in Int /\ \A i \in (n + 1)..L : s[i] \in S
    BY <1>a
  <2>2. /\ t \in Seq(S) /\ Len(t) = (IF n + 1 <= L THEN L - (n + 1) + 1 ELSE 0)
        /\ \A i \in 1..(L - (n + 1) + 1) : t[i] = s[(n + 1) + i - 1]
    BY <2>1, SubSeqProperties
  <2> HIDE DEF t
  <2>3. Len(t) = L - n
    BY <1>a, <2>2
  <2>4. ASSUME NEW i \in 1..(L - n) PROVE t[i] = s[n + i]
    <3>1. i \in 1..(L - (n + 1) + 1) /\ (n + 1) + i - 1 = n + i
      BY <1>a
    <3> QED
      BY <2>2, <3>1
  <2> QED
    BY <2>2, <2>3, <2>4 DEF t
<1>4. r = head \o tail
  BY <1>1, <1>2, <1>3 DEF RemoveAt
<1>6. /\ r \in Seq(S) /\ Len(r) = Len(head) + Len(tail)
      /\ \A i \in 1..(Len(head) + Len(tail)) :
           r[i] = IF i <= Len(head) THEN head[i] ELSE tail[i - Len(head)]
  BY <1>4, ConcatProperties
<1>b. \A i \in 1..((n - 1) + (L - n)) : r[i] = IF i <= n - 1 THEN head[i] ELSE tail[i - (n - 1)]
  BY <1>2, <1>3, <1>6
<1>7. DOMAIN r = 1..(L - 1)
  <2>1. (n - 1) + (L - n) = L - 1
    BY <1>a
  <2> QED
    BY <1>2, <1>3, <1>6, <2>1, LenProperties
<1>8. ASSUME NEW i \in 1..(n - 1) PROVE i \in DOMAIN r /\ r[i] = s[i]
  <2>1. i \in 1..((n - 1) + (L - n)) /\ i <= n - 1 /\ i \in 1..(L - 1)
    BY <1>a
  <2> QED
    BY <1>2, <1>7, <1>b, <2>1
<1>9. ASSUME NEW i \in (n + 1)..L PROVE i - 1 \in DOMAIN r /\ r[i - 1] = s[i]
  <2>1. /\ i - 1 \in 1..((n - 1) + (L - n)) /\ ~(i - 1 <= n - 1)
        /\ (i - 1) - (n - 1) = i - n /\ i - n \in 1..(L - n) /\ n + (i - n) = i
    BY <1>a
  <2>2. r[i - 1] = tail[i - n]
    BY <1>b, <2>1
  <2>3. tail[i - n] = s[i]
    BY <1>3, <2>1
  <2>4. i - 1 \in 1..(L - 1)
    BY <1>a
  <2> QED
    BY <1>7, <2>2, <2>3, <2>4
<1>10. ASSUME NEW i \in DOMAIN r PROVE \E j \in DOMAIN s : j # n /\ r[i] = s[j]
  <2>1. CASE i <= n - 1
    <3>1. i \in 1..(n - 1) /\ i \in 1..L /\ i # n
      BY <1>a, <1>7, <2>1
    <3> QED
      BY <1>1, <1>8, <3>1
  <2>2. CASE ~(i <= n - 1)
    <3>0. i \in 1..(L - 1)
      BY <1>7
    <3>1. PICK j \in Int : j = i + 1
      BY <3>0
    <3>2. j \in (n + 1)..L /\ j - 1 = i /\ j \in 1..L /\ j # n
      BY <1>a, <2>2, <3>0, <3>1
    <3> QED
      BY <1>1, <1>9, <3>2
  <2> QED
    BY <2>1, <2>2
<1>11. ASSUME NEW j \in DOMAIN s, j # n PROVE \E i \in DOMAIN r : r[i] = s[j]
  <2>1. j \in 1..(n - 1) \/ j \in (n + 1)..L
    BY <1>1, <1>a, <1>11
  <2> QED
    BY <1>8, <1>9, <2>1
<1> QED
  BY <1>6, <1>10, <1>11

-----------------------------------------------------------------------------
Tasks == [f : DataFrames, pc : {"put", "cursor"}, todo : SUBSET Colls]
           \cup [f : Frames, pc : {"cursor"}, todo : SUBSET Colls]
Listing == [pc : {"list"}, colls : SUBSET Colls, since : Cursors]
Reading == [pc : {"get"}, colls : SUBSET Colls, since : Cursors, coll : Colls,
            got : Seq(DataFrames), todo : SUBSET Entries]

\* The types by which the steps below take records apart.
LEMMA PutTypes ==
    ASSUME STypeOK, NEW w \in Writers, put[w] # Idle
    PROVE  put[w].pc \in {"write", "index", "emit"} /\ put[w].id \in Ids /\ put[w].ts \in 1..MaxPuts
BY DEF STypeOK

LEMMA FrameTypes ==
    ASSUME NEW f \in Frames
    PROVE  /\ f.kind \in {"data", "resumed"}
           /\ f.kind = "data" => f \in DataFrames
           /\ f.kind = "resumed" => f.cursors \in Cursors
BY DEF Frames, DataFrames

LEMMA DataTypes ==
    ASSUME NEW f \in DataFrames
    PROVE  /\ f.kind = "data" /\ f.id \in Ids /\ f.ver \in 1..MaxPuts
           /\ f.colls \subseteq Colls /\ f.ts \in 1..MaxPuts
           /\ f \in Frames
BY DEF Frames, DataFrames

LEMMA ReplayTypes ==
    ASSUME STypeOK, replay # Idle
    PROVE  /\ replay.pc = "list" => replay \in Listing
           /\ replay.pc = "get" => replay \in Reading
           /\ replay.pc \in {"list", "get"}
           /\ replay.colls \subseteq Colls /\ replay.since \in Cursors
           /\ replay.pc = "get" => /\ replay.coll \in Colls /\ replay.got \in Seq(DataFrames)
                                   /\ replay.todo \subseteq Entries
BY DEF STypeOK, Listing, Reading

LEMMA TaskTypes ==
    ASSUME STypeOK, NEW n \in DOMAIN tasks
    PROVE  /\ tasks[n] \in Tasks /\ tasks[n].f \in Frames /\ tasks[n].todo \subseteq Colls
           /\ tasks[n].pc \in {"put", "cursor"}
           /\ tasks[n].pc = "put" => tasks[n].f \in DataFrames
<1>1. tasks \in Seq(Tasks)
  BY DEF STypeOK, Tasks
<1>2. n \in 1..Len(tasks)
  BY <1>1, LenProperties
<1>3. tasks[n] \in Tasks
  BY <1>1, <1>2, ElementOfSeq
<1> QED
  BY <1>3, DataTypes DEF Tasks

LEMMA TypeInit == SInit => STypeOK
<1> SUFFICES ASSUME SInit PROVE STypeOK
  OBVIOUS
<1> USE ResumeAssumption
<1>1. <<>> \in Seq(Requests) /\ <<>> \in Seq(Frames) /\ <<>> \in Seq(Tasks)
  BY EmptySeq
<1>2. NoCursors \in Cursors
  BY DEF NoCursors, Cursors
<1> QED
  BY <1>1, <1>2 DEF SInit, STypeOK, Tasks

LEMMA PutTyped ==
    ASSUME STypeOK, NEW w \in Writers,
           PutStep(w) \/ \E id \in Ids : PutCalled(w, id)
    PROVE  STypeOK'
<1> USE ResumeAssumption
<1>1. CASE \E id \in Ids : PutCalled(w, id)
  <2>1. PICK id \in Ids, ts \in 1..MaxPuts :
          /\ used' = used \cup {ts} /\ put' = [put EXCEPT ![w] = [pc |-> "write", id |-> id, ts |-> ts]]
          /\ UNCHANGED <<obj, idx, subs, conn, up, peerSubs, replay, down, clientVars, caught, from, drops>>
    BY <1>1 DEF PutCalled
  <2> QED
    BY <2>1 DEF STypeOK, clientVars
<1>2. CASE PutStep(w)
  <2>1. put[w] # Idle
    BY <1>2 DEF PutStep, PutWritten, PutIndexed, PutEmitted
  <2>2. put[w].pc \in {"write", "index", "emit"} /\ put[w].id \in Ids /\ put[w].ts \in 1..MaxPuts
    BY <2>1, PutTypes
  <2>a. \A pc \in {"index", "emit"} :
          [put EXCEPT ![w].pc = pc] \in
            [Writers -> {Idle} \cup [pc : {"write", "index", "emit"}, id : Ids, ts : 1..MaxPuts]]
    <3> SUFFICES ASSUME NEW pc \in {"index", "emit"}
                 PROVE  [put EXCEPT ![w].pc = pc] \in
            [Writers -> {Idle} \cup [pc : {"write", "index", "emit"}, id : Ids, ts : 1..MaxPuts]]
      OBVIOUS
    <3>1. put[w] \in [pc : {"write", "index", "emit"}, id : Ids, ts : 1..MaxPuts]
      BY <2>1 DEF STypeOK
    <3>2. PICK q : q = [put[w] EXCEPT !.pc = pc]
      OBVIOUS
    <3>3. q \in [pc : {"write", "index", "emit"}, id : Ids, ts : 1..MaxPuts]
      BY <3>1, <3>2
    <3>4. [put EXCEPT ![w].pc = pc] = [put EXCEPT ![w] = q]
      BY <3>2
    <3> QED
      BY <3>3, <3>4 DEF STypeOK
  <2>3. CASE PutWritten(w)
    <3>1. put' \in [Writers -> {Idle} \cup [pc : {"write", "index", "emit"}, id : Ids, ts : 1..MaxPuts]]
      BY <2>3, <2>a DEF PutWritten
    <3>2. PICK id \in Ids, ts \in 0..MaxPuts : id = put[w].id /\ ts = put[w].ts
      BY <2>2
    <3>3. obj' \in [Ids -> 0..MaxPuts] /\ idx' \in [Ids -> 0..MaxPuts]
      BY <2>3, <3>2 DEF PutWritten, STypeOK
    <3> QED
      BY <2>3, <3>1, <3>3 DEF PutWritten, STypeOK, clientVars
  <2>4. CASE PutIndexed(w)
    <3>1. put' \in [Writers -> {Idle} \cup [pc : {"write", "index", "emit"}, id : Ids, ts : 1..MaxPuts]]
      BY <2>4, <2>a DEF PutIndexed
    <3>2. PICK id \in Ids, ts \in 0..MaxPuts : id = put[w].id /\ ts = put[w].ts
      BY <2>2
    <3>3. obj' \in [Ids -> 0..MaxPuts] /\ idx' \in [Ids -> 0..MaxPuts]
      BY <2>4, <3>2 DEF PutIndexed, STypeOK
    <3> QED
      BY <2>4, <3>1, <3>3 DEF PutIndexed, STypeOK, clientVars
  <2>5. CASE PutEmitted(w)
    <3>1. PICK f : f = Data(put[w].id, put[w].ts, Place[put[w].id], put[w].ts)
      OBVIOUS
    <3>2. f \in Frames
      BY <2>2, <3>1 DEF Data, Frames, DataFrames
    <3>3. down' \in Seq(Frames)
      BY <2>5, <3>1, <3>2 DEF PutEmitted, STypeOK
    <3> QED
      BY <2>5, <3>3 DEF PutEmitted, STypeOK, clientVars
  <2> QED
    BY <1>2, <2>3, <2>4, <2>5 DEF PutStep
<1> QED
  BY <1>1, <1>2

LEMMA RequestTyped ==
    ASSUME STypeOK,
           \/ Open \/ SendResume \/ HandleSubscribe \/ HandleResume \/ Drop
           \/ \E c \in LateColls : SubscribeLate(c)
    PROVE  STypeOK'
<1> USE ResumeAssumption
<1>0. <<>> \in Seq(Requests) /\ <<>> \in Seq(Frames) /\ up \in Seq(Requests)
  BY EmptySeq DEF STypeOK
<1>1. CASE Open
  <2>1. [op |-> "subscribe", colls |-> subs] \in Requests
    BY DEF STypeOK, Requests
  <2>2. up' \in Seq(Requests)
    BY <1>0, <1>1, <2>1 DEF Open
  <2> QED
    BY <1>1, <2>2 DEF Open, STypeOK, relayVars, clientVars
<1>2. CASE SendResume
  <2>1. [op |-> "resume", since |-> [c \in Colls |-> cursor[c]]] \in Requests
    BY DEF STypeOK, Requests, Cursors
  <2>2. up' \in Seq(Requests)
    BY <1>0, <1>2, <2>1 DEF SendResume
  <2> QED
    BY <1>2, <2>2 DEF SendResume, STypeOK, relayVars, clientVars
<1>3. ASSUME NEW c \in LateColls, SubscribeLate(c) PROVE STypeOK'
  <2>1. [op |-> "subscribe", colls |-> {c}] \in Requests
    BY DEF Requests
  <2>2. up' \in Seq(Requests)
    BY <1>0, <1>3, <2>1 DEF SubscribeLate
  <2> QED
    BY <1>3, <2>2 DEF SubscribeLate, STypeOK, relayVars, clientVars
<1>4. CASE HandleSubscribe
  <2>1. up' \in Seq(Requests) /\ Head(up) \in Requests
    BY <1>0, <1>4, HeadTailProperties DEF HandleSubscribe
  <2>2. Head(up).colls \subseteq Colls
    BY <1>4, <2>1 DEF HandleSubscribe, Requests
  <2> QED
    BY <1>4, <2>1, <2>2 DEF HandleSubscribe, STypeOK, relayVars, clientVars
<1>5. CASE HandleResume
  <2>1. up' \in Seq(Requests) /\ Head(up) \in Requests
    BY <1>0, <1>5, HeadTailProperties DEF HandleResume
  <2>2. Head(up).since \in Cursors
    BY <1>5, <2>1 DEF HandleResume, Requests
  <2>3. replay' \in Listing
    BY <1>5, <2>2 DEF HandleResume, Listing, STypeOK
  <2> QED
    BY <1>5, <2>1, <2>2, <2>3 DEF HandleResume, STypeOK, relayVars, clientVars, Listing
<1>6. CASE Drop
  <2>1. NoCursors \in Cursors
    BY DEF NoCursors, Cursors
  <2> QED
    BY <1>0, <1>6, <2>1 DEF Drop, STypeOK, relayVars, clientVars
<1> QED
  BY <1>1, <1>2, <1>3, <1>4, <1>5, <1>6

LEMMA ReplayTyped ==
    ASSUME STypeOK, ReplayStep
    PROVE  STypeOK'
<1>0. /\ replay # Idle
      /\ UNCHANGED <<relayVars, subs, conn, up, peerSubs, clientVars, caught, from, drops>>
  BY DEF ReplayStep, ReplayList, ReplayGet, ReplaySend, ReplayEnd
<1>a. down \in Seq(Frames)
  BY DEF STypeOK
<1> SUFFICES replay' \in {Idle} \cup Listing \cup Reading /\ down' \in Seq(Frames)
  BY <1>0 DEF STypeOK, relayVars, clientVars, Listing, Reading
<1>1. CASE ReplayList
  <2>1. PICK c \in replay.colls :
          replay' = [pc |-> "get", colls |-> replay.colls, since |-> replay.since,
                     coll |-> c, got |-> <<>>, todo |-> Missed(c, replay.since[c])]
    BY <1>1 DEF ReplayList
  <2>2. Missed(c, replay.since[c]) \subseteq Entries
    BY DEF Missed, Entries
  <2>3. <<>> \in Seq(DataFrames)
    BY EmptySeq
  <2>4. replay' \in Reading
    BY <1>0, <2>1, <2>2, <2>3, ReplayTypes DEF Reading
  <2> QED
    BY <1>1, <1>a, <2>4 DEF ReplayList
<1>2. CASE ReplayGet
  <2>1. PICK e \in replay.todo :
          replay' = [replay EXCEPT !.todo = @ \ {e},
                       !.got = IF obj[e.id] = 0 THEN @
                               ELSE Append(@, Data(e.id, obj[e.id], ReplayedUnder, e.ts))]
    BY <1>2 DEF ReplayGet
  <2>2. replay \in Reading /\ e \in Entries /\ replay.coll \in Colls /\ replay.got \in Seq(DataFrames)
    BY <1>0, <1>2, ReplayTypes DEF ReplayGet
  <2>3. obj[e.id] # 0 => Data(e.id, obj[e.id], ReplayedUnder, e.ts) \in DataFrames
    BY <2>2, ResumeAssumption DEF Data, DataFrames, Entries, ReplayedUnder, STypeOK
  <2>4. PICK got \in Seq(DataFrames) :
          got = IF obj[e.id] = 0 THEN replay.got
                ELSE Append(replay.got, Data(e.id, obj[e.id], ReplayedUnder, e.ts))
    <3>1. CASE obj[e.id] = 0
      BY <2>2, <3>1
    <3>2. CASE obj[e.id] # 0
      <4>1. PICK f \in DataFrames : f = Data(e.id, obj[e.id], ReplayedUnder, e.ts)
        BY <2>3, <3>2
      <4>2. Append(replay.got, f) \in Seq(DataFrames)
        BY <2>2
      <4> QED
        BY <3>2, <4>1, <4>2
    <3> QED
      BY <3>1, <3>2
  <2>5. replay' = [replay EXCEPT !.todo = @ \ {e}, !.got = got]
    BY <2>1, <2>4
  <2>6. replay' \in Reading
    BY <2>2, <2>5 DEF Reading
  <2> QED
    BY <1>2, <1>a, <2>6 DEF ReplayGet
<1>3. CASE ReplaySend
  <2>1. /\ replay.got \in Seq(DataFrames) /\ replay.coll \in Colls /\ replay.since \in Cursors
        /\ replay.colls \subseteq Colls
    BY <1>0, <1>3, ReplayTypes DEF ReplaySend
  <2>2. replay.got \in Seq(Frames)
    BY <2>1, SeqMonotonic DEF Frames
  <2>3. replay.got # <<>> => Last(replay.got).ts \in 1..MaxPuts
    <3> SUFFICES ASSUME replay.got # <<>> PROVE Last(replay.got).ts \in 1..MaxPuts
      OBVIOUS
    <3>1. Len(replay.got) \in 1..Len(replay.got)
      BY <2>1, EmptySeq
    <3>2. replay.got[Len(replay.got)] \in DataFrames
      BY <2>1, <3>1, ElementOfSeq
    <3> QED
      BY <3>2, DataTypes DEF Last
  <2>4. PICK since \in Cursors :
          since = IF replay.got = <<>> THEN replay.since
                  ELSE [replay.since EXCEPT ![replay.coll] = Last(replay.got).ts]
    <3>1. CASE replay.got = <<>>
      BY <2>1, <3>1
    <3>2. CASE replay.got # <<>>
      <4>1. PICK v \in 0..MaxPuts : v = Last(replay.got).ts
        BY <2>3, <3>2, ResumeAssumption
      <4>2. [replay.since EXCEPT ![replay.coll] = v] \in Cursors
        BY <2>1 DEF Cursors
      <4> QED
        BY <3>2, <4>1, <4>2
    <3> QED
      BY <3>1, <3>2
  <2>5. replay' = [pc |-> "list", colls |-> replay.colls \ {replay.coll}, since |-> since]
    BY <1>3, <2>4 DEF ReplaySend
  <2>6. replay' \in Listing
    BY <2>1, <2>5 DEF Listing
  <2>7. down' \in Seq(Frames)
    BY <1>3, <1>a, <2>2, ConcatProperties DEF ReplaySend
  <2> QED
    BY <2>6, <2>7
<1>4. CASE ReplayEnd
  <2>1. Resumed(replay.since) \in Frames
    BY <1>0, ReplayTypes DEF Resumed, Frames
  <2> QED
    BY <1>4, <1>a, <2>1 DEF ReplayEnd
<1> QED
  BY <1>1, <1>2, <1>3, <1>4 DEF ReplayStep

\* What Continue() makes of the tasks: task n is gone, or goes on with cs.
LEMMA Continued ==
    ASSUME STypeOK, NEW n \in DOMAIN tasks, NEW cs \in SUBSET Colls
    PROVE  /\ Continue(n, cs) \in Seq(Tasks)
           /\ \A i \in DOMAIN Continue(n, cs) :
                \/ \E j \in DOMAIN tasks : j # n /\ Continue(n, cs)[i] = tasks[j]
                \/ /\ Continue(n, cs)[i].pc = "cursor" /\ Continue(n, cs)[i].f = tasks[n].f
                   /\ Continue(n, cs)[i].todo = cs
           /\ \A j \in DOMAIN tasks : j # n =>
                \E i \in DOMAIN Continue(n, cs) : Continue(n, cs)[i] = tasks[j]
<1>1. tasks \in Seq(Tasks) /\ DOMAIN tasks = 1..Len(tasks)
  <2>1. tasks \in Seq(Tasks)
    BY DEF STypeOK, Tasks
  <2> QED
    BY <2>1, LenProperties
<1>2. CASE cs = {}
  <2>1. PICK r : r = RemoveAt(tasks, n) /\ r = Continue(n, cs)
    BY <1>2 DEF Continue
  <2>2. /\ r \in Seq(Tasks)
        /\ \A i \in DOMAIN r : \E j \in DOMAIN tasks : j # n /\ r[i] = tasks[j]
        /\ \A j \in DOMAIN tasks : j # n => \E i \in DOMAIN r : r[i] = tasks[j]
    <3>1. PICK ts \in Seq(Tasks) : ts = tasks
      BY <1>1
    <3>2. n \in DOMAIN ts /\ r = RemoveAt(ts, n)
      BY <2>1, <3>1
    <3>3. /\ r \in Seq(Tasks)
          /\ \A i \in DOMAIN r : \E j \in DOMAIN ts : j # n /\ r[i] = ts[j]
          /\ \A j \in DOMAIN ts : j # n => \E i \in DOMAIN r : r[i] = ts[j]
      BY <3>2, RemovedAt
    <3> QED
      BY <3>1, <3>3
  <2> QED
    BY <2>1, <2>2
<1>3. CASE cs # {}
  <2>1. PICK t : t = [tasks[n] EXCEPT !.pc = "cursor", !.todo = cs]
    OBVIOUS
  <2>2. t \in Tasks /\ t.pc = "cursor" /\ t.f = tasks[n].f /\ t.todo = cs
    <3>1. tasks[n] \in Tasks
      BY TaskTypes
    <3> QED
      BY <2>1, <3>1, DataTypes DEF Tasks
  <2>3. Continue(n, cs) = [tasks EXCEPT ![n] = t]
    BY <1>1, <1>3, <2>1 DEF Continue
  <2>4. PICK s \in Seq(Tasks) : s = Continue(n, cs)
    BY <1>1, <2>2, <2>3, ExceptSeq
  <2>5. DOMAIN s = DOMAIN tasks /\ \A j \in DOMAIN tasks : s[j] = IF j = n THEN t ELSE tasks[j]
    BY <1>1, <2>3, <2>4
  <2> QED
    BY <2>2, <2>4, <2>5
<1> QED
  BY <1>2, <1>3

LEMMA TaskTyped ==
    ASSUME STypeOK, Receive \/ TaskStep
    PROVE  STypeOK'
<1>0. /\ tasks \in Seq(Tasks) /\ down \in Seq(Frames)
  BY DEF STypeOK, Tasks
<1>1. CASE Receive
  <2>1. PICK f : f = Head(down)
    OBVIOUS
  <2>2. PICK set : set = {c \in Colls : f.cursors[c] # 0}
    OBVIOUS
  <2>3. f \in Frames /\ down' \in Seq(Frames)
    BY <1>0, <1>1, <2>1, HeadTailProperties DEF Receive
  <2>4. tasks' \in Seq(Tasks)
    <3>1. CASE f.kind = "data"
      <4>1. [f |-> f, pc |-> "put", todo |-> {}] \in Tasks
        BY <2>3, <3>1, FrameTypes DEF Tasks
      <4>2. tasks' = Append(tasks, [f |-> f, pc |-> "put", todo |-> {}])
        BY <1>1, <2>1, <3>1 DEF Receive, Stored
      <4> QED
        BY <1>0, <4>1, <4>2
    <3>2. CASE f.kind = "resumed"
      <4>1. [f |-> f, pc |-> "cursor", todo |-> set] \in Tasks
        BY <2>2, <2>3 DEF Tasks
      <4>2. tasks' = tasks \/ tasks' = Append(tasks, [f |-> f, pc |-> "cursor", todo |-> set])
        BY <1>1, <2>1, <2>2, <3>2 DEF Receive, Stored
      <4> QED
        BY <1>0, <4>1, <4>2
    <3> QED
      BY <2>3, <3>1, <3>2, FrameTypes
  <2> QED
    BY <1>1, <2>3, <2>4 DEF Receive, STypeOK, relayVars, Tasks
<1>2. ASSUME NEW n \in DOMAIN tasks, StoreFrame(n) PROVE STypeOK'
  <2>1. tasks[n].f \in DataFrames
    BY <1>2, TaskTypes DEF StoreFrame
  <2>2. PICK f \in DataFrames : f = tasks[n].f
    BY <2>1
  <2>3. PICK cs \in SUBSET Colls : cs = f.colls \cap subs
    BY <2>2, DataTypes
  <2>4. tasks' \in Seq(Tasks)
    BY <1>2, <2>2, <2>3, Continued DEF StoreFrame
  <2>5. cdoc' = [cdoc EXCEPT ![f.id] = f.ver] /\ cplace' = [cplace EXCEPT ![f.id] = f.colls]
    BY <1>2, <2>2 DEF StoreFrame
  <2>6. cdoc' \in [Ids -> 0..MaxPuts] /\ cplace' \in [Ids -> SUBSET Colls]
    BY <2>2, <2>5, DataTypes, ResumeAssumption DEF STypeOK
  <2> QED
    BY <1>2, <2>4, <2>6 DEF StoreFrame, STypeOK, relayVars, Tasks
<1>3. ASSUME NEW n \in DOMAIN tasks, StoreCursor(n) PROVE STypeOK'
  <2>1. PICK c \in tasks[n].todo :
          /\ cursor' = [cursor EXCEPT ![c] =
               IF tasks[n].f.kind = "data" THEN tasks[n].f.ts ELSE tasks[n].f.cursors[c]]
          /\ tasks' = Continue(n, tasks[n].todo \ {c})
    BY <1>3 DEF StoreCursor
  <2>2. c \in Colls /\ tasks[n].f \in Frames /\ tasks[n].todo \ {c} \in SUBSET Colls
    BY TaskTypes
  <2>3. PICK f \in Frames : f = tasks[n].f
    BY <2>2
  <2>4. PICK v \in 0..MaxPuts : v = IF f.kind = "data" THEN f.ts ELSE f.cursors[c]
    <3>1. CASE f.kind = "data"
      BY <3>1, FrameTypes, DataTypes, ResumeAssumption
    <3>2. CASE f.kind = "resumed"
      BY <2>2, <3>2, FrameTypes DEF Cursors
    <3> QED
      BY <3>1, <3>2, FrameTypes
  <2>5. cursor' = [cursor EXCEPT ![c] = v]
    BY <2>1, <2>3, <2>4
  <2>6. cursor' \in Cursors
    BY <2>2, <2>5 DEF STypeOK, Cursors
  <2>7. tasks' \in Seq(Tasks)
    BY <2>1, <2>2, Continued
  <2> QED
    BY <1>3, <2>6, <2>7 DEF StoreCursor, STypeOK, relayVars, Tasks
<1> QED
  BY <1>1, <1>2, <1>3 DEF TaskStep

LEMMA TypeStep == STypeOK /\ [SNext]_vars => STypeOK'
<1> SUFFICES ASSUME STypeOK, [SNext]_vars PROVE STypeOK'
  OBVIOUS
<1>1. CASE UNCHANGED vars
  BY <1>1 DEF vars, relayVars, clientVars, STypeOK
<1> QED
  BY <1>1, PutTyped, RequestTyped, ReplayTyped, TaskTyped DEF SNext

\* Type correctness of the bridge, the replay and the client, for any use of
\* the relay; only data frames are ever stored as documents.
THEOREM ResumeTypeCorrect == SSpec => []STypeOK
BY TypeInit, TypeStep, PTL DEF SSpec
-----------------------------------------------------------------------------
\* The relay's store.

PutsStep == \E w \in Writers : PutStep(w) \/ \E id \in Ids : PutCalled(w, id)

\* What each step of a put of id, with timestamp ts, finds and does.
Called(w, id, ts) ==
    /\ put[w] = Idle
    /\ put' = [put EXCEPT ![w] = [pc |-> "write", id |-> id, ts |-> ts]]
    /\ obj' = obj /\ idx' = idx /\ down' = down
Written(w, id, ts) ==
    /\ put[w] # Idle /\ put[w].pc = "write" /\ put[w].id = id /\ put[w].ts = ts
    /\ put' = [put EXCEPT ![w] = [pc |-> "index", id |-> id, ts |-> ts]]
    /\ obj' = [obj EXCEPT ![id] = ts] /\ idx' = [idx EXCEPT ![id] = 0] /\ down' = down
Indexed(w, id, ts) ==
    /\ put[w] # Idle /\ put[w].pc = "index" /\ put[w].id = id /\ put[w].ts = ts
    /\ put' = [put EXCEPT ![w] = [pc |-> "emit", id |-> id, ts |-> ts]]
    /\ obj' = obj /\ idx' = [idx EXCEPT ![id] = ts] /\ down' = down
Emitted(w, id, ts) ==
    /\ put[w] # Idle /\ put[w].pc = "emit" /\ put[w].id = id /\ put[w].ts = ts
    /\ put' = [put EXCEPT ![w] = Idle]
    /\ obj' = obj /\ idx' = idx
    /\ down' = IF Relevant(id) THEN Append(down, Data(id, ts, Place[id], ts)) ELSE down

LEMMA PutEffect ==
    ASSUME STypeOK, PutsStep
    PROVE  \E w \in Writers, id \in Ids, ts \in 1..MaxPuts :
             Called(w, id, ts) \/ Written(w, id, ts) \/ Indexed(w, id, ts) \/ Emitted(w, id, ts)
<1>1. PICK w \in Writers : PutStep(w) \/ \E id \in Ids : PutCalled(w, id)
  BY DEF PutsStep
<1>2. CASE \E id \in Ids : PutCalled(w, id)
  <2>1. PICK id \in Ids : PutCalled(w, id)
    BY <1>2
  <2> QED
    BY <2>1 DEF PutCalled, Called
<1>3. CASE PutStep(w)
  <2>1. put[w] # Idle
    BY <1>3 DEF PutStep, PutWritten, PutIndexed, PutEmitted
  <2>2. PICK id \in Ids, ts \in 1..MaxPuts : id = put[w].id /\ ts = put[w].ts
    BY <2>1, PutTypes
  <2>3. put[w] \in [pc : {"write", "index", "emit"}, id : Ids, ts : 1..MaxPuts]
    BY <2>1 DEF STypeOK
  <2>4. \A pc \in {"index", "emit"} : [put[w] EXCEPT !.pc = pc] = [pc |-> pc, id |-> id, ts |-> ts]
    BY <2>2, <2>3
  <2>5. CASE PutWritten(w)
    <3>1. put' = [put EXCEPT ![w] = [put[w] EXCEPT !.pc = "index"]]
      BY <2>5 DEF PutWritten
    <3> QED
      BY <2>1, <2>2, <2>4, <2>5, <3>1 DEF PutWritten, Written
  <2>6. CASE PutIndexed(w)
    <3>1. put' = [put EXCEPT ![w] = [put[w] EXCEPT !.pc = "emit"]]
      BY <2>6 DEF PutIndexed
    <3> QED
      BY <2>1, <2>2, <2>4, <2>6, <3>1 DEF PutIndexed, Indexed
  <2>7. CASE PutEmitted(w)
    BY <2>1, <2>2, <2>7 DEF PutEmitted, Emitted
  <2> QED
    BY <1>3, <2>5, <2>6, <2>7 DEF PutStep
<1> QED
  BY <1>1, <1>2, <1>3

LEMMA OthersLeaveRelay ==
    ASSUME [SNext]_vars
    PROVE  UNCHANGED relayVars \/ PutsStep
BY DEF SNext, vars, PutsStep, Open, SendResume, HandleSubscribe, HandleResume, SubscribeLate,
   ReplayStep, ReplayList, ReplayGet, ReplaySend, ReplayEnd, Receive, TaskStep, StoreFrame,
   StoreCursor, Drop

-----------------------------------------------------------------------------
\* What the client has, and what is on its way to it.

\* A frame received becomes a task, or nothing if it says nothing.
Received(f) ==
    /\ down # <<>> /\ f = Head(down) /\ down' = Tail(down)
    /\ \/ f.kind = "resumed" /\ tasks' = tasks
       \/ \E t \in Tasks : /\ t.f = f /\ (t.pc = "put" <=> f.kind = "data")
                           /\ (f.kind = "data" => t.todo = {})
                           /\ tasks' = Append(tasks, t)

LEMMA ReceiveEffect ==
    ASSUME STypeOK, Receive
    PROVE  \E f \in Frames : Received(f)
<1>1. PICK f : f = Head(down)
  OBVIOUS
<1>2. PICK set : set = {c \in Colls : f.cursors[c] # 0}
  OBVIOUS
<1>3. f \in Frames
  BY <1>1, HeadTailProperties DEF Receive, STypeOK
<1>4. CASE f.kind = "data"
  <2>1. PICK t : t = [f |-> f, pc |-> "put", todo |-> {}]
    OBVIOUS
  <2>2. t \in Tasks
    BY <1>3, <1>4, <2>1, FrameTypes DEF Tasks
  <2>3. tasks' = Append(tasks, t)
    BY <1>1, <1>4, <2>1 DEF Receive, Stored
  <2> QED
    BY <1>1, <1>3, <1>4, <2>1, <2>2, <2>3 DEF Receive, Received
<1>5. CASE f.kind = "resumed"
  <2>1. PICK t : t = [f |-> f, pc |-> "cursor", todo |-> set]
    OBVIOUS
  <2>2. t \in Tasks
    BY <1>2, <1>3, <2>1 DEF Tasks
  <2>3. tasks' = Append(tasks, t) \/ tasks' = tasks
    BY <1>1, <1>2, <1>5, <2>1 DEF Receive, Stored
  <2> QED
    BY <1>1, <1>3, <1>5, <2>1, <2>2, <2>3 DEF Receive, Received
<1> QED
  BY <1>3, <1>4, <1>5, FrameTypes

\* The frames, positions and tasks that a received frame leaves.
LEMMA ReceivedFrames ==
    ASSUME STypeOK, NEW f \in Frames, Received(f)
    PROVE  /\ Len(down) \in Nat \ {0} /\ Len(down') = Len(down) - 1
           /\ DOMAIN down = 1..Len(down) /\ DOMAIN down' = 1..(Len(down) - 1)
           /\ down[1] = f /\ \A j \in 1..(Len(down) - 1) : down'[j] = down[j + 1]
<1>1. down \in Seq(Frames) /\ down # <<>> /\ down' = Tail(down) /\ f = Head(down)
  BY DEF STypeOK, Received
<1>2. Len(down) \in Nat \ {0}
  BY <1>1, EmptySeq
<1>3. Tail(down) \in Seq(Frames) /\ Len(Tail(down)) = Len(down) - 1
      /\ \A j \in 1..Len(Tail(down)) : Tail(down)[j] = down[j + 1]
  BY <1>1, HeadTailProperties
<1>4. DOMAIN down = 1..Len(down) /\ DOMAIN Tail(down) = 1..Len(Tail(down))
  BY <1>1, <1>3, LenProperties
<1>5. down[1] = f
  BY <1>1
<1> QED
  BY <1>1, <1>2, <1>3, <1>4, <1>5

LEMMA ReceivedTasks ==
    ASSUME STypeOK, NEW f \in Frames, Received(f)
    PROVE  /\ \A n \in DOMAIN tasks : n \in DOMAIN tasks' /\ tasks'[n] = tasks[n]
           /\ \A n \in DOMAIN tasks' :
                \/ n \in DOMAIN tasks /\ tasks'[n] = tasks[n]
                \/ /\ tasks'[n].f = f /\ (tasks'[n].pc = "put" <=> f.kind = "data")
                   /\ f.kind = "data" => tasks'[n].todo = {}
           /\ f.kind = "data" =>
                \E n \in DOMAIN tasks' : tasks'[n].pc = "put" /\ tasks'[n].f = f
<1>1. tasks \in Seq(Tasks)
  BY DEF STypeOK, Tasks
<1>2. CASE tasks' = tasks /\ f.kind = "resumed"
  BY <1>2
<1>3. ASSUME NEW t \in Tasks, t.f = f, t.pc = "put" <=> f.kind = "data",
             f.kind = "data" => t.todo = {}, tasks' = Append(tasks, t)
      PROVE  /\ \A n \in DOMAIN tasks : n \in DOMAIN tasks' /\ tasks'[n] = tasks[n]
             /\ \A n \in DOMAIN tasks' :
                  (n \in DOMAIN tasks /\ tasks'[n] = tasks[n]) \/ tasks'[n] = t
             /\ \E n \in DOMAIN tasks' : tasks'[n] = t
  BY <1>1, <1>3, AppendProperties, LenProperties
<1> QED
  BY <1>2, <1>3 DEF Received

-----------------------------------------------------------------------------
\* What a step may do to the client and to the frames on their way.

\* Frames are sent, if any: those before stay where they are.
Sends ==
    /\ UNCHANGED clientVars
    /\ \A j \in DOMAIN down : j \in DOMAIN down' /\ down'[j] = down[j]

LEMMA FramesOfDown ==
    STypeOK => down \in Seq(Frames) /\ Len(down) \in Nat /\ DOMAIN down = 1..Len(down)
               /\ \A j \in DOMAIN down : down[j] \in Frames
BY LenProperties, ElementOfSeq DEF STypeOK

LEMMA PutsLeaveRest ==
    ASSUME PutsStep
    PROVE  UNCHANGED <<subs, conn, up, peerSubs, replay, caught, from, clientVars, drops>>
BY DEF PutsStep, PutStep, PutCalled, PutWritten, PutIndexed, PutEmitted

LEMMA EmittedFrames ==
    ASSUME STypeOK, PutsStep, NEW w \in Writers, NEW id \in Ids, NEW ts \in 1..MaxPuts,
           Emitted(w, id, ts)
    PROVE  /\ Sends
           /\ Relevant(id) => \E j \in DOMAIN down' : down'[j] = Data(id, ts, Place[id], ts)
<1>1. PICK f : f = Data(id, ts, Place[id], ts)
  OBVIOUS
<1>2. f \in Frames
  BY <1>1, ResumeAssumption DEF Data, Frames, DataFrames
<1>3. UNCHANGED clientVars /\ down' = IF Relevant(id) THEN Append(down, f) ELSE down
  BY <1>1, PutsLeaveRest DEF Emitted
<1>4. CASE ~Relevant(id)
  BY <1>3, <1>4 DEF Sends
<1>5. CASE Relevant(id)
  <2>1. PICK L \in Nat : L = Len(down) /\ DOMAIN down = 1..L /\ down \in Seq(Frames)
    BY FramesOfDown
  <2>2. DOMAIN down' = 1..(L + 1) /\ down'[L + 1] = f /\ \A j \in 1..L : down'[j] = down[j]
    BY <1>2, <1>3, <1>5, <2>1, AppendProperties, LenProperties
  <2> QED
    BY <1>1, <1>3, <2>1, <2>2 DEF Sends
<1> QED
  BY <1>4, <1>5

LEMMA ReplayedFrames ==
    ASSUME STypeOK, ReplaySend
    PROVE  /\ Sends
           /\ \A i \in DOMAIN replay.got : \E j \in DOMAIN down' : down'[j] = replay.got[i]
<1>1. PICK got : got = replay.got
  OBVIOUS
<1>2. got \in Seq(DataFrames)
  BY <1>1, ReplayTypes DEF ReplaySend
<1>3. got \in Seq(Frames)
  BY <1>2, SeqMonotonic DEF Frames
<1>4. PICK L \in Nat, M \in Nat : /\ L = Len(down) /\ DOMAIN down = 1..L /\ down \in Seq(Frames)
                                  /\ M = Len(got) /\ DOMAIN got = 1..M
  BY <1>3, FramesOfDown, LenProperties
<1>5. down' = down \o got
  BY <1>1 DEF ReplaySend
<1>6. down' \in Seq(Frames) /\ Len(down') = L + M
      /\ \A j \in 1..(L + M) : down'[j] = IF j <= L THEN down[j] ELSE got[j - L]
  BY <1>3, <1>4, <1>5, ConcatProperties
<1>7. DOMAIN down' = 1..(L + M)
  BY <1>6, LenProperties
<1>8. \A j \in 1..L : j \in 1..(L + M) /\ down'[j] = down[j]
  BY <1>6
<1>10. ASSUME NEW i \in 1..M PROVE L + i \in 1..(L + M) /\ down'[L + i] = got[i]
  <2>1. L + i \in 1..(L + M) /\ ~(L + i <= L) /\ (L + i) - L = i
    OBVIOUS
  <2> QED
    BY <1>6, <2>1
<1>11. UNCHANGED clientVars
  BY DEF ReplaySend
<1>12. Sends
  BY <1>4, <1>7, <1>8, <1>11 DEF Sends
<1>14. \A i \in DOMAIN got : \E j \in DOMAIN down' : down'[j] = got[i]
  BY <1>4, <1>7, <1>10
<1> QED
  BY <1>1, <1>12, <1>14

LEMMA EndFrame ==
    ASSUME STypeOK, ReplayEnd
    PROVE  Sends
<1>1. PICK f : f = Resumed(replay.since)
  OBVIOUS
<1>2. f \in Frames
  BY <1>1, ReplayTypes DEF Resumed, Frames, ReplayEnd
<1>3. UNCHANGED clientVars /\ down' = Append(down, f)
  BY <1>1 DEF ReplayEnd
<1>4. PICK L \in Nat : L = Len(down) /\ DOMAIN down = 1..L /\ down \in Seq(Frames)
  BY FramesOfDown
<1>5. DOMAIN down' = 1..(L + 1) /\ \A j \in 1..L : down'[j] = down[j]
  BY <1>2, <1>3, <1>4, AppendProperties, LenProperties
<1> QED
  BY <1>3, <1>4, <1>5 DEF Sends

\* Every step sends frames, if any, delivers one, works on one, or drops them.
LEMMA Flow ==
    ASSUME STypeOK, [SNext]_vars
    PROVE  Sends \/ Receive \/ TaskStep \/ Drop
<1>1. CASE UNCHANGED <<clientVars, down>>
  BY <1>1 DEF Sends
<1>2. CASE PutsStep
  <2>1. PICK w \in Writers, id \in Ids, ts \in 1..MaxPuts :
          Called(w, id, ts) \/ Written(w, id, ts) \/ Indexed(w, id, ts) \/ Emitted(w, id, ts)
    BY <1>2, PutEffect
  <2>2. UNCHANGED clientVars
    BY <1>2, PutsLeaveRest
  <2>3. CASE Emitted(w, id, ts)
    BY <1>2, <2>3, EmittedFrames
  <2>4. CASE Called(w, id, ts) \/ Written(w, id, ts) \/ Indexed(w, id, ts)
    BY <1>1, <2>2, <2>4 DEF Called, Written, Indexed
  <2> QED
    BY <2>1, <2>3, <2>4
<1>3. CASE ReplaySend
  BY <1>3, ReplayedFrames
<1>4. CASE ReplayEnd
  BY <1>4, EndFrame
<1>5. \/ UNCHANGED <<clientVars, down>> \/ PutsStep \/ ReplaySend \/ ReplayEnd
      \/ Receive \/ TaskStep \/ Drop
  BY DEF SNext, vars, PutsStep, Open, SendResume, HandleSubscribe, HandleResume, SubscribeLate,
     ReplayStep, ReplayList, ReplayGet
<1> QED
  BY <1>1, <1>2, <1>3, <1>4, <1>5

\* Task n is done, or goes on with the cursors of cs; the others are left alone.
Goes(n, cs) ==
    /\ \A i \in DOMAIN tasks' :
         \/ \E j \in DOMAIN tasks : j # n /\ tasks'[i] = tasks[j]
         \/ tasks'[i].pc = "cursor" /\ tasks'[i].f = tasks[n].f /\ tasks'[i].todo = cs
    /\ \A j \in DOMAIN tasks : j # n => \E i \in DOMAIN tasks' : tasks'[i] = tasks[j]

\* Task n, with frame f, has stored its document, or the cursor of a collection.
DocStored(n, f, cs) ==
    /\ f \in DataFrames /\ tasks[n].pc = "put"
    /\ cdoc' = [cdoc EXCEPT ![f.id] = f.ver]
CursorStored(n, f, cs) ==
    tasks[n].pc = "cursor" /\ cdoc' = cdoc

LEMMA TaskEffect ==
    ASSUME STypeOK, TaskStep
    PROVE  /\ UNCHANGED <<relayVars, subs, conn, up, peerSubs, replay, down, caught, from, drops>>
           /\ \E n \in DOMAIN tasks, f \in Frames, cs \in SUBSET Colls :
                f = tasks[n].f /\ Goes(n, cs) /\ (DocStored(n, f, cs) \/ CursorStored(n, f, cs))
<1>1. PICK n \in DOMAIN tasks : StoreFrame(n) \/ StoreCursor(n)
  BY DEF TaskStep
<1>2. PICK f \in Frames : f = tasks[n].f
  BY TaskTypes
<1>3. CASE StoreFrame(n)
  <2>1. f \in DataFrames
    BY <1>2, <1>3, TaskTypes DEF StoreFrame
  <2>2. PICK cs \in SUBSET Colls : cs = f.colls \cap subs
    BY <2>1, DataTypes
  <2>3. Goes(n, cs)
    <3>1. tasks' = Continue(n, cs)
      BY <1>2, <1>3, <2>2 DEF StoreFrame
    <3> QED
      BY <3>1, Continued DEF Goes
  <2>4. DocStored(n, f, cs)
    BY <1>2, <1>3, <2>1, <2>2 DEF StoreFrame, DocStored
  <2> QED
    BY <1>2, <1>3, <2>3, <2>4 DEF StoreFrame
<1>4. CASE StoreCursor(n)
  <2>1. PICK c \in tasks[n].todo :
          /\ cursor' = [cursor EXCEPT ![c] =
               IF tasks[n].f.kind = "data" THEN tasks[n].f.ts ELSE tasks[n].f.cursors[c]]
          /\ tasks' = Continue(n, tasks[n].todo \ {c})
    BY <1>4 DEF StoreCursor
  <2>2. PICK cs \in SUBSET Colls : cs = tasks[n].todo \ {c}
    BY TaskTypes
  <2>3. Goes(n, cs)
    <3>1. tasks' = Continue(n, cs)
      BY <2>1, <2>2
    <3> QED
      BY <3>1, Continued DEF Goes
  <2>4. CursorStored(n, f, cs)
    BY <1>2, <1>4, <2>1, <2>2 DEF StoreCursor, CursorStored
  <2> QED
    BY <1>2, <1>4, <2>3, <2>4 DEF StoreCursor
<1> QED
  BY <1>1, <1>3, <1>4

LEMMA ReceiveLeaves ==
    ASSUME Receive
    PROVE  UNCHANGED <<relayVars, subs, conn, up, peerSubs, replay, cdoc, cplace, cursor, caught, from, drops>>
BY DEF Receive

-----------------------------------------------------------------------------
\* What the client has by a frame, it keeps; what is on its way, it gets.

\* The client has the document, or a task that will store it;
Got(id) ==
    \/ cdoc[id] # 0
    \/ \E n \in DOMAIN tasks : tasks[n].pc = "put" /\ tasks[n].f.id = id
\* or it will once the frames sent to it are received.
Coming(id) ==
    Got(id) \/ \E j \in DOMAIN down : down[j].kind = "data" /\ down[j].id = id

LEMMA GotKept ==
    ASSUME STypeOK, [SNext]_vars, NEW id \in Ids, Got(id)
    PROVE  Got(id)'
<1>1. CASE UNCHANGED clientVars
  BY <1>1 DEF clientVars, Got
<1>2. CASE Receive
  <2>1. PICK f \in Frames : Received(f)
    BY <1>2, ReceiveEffect
  <2>2. \A n \in DOMAIN tasks : n \in DOMAIN tasks' /\ tasks'[n] = tasks[n]
    BY <2>1, ReceivedTasks
  <2> QED
    BY <1>2, <2>2, ReceiveLeaves DEF Got
<1>3. CASE TaskStep
  <2>1. PICK n \in DOMAIN tasks, f \in Frames, cs \in SUBSET Colls :
          f = tasks[n].f /\ Goes(n, cs) /\ (DocStored(n, f, cs) \/ CursorStored(n, f, cs))
    BY <1>3, TaskEffect
  <2>2. CASE CursorStored(n, f, cs)
    BY <2>1, <2>2 DEF CursorStored, Goes, Got
  <2>3. CASE DocStored(n, f, cs)
    <3>1. f.id \in Ids /\ f.ver # 0
      BY <2>3, DataTypes DEF DocStored
    <3>2. \A x \in Ids : x = f.id \/ cdoc[x] # 0 => cdoc'[x] # 0
      BY <2>3, <3>1 DEF DocStored, STypeOK
    <3> QED
      BY <2>1, <3>2 DEF Goes, Got
  <2> QED
    BY <2>1, <2>2, <2>3
<1> QED
  BY <1>1, <1>2, <1>3, Flow DEF Sends, Drop

LEMMA ComingKept ==
    ASSUME STypeOK, [SNext]_vars, ~Drop, NEW id \in Ids, Coming(id)
    PROVE  Coming(id)'
<1>1. CASE Got(id)
  BY <1>1, GotKept DEF Coming
<1>2. ASSUME NEW j \in DOMAIN down, down[j].kind = "data", down[j].id = id PROVE Coming(id)'
  <2>1. CASE Sends
    BY <1>2, <2>1 DEF Sends, Coming
  <2>2. CASE TaskStep
    BY <1>2, <2>2, TaskEffect DEF Coming
  <2>3. CASE Receive
    <3>1. PICK f \in Frames : Received(f)
      BY <2>3, ReceiveEffect
    <3>2. PICK L \in Nat \ {0} :
            /\ L = Len(down) /\ DOMAIN down = 1..L /\ DOMAIN down' = 1..(L - 1)
            /\ down[1] = f /\ \A k \in 1..(L - 1) : down'[k] = down[k + 1]
      BY <3>1, ReceivedFrames
    <3>3. CASE j = 1
      BY <1>2, <3>1, <3>2, <3>3, ReceivedTasks DEF Coming, Got
    <3>4. CASE j # 1
      <4>1. j - 1 \in 1..(L - 1) /\ (j - 1) + 1 = j
        BY <3>2, <3>4
      <4>2. j - 1 \in DOMAIN down' /\ down'[j - 1] = down[j]
        BY <3>2, <4>1
      <4> QED
        BY <1>2, <4>2 DEF Coming
    <3> QED
      BY <3>3, <3>4
  <2> QED
    BY <2>1, <2>2, <2>3, Flow
<1> QED
  BY <1>1, <1>2 DEF Coming

-----------------------------------------------------------------------------
\* Of what was put after the cursors of a resume, nothing is passed over.

\* The change of id is still to be announced.
Pending(id) == \E w \in Writers : put[w] # Idle /\ put[w].pc = "emit" /\ put[w].id = id

\* The replay has listed id in collection c, and not sent it yet.
InReplay(c, id) ==
    /\ replay # Idle /\ replay.pc = "get" /\ replay.coll = c
    /\ \/ \E e \in replay.todo : e.id = id
       \/ \E i \in DOMAIN replay.got : replay.got[i].id = id

\* The replay is still to list collection c, from the cursor it was resumed from.
ToList(c) ==
    /\ replay # Idle /\ c \in replay.colls /\ replay.since[c] = from[c]
    /\ replay.pc = "get" => replay.coll # c

\* What has an entry, is getting one, or is listed, is in the store.
InStore ==
    /\ \A id \in Ids : idx[id] # 0 => obj[id] # 0
    /\ \A w \in Writers : put[w] # Idle /\ put[w].pc = "index" => obj[put[w].id] # 0
    /\ replay # Idle /\ replay.pc = "get" => \A e \in replay.todo : obj[e.id] # 0

Brought(c, id) == Coming(id) \/ Pending(id) \/ ToList(c) \/ InReplay(c, id)

NoneMissed ==
    \A c \in caught, id \in Ids : c \in Place[id] /\ idx[id] > from[c] => Brought(c, id)

GapInv == STypeOK /\ InStore /\ caught \subseteq peerSubs /\ NoneMissed

\* What a step does to the replay.
LEMMA ReplayChanges ==
    ASSUME [SNext]_vars
    PROVE  replay' = replay \/ HandleResume \/ ReplayStep \/ Drop
BY PutsLeaveRest DEF SNext, vars, PutsStep, Open, SendResume, HandleSubscribe, SubscribeLate,
   Receive, TaskStep, StoreFrame, StoreCursor

LEMMA CaughtKept ==
    ASSUME [SNext]_vars, ~HandleResume, ~Drop
    PROVE  caught' = caught /\ from' = from
BY PutsLeaveRest DEF SNext, vars, PutsStep, Open, SendResume, HandleSubscribe, SubscribeLate,
   ReplayStep, ReplayList, ReplayGet, ReplaySend, ReplayEnd, Receive, TaskStep, StoreFrame, StoreCursor

LEMMA CaughtSubscribed ==
    ASSUME STypeOK, caught \subseteq peerSubs, [SNext]_vars
    PROVE  (caught \subseteq peerSubs)'
BY PutsLeaveRest DEF SNext, vars, PutsStep, Open, SendResume, HandleSubscribe, HandleResume, SubscribeLate,
   ReplayStep, ReplayList, ReplayGet, ReplaySend, ReplayEnd, Receive, TaskStep, StoreFrame, StoreCursor, Drop

\* A step of the replay.
Lists(c) ==
    /\ replay.pc = "list" /\ c \in replay.colls
    /\ replay' # Idle /\ replay'.pc = "get" /\ replay'.colls = replay.colls /\ replay'.since = replay.since
    /\ replay'.coll = c /\ replay'.todo = Missed(c, replay.since[c])
Gets(e) ==
    /\ replay.pc = "get" /\ e \in replay.todo
    /\ replay' # Idle /\ replay'.pc = "get" /\ replay'.colls = replay.colls /\ replay'.since = replay.since
    /\ replay'.coll = replay.coll /\ replay'.todo = replay.todo \ {e}
    /\ \A i \in DOMAIN replay.got : \E j \in DOMAIN replay'.got : replay'.got[j] = replay.got[i]
    /\ obj[e.id] # 0 => \E j \in DOMAIN replay'.got : replay'.got[j].id = e.id
Ends ==
    /\ replay.pc = "get" /\ replay.todo = {}
    /\ replay' # Idle /\ replay'.pc = "list" /\ replay'.colls = replay.colls \ {replay.coll}
    /\ \A c \in Colls \ {replay.coll} : replay'.since[c] = replay.since[c]
    /\ \A i \in DOMAIN replay.got : \E j \in DOMAIN down' :
         down'[j].kind = "data" /\ down'[j].id = replay.got[i].id

LEMMA ReplayEffect ==
    ASSUME STypeOK, ReplayStep
    PROVE  /\ replay # Idle
           /\ UNCHANGED <<relayVars, subs, conn, up, peerSubs, clientVars, caught, from, drops>>
           /\ \/ \E c \in replay.colls : Lists(c)
              \/ \E e \in replay.todo : Gets(e)
              \/ Ends
              \/ replay.pc = "list" /\ replay.colls = {} /\ replay' = Idle
<1>0. /\ replay # Idle
      /\ UNCHANGED <<relayVars, subs, conn, up, peerSubs, clientVars, caught, from, drops>>
  BY DEF ReplayStep, ReplayList, ReplayGet, ReplaySend, ReplayEnd
<1>1. CASE ReplayList
  <2>1. PICK c \in replay.colls :
          replay' = [pc |-> "get", colls |-> replay.colls, since |-> replay.since,
                     coll |-> c, got |-> <<>>, todo |-> Missed(c, replay.since[c])]
    BY <1>1 DEF ReplayList
  <2> QED
    BY <1>0, <1>1, <2>1 DEF ReplayList, Lists, Idle
<1>2. CASE ReplayGet
  <2>1. PICK e \in replay.todo :
          replay' = [replay EXCEPT !.todo = @ \ {e},
                       !.got = IF obj[e.id] = 0 THEN @
                               ELSE Append(@, Data(e.id, obj[e.id], ReplayedUnder, e.ts))]
    BY <1>2 DEF ReplayGet
  <2>2. replay \in Reading /\ e \in Entries /\ replay.coll \in Colls /\ replay.got \in Seq(DataFrames)
    BY <1>0, <1>2, ReplayTypes DEF ReplayGet
  <2>3. /\ replay' # Idle /\ replay'.pc = "get" /\ replay'.colls = replay.colls /\ replay'.since = replay.since
        /\ replay'.coll = replay.coll /\ replay'.todo = replay.todo \ {e} /\ replay.pc = "get"
        /\ replay'.got = IF obj[e.id] = 0 THEN replay.got
                         ELSE Append(replay.got, Data(e.id, obj[e.id], ReplayedUnder, e.ts))
    BY <2>1, <2>2 DEF Reading, Idle
  <2>4. CASE obj[e.id] = 0
    BY <1>0, <2>3, <2>4 DEF Gets
  <2>5. CASE obj[e.id] # 0
    <3>1. PICK f : f = Data(e.id, obj[e.id], ReplayedUnder, e.ts)
      OBVIOUS
    <3>2. f \in DataFrames /\ f.id = e.id
      BY <2>2, <2>5, <3>1, ResumeAssumption DEF Data, DataFrames, Entries, ReplayedUnder, STypeOK
    <3>3. /\ \A i \in DOMAIN replay.got : i \in DOMAIN replay'.got /\ replay'.got[i] = replay.got[i]
          /\ \E j \in DOMAIN replay'.got : replay'.got[j] = f
      BY <2>2, <2>3, <2>5, <3>1, <3>2, AppendProperties, LenProperties
    <3> QED
      BY <1>0, <2>3, <3>2, <3>3 DEF Gets
  <2> QED
    BY <2>4, <2>5
<1>3. CASE ReplaySend
  <2>1. /\ replay.pc = "get" /\ replay.todo = {} /\ replay.got \in Seq(DataFrames)
        /\ replay.coll \in Colls /\ replay.since \in Cursors
    BY <1>0, <1>3, ReplayTypes DEF ReplaySend
  <2>2. PICK since :
          /\ since = IF replay.got = <<>> THEN replay.since
                     ELSE [replay.since EXCEPT ![replay.coll] = Last(replay.got).ts]
          /\ replay' = [pc |-> "list", colls |-> replay.colls \ {replay.coll}, since |-> since]
    BY <1>3 DEF ReplaySend
  <2>3. \A c \in Colls \ {replay.coll} : since[c] = replay.since[c]
    BY <2>1, <2>2 DEF Cursors
  <2>4. ASSUME NEW i \in DOMAIN replay.got
        PROVE  \E j \in DOMAIN down' : down'[j].kind = "data" /\ down'[j].id = replay.got[i].id
    <3>1. replay.got[i] \in DataFrames
      BY <2>1, LenProperties, ElementOfSeq
    <3>2. PICK j \in DOMAIN down' : down'[j] = replay.got[i]
      BY <1>3, ReplayedFrames
    <3> QED
      BY <3>1, <3>2, DataTypes
  <2> QED
    BY <1>0, <2>1, <2>2, <2>3, <2>4 DEF Ends, Idle
<1>4. CASE ReplayEnd
  BY <1>0, <1>4 DEF ReplayEnd
<1> QED
  BY <1>1, <1>2, <1>3, <1>4 DEF ReplayStep

LEMMA InStoreStep ==
    ASSUME STypeOK, InStore, [SNext]_vars
    PROVE  InStore'
<1>0. obj \in [Ids -> 0..MaxPuts] /\ idx \in [Ids -> 0..MaxPuts] /\ DOMAIN put = Writers
  BY DEF STypeOK
<1>1. ASSUME PutsStep PROVE InStore' /\ \A i \in Ids : obj[i] # 0 => obj'[i] # 0
  <2>1. PICK w \in Writers, id \in Ids, ts \in 1..MaxPuts :
          Called(w, id, ts) \/ Written(w, id, ts) \/ Indexed(w, id, ts) \/ Emitted(w, id, ts)
    BY <1>1, PutEffect
  <2>2. ts # 0 /\ Idle.pc # "index"
    BY ResumeAssumption DEF Idle
  <2>3. \A i \in Ids : obj[i] # 0 => obj'[i] # 0
    BY <1>0, <2>1, <2>2 DEF Called, Written, Indexed, Emitted
  <2>4. \A i \in Ids : idx'[i] # 0 => obj'[i] # 0
    BY <1>0, <2>1, <2>2 DEF InStore, Called, Written, Indexed, Emitted
  <2>5. ASSUME NEW v \in Writers, put'[v] # Idle, put'[v].pc = "index" PROVE obj'[put'[v].id] # 0
    <3>1. CASE v = w
      BY <1>0, <2>1, <2>2, <2>5, <3>1 DEF Called, Written, Indexed, Emitted
    <3>2. CASE v # w
      <4>1. put'[v] = put[v]
        BY <1>0, <2>1, <3>2 DEF Called, Written, Indexed, Emitted
      <4> QED
        BY <2>3, <2>5, <4>1, PutTypes DEF InStore
    <3> QED
      BY <3>1, <3>2
  <2>6. replay' = replay
    BY <1>1, PutsLeaveRest
  <2>7. ASSUME replay # Idle, replay.pc = "get", NEW e \in replay.todo PROVE obj'[e.id] # 0
    BY <2>3, <2>7, ReplayTypes DEF InStore, Entries
  <2> QED
    BY <2>3, <2>4, <2>5, <2>6, <2>7 DEF InStore
<1>2. CASE UNCHANGED relayVars
  <2>1. replay' # Idle /\ replay'.pc = "get" => \A e \in replay'.todo : obj[e.id] # 0
    <3>1. CASE HandleResume \/ Drop
      BY <3>1 DEF HandleResume, Drop, Idle
    <3>2. CASE ReplayStep
      <4>1. ASSUME NEW c, Lists(c) PROVE \A e \in replay'.todo : obj[e.id] # 0
        <5>1. \A e \in Missed(c, replay.since[c]) : e.id \in Ids /\ idx[e.id] \in 1..MaxPuts
          BY DEF Missed
        <5>2. \A e \in Missed(c, replay.since[c]) : obj[e.id] # 0
          BY <5>1, ResumeAssumption DEF InStore
        <5> QED
          BY <4>1, <5>2 DEF Lists
      <4> QED
        BY <3>2, <4>1, ReplayEffect DEF Gets, Ends, InStore
    <3> QED
      BY <3>1, <3>2, ReplayChanges DEF InStore
  <2> QED
    BY <1>2, <2>1 DEF InStore, relayVars
<1> QED
  BY <1>1, <1>2, OthersLeaveRelay

\* A change still to be announced stays so, or its frame is sent.
LEMMA PendingStep ==
    ASSUME STypeOK, [SNext]_vars, NEW id \in Ids, Pending(id), Relevant(id)
    PROVE  Pending(id)' \/ Coming(id)'
<1>1. CASE put' = put
  BY <1>1 DEF Pending
<1>2. CASE PutsStep
  <2>1. PICK w \in Writers : put[w] # Idle /\ put[w].pc = "emit" /\ put[w].id = id
    BY DEF Pending
  <2>2. PICK v \in Writers, d \in Ids, ts \in 1..MaxPuts :
          Called(v, d, ts) \/ Written(v, d, ts) \/ Indexed(v, d, ts) \/ Emitted(v, d, ts)
    BY <1>2, PutEffect
  <2>3. CASE v # w
    <3>1. put'[w] = put[w]
      BY <2>2, <2>3 DEF Called, Written, Indexed, Emitted, STypeOK
    <3> QED
      BY <2>1, <3>1 DEF Pending
  <2>4. CASE v = w
    <3>1. Emitted(v, d, ts) /\ d = id
      BY <2>1, <2>2, <2>4 DEF Called, Written, Indexed, Emitted
    <3>2. PICK j \in DOMAIN down' : down'[j] = Data(id, ts, Place[id], ts)
      BY <1>2, <3>1, EmittedFrames
    <3>3. down'[j].kind = "data" /\ down'[j].id = id
      BY <3>2 DEF Data
    <3> QED
      BY <3>3 DEF Coming
  <2> QED
    BY <2>3, <2>4
<1> QED
  BY <1>1, <1>2, OthersLeaveRelay DEF relayVars

\* What the replay is to bring stays so, or its frame is sent.
LEMMA ReplayBrings ==
    ASSUME STypeOK, InStore, ReplayStep, NEW c \in Colls, NEW id \in Ids, c \in Place[id],
           idx[id] > from[c], ToList(c) \/ InReplay(c, id)
    PROVE  Coming(id)' \/ ToList(c)' \/ InReplay(c, id)'
<1>0. replay # Idle /\ from' = from /\ idx[id] \in 0..MaxPuts /\ from[c] \in 0..MaxPuts
  BY ReplayEffect DEF STypeOK, Cursors
<1>1. ASSUME NEW d \in replay.colls, Lists(d) PROVE Coming(id)' \/ ToList(c)' \/ InReplay(c, id)'
  <2>1. ToList(c)
    BY <1>1 DEF Lists, InReplay
  <2>2. CASE d # c
    BY <1>0, <1>1, <2>1, <2>2 DEF Lists, ToList
  <2>3. CASE d = c
    <3>0. idx[id] \in 1..MaxPuts
      BY <1>0, ResumeAssumption
    <3>1. PICK e \in Entries : e = [id |-> id, ts |-> idx[id]]
      BY <3>0 DEF Entries
    <3>2. e \in Missed(c, from[c])
      BY <1>0, <3>1 DEF Missed, Entries
    <3>3. e \in replay'.todo /\ e.id = id
      BY <1>1, <2>1, <2>3, <3>1, <3>2 DEF Lists, ToList
    <3> QED
      BY <1>1, <2>3, <3>3 DEF Lists, InReplay
  <2> QED
    BY <2>2, <2>3
<1>2. ASSUME NEW e \in replay.todo, Gets(e) PROVE Coming(id)' \/ ToList(c)' \/ InReplay(c, id)'
  <2>1. CASE ToList(c)
    BY <1>0, <1>2, <2>1 DEF Gets, ToList
  <2>2. CASE InReplay(c, id)
    <3>1. obj[e.id] # 0
      BY <1>2, <2>2 DEF InStore, InReplay
    <3>2. CASE \E x \in replay.todo : x.id = id
      BY <1>2, <2>2, <3>1, <3>2 DEF Gets, InReplay
    <3>3. CASE \E i \in DOMAIN replay.got : replay.got[i].id = id
      BY <1>2, <2>2, <3>3 DEF Gets, InReplay
    <3> QED
      BY <2>2, <3>2, <3>3 DEF InReplay
  <2> QED
    BY <2>1, <2>2
<1>3. ASSUME Ends PROVE Coming(id)' \/ ToList(c)' \/ InReplay(c, id)'
  <2>1. CASE ToList(c)
    BY <1>0, <1>3, <2>1 DEF Ends, ToList
  <2>2. CASE InReplay(c, id)
    BY <1>3, <2>2 DEF Ends, InReplay, Coming
  <2> QED
    BY <2>1, <2>2
<1>4. ~(replay.pc = "list" /\ replay.colls = {})
  BY DEF ToList, InReplay
<1> QED
  BY <1>1, <1>2, <1>3, <1>4, ReplayEffect

LEMMA NoneMissedStep ==
    ASSUME GapInv, [SNext]_vars
    PROVE  NoneMissed'
<1> SUFFICES ASSUME NEW c \in caught', NEW id \in Ids, c \in Place[id], idx'[id] > from'[c]
             PROVE  Brought(c, id)'
  BY DEF NoneMissed
<1>0. STypeOK /\ InStore /\ STypeOK'
  BY TypeStep DEF GapInv
<1>1. ~Drop
  BY DEF Drop
<1>2. CASE HandleResume
  <2>1. /\ replay' = [pc |-> "list", colls |-> peerSubs, since |-> Head(up).since]
        /\ caught' = peerSubs /\ from' = Head(up).since
    BY <1>2 DEF HandleResume
  <2>2. replay' # Idle /\ replay'.pc = "list" /\ c \in replay'.colls /\ replay'.since[c] = from'[c]
    BY <2>1 DEF Idle
  <2> QED
    BY <2>2 DEF Brought, ToList
<1>3. CASE ~HandleResume
  <2>1. caught' = caught /\ from' = from /\ c \in caught
    BY <1>1, <1>3, CaughtKept
  <2>2. c \in Colls /\ idx'[id] \in 0..MaxPuts /\ from[c] \in 0..MaxPuts
    BY <1>0, <2>1 DEF STypeOK, Cursors
  <2>3. Relevant(id)
    BY <2>1 DEF GapInv, Relevant
  <2>4. CASE idx'[id] = idx[id]
    <3>1. Brought(c, id)
      BY <2>1, <2>4 DEF GapInv, NoneMissed
    <3>2. Coming(id) => Coming(id)'
      BY <1>0, <1>1, ComingKept
    <3>3. Pending(id) => Pending(id)' \/ Coming(id)'
      BY <1>0, <2>3, PendingStep
    <3>4. CASE replay' = replay
      <4>1. ToList(c)' = ToList(c) /\ InReplay(c, id)' = InReplay(c, id)
        BY <2>1, <3>4 DEF ToList, InReplay
      <4> QED
        BY <3>1, <3>2, <3>3, <4>1 DEF Brought
    <3>5. CASE ReplayStep
      <4>1. ToList(c) \/ InReplay(c, id) => Coming(id)' \/ ToList(c)' \/ InReplay(c, id)'
        BY <1>0, <2>1, <2>2, <2>4, <3>5, ReplayBrings
      <4> QED
        BY <3>1, <3>2, <3>3, <4>1 DEF Brought
    <3> QED
      BY <1>1, <1>3, <3>4, <3>5, ReplayChanges
  <2>5. CASE idx'[id] # idx[id]
    <3>1. PutsStep
      BY <2>5, OthersLeaveRelay DEF relayVars
    <3>2. PICK w \in Writers, d \in Ids, ts \in 1..MaxPuts :
            Called(w, d, ts) \/ Written(w, d, ts) \/ Indexed(w, d, ts) \/ Emitted(w, d, ts)
      BY <1>0, <3>1, PutEffect
    <3>3. idx'[id] # 0
      BY <2>1, <2>2
    <3>4. Indexed(w, d, ts) /\ d = id
      BY <1>0, <2>5, <3>2, <3>3 DEF Called, Written, Indexed, Emitted, STypeOK
    <3>5. put'[w] = [pc |-> "emit", id |-> id, ts |-> ts]
      BY <1>0, <3>4 DEF Indexed, STypeOK
    <3> QED
      BY <3>5 DEF Brought, Pending, Idle
  <2> QED
    BY <2>4, <2>5
<1> QED
  BY <1>2, <1>3

LEMMA SettledHasAll == GapInv => NoGap
<1> SUFFICES ASSUME GapInv, Settled, NEW c \in caught, NEW id \in Ids, c \in Place[id], idx[id] > from[c]
             PROVE  cdoc[id] # 0
  BY DEF NoGap
<1>1. Brought(c, id)
  BY DEF GapInv, NoneMissed
<1>2. replay = Idle /\ down = <<>> /\ tasks = <<>> /\ \A w \in Writers : put[w] = Idle
  BY DEF Settled, Replaying
<1>3. Coming(id)
  BY <1>1, <1>2 DEF Brought, Pending, ToList, InReplay
<1> QED
  BY <1>2, <1>3 DEF Coming, Got

\* A resume leaves no gap behind the cursors it begins from: what was put after
\* them under a collection resumed is with the client once all is settled, for
\* any documents, collections and writers, put again or not, whatever the order
\* of timestamps and wherever puts, replays, cursor writes and drops fall
\* (resume.js:20-53, realtime-bridge.js:83-90, 107-117, store.js:111-128).
THEOREM NoGapCorrect == SSpec => []NoGap
<1>1. SInit => GapInv
  BY TypeInit DEF SInit, GapInv, InStore, NoneMissed
<1>2. GapInv /\ [SNext]_vars => GapInv'
  <2> SUFFICES ASSUME GapInv, [SNext]_vars PROVE GapInv'
    OBVIOUS
  <2>1. STypeOK' /\ InStore' /\ (caught \subseteq peerSubs)'
    BY TypeStep, InStoreStep, CaughtSubscribed DEF GapInv
  <2> QED
    BY <2>1, NoneMissedStep DEF GapInv
<1> QED
  BY <1>1, <1>2, SettledHasAll, PTL DEF SSpec
=============================================================================
