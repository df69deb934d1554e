---------------------------- MODULE RealtimeProofs ----------------------------
(* Theorems about the realtime side: RealtimeBridge, for any clients, actors,  *)
(* collections and documents, and any number of publications, connections and *)
(* watchers; and SseStream, for any number of connections and frames.          *)
EXTENDS RealtimeBridge, SseStream, SequenceTheorems, FiniteSetTheorems,
        WellFoundedInduction, TLAPS

\* A nonempty set of numbers has a least one.
LEMMA LeastOf ==
    ASSUME NEW S \in SUBSET Nat, S # {}
    PROVE  \E m \in S : \A n \in S : m <= n
<1> DEFINE R == OpToRel(<, Nat)
<1>1. IsWellFoundedOn(R, Nat)
  BY NatLessThanWellFounded
<1>2. \A n, m \in Nat : <<n, m>> \in R <=> n < m
  BY DEF OpToRel
<1> HIDE DEF R
<1>3. PICK m \in S : \A n \in S : ~(<<n, m>> \in R)
  BY <1>1, WFMin, Zenon
<1>4. \A n \in S : ~(n < m)
  BY <1>2, <1>3
<1>5. \A n \in S : n \in Nat
  OBVIOUS
<1> HIDE <1>2
<1> QED
  BY <1>3, <1>4, <1>5

\* A nonempty set of numbers with a bound has a greatest one.
LEMMA GreatestOf ==
    ASSUME NEW S \in SUBSET Nat, S # {}, NEW b \in Nat, \A n \in S : n <= b
    PROVE  \E m \in S : \A n \in S : n <= m
<1> DEFINE T == {b - n : n \in S}
<1>1. \A n \in S : n \in Nat /\ b - n \in Nat
  OBVIOUS
<1>2. T \in SUBSET Nat /\ T # {}
  BY <1>1
<1>3. PICK t \in T : \A u \in T : t <= u
  <2> HIDE DEF T
  <2> QED
    BY <1>2, LeastOf, Zenon
<1>4. PICK m \in S : t = b - m
  OBVIOUS
<1>5. ASSUME NEW n \in S PROVE n <= m
  <2>1. b - n \in T
    OBVIOUS
  <2>2. t <= b - n /\ n \in Nat /\ m \in Nat
    BY <1>1, <1>3, <2>1
  <2> QED
    BY <1>4, <2>2
<1> QED
  BY <1>5, Zenon

-----------------------------------------------------------------------------
(* Sequences of frames.                                                        *)

\* A frame appended comes after the others.
LEMMA Appended ==
    ASSUME NEW S, NEW s \in Seq(S), NEW e \in S
    PROVE  /\ Append(s, e) \in Seq(S) /\ Append(s, e) # <<>>
           /\ Len(s) \in Nat /\ Len(Append(s, e)) = Len(s) + 1
           /\ DOMAIN s = 1..Len(s) /\ DOMAIN Append(s, e) = 1..Len(s) + 1
           /\ \A i \in DOMAIN s : Append(s, e)[i] = s[i]
           /\ Append(s, e)[Len(s) + 1] = e
           /\ ToSet(Append(s, e)) = ToSet(s) \cup {e}
<1>1. /\ Append(s, e) \in Seq(S) /\ Append(s, e) # <<>>
      /\ Len(s) \in Nat /\ Len(Append(s, e)) = Len(s) + 1
      /\ DOMAIN s = 1..Len(s) /\ DOMAIN Append(s, e) = 1..Len(s) + 1
      /\ \A i \in DOMAIN s : Append(s, e)[i] = s[i]
      /\ Append(s, e)[Len(s) + 1] = e
  BY AppendProperties, LenProperties
<1>2. \A i \in DOMAIN Append(s, e) : i \in DOMAIN s \/ i = Len(s) + 1
  BY <1>1
<1>3. DOMAIN s \subseteq DOMAIN Append(s, e) /\ Len(s) + 1 \in DOMAIN Append(s, e)
  BY <1>1
<1>4. ToSet(Append(s, e)) = ToSet(s) \cup {e}
  BY <1>1, <1>2, <1>3, Zenon DEF ToSet
<1> QED
  BY <1>1, <1>4

\* With the first frame taken, the others move up.
LEMMA Taken ==
    ASSUME NEW S, NEW s \in Seq(S), s # <<>>
    PROVE  /\ Head(s) \in S /\ Head(s) = s[1] /\ 1 \in DOMAIN s
           /\ Tail(s) \in Seq(S)
           /\ Len(s) \in Nat \ {0} /\ Len(Tail(s)) = Len(s) - 1
           /\ DOMAIN s = 1..Len(s) /\ DOMAIN Tail(s) = 1..Len(s) - 1
           /\ \A i \in DOMAIN Tail(s) : i + 1 \in DOMAIN s /\ Tail(s)[i] = s[i + 1]
           /\ ToSet(s) = ToSet(Tail(s)) \cup {Head(s)}
<1>1. Len(s) \in Nat \ {0} /\ DOMAIN s = 1..Len(s) /\ Head(s) = s[1]
  BY EmptySeq, LenProperties
<1>2. Tail(s) \in Seq(S) /\ Len(Tail(s)) = Len(s) - 1 /\ Head(s) \in S
  BY HeadTailProperties
<1>3. DOMAIN Tail(s) = 1..Len(s) - 1
  BY <1>2, LenProperties
<1>4. \A i \in DOMAIN Tail(s) : i + 1 \in DOMAIN s /\ Tail(s)[i] = s[i + 1]
  BY <1>1, <1>2, <1>3, HeadTailProperties
<1>5. ASSUME NEW i \in DOMAIN s, i # 1
      PROVE  i - 1 \in DOMAIN Tail(s) /\ Tail(s)[i - 1] = s[i]
  <2>1. i \in 2..Len(s) /\ i - 1 \in 1..Len(s) - 1 /\ (i - 1) + 1 = i
    BY <1>1, <1>5
  <2> QED
    BY <1>3, <1>4, <2>1
<1>6. ToSet(Tail(s)) \subseteq ToSet(s)
  BY <1>4 DEF ToSet
<1>7. ToSet(s) \subseteq ToSet(Tail(s)) \cup {s[1]}
  BY <1>5 DEF ToSet
<1>8. s[1] \in ToSet(s) /\ 1 \in DOMAIN s
  BY <1>1 DEF ToSet
<1> QED
  BY <1>1, <1>2, <1>3, <1>4, <1>6, <1>7, <1>8

\* Frames that follow others.
LEMMA Joined ==
    ASSUME NEW S, NEW s \in Seq(S), NEW t \in Seq(S)
    PROVE  /\ s \o t \in Seq(S) /\ Len(s) \in Nat /\ Len(t) \in Nat
           /\ DOMAIN s = 1..Len(s) /\ DOMAIN t = 1..Len(t)
           /\ DOMAIN (s \o t) = 1..Len(s) + Len(t)
           /\ \A i \in DOMAIN s : (s \o t)[i] = s[i]
           /\ \A i \in DOMAIN t : (s \o t)[Len(s) + i] = t[i]
           /\ ToSet(s \o t) = ToSet(s) \cup ToSet(t)
<1>1. /\ s \o t \in Seq(S) /\ Len(s) \in Nat /\ Len(t) \in Nat
      /\ DOMAIN s = 1..Len(s) /\ DOMAIN t = 1..Len(t)
      /\ DOMAIN (s \o t) = 1..Len(s) + Len(t)
  BY ConcatProperties, LenProperties
<1>2. \A i \in 1..Len(s) + Len(t) : (s \o t)[i] = IF i <= Len(s) THEN s[i] ELSE t[i - Len(s)]
  BY ConcatProperties
<1>3. \A i \in DOMAIN s : i \in DOMAIN (s \o t) /\ (s \o t)[i] = s[i]
  BY <1>1, <1>2
<1>4. \A i \in DOMAIN t : Len(s) + i \in DOMAIN (s \o t) /\ (s \o t)[Len(s) + i] = t[i]
  BY <1>1, <1>2
<1>5. \A i \in DOMAIN (s \o t) :
        \/ i \in DOMAIN s /\ (s \o t)[i] = s[i]
        \/ i - Len(s) \in DOMAIN t /\ (s \o t)[i] = t[i - Len(s)]
  BY <1>1, <1>2
<1>6. ToSet(s) \subseteq ToSet(s \o t) /\ ToSet(t) \subseteq ToSet(s \o t)
  BY <1>3, <1>4 DEF ToSet
<1>7. ToSet(s \o t) \subseteq ToSet(s) \cup ToSet(t)
  BY <1>5 DEF ToSet
<1> QED
  BY <1>1, <1>3, <1>4, <1>6, <1>7

\* A frame of a sequence is at some place of it.
\* With the n-th frame taken out, those after it move up.
LEMMA Removed ==
    ASSUME NEW S, NEW s \in Seq(S), NEW n \in DOMAIN s
    PROVE  /\ RemoveAt(s, n) \in Seq(S) /\ s[n] \in S /\ n \in 1..Len(s)
           /\ DOMAIN s = 1..Len(s) /\ DOMAIN RemoveAt(s, n) = 1..Len(s) - 1 /\ Len(s) \in Nat \ {0}
           /\ \A i \in 1..(n - 1) : RemoveAt(s, n)[i] = s[i]
           /\ \A i \in n..(Len(s) - 1) : RemoveAt(s, n)[i] = s[i + 1]
<1> DEFINE a == SubSeq(s, 1, n - 1)
           b == SubSeq(s, n + 1, Len(s))
<1>1. DOMAIN s = 1..Len(s) /\ Len(s) \in Nat /\ n \in 1..Len(s) /\ s[n] \in S
  BY LenProperties, ElementOfSeq
<1>2. a \in Seq(S) /\ Len(a) = n - 1 /\ \A i \in 1..(n - 1) : a[i] = s[i]
  BY <1>1, SubSeqProperties
<1>3. b \in Seq(S) /\ Len(b) = Len(s) - n /\ \A i \in 1..(Len(s) - n) : b[i] = s[n + i]
  BY <1>1, SubSeqProperties
<1> HIDE DEF a, b
<1>0. Len(s) \in Nat \ {0} /\ (n - 1) + (Len(s) - n) = Len(s) - 1 /\ n \in Nat
  BY <1>1
<1>4. /\ a \o b \in Seq(S) /\ Len(a \o b) = Len(s) - 1
      /\ \A i \in 1..(Len(s) - 1) : (a \o b)[i] = IF i <= n - 1 THEN a[i] ELSE b[i - (n - 1)]
  <2>1. /\ a \o b \in Seq(S) /\ Len(a \o b) = Len(a) + Len(b)
        /\ \A i \in 1..Len(a) + Len(b) : (a \o b)[i] = IF i <= Len(a) THEN a[i] ELSE b[i - Len(a)]
    BY <1>2, <1>3, ConcatProperties
  <2> QED
    BY <1>0, <1>2, <1>3, <2>1
<1>5. DOMAIN (a \o b) = 1..Len(s) - 1
  BY <1>4, LenProperties
<1>6. ASSUME NEW i \in n..(Len(s) - 1) PROVE (a \o b)[i] = s[i + 1]
  <2>1. i \in 1..(Len(s) - 1) /\ ~(i <= n - 1) /\ i - (n - 1) \in 1..(Len(s) - n)
        /\ n + (i - (n - 1)) = i + 1
    BY <1>1
  <2> QED
    BY <1>3, <1>4, <2>1
<1>7. ASSUME NEW i \in 1..(n - 1) PROVE (a \o b)[i] = s[i]
  <2>1. i \in 1..(Len(s) - 1) /\ i <= n - 1
    BY <1>1
  <2> QED
    BY <1>2, <1>4, <2>1
<1>8. RemoveAt(s, n) = a \o b
  BY DEF RemoveAt, a, b
<1> QED
  BY <1>0, <1>1, <1>4, <1>5, <1>6, <1>7, <1>8

-----------------------------------------------------------------------------
(* The types.  No ts and no cursor is ahead of n, the ts of the latest put.    *)

\* The cursors of some collections.
Cursors(n) == UNION {[ks -> 0..n] : ks \in SUBSET Colls}

DataFrames(n) == [kind : {"data"}, id : Ids, ver : Versions, colls : SUBSET Colls, ts : 0..n]

\* The frames of a client, and those of the relay.
UpFrames(n) ==
    [kind : {"hello", "subscribe", "unsubscribe"}, colls : SUBSET Colls]
    \cup [kind : {"resume"}, since : Cursors(n)] \cup DataFrames(n)

DownFrames(n) == DataFrames(n) \cup [kind : {"resumed"}, cursors : Cursors(n)]

Puts(n) == [pc : {"write", "announce"}, id : Ids, ver : Versions, ts : 1..n, by : Clients]

\* Every variable has its type.
BTypes ==
    /\ registered \in SUBSET DOMAIN Own
    /\ clock \in Nat
    /\ stored \in [Ids -> Versions] /\ at \in [Ids -> 0..clock] /\ puts \in SUBSET Puts(clock)
    /\ peer \in [Clients -> [actor : registered \cup {Nobody}, subs : SUBSET Colls]]
    /\ conn \in [Clients -> {"down", "opening", "up"}]
    /\ up \in [Clients -> Seq(UpFrames(clock))]
    /\ down \in [Clients -> Seq(DownFrames(clock))]
    /\ replay \in [Clients -> Seq(DownFrames(clock))]
    /\ tasks \in [Clients -> Seq(DataFrames(clock))]
    /\ watching \in [Clients -> [Colls -> 0..MaxWatchers]]
    /\ subs \in [Clients -> SUBSET Colls] /\ late \in [Clients -> SUBSET Colls]
    /\ doc \in [Clients -> [Ids -> Versions]]
    /\ cursor \in [Clients -> [Colls -> 0..clock]]
    /\ outbox \in [Clients -> [Ids -> Versions]]
    /\ flushing \in [Clients -> BOOLEAN]
    /\ published \in Versions
    /\ overtaken \in SUBSET Ids /\ replayed \in SUBSET (Clients \X Ids)
    /\ caught \in [Clients -> SUBSET Colls] /\ from \in [Clients -> [Colls -> 0..clock]]

LEMMA UpFields ==
    ASSUME NEW n \in Nat, NEW f \in UpFrames(n)
    PROVE  /\ f.kind \in {"hello", "subscribe", "unsubscribe", "resume", "data"}
           /\ f.kind \notin {"resume", "data"} => f.colls \subseteq Colls
           /\ f.kind = "resume" => f.since \in Cursors(n)
           /\ f.kind = "data" => f \in DataFrames(n)
BY DEF UpFrames, DataFrames

LEMMA DownFields ==
    ASSUME NEW n \in Nat, NEW f \in DownFrames(n)
    PROVE  /\ f.kind \in {"data", "resumed"}
           /\ f.kind = "resumed" => f.cursors \in Cursors(n)
           /\ f.kind = "data" => f \in DataFrames(n)
BY DEF DownFrames, DataFrames

LEMMA DataFields ==
    ASSUME NEW n \in Nat, NEW f \in DataFrames(n)
    PROVE  /\ f.kind = "data" /\ f.id \in Ids /\ f.ver \in Versions
           /\ f.colls \subseteq Colls /\ f.ts \in 0..n
BY DEF DataFrames

LEMMA CursorFields ==
    ASSUME NEW n \in Nat, NEW s \in Cursors(n)
    PROVE  DOMAIN s \subseteq Colls /\ \A k \in DOMAIN s : s[k] \in 0..n
BY DEF Cursors

LEMMA DataFrame ==
    ASSUME NEW n \in Nat, NEW id \in Ids, NEW v \in Versions, NEW ks \in SUBSET Colls, NEW ts \in 0..n
    PROVE  /\ Data(id, v, ks, ts) \in UpFrames(n) /\ Data(id, v, ks, ts) \in DownFrames(n)
           /\ Data(id, v, ks, ts).kind = "data" /\ Data(id, v, ks, ts).id = id
           /\ Data(id, v, ks, ts).ver = v /\ Data(id, v, ks, ts).colls = ks
BY DEF Data, UpFrames, DownFrames, DataFrames

LEMMA ControlFrame ==
    ASSUME NEW n \in Nat, NEW op \in {"hello", "subscribe", "unsubscribe"}, NEW ks \in SUBSET Colls
    PROVE  /\ Control(op, ks) \in UpFrames(n)
           /\ Control(op, ks).kind = op /\ Control(op, ks).colls = ks
BY DEF Control, UpFrames

\* What is not ahead of n is not ahead of a later put.
LEMMA NotAhead ==
    ASSUME NEW n \in Nat
    PROVE  /\ Cursors(n) \subseteq Cursors(n + 1) /\ Puts(n) \subseteq Puts(n + 1)
           /\ Seq(UpFrames(n)) \subseteq Seq(UpFrames(n + 1))
           /\ Seq(DownFrames(n)) \subseteq Seq(DownFrames(n + 1))
           /\ Seq(DataFrames(n)) \subseteq Seq(DataFrames(n + 1))
           /\ 0..n \subseteq 0..(n + 1)
<1>1. 0..n \subseteq 0..(n + 1) /\ 1..n \subseteq 1..(n + 1)
  OBVIOUS
<1>2. Cursors(n) \subseteq Cursors(n + 1)
  <2> SUFFICES ASSUME NEW ks \in SUBSET Colls, NEW s \in [ks -> 0..n] PROVE s \in [ks -> 0..(n + 1)]
    BY DEF Cursors
  <2> QED
    BY <1>1
<1>3. DataFrames(n) \subseteq DataFrames(n + 1)
  BY <1>1 DEF DataFrames
<1>4. UpFrames(n) \subseteq UpFrames(n + 1) /\ DownFrames(n) \subseteq DownFrames(n + 1)
  BY <1>2, <1>3 DEF UpFrames, DownFrames
<1>5. Puts(n) \subseteq Puts(n + 1)
  BY <1>1 DEF Puts
<1>6. ASSUME NEW S, NEW T, S \subseteq T PROVE Seq(S) \subseteq Seq(T)
  BY <1>6
<1> QED
  BY <1>1, <1>2, <1>3, <1>4, <1>5, <1>6

(* The replay.                                                                 *)

\* The last put of some documents is that of one of them.
LEMMA LastPutOf ==
    ASSUME clock \in Nat, at \in [Ids -> 0..clock],
           NEW ids \in SUBSET Ids, ids # {}
    PROVE  /\ LastPut(ids) \in 0..clock
           /\ \E id \in ids : LastPut(ids) = at[id]
           /\ \A id \in ids : at[id] <= LastPut(ids)
<1> DEFINE S == {at[id] : id \in ids}
<1>1. S \in SUBSET Nat /\ S # {} /\ \A n \in S : n <= clock
  OBVIOUS
<1>2. \E m \in S : \A n \in S : n <= m
  <2> HIDE DEF S
  <2> QED
    BY <1>1, GreatestOf
<1>3. \E t \in S : \A id \in ids : at[id] <= t
  BY <1>2
<1>4. LastPut(ids) \in S /\ \A id \in ids : at[id] <= LastPut(ids)
  BY <1>3 DEF LastPut
<1> QED
  BY <1>1, <1>4

\* What was missed of the collections ks.
Wanted(ks, since) == {r \in ks \X Ids : r[2] \in Missed(r[1], since)}

Covers(order, ids) == \A r \in ids : \E n \in DOMAIN order : order[n] = r

\* A replay sends each of what was missed once.
LEMMA ReplaySeq ==
    ASSUME NEW ks \in SUBSET Colls, NEW since,
           NEW order \in SetToSeqs(Wanted(ks, since))
    PROVE  /\ order \in Seq(Wanted(ks, since)) /\ Len(order) \in Nat
           /\ DOMAIN order = 1..Len(order)
           /\ \A n \in DOMAIN order : order[n] \in Wanted(ks, since)
           /\ Covers(order, Wanted(ks, since))
<1> DEFINE W == Wanted(ks, since)
<1>1. IsFiniteSet(ks \X Ids)
  <2>1. IsFiniteSet(Ids) /\ IsFiniteSet(ks)
    BY BridgeAssumption, FS_Subset
  <2> QED
    BY <2>1, FS_Product
<1>2. W \in SUBSET (ks \X Ids)
  BY DEF Wanted
<1>3. IsFiniteSet(W)
  BY <1>1, <1>2, FS_Subset
<1>4. Cardinality(W) \in Nat
  BY <1>3, FS_CardinalityType
<1> HIDE DEF W
<1>5. /\ order \in [1..Cardinality(W) -> W]
      /\ \A i, j \in 1..Cardinality(W) : i # j => order[i] # order[j]
  BY DEF SetToSeqs, W
<1>6. order \in Injection(1..Cardinality(W), W)
  BY <1>5 DEF Injection, IsInjective
<1>7. order \in Surjection(1..Cardinality(W), W)
  <2>1. IsFiniteSet(1..Cardinality(W)) /\ Cardinality(1..Cardinality(W)) = Cardinality(W)
    BY <1>4, FS_Interval
  <2> QED
    BY <1>3, <1>6, <2>1, FS_Injection
<1>8. order \in Seq(W) /\ Len(order) = Cardinality(W)
  BY <1>4, <1>5
<1>9. \A r \in W : \E n \in 1..Cardinality(W) : order[n] = r
  BY <1>7 DEF Surjection
<1> QED
  BY <1>4, <1>5, <1>8, <1>9 DEF W, Covers

\* The RESUMED of a replay.
End(ks, since) == [kind |-> "resumed", cursors |-> NewCursors(ks, since)]

LEMMA ReplayTypes ==
    ASSUME BTypes, NEW ks \in SUBSET Colls, NEW since \in Cursors(clock),
           NEW order \in SetToSeqs(Wanted(ks, since)), NEW msgs,
           msgs = Append(ReplayFrames(order), End(ks, since))
    PROVE  /\ msgs \in Seq(DownFrames(clock))
           /\ \A r \in Wanted(ks, since) : \E n \in DOMAIN msgs : msgs[n].kind = "data" /\ msgs[n].id = r[2]
<1>1. /\ order \in Seq(Wanted(ks, since)) /\ Len(order) \in Nat /\ DOMAIN order = 1..Len(order)
      /\ \A n \in DOMAIN order : order[n] \in Wanted(ks, since)
      /\ Covers(order, Wanted(ks, since))
  BY ReplaySeq
<1>2. \A n \in DOMAIN order : order[n][2] \in Ids /\ order[n][1] \in Colls
  BY <1>1 DEF Wanted
<1> DEFINE Frame(n) == Data(order[n][2], stored[order[n][2]], {order[n][1]}, at[order[n][2]])
<1>3. ASSUME NEW n \in DOMAIN order
      PROVE  Frame(n) \in DownFrames(clock) /\ Frame(n).kind = "data" /\ Frame(n).id = order[n][2]
  <2>1. order[n][2] \in Ids /\ {order[n][1]} \in SUBSET Colls /\ clock \in Nat
    BY <1>2 DEF BTypes
  <2>2. stored[order[n][2]] \in Versions /\ at[order[n][2]] \in 0..clock
    BY <2>1 DEF BTypes
  <2> QED
    BY <2>1, <2>2, DataFrame
<1>4. /\ ReplayFrames(order) \in Seq(DownFrames(clock)) /\ DOMAIN ReplayFrames(order) = DOMAIN order
      /\ \A n \in DOMAIN order : ReplayFrames(order)[n] = Frame(n)
  <2>1. ReplayFrames(order) = [n \in 1..Len(order) |-> Frame(n)]
    BY <1>1 DEF ReplayFrames
  <2>2. \A n \in 1..Len(order) : Frame(n) \in DownFrames(clock)
    BY <1>1, <1>3
  <2> HIDE DEF Frame
  <2>3. ReplayFrames(order) \in [1..Len(order) -> DownFrames(clock)]
    BY <2>1, <2>2
  <2> QED
    BY <1>1, <2>1, <2>3
<1> HIDE DEF Frame
<1>5. End(ks, since) \in DownFrames(clock)
  <2>1. ASSUME NEW k \in ks
        PROVE  (IF Missed(k, since) = {} THEN SinceOf(since, k) ELSE LastPut(Missed(k, since))) \in 0..clock
    <3>1. SinceOf(since, k) \in 0..clock /\ Missed(k, since) \in SUBSET Ids
      BY CursorFields DEF SinceOf, Missed, BTypes
    <3>2. Missed(k, since) # {} => LastPut(Missed(k, since)) \in 0..clock
      BY <3>1, LastPutOf DEF BTypes
    <3> QED
      BY <3>1, <3>2
  <2>2. NewCursors(ks, since) \in [ks -> 0..clock]
    BY <2>1 DEF NewCursors
  <2> QED
    BY <2>2 DEF DownFrames, Cursors, End
<1>6. /\ msgs \in Seq(DownFrames(clock))
      /\ \A n \in DOMAIN order : n \in DOMAIN msgs /\ msgs[n] = Frame(n)
  <2>1. /\ msgs \in Seq(DownFrames(clock))
        /\ DOMAIN ReplayFrames(order) = 1..Len(ReplayFrames(order))
        /\ DOMAIN msgs = 1..Len(ReplayFrames(order)) + 1 /\ Len(ReplayFrames(order)) \in Nat
        /\ \A n \in DOMAIN ReplayFrames(order) : msgs[n] = ReplayFrames(order)[n]
    BY <1>4, <1>5, Appended
  <2> QED
    BY <1>4, <2>1
<1>7. ASSUME NEW r \in Wanted(ks, since)
      PROVE  \E n \in DOMAIN msgs : msgs[n].kind = "data" /\ msgs[n].id = r[2]
  <2>1. PICK n \in DOMAIN order : order[n] = r
    BY <1>1 DEF Covers
  <2> QED
    BY <1>3, <1>6, <2>1
<1> QED
  BY <1>6, <1>7

LEMMA TypesInit == BInit => BTypes
<1> SUFFICES ASSUME BInit PROVE BTypes
  OBVIOUS
<1>1. Unknown \in [actor : registered \cup {Nobody}, subs : SUBSET Colls]
  BY DEF Unknown
<1>2. NoVersions \in [Ids -> Versions] /\ NoVersions \in [Ids -> 0..0] /\ 0 \in Versions
  BY BridgeAssumption, LenProperties DEF NoVersions, Versions
<1>3. NoCursors \in [Colls -> 0..0]
  BY DEF NoCursors
<1>4. watching \in [Clients -> [Colls -> 0..MaxWatchers]] /\ subs \in [Clients -> SUBSET Colls]
  BY BridgeAssumption DEF BInit
<1> QED
  BY <1>1, <1>2, <1>3, <1>4, BridgeAssumption DEF BInit, BTypes

\* The fields of one client have their types.
LEMMA ClientTypes ==
    ASSUME BTypes, NEW c \in Clients
    PROVE  /\ clock \in Nat /\ Len(up[c]) \in Nat /\ DOMAIN up[c] = 1..Len(up[c])
           /\ peer[c].subs \in SUBSET Colls /\ peer[c].actor \in registered \cup {Nobody}
           /\ conn[c] \in {"down", "opening", "up"}
           /\ up[c] \in Seq(UpFrames(clock)) /\ down[c] \in Seq(DownFrames(clock))
           /\ replay[c] \in Seq(DownFrames(clock)) /\ tasks[c] \in Seq(DataFrames(clock))
           /\ subs[c] \in SUBSET Colls /\ caught[c] \in SUBSET Colls
           /\ cursor[c] \in [Colls -> 0..clock] /\ outbox[c] \in [Ids -> Versions]
           /\ flushing[c] \in BOOLEAN
<1>1. up[c] \in Seq(UpFrames(clock))
  BY DEF BTypes
<1> QED
  BY <1>1, LenProperties DEF BTypes

\* The first frame from a client.
LEMMA ArrivedFrame ==
    ASSUME BTypes, NEW c \in Clients, up[c] # <<>>
    PROVE  /\ up[c][1] \in UpFrames(clock) /\ Head(up[c]) = up[c][1]
           /\ Tail(up[c]) \in Seq(UpFrames(clock))
BY ClientTypes, Taken

\* The connection of a client that is gone.
LEMMA GoneTypes ==
    ASSUME BTypes, NEW c \in Clients, Gone(c)
    PROVE  /\ conn' \in [Clients -> {"down", "opening", "up"}]
           /\ up' \in [Clients -> Seq(UpFrames(clock))] /\ down' \in [Clients -> Seq(DownFrames(clock))]
           /\ replay' \in [Clients -> Seq(DownFrames(clock))]
           /\ peer' \in [Clients -> [actor : registered \cup {Nobody}, subs : SUBSET Colls]]
           /\ flushing' \in [Clients -> BOOLEAN]
           /\ caught' \in [Clients -> SUBSET Colls] /\ from' \in [Clients -> [Colls -> 0..clock]]
<1>1. Unknown \in [actor : registered \cup {Nobody}, subs : SUBSET Colls]
  BY DEF Unknown
<1>2. <<>> \in Seq(UpFrames(clock)) /\ <<>> \in Seq(DownFrames(clock))
  BY EmptySeq
<1>3. NoCursors \in [Colls -> 0..clock]
  BY DEF NoCursors, BTypes
<1> QED
  BY <1>1, <1>2, <1>3 DEF Gone, BTypes

LEMMA TypesWatching ==
    ASSUME BTypes, NEW c \in Clients, NEW k \in Colls, Watch(c, k) \/ Unwatch(c, k)
    PROVE  BTypes'
<1> USE DEF relayVars, linkVars, watchVars, storeVars, sendVars, historyVars
<1>0. clock \in Nat /\ up[c] \in Seq(UpFrames(clock)) /\ watching[c][k] \in 0..MaxWatchers
  BY ClientTypes DEF BTypes
<1>1. CASE Watch(c, k)
  <2>1. watching[c][k] + 1 \in 0..MaxWatchers
    BY <1>0, <1>1, BridgeAssumption DEF Watch
  <2>2. watching' \in [Clients -> [Colls -> 0..MaxWatchers]]
    BY <1>1, <2>1 DEF Watch, BTypes
  <2>3. Append(up[c], Control("subscribe", {k})) \in Seq(UpFrames(clock))
    BY <1>0, ControlFrame, Appended
  <2>4. up' \in [Clients -> Seq(UpFrames(clock))]
    BY <1>1, <2>3 DEF Watch, Sent, BTypes
  <2>5. subs' \in [Clients -> SUBSET Colls] /\ late' \in [Clients -> SUBSET Colls]
    BY <1>1 DEF Watch, BTypes
  <2> QED
    BY <1>1, <2>2, <2>4, <2>5 DEF Watch, BTypes
<1>2. CASE Unwatch(c, k)
  <2>1. watching[c][k] - 1 \in 0..MaxWatchers
    BY <1>0, <1>2, BridgeAssumption DEF Unwatch
  <2>2. watching' \in [Clients -> [Colls -> 0..MaxWatchers]]
    BY <1>2, <2>1 DEF Unwatch, BTypes
  <2>3. Append(up[c], Control("unsubscribe", {k})) \in Seq(UpFrames(clock))
    BY <1>0, ControlFrame, Appended
  <2>4. up' \in [Clients -> Seq(UpFrames(clock))]
    BY <1>2, <2>3 DEF Unwatch, Sent, BTypes
  <2>5. subs' \in [Clients -> SUBSET Colls]
    BY <1>2 DEF Unwatch, BTypes
  <2> QED
    BY <1>2, <2>2, <2>4, <2>5 DEF Unwatch, BTypes
<1> QED
  BY <1>1, <1>2

LEMMA TypesSending ==
    ASSUME BTypes, NEW c \in Clients
    PROVE  /\ \A id \in Ids : Publish(c, id) => BTypes'
           /\ SendEntry(c) \/ Open(c) \/ SendResume(c) => BTypes'
<1> USE DEF relayVars, linkVars, watchVars, storeVars, sendVars, historyVars
<1>0. /\ clock \in Nat /\ up[c] \in Seq(UpFrames(clock)) /\ subs[c] \in SUBSET Colls
      /\ cursor[c] \in [Colls -> 0..clock]
  BY ClientTypes
<1>1. ASSUME NEW id \in Ids, Publish(c, id) PROVE BTypes'
  <2>1. published' \in Versions
    <3>1. Len(Authors) \in Nat /\ published \in 0..Len(Authors)
      BY BridgeAssumption, LenProperties DEF BTypes, Versions
    <3> QED
      BY <1>1, <3>1 DEF Publish, Versions
  <2>2. doc' \in [Clients -> [Ids -> Versions]] /\ outbox' \in [Clients -> [Ids -> Versions]]
    BY <1>1, <2>1 DEF Publish, BTypes
  <2>3. flushing' \in [Clients -> BOOLEAN]
    BY <1>1 DEF Publish, BTypes
  <2> QED
    BY <1>1, <2>1, <2>2, <2>3 DEF Publish, BTypes
<1>2. ASSUME SendEntry(c) PROVE BTypes'
  <2>1. PICK id \in Queued(c) :
          /\ up' = [up EXCEPT ![c] = Append(@, Data(id, outbox[c][id], Place[id], 0))]
          /\ outbox' = [outbox EXCEPT ![c][id] = 0]
          /\ flushing' = [flushing EXCEPT ![c] = Queued(c) # {id}]
    BY <1>2 DEF SendEntry
  <2>2. id \in Ids /\ outbox[c][id] \in Versions /\ Place[id] \in SUBSET Colls /\ 0 \in 0..clock
    BY <1>0, BridgeAssumption DEF Queued, BTypes
  <2>3. Append(up[c], Data(id, outbox[c][id], Place[id], 0)) \in Seq(UpFrames(clock))
    BY <1>0, <2>2, DataFrame, Appended
  <2>4. up' \in [Clients -> Seq(UpFrames(clock))]
    BY <2>1, <2>3 DEF BTypes
  <2>5. outbox' \in [Clients -> [Ids -> Versions]] /\ flushing' \in [Clients -> BOOLEAN]
    <3>1. 0 \in Versions
      BY BridgeAssumption, LenProperties DEF Versions
    <3> QED
      BY <2>1, <3>1 DEF BTypes
  <2> QED
    BY <1>2, <2>4, <2>5 DEF SendEntry, BTypes
<1>3. ASSUME Open(c) PROVE BTypes'
  <2> DEFINE h == Control("hello", {})
             b == Control("subscribe", subs[c])
  <2>1. h \in UpFrames(clock) /\ b \in UpFrames(clock)
    BY <1>0, ControlFrame
  <2> HIDE DEF h, b
  <2>2. <<h>> \in Seq(UpFrames(clock)) /\ <<b>> \in Seq(UpFrames(clock)) /\ <<>> \in Seq(UpFrames(clock))
    BY <2>1
  <2>3. <<h>> \o (IF subs[c] = {} THEN <<>> ELSE <<b>>) \in Seq(UpFrames(clock))
    BY <2>2, Joined
  <2>4. up' \in [Clients -> Seq(UpFrames(clock))]
    BY <1>3, <2>3 DEF Open, BTypes, h, b
  <2>5. conn' \in [Clients -> {"down", "opening", "up"}]
    BY <1>3 DEF Open, BTypes
  <2> QED
    BY <1>3, <2>4, <2>5 DEF Open, BTypes
<1>4. ASSUME SendResume(c) PROVE BTypes'
  <2> DEFINE f == [kind |-> "resume", since |-> [k \in subs[c] |-> cursor[c][k]]]
  <2>1. f \in UpFrames(clock)
    <3>1. [k \in subs[c] |-> cursor[c][k]] \in [subs[c] -> 0..clock]
      BY <1>0
    <3>2. [k \in subs[c] |-> cursor[c][k]] \in Cursors(clock)
      BY <1>0, <3>1 DEF Cursors
    <3> QED
      BY <3>2 DEF UpFrames
  <2> HIDE DEF f
  <2>2. Append(up[c], f) \in Seq(UpFrames(clock))
    BY <1>0, <2>1, Appended
  <2>3. up' \in [Clients -> Seq(UpFrames(clock))]
    BY <1>4, <2>2 DEF SendResume, BTypes, f
  <2>4. conn' \in [Clients -> {"down", "opening", "up"}] /\ flushing' \in [Clients -> BOOLEAN]
    BY <1>4 DEF SendResume, BTypes
  <2> QED
    BY <1>4, <2>3, <2>4 DEF SendResume, BTypes
<1> QED
  BY <1>1, <1>2, <1>3, <1>4

LEMMA TypesReceiving ==
    ASSUME BTypes, NEW c \in Clients, Receive(c) \/ StoreFrame(c) \/ Drop(c) \/ SendReplay(c)
    PROVE  BTypes'
<1> USE DEF relayVars, linkVars, watchVars, storeVars, sendVars, historyVars
<1>0. /\ clock \in Nat /\ down[c] \in Seq(DownFrames(clock)) /\ tasks[c] \in Seq(DataFrames(clock))
      /\ cursor[c] \in [Colls -> 0..clock] /\ replay[c] \in Seq(DownFrames(clock))
  BY ClientTypes
<1>1. CASE Receive(c)
  <2>1. down[c] # <<>> /\ Head(down[c]) \in DownFrames(clock) /\ Tail(down[c]) \in Seq(DownFrames(clock))
    BY <1>0, <1>1, Taken DEF Receive
  <2>2. down' \in [Clients -> Seq(DownFrames(clock))]
    BY <1>1, <2>1 DEF Receive, BTypes
  <2>3. Head(down[c]).kind = "data" => Append(tasks[c], Head(down[c])) \in Seq(DataFrames(clock))
    BY <1>0, <2>1, DownFields, Appended
  <2>4. Head(down[c]).kind = "resumed" => \A k \in DOMAIN Head(down[c]).cursors :
          Head(down[c]).cursors[k] \in 0..clock
    BY <1>0, <2>1, DownFields, CursorFields
  <2>5. tasks' \in [Clients -> Seq(DataFrames(clock))] /\ cursor' \in [Clients -> [Colls -> 0..clock]]
    <3>1. CASE Head(down[c]).kind = "data" /\ tasks' = [tasks EXCEPT ![c] = Append(@, Head(down[c]))] /\ UNCHANGED cursor
      BY <2>3, <3>1 DEF BTypes
    <3> DEFINE new == [k \in Colls |-> IF k \in DOMAIN Head(down[c]).cursors /\ Head(down[c]).cursors[k] # 0
                                     THEN Head(down[c]).cursors[k] ELSE cursor[c][k]]
    <3>2. CASE Head(down[c]).kind = "resumed" /\ cursor' = [cursor EXCEPT ![c] = new] /\ UNCHANGED tasks
      <4>1. new \in [Colls -> 0..clock]
        BY <1>0, <2>4, <3>2
      <4> HIDE DEF new
      <4> QED
        BY <3>2, <4>1 DEF BTypes
    <3> QED
      BY <1>1, <3>1, <3>2 DEF Receive
  <2> QED
    BY <1>1, <2>2, <2>5 DEF Receive, BTypes
<1>2. CASE StoreFrame(c)
  <2>1. PICK n \in DOMAIN tasks[c] :
          LET f == tasks[c][n]
          IN  /\ tasks' = [tasks EXCEPT ![c] = RemoveAt(@, n)]
              /\ doc' = [doc EXCEPT ![c][f.id] = f.ver]
              /\ cursor' = [cursor EXCEPT ![c] = [k \in Colls |->
                   IF k \in f.colls \cap subs[c] THEN f.ts ELSE @[k]]]
              /\ overtaken' = IF Passes(c, n) THEN overtaken \cup {f.id} ELSE overtaken
    BY <1>2 DEF StoreFrame
  <2>2. RemoveAt(tasks[c], n) \in Seq(DataFrames(clock)) /\ tasks[c][n] \in DataFrames(clock)
    BY <1>0, Removed
  <2>3. tasks[c][n].id \in Ids /\ tasks[c][n].ver \in Versions /\ tasks[c][n].ts \in 0..clock
    BY <1>0, <2>2, DataFields
  <2>4. tasks' \in [Clients -> Seq(DataFrames(clock))]
    BY <2>1, <2>2 DEF BTypes
  <2>5. doc' \in [Clients -> [Ids -> Versions]] /\ overtaken' \in SUBSET Ids
    BY <2>1, <2>3 DEF BTypes
  <2>6. cursor' \in [Clients -> [Colls -> 0..clock]]
    BY <1>0, <2>1, <2>3 DEF BTypes
  <2> QED
    BY <1>2, <2>4, <2>5, <2>6 DEF StoreFrame, BTypes
<1>3. CASE Drop(c)
  BY <1>3, GoneTypes DEF Drop, BTypes
<1>4. CASE SendReplay(c)
  <2>1. down[c] \o replay[c] \in Seq(DownFrames(clock)) /\ <<>> \in Seq(DownFrames(clock))
    BY <1>0, Joined
  <2>2. down' \in [Clients -> Seq(DownFrames(clock))] /\ replay' \in [Clients -> Seq(DownFrames(clock))]
    BY <1>4, <2>1 DEF SendReplay, BTypes
  <2>3. overtaken' \in SUBSET Ids
    BY <1>4 DEF SendReplay, BTypes
  <2> QED
    BY <1>4, <2>2, <2>3 DEF SendReplay, BTypes
<1> QED
  BY <1>1, <1>2, <1>3, <1>4

\* What a resume asks for, and what HandleResume() reads.
LEMMA ResumeReads ==
    ASSUME BTypes, NEW c \in Clients, HandleResume(c)
    PROVE  /\ up[c] # <<>> /\ up[c][1].kind = "resume" /\ up[c][1].since \in Cursors(clock)
           /\ replay'[c] \in Seq(DownFrames(clock))
           /\ \A r \in Wanted(peer[c].subs, up[c][1].since) :
                \E n \in DOMAIN replay'[c] : replay'[c][n].kind = "data" /\ replay'[c][n].id = r[2]
           /\ replay' = [replay EXCEPT ![c] = replay'[c]]
           /\ from' = [from EXCEPT ![c] = [k \in Colls |-> SinceOf(up[c][1].since, k)]]
<1> DEFINE since == up[c][1].since
<1>1. up[c] # <<>> /\ Head(up[c]).kind = "resume" /\ Head(up[c]) = up[c][1] /\ up[c][1] \in UpFrames(clock)
  BY ArrivedFrame DEF HandleResume, Arrived
<1>2. since \in Cursors(clock) /\ peer[c].subs \in SUBSET Colls /\ clock \in Nat
  BY <1>1, UpFields, ClientTypes
<1>3. PICK order \in SetToSeqs(Wanted(peer[c].subs, since)) :
        replay' = [replay EXCEPT ![c] = Append(ReplayFrames(order), End(peer[c].subs, since))]
  BY <1>1 DEF HandleResume, Wanted, End
<1>4. replay'[c] = Append(ReplayFrames(order), End(peer[c].subs, since))
  BY <1>3 DEF BTypes
<1> HIDE DEF since
<1>5. /\ replay'[c] \in Seq(DownFrames(clock))
      /\ \A r \in Wanted(peer[c].subs, since) :
           \E n \in DOMAIN replay'[c] : replay'[c][n].kind = "data" /\ replay'[c][n].id = r[2]
  BY <1>2, <1>4, ReplayTypes
<1>6. from' = [from EXCEPT ![c] = [k \in Colls |-> SinceOf(since, k)]]
  BY <1>1 DEF HandleResume, since
<1> QED
  BY <1>1, <1>2, <1>3, <1>4, <1>5, <1>6 DEF since

\* A peer gets an actor, or other subscriptions.
Peers == [Clients -> [actor : registered \cup {Nobody}, subs : SUBSET Colls]]

LEMMA NewPeer ==
    ASSUME BTypes, NEW c \in Clients
    PROVE  /\ \A a \in registered :
                /\ [peer EXCEPT ![c].actor = a] \in Peers
                /\ [peer EXCEPT ![c].actor = a][c].actor = a
                /\ [peer EXCEPT ![c].actor = a][c].subs = peer[c].subs
                /\ \A d \in Clients \ {c} : [peer EXCEPT ![c].actor = a][d] = peer[d]
           /\ \A ks \in SUBSET Colls :
                /\ [peer EXCEPT ![c].subs = ks] \in Peers
                /\ [peer EXCEPT ![c].subs = ks][c].subs = ks
                /\ [peer EXCEPT ![c].subs = ks][c].actor = peer[c].actor
                /\ \A d \in Clients \ {c} : [peer EXCEPT ![c].subs = ks][d] = peer[d]
<1>1. peer \in [Clients -> [actor : registered \cup {Nobody}, subs : SUBSET Colls]]
  BY DEF BTypes
<1> QED
  BY <1>1 DEF Peers

\* A subscribe or unsubscribe frame, and what it makes of the peer.
LEMMA SubscribeEffect ==
    ASSUME BTypes, NEW c \in Clients, HandleSubscribe(c)
    PROVE  /\ up[c] # <<>> /\ up[c][1].kind \in {"subscribe", "unsubscribe"}
           /\ up[c][1].colls \in SUBSET Colls
           /\ peer' \in Peers /\ peer'[c].actor = peer[c].actor
           /\ \A d \in Clients \ {c} : peer'[d] = peer[d]
           /\ \/ /\ up[c][1].kind = "subscribe" /\ peer'[c].subs = peer[c].subs \cup up[c][1].colls
                 /\ caught' = caught
              \/ /\ up[c][1].kind = "unsubscribe" /\ peer'[c].subs = peer[c].subs \ up[c][1].colls
                 /\ caught' = [caught EXCEPT ![c] = @ \ up[c][1].colls]
<1>1. up[c] # <<>> /\ Head(up[c]) = up[c][1] /\ up[c][1].kind \in {"subscribe", "unsubscribe"}
      /\ up[c][1].colls \in SUBSET Colls
  BY ArrivedFrame, UpFields, ClientTypes DEF HandleSubscribe, Arrived
<1>2. /\ peer[c].subs \cup up[c][1].colls \in SUBSET Colls
      /\ peer[c].subs \ up[c][1].colls \in SUBSET Colls
  BY <1>1, ClientTypes
<1> DEFINE more == peer[c].subs \cup up[c][1].colls
           less == peer[c].subs \ up[c][1].colls
<1>3. CASE up[c][1].kind = "subscribe"
  <2>1. peer' = [peer EXCEPT ![c].subs = more] /\ caught' = caught
    BY <1>1, <1>3 DEF HandleSubscribe, Arrived
  <2>2. more \in SUBSET Colls
    BY <1>2
  <2>3. peer' \in Peers /\ peer'[c].subs = more /\ peer'[c].actor = peer[c].actor
        /\ \A d \in Clients \ {c} : peer'[d] = peer[d]
    <3> HIDE DEF more
    <3> QED
      <4>1. peer \in [Clients -> [actor : registered \cup {Nobody}, subs : SUBSET Colls]]
        BY DEF BTypes
      <4> QED
        BY <2>1, <2>2, <4>1 DEF Peers
  <2> QED
    BY <1>1, <1>3, <2>1, <2>3
<1>4. CASE up[c][1].kind = "unsubscribe"
  <2>1. peer' = [peer EXCEPT ![c].subs = less] /\ caught' = [caught EXCEPT ![c] = @ \ up[c][1].colls]
    BY <1>1, <1>4 DEF HandleSubscribe, Arrived
  <2>2. less \in SUBSET Colls
    BY <1>2
  <2>3. peer' \in Peers /\ peer'[c].subs = less /\ peer'[c].actor = peer[c].actor
        /\ \A d \in Clients \ {c} : peer'[d] = peer[d]
    <3> HIDE DEF less
    <3> QED
      <4>1. peer \in [Clients -> [actor : registered \cup {Nobody}, subs : SUBSET Colls]]
        BY DEF BTypes
      <4> QED
        BY <2>1, <2>2, <4>1 DEF Peers
  <2> QED
    BY <1>1, <1>4, <2>1, <2>3
<1> QED
  BY <1>1, <1>3, <1>4

LEMMA TypesHandling ==
    ASSUME BTypes, NEW c \in Clients, Handle(c)
    PROVE  BTypes'
<1> USE DEF relayVars, linkVars, watchVars, storeVars, sendVars, historyVars
<1>0. /\ clock \in Nat /\ up[c] \in Seq(UpFrames(clock))
      /\ up[c] # <<>> => /\ up[c][1] \in UpFrames(clock) /\ Head(up[c]) = up[c][1]
                         /\ Tail(up[c]) \in Seq(UpFrames(clock))
  BY ClientTypes, ArrivedFrame
<1>1. CASE HandleHello(c)
  <2>1. CASE Gone(c)
    BY <1>1, <2>1, GoneTypes DEF HandleHello, BTypes
  <2>2. CASE /\ Actor[c] \in registered /\ peer' = [peer EXCEPT ![c].actor = Actor[c]]
             /\ up' = [up EXCEPT ![c] = Tail(@)]
             /\ UNCHANGED <<conn, down, replay, caught, from, flushing, lost>>
    <3>1. up' \in [Clients -> Seq(UpFrames(clock))]
      BY <1>0, <1>1, <2>2 DEF HandleHello, Arrived, BTypes
    <3>2. peer' \in [Clients -> [actor : registered \cup {Nobody}, subs : SUBSET Colls]]
      BY <2>2, NewPeer DEF Peers
    <3> QED
      BY <1>1, <2>2, <3>1, <3>2 DEF HandleHello, BTypes
  <2> QED
    BY <1>1, <2>1, <2>2 DEF HandleHello
<1>2. CASE HandleSubscribe(c)
  <2>1. up[c] # <<>>
    BY <1>2, SubscribeEffect
  <2>2. up' \in [Clients -> Seq(UpFrames(clock))]
    BY <1>0, <1>2, <2>1 DEF HandleSubscribe, BTypes
  <2>3. peer' \in [Clients -> [actor : registered \cup {Nobody}, subs : SUBSET Colls]]
    BY <1>2, SubscribeEffect DEF Peers
  <2>4. caught' \in [Clients -> SUBSET Colls]
    <3>1. caught \in [Clients -> SUBSET Colls]
      BY DEF BTypes
    <3>2. caught' = caught \/ caught' = [caught EXCEPT ![c] = @ \ up[c][1].colls]
      BY <1>2, SubscribeEffect
    <3> QED
      BY <3>1, <3>2
  <2> QED
    BY <1>2, <2>2, <2>3, <2>4 DEF HandleSubscribe, BTypes
<1>3. CASE HandleResume(c)
  <2>1. /\ up[c] # <<>> /\ up[c][1].since \in Cursors(clock) /\ replay'[c] \in Seq(DownFrames(clock))
        /\ replay' = [replay EXCEPT ![c] = replay'[c]]
        /\ from' = [from EXCEPT ![c] = [k \in Colls |-> SinceOf(up[c][1].since, k)]]
    BY <1>3, ResumeReads
  <2>2. replay' \in [Clients -> Seq(DownFrames(clock))]
    BY <2>1 DEF BTypes
  <2>3. [k \in Colls |-> SinceOf(up[c][1].since, k)] \in [Colls -> 0..clock]
    BY <1>0, <2>1, CursorFields DEF SinceOf
  <2>4. from' \in [Clients -> [Colls -> 0..clock]]
    BY <2>1, <2>3 DEF BTypes
  <2>5. up' \in [Clients -> Seq(UpFrames(clock))] /\ caught' \in [Clients -> SUBSET Colls]
    BY <1>0, <1>3, <2>1 DEF HandleResume, BTypes
  <2>6. replayed' \in SUBSET (Clients \X Ids)
    BY <1>3 DEF HandleResume, BTypes, Missed
  <2> QED
    BY <1>3, <2>2, <2>4, <2>5, <2>6 DEF HandleResume, BTypes
<1>4. CASE HandleData(c)
  <2>1. up[c] # <<>> /\ up[c][1].kind = "data" /\ up[c][1] \in DataFrames(clock)
    BY <1>0, <1>4, UpFields DEF HandleData, Arrived
  <2>2. up' \in [Clients -> Seq(UpFrames(clock))]
    BY <1>0, <1>4, <2>1 DEF HandleData, BTypes
  <2>3. CASE UNCHANGED <<clock, puts>>
    BY <1>4, <2>2, <2>3 DEF HandleData, BTypes
  <2>4. CASE /\ clock' = clock + 1
             /\ puts' = puts \cup {[pc |-> "write", id |-> up[c][1].id, ver |-> up[c][1].ver, ts |-> clock', by |-> c]}
    <3>1. up[c][1].id \in Ids /\ up[c][1].ver \in Versions
      BY <1>0, <2>1, DataFields
    <3>2. puts \in SUBSET Puts(clock + 1)
      BY <1>0, NotAhead DEF BTypes
    <3>3. [pc |-> "write", id |-> up[c][1].id, ver |-> up[c][1].ver, ts |-> clock + 1, by |-> c] \in Puts(clock + 1)
      BY <1>0, <3>1 DEF Puts
    <3>4. clock' \in Nat /\ puts' \in SUBSET Puts(clock')
      BY <1>0, <2>4, <3>2, <3>3
    <3> DEFINE n == clock
    <3>5. /\ 0..n \subseteq 0..(n + 1)
          /\ Seq(UpFrames(n)) \subseteq Seq(UpFrames(n + 1))
          /\ Seq(DownFrames(n)) \subseteq Seq(DownFrames(n + 1))
          /\ Seq(DataFrames(n)) \subseteq Seq(DataFrames(n + 1))
      BY <1>0, NotAhead
    <3>6. up' \in [Clients -> Seq(UpFrames(clock'))]
      BY <2>2, <2>4, <3>5
    <3>7. /\ down' \in [Clients -> Seq(DownFrames(clock'))] /\ replay' \in [Clients -> Seq(DownFrames(clock'))]
          /\ tasks' \in [Clients -> Seq(DataFrames(clock'))]
      BY <1>4, <2>4, <3>5 DEF HandleData, BTypes
    <3>8. /\ at' \in [Ids -> 0..clock'] /\ cursor' \in [Clients -> [Colls -> 0..clock']]
          /\ from' \in [Clients -> [Colls -> 0..clock']]
      BY <1>4, <2>4, <3>5 DEF HandleData, BTypes
    <3> QED
      BY <1>4, <3>4, <3>6, <3>7, <3>8 DEF HandleData, BTypes
  <2> QED
    BY <1>0, <1>4, <2>1, <2>3, <2>4 DEF HandleData
<1> QED
  BY <1>1, <1>2, <1>3, <1>4 DEF Handle

\* What the relay announces to a client.
LEMMA Announced ==
    ASSUME BTypes, NEW p \in puts, AnnouncePut(p), NEW c \in Clients, NEW f,
           f = Data(p.id, p.ver, Place[p.id], p.ts)
    PROVE  /\ p.id \in Ids /\ f \in DownFrames(clock)
           /\ f.kind = "data" /\ f.id = p.id /\ f.ver = p.ver
           /\ down'[c] = IF c \in Concerned(p.by, p.id) THEN Append(down[c], f) ELSE down[c]
<1>1. p.id \in Ids /\ p.ver \in Versions /\ p.ts \in 0..clock /\ clock \in Nat
  BY DEF BTypes, Puts
<1>2. Place[p.id] \in SUBSET Colls
  BY <1>1, BridgeAssumption
<1> QED
  BY <1>1, <1>2, DataFrame DEF AnnouncePut

LEMMA TypesPut ==
    ASSUME BTypes, NEW p \in puts, WritePut(p) \/ AnnouncePut(p)
    PROVE  BTypes'
<1> USE DEF relayVars, linkVars, watchVars, storeVars, sendVars, historyVars
<1>0. p \in Puts(clock) /\ p.id \in Ids /\ p.ver \in Versions /\ p.ts \in 0..clock /\ clock \in Nat
  BY DEF BTypes, Puts
<1>1. CASE WritePut(p)
  <2>1. [p EXCEPT !.pc = "announce"] \in Puts(clock)
    BY <1>0 DEF Puts
  <2>2. puts' \in SUBSET Puts(clock)
    BY <1>1, <2>1 DEF WritePut, BTypes
  <2>3. stored' \in [Ids -> Versions] /\ at' \in [Ids -> 0..clock]
    BY <1>0, <1>1 DEF WritePut, BTypes
  <2>4. overtaken' \in SUBSET Ids /\ replayed' \in SUBSET (Clients \X Ids)
    BY <1>0, <1>1 DEF WritePut, BTypes
  <2> QED
    BY <1>1, <2>2, <2>3, <2>4 DEF WritePut, BTypes
<1>2. CASE AnnouncePut(p)
  <2>1. ASSUME NEW c \in Clients PROVE down'[c] \in Seq(DownFrames(clock))
    <3> DEFINE f == Data(p.id, p.ver, Place[p.id], p.ts)
    <3>1. f \in DownFrames(clock)
          /\ down'[c] = IF c \in Concerned(p.by, p.id) THEN Append(down[c], f) ELSE down[c]
      BY <1>2, Announced
    <3>2. down[c] \in Seq(DownFrames(clock))
      BY ClientTypes
    <3> HIDE DEF f
    <3> QED
      BY <3>1, <3>2, Appended
  <2>2. down' \in [Clients -> Seq(DownFrames(clock))]
    BY <1>2, <2>1 DEF AnnouncePut
  <2>3. overtaken' \in SUBSET Ids /\ puts' \in SUBSET Puts(clock)
    BY <1>0, <1>2 DEF AnnouncePut, BTypes
  <2> QED
    BY <1>2, <2>2, <2>3 DEF AnnouncePut, BTypes
<1> QED
  BY <1>1, <1>2

LEMMA TypesStep ==
    ASSUME BTypes, [BNext]_vars
    PROVE  BTypes'
<1>1. CASE UNCHANGED vars
  BY <1>1 DEF vars, relayVars, linkVars, watchVars, storeVars, sendVars, historyVars, BTypes
<1>2. ASSUME NEW a \in DOMAIN Own, Register(a) PROVE BTypes'
  BY <1>2 DEF Register, linkVars, watchVars, storeVars, sendVars, historyVars, BTypes
<1>3. CASE RelayPut
  BY <1>3, TypesPut DEF RelayPut
<1> QED
  BY <1>1, <1>2, <1>3, TypesWatching, TypesSending, TypesReceiving, TypesHandling DEF BNext

-----------------------------------------------------------------------------
(* What the frames of a client make of its subscriptions at the relay.         *)

\* A frame that changes whether collection k is subscribed to.
Decides(f, k) == f.kind \in {"subscribe", "unsubscribe"} /\ k \in f.colls

\* The first n frames of s make of the subscriptions p those of ks: the last
\* frame that names a collection decides.
Carries(p, s, n, ks) ==
    \A k \in Colls :
        /\ (\A i \in DOMAIN s : i <= n => ~Decides(s[i], k)) => (k \in p <=> k \in ks)
        /\ \A i \in DOMAIN s :
             i <= n /\ Decides(s[i], k) /\ (\A j \in DOMAIN s : i < j /\ j <= n => ~Decides(s[j], k))
               => (s[i].kind = "subscribe" <=> k \in ks)

\* What one frame makes of the subscriptions p.
Changed(p, f) ==
    IF f.kind = "subscribe" THEN p \cup f.colls
    ELSE IF f.kind = "unsubscribe" THEN p \ f.colls ELSE p

LEMMA ChangedBy ==
    ASSUME NEW p, NEW f, NEW k
    PROVE  /\ Decides(f, k) => (k \in Changed(p, f) <=> f.kind = "subscribe")
           /\ ~Decides(f, k) => (k \in Changed(p, f) <=> k \in p)
BY DEF Changed, Decides

\* Frames that come later change nothing of what the first n do.
LEMMA CarriesBefore ==
    ASSUME NEW p, NEW ks, NEW S, NEW s \in Seq(S), NEW e \in S,
           NEW n \in 0..Len(s), Carries(p, s, n, ks)
    PROVE  Carries(p, Append(s, e), n, ks)
<1> DEFINE t == Append(s, e)
<1>1. /\ DOMAIN s = 1..Len(s) /\ DOMAIN t = 1..Len(s) + 1 /\ Len(s) \in Nat
      /\ \A i \in DOMAIN s : t[i] = s[i]
  BY Appended
<1>2. \A i \in DOMAIN t : i <= n => i \in DOMAIN s
  BY <1>1
<1>3. DOMAIN s \subseteq DOMAIN t
  BY <1>1
<1> HIDE DEF t
<1> SUFFICES ASSUME NEW k \in Colls
             PROVE  /\ (\A i \in DOMAIN t : i <= n => ~Decides(t[i], k)) => (k \in p <=> k \in ks)
                    /\ \A i \in DOMAIN t :
                        i <= n /\ Decides(t[i], k) /\ (\A j \in DOMAIN t : i < j /\ j <= n => ~Decides(t[j], k))
                          => (t[i].kind = "subscribe" <=> k \in ks)
  BY DEF Carries, t
<1>4. (\A i \in DOMAIN t : i <= n => ~Decides(t[i], k)) => (k \in p <=> k \in ks)
  BY <1>1, <1>3 DEF Carries
<1>5. ASSUME NEW i \in DOMAIN t, i <= n, Decides(t[i], k),
             \A j \in DOMAIN t : i < j /\ j <= n => ~Decides(t[j], k)
      PROVE  t[i].kind = "subscribe" <=> k \in ks
  <2>1. i \in DOMAIN s /\ t[i] = s[i]
    BY <1>1, <1>2, <1>5
  <2>2. \A j \in DOMAIN s : i < j /\ j <= n => ~Decides(s[j], k)
    BY <1>1, <1>3, <1>5
  <2> QED
    BY <1>5, <2>1, <2>2 DEF Carries
<1> QED
  BY <1>4, <1>5

\* A frame appended decides on the collections it names.
LEMMA CarriesOn ==
    ASSUME NEW p, NEW ks, NEW S, NEW s \in Seq(S), NEW e \in S,
           Carries(p, s, Len(s), ks)
    PROVE  Carries(p, Append(s, e), Len(s) + 1, Changed(ks, e))
<1> DEFINE t == Append(s, e)
           n == Len(s)
           m == Changed(ks, e)
<1>1. /\ DOMAIN s = 1..n /\ DOMAIN t = 1..n + 1 /\ n \in Nat
      /\ \A i \in DOMAIN s : t[i] = s[i]
      /\ t[n + 1] = e
  BY Appended
<1>2. \A i \in DOMAIN t : i \in DOMAIN s \/ i = n + 1
  BY <1>1
<1>3. DOMAIN s \subseteq DOMAIN t /\ n + 1 \in DOMAIN t /\ \A i \in DOMAIN s : i <= n /\ i < n + 1
  BY <1>1
<1> HIDE DEF t, m, n
<1> SUFFICES ASSUME NEW k \in Colls
             PROVE  /\ (\A i \in DOMAIN t : i <= n + 1 => ~Decides(t[i], k)) => (k \in p <=> k \in m)
                    /\ \A i \in DOMAIN t :
                        i <= n + 1 /\ Decides(t[i], k) /\ (\A j \in DOMAIN t : i < j /\ j <= n + 1 => ~Decides(t[j], k))
                          => (t[i].kind = "subscribe" <=> k \in m)
  BY DEF Carries, t, m, n
<1>4. /\ Decides(e, k) => (k \in m <=> e.kind = "subscribe")
      /\ ~Decides(e, k) => (k \in m <=> k \in ks)
  BY ChangedBy DEF m
<1>5. /\ (\A i \in DOMAIN s : i <= n => ~Decides(s[i], k)) => (k \in p <=> k \in ks)
      /\ \A i \in DOMAIN s :
           i <= n /\ Decides(s[i], k) /\ (\A j \in DOMAIN s : i < j /\ j <= n => ~Decides(s[j], k))
             => (s[i].kind = "subscribe" <=> k \in ks)
  BY DEF Carries, n
<1>6. ASSUME \A i \in DOMAIN t : i <= n + 1 => ~Decides(t[i], k) PROVE k \in p <=> k \in m
  <2>1. ~Decides(e, k) /\ \A i \in DOMAIN s : ~Decides(s[i], k)
    BY <1>1, <1>3, <1>6
  <2> QED
    BY <1>4, <1>5, <2>1
<1>7. ASSUME NEW i \in DOMAIN t, Decides(t[i], k),
             \A j \in DOMAIN t : i < j /\ j <= n + 1 => ~Decides(t[j], k)
      PROVE  t[i].kind = "subscribe" <=> k \in m
  <2>1. CASE i = n + 1
    BY <1>1, <1>4, <1>7, <2>1
  <2>2. CASE i \in DOMAIN s
    <3>1. t[i] = s[i] /\ i <= n /\ ~Decides(e, k)
      BY <1>1, <1>3, <1>7, <2>2
    <3>2. \A j \in DOMAIN s : i < j /\ j <= n => ~Decides(s[j], k)
      BY <1>1, <1>3, <1>7
    <3> QED
      BY <1>4, <1>5, <1>7, <2>2, <3>1, <3>2
  <2> QED
    BY <1>2, <2>1, <2>2
<1> QED
  BY <1>6, <1>7

\* The first frame handled, the rest carries on from there.
LEMMA CarriesRest ==
    ASSUME NEW p, NEW ks, NEW S, NEW s \in Seq(S), s # <<>>,
           NEW n \in Nat, n >= 1, Carries(p, s, n, ks)
    PROVE  Carries(Changed(p, s[1]), Tail(s), n - 1, ks)
<1> DEFINE t == Tail(s)
           q == Changed(p, s[1])
<1>1. /\ DOMAIN s = 1..Len(s) /\ DOMAIN t = 1..Len(s) - 1 /\ Len(s) \in Nat \ {0}
      /\ \A i \in DOMAIN t : i + 1 \in DOMAIN s /\ t[i] = s[i + 1]
  BY Taken
<1>2. ASSUME NEW i \in DOMAIN s, i # 1 PROVE i - 1 \in DOMAIN t /\ t[i - 1] = s[i] /\ i \in Nat
  <2>1. i \in 2..Len(s) /\ i - 1 \in 1..Len(s) - 1 /\ (i - 1) + 1 = i
    BY <1>1, <1>2
  <2> QED
    BY <1>1, <2>1
<1>3. \A i \in DOMAIN t : i \in Nat \ {0}
  BY <1>1
<1>0. 1 \in DOMAIN s
  BY <1>1
<1> HIDE DEF t, q
<1> SUFFICES ASSUME NEW k \in Colls
             PROVE  /\ (\A i \in DOMAIN t : i <= n - 1 => ~Decides(t[i], k)) => (k \in q <=> k \in ks)
                    /\ \A i \in DOMAIN t :
                        i <= n - 1 /\ Decides(t[i], k) /\ (\A j \in DOMAIN t : i < j /\ j <= n - 1 => ~Decides(t[j], k))
                          => (t[i].kind = "subscribe" <=> k \in ks)
  BY DEF Carries, t, q
<1>4. /\ Decides(s[1], k) => (k \in q <=> s[1].kind = "subscribe")
      /\ ~Decides(s[1], k) => (k \in q <=> k \in p)
  BY ChangedBy DEF q
<1>5. /\ (\A i \in DOMAIN s : i <= n => ~Decides(s[i], k)) => (k \in p <=> k \in ks)
      /\ \A i \in DOMAIN s :
           i <= n /\ Decides(s[i], k) /\ (\A j \in DOMAIN s : i < j /\ j <= n => ~Decides(s[j], k))
             => (s[i].kind = "subscribe" <=> k \in ks)
  BY DEF Carries
<1>6. ASSUME \A i \in DOMAIN t : i <= n - 1 => ~Decides(t[i], k) PROVE k \in q <=> k \in ks
  <2>1. \A i \in DOMAIN s : i # 1 /\ i <= n => ~Decides(s[i], k)
    BY <1>2, <1>6
  <2>2. CASE Decides(s[1], k)
    <3>1. \A j \in DOMAIN s : 1 < j /\ j <= n => ~Decides(s[j], k)
      BY <2>1
    <3> QED
      BY <1>0, <1>4, <1>5, <2>2, <3>1
  <2>3. CASE ~Decides(s[1], k)
    BY <1>4, <1>5, <2>1, <2>3
  <2> QED
    BY <2>2, <2>3
<1>7. ASSUME NEW i \in DOMAIN t, i <= n - 1, Decides(t[i], k),
             \A j \in DOMAIN t : i < j /\ j <= n - 1 => ~Decides(t[j], k)
      PROVE  t[i].kind = "subscribe" <=> k \in ks
  <2>1. i + 1 \in DOMAIN s /\ t[i] = s[i + 1] /\ i + 1 <= n
    BY <1>1, <1>3, <1>7
  <2>2. ASSUME NEW j \in DOMAIN s, i + 1 < j, j <= n PROVE ~Decides(s[j], k)
    <3>1. j # 1 /\ i < j - 1 /\ j - 1 <= n - 1
      BY <1>1, <1>3, <2>2
    <3> QED
      BY <1>2, <1>7, <3>1
  <2> QED
    BY <1>5, <1>7, <2>1, <2>2
<1> QED
  BY <1>6, <1>7

\* No frames, nothing changed.
LEMMA CarriesNothing ==
    ASSUME NEW p \in SUBSET Colls, NEW ks \in SUBSET Colls, NEW S, NEW s \in Seq(S),
           NEW n \in Nat, Carries(p, s, n, ks),
           \A i \in DOMAIN s : i <= n => s[i].kind \notin {"subscribe", "unsubscribe"}
    PROVE  p = ks
BY DEF Carries, Decides

-----------------------------------------------------------------------------

-----------------------------------------------------------------------------
(* The link of one client.                                                     *)

\* A connection begins with its hello, and the relay knows the peer once it is
\* handled; without a connection there is nothing.
Greeted(c) ==
    /\ conn[c] = "down" => up[c] = <<>> /\ peer[c] = Unknown
    /\ peer[c].actor = Nobody => peer[c].subs = {}
    /\ conn[c] # "down" =>
        /\ peer[c].actor \in {Nobody, Actor[c]}
        /\ peer[c].actor = Nobody <=> up[c] # <<>> /\ up[c][1].kind = "hello"
        /\ \A i \in DOMAIN up[c] : up[c][i].kind = "hello" => i = 1

\* A client publishes in its actor's collections only.
OwnFrame(c, f) == f.kind = "data" => f.colls = Place[f.id] /\ f.colls \subseteq Own[Actor[c]]
OwnOnly(c) == \A i \in DOMAIN up[c] : OwnFrame(c, up[c][i])

\* What is on its way to the relay makes of the peer's subscriptions the client's.
CarriesSubs(c) == conn[c] # "down" => Carries(peer[c].subs, up[c], Len(up[c]), subs[c])

\* What a client still has to send is for its actor's collections, and a flush
\* has something to send.
Queue(c) ==
    /\ \A id \in Ids : outbox[c][id] # 0 => Place[id] \subseteq Own[Actor[c]]
    /\ flushing[c] => Queued(c) # {} /\ conn[c] # "down"

Linked(c) == Greeted(c) /\ OwnOnly(c) /\ CarriesSubs(c) /\ Queue(c) /\ caught[c] \subseteq peer[c].subs

\* Nothing happens to the link of a client.
LinkStays(c) ==
    /\ conn'[c] = conn[c] /\ up'[c] = up[c] /\ peer'[c] = peer[c] /\ caught'[c] = caught[c]
    /\ subs'[c] = subs[c] /\ outbox'[c] = outbox[c] /\ flushing'[c] = flushing[c]

LEMMA LinkedStays ==
    ASSUME NEW c \in Clients, Linked(c), LinkStays(c)
    PROVE  Linked(c)'
BY DEF Linked, LinkStays, Greeted, OwnOnly, OwnFrame, CarriesSubs, Queue, Queued

\* A client sends a frame.
LEMMA LinkedSends ==
    ASSUME BTypes, NEW c \in Clients, Linked(c), NEW e \in UpFrames(clock),
           conn[c] # "down", conn'[c] # "down", e.kind # "hello", OwnFrame(c, e),
           up'[c] = Append(up[c], e), peer'[c] = peer[c], caught'[c] = caught[c],
           subs'[c] = Changed(subs[c], e), Queue(c)'
    PROVE  Linked(c)'
<1>1. up[c] \in Seq(UpFrames(clock))
  BY ClientTypes
<1>2. /\ up'[c] # <<>> /\ Len(up[c]) \in Nat /\ Len(up'[c]) = Len(up[c]) + 1
      /\ DOMAIN up[c] = 1..Len(up[c]) /\ DOMAIN up'[c] = 1..Len(up[c]) + 1
      /\ \A i \in DOMAIN up[c] : up'[c][i] = up[c][i]
      /\ up'[c][Len(up[c]) + 1] = e
  BY <1>1, Appended
<1>3. \A i \in DOMAIN up'[c] : i \in DOMAIN up[c] \/ i = Len(up[c]) + 1
  BY <1>2
<1>4. Greeted(c)'
  <2>1. up[c] # <<>> => 1 \in DOMAIN up[c]
    BY <1>1, <1>2, EmptySeq
  <2>2. up[c] = <<>> => up'[c][1] = e
    BY <1>2, EmptySeq
  <2>3. peer'[c].actor = Nobody <=> up'[c] # <<>> /\ up'[c][1].kind = "hello"
    BY <1>2, <2>1, <2>2 DEF Linked, Greeted
  <2>4. \A i \in DOMAIN up'[c] : up'[c][i].kind = "hello" => i = 1
    BY <1>2, <1>3 DEF Linked, Greeted
  <2> QED
    BY <2>3, <2>4 DEF Linked, Greeted
<1>5. OwnOnly(c)'
  BY <1>2, <1>3 DEF Linked, OwnOnly, OwnFrame
<1>6. Carries(peer[c].subs, up'[c], Len(up[c]) + 1, subs'[c])
  BY <1>1, CarriesOn DEF Linked, CarriesSubs
<1> QED
  BY <1>2, <1>4, <1>5, <1>6 DEF Linked, CarriesSubs

\* The relay handles the first frame from a client.
LEMMA LinkedTail ==
    ASSUME BTypes, NEW c \in Clients, Linked(c), conn[c] # "down", conn'[c] = conn[c],
           up[c] # <<>>, up'[c] = Tail(up[c]), subs'[c] = subs[c],
           peer'[c].subs = Changed(peer[c].subs, up[c][1]),
           peer'[c].actor = IF up[c][1].kind = "hello" THEN Actor[c] ELSE peer[c].actor,
           caught'[c] \subseteq peer'[c].subs, outbox'[c] = outbox[c], flushing'[c] = flushing[c]
    PROVE  Linked(c)'
<1>1. up[c] \in Seq(UpFrames(clock)) /\ up[c][1] \in UpFrames(clock)
  BY ClientTypes, ArrivedFrame
<1>2. /\ Len(up[c]) \in Nat \ {0} /\ Len(up'[c]) = Len(up[c]) - 1
      /\ DOMAIN up[c] = 1..Len(up[c]) /\ DOMAIN up'[c] = 1..Len(up[c]) - 1
      /\ \A i \in DOMAIN up'[c] : i + 1 \in DOMAIN up[c] /\ up'[c][i] = up[c][i + 1]
      /\ up'[c] \in Seq(UpFrames(clock))
  BY <1>1, Taken
<1>3. \A i \in DOMAIN up'[c] : up'[c][i].kind # "hello"
  <2>1. \A i \in DOMAIN up'[c] : i + 1 # 1
    BY <1>2
  <2> QED
    BY <1>2, <2>1 DEF Linked, Greeted
<1>4. peer'[c].actor = Actor[c] /\ Actor[c] # Nobody
  BY BridgeAssumption DEF Linked, Greeted
<1>5. up'[c] # <<>> => 1 \in DOMAIN up'[c]
  BY <1>2, EmptySeq
<1>6. Greeted(c)'
  BY <1>3, <1>4, <1>5 DEF Greeted
<1>7. OwnOnly(c)'
  BY <1>2 DEF Linked, OwnOnly, OwnFrame
<1>8. Carries(peer'[c].subs, up'[c], Len(up[c]) - 1, subs[c])
  BY <1>1, <1>2, CarriesRest DEF Linked, CarriesSubs
<1>9. CarriesSubs(c)'
  BY <1>2, <1>8 DEF CarriesSubs
<1> QED
  BY <1>6, <1>7, <1>9 DEF Linked, Queue, Queued

LEMMA LinkedGone ==
    ASSUME BTypes, NEW c \in Clients, Linked(c), Gone(c), outbox'[c] = outbox[c]
    PROVE  Linked(c)'
<1>1. conn'[c] = "down" /\ up'[c] = <<>> /\ peer'[c] = Unknown /\ caught'[c] = {} /\ ~flushing'[c]
  BY DEF Gone, BTypes
<1> QED
  BY <1>1 DEF Linked, Greeted, OwnOnly, CarriesSubs, Queue, Queued, Unknown

\* A client that has nothing to say.
LEMMA LinkedQuiet ==
    ASSUME NEW c \in Clients, Linked(c), Queue(c)', conn' = conn, peer' = peer, caught' = caught,
           up' = up, conn[c] # "down" => subs'[c] = subs[c]
    PROVE  Linked(c)'
<1>1. Greeted(c)' /\ OwnOnly(c)' /\ caught'[c] \subseteq peer'[c].subs
  BY DEF Linked, Greeted, OwnOnly, OwnFrame
<1>2. CarriesSubs(c)'
  BY DEF Linked, CarriesSubs
<1> QED
  BY <1>1, <1>2 DEF Linked

\* A client that changes its subscriptions.
LEMMA LinkedWatching ==
    ASSUME BTypes, NEW c \in Clients, Linked(c), NEW k \in Colls, Watch(c, k) \/ Unwatch(c, k)
    PROVE  Linked(c)' /\ \A d \in Clients \ {c} : LinkStays(d)
<1> USE DEF relayVars, linkVars, watchVars, storeVars, sendVars, historyVars
<1>0. /\ clock \in Nat /\ up[c] \in Seq(UpFrames(clock)) /\ subs \in [Clients -> SUBSET Colls]
      /\ up \in [Clients -> Seq(UpFrames(clock))]
  BY ClientTypes DEF BTypes
<1>1. Queue(c)'
  BY DEF Watch, Unwatch, Linked, Queue, Queued
<1>2. /\ conn' = conn /\ peer' = peer /\ caught' = caught /\ outbox' = outbox /\ flushing' = flushing
      /\ \A d \in Clients \ {c} : up'[d] = up[d] /\ subs'[d] = subs[d]
  BY <1>0 DEF Watch, Unwatch, Sent
<1>3. \A d \in Clients \ {c} : LinkStays(d)
  BY <1>2 DEF LinkStays
<1>4. CASE Watch(c, k)
  <2>1. subs'[c] = subs[c] \cup {k}
    BY <1>0, <1>4 DEF Watch
  <2>2. CASE k \in subs[c] \/ conn[c] = "down"
    <3>1. up' = up
      BY <1>4, <2>2 DEF Watch, Sent
    <3>2. conn[c] # "down" => subs'[c] = subs[c]
      BY <2>1, <2>2
    <3> QED
      BY <1>1, <1>2, <1>3, <3>1, <3>2, LinkedQuiet
  <2>3. CASE k \notin subs[c] /\ conn[c] # "down"
    <3> DEFINE e == Control("subscribe", {k})
    <3> HIDE DEF e
    <3>1. up'[c] = Append(up[c], e)
      BY <1>0, <1>4, <2>3 DEF Watch, Sent, e
    <3>2. /\ e \in UpFrames(clock) /\ e.kind = "subscribe"
          /\ e.colls = {k}
      BY <1>0, ControlFrame DEF e
    <3>3. OwnFrame(c, e) /\ subs'[c] = Changed(subs[c], e)
      BY <2>1, <3>2 DEF OwnFrame, Changed
    <3> QED
      BY <1>1, <1>2, <1>3, <2>3, <3>1, <3>2, <3>3, LinkedSends
  <2> QED
    BY <2>2, <2>3
<1>5. CASE Unwatch(c, k)
  <2>1. subs'[c] = subs[c] \ {k}
    BY <1>0, <1>5 DEF Unwatch
  <2>2. CASE k \notin subs[c] \/ conn[c] = "down"
    <3>1. up' = up
      BY <1>5, <2>2 DEF Unwatch, Sent
    <3>2. conn[c] # "down" => subs'[c] = subs[c]
      BY <2>1, <2>2
    <3> QED
      BY <1>1, <1>2, <1>3, <3>1, <3>2, LinkedQuiet
  <2>3. CASE k \in subs[c] /\ conn[c] # "down"
    <3> DEFINE e == Control("unsubscribe", {k})
    <3> HIDE DEF e
    <3>1. up'[c] = Append(up[c], e)
      BY <1>0, <1>5, <2>3 DEF Unwatch, Sent, e
    <3>2. /\ e \in UpFrames(clock) /\ e.kind = "unsubscribe"
          /\ e.colls = {k}
      BY <1>0, ControlFrame DEF e
    <3>3. OwnFrame(c, e) /\ subs'[c] = Changed(subs[c], e)
      BY <2>1, <3>2 DEF OwnFrame, Changed
    <3> QED
      BY <1>1, <1>2, <1>3, <2>3, <3>1, <3>2, <3>3, LinkedSends
  <2> QED
    BY <2>2, <2>3
<1> QED
  BY <1>3, <1>4, <1>5

\* A client that publishes.
LEMMA LinkedPublish ==
    ASSUME BTypes, NEW c \in Clients, Linked(c), NEW id \in Ids, Publish(c, id)
    PROVE  Linked(c)' /\ \A d \in Clients \ {c} : LinkStays(d)
<1> USE DEF relayVars, linkVars, watchVars
<1>0. outbox \in [Clients -> [Ids -> Versions]] /\ flushing \in [Clients -> BOOLEAN] /\ published \in Nat
  BY BridgeAssumption, LenProperties DEF BTypes, Versions
<1>1. /\ conn' = conn /\ peer' = peer /\ caught' = caught /\ up' = up /\ subs' = subs
      /\ \A d \in Clients \ {c} : outbox'[d] = outbox[d] /\ flushing'[d] = flushing[d]
      /\ outbox'[c] = [outbox[c] EXCEPT ![id] = published + 1]
      /\ flushing'[c] = (flushing[c] \/ conn[c] # "down") /\ Place[id] \subseteq Own[Actor[c]]
  BY <1>0 DEF Publish
<1>2. \A d \in Clients \ {c} : LinkStays(d)
  BY <1>1 DEF LinkStays
<1>3. \A i \in Ids : outbox'[c][i] # 0 => i = id \/ outbox[c][i] # 0
  BY <1>0, <1>1
<1>4. outbox'[c][id] # 0
  BY <1>0, <1>1
<1>5. Queue(c)'
  <2>1. \A i \in Ids : outbox'[c][i] # 0 => Place[i] \subseteq Own[Actor[c]]
    BY <1>1, <1>3 DEF Linked, Queue
  <2>2. id \in Queued(c)'
    BY <1>4 DEF Queued
  <2>3. flushing'[c] => conn'[c] # "down"
    BY <1>1 DEF Linked, Queue
  <2> QED
    BY <2>1, <2>2, <2>3 DEF Queue
<1> QED
  BY <1>1, <1>2, <1>5 DEF Linked, Greeted, OwnOnly, OwnFrame, CarriesSubs

\* A flush that sends an entry.
LEMMA SendEffect ==
    ASSUME BTypes, NEW c \in Clients, SendEntry(c)
    PROVE  \E id \in Ids :
             /\ outbox[c][id] # 0 /\ flushing[c]
             /\ up'[c] = Append(up[c], Data(id, outbox[c][id], Place[id], 0))
             /\ outbox'[c] = [outbox[c] EXCEPT ![id] = 0]
             /\ flushing'[c] = (Queued(c) # {id})
             /\ conn' = conn /\ peer' = peer /\ caught' = caught /\ subs' = subs
             /\ \A d \in Clients \ {c} : outbox'[d] = outbox[d] /\ flushing'[d] = flushing[d] /\ up'[d] = up[d]
<1>1. PICK id \in Queued(c) :
          /\ up' = [up EXCEPT ![c] = Append(@, Data(id, outbox[c][id], Place[id], 0))]
          /\ outbox' = [outbox EXCEPT ![c][id] = 0]
          /\ flushing' = [flushing EXCEPT ![c] = Queued(c) # {id}]
  BY DEF SendEntry
<1>2. id \in Ids /\ outbox[c][id] # 0 /\ flushing[c]
  BY DEF Queued, SendEntry
<1>3. /\ outbox \in [Clients -> [Ids -> Versions]] /\ flushing \in [Clients -> BOOLEAN]
      /\ up \in [Clients -> Seq(UpFrames(clock))]
  BY DEF BTypes
<1>4. conn' = conn /\ peer' = peer /\ caught' = caught /\ subs' = subs
  BY DEF SendEntry, relayVars, watchVars
<1> QED
  BY <1>1, <1>2, <1>3, <1>4

LEMMA LinkedSendEntry ==
    ASSUME BTypes, NEW c \in Clients, Linked(c), SendEntry(c)
    PROVE  Linked(c)' /\ \A d \in Clients \ {c} : LinkStays(d)
<1>1. PICK id \in Ids :
             /\ outbox[c][id] # 0 /\ flushing[c]
             /\ up'[c] = Append(up[c], Data(id, outbox[c][id], Place[id], 0))
             /\ outbox'[c] = [outbox[c] EXCEPT ![id] = 0]
             /\ flushing'[c] = (Queued(c) # {id})
             /\ conn' = conn /\ peer' = peer /\ caught' = caught /\ subs' = subs
             /\ \A d \in Clients \ {c} : outbox'[d] = outbox[d] /\ flushing'[d] = flushing[d] /\ up'[d] = up[d]
  BY SendEffect
<1>2. \A d \in Clients \ {c} : LinkStays(d)
  BY <1>1 DEF LinkStays
<1> DEFINE e == Data(id, outbox[c][id], Place[id], 0)
<1>3. outbox[c] \in [Ids -> Versions] /\ outbox[c][id] \in Versions /\ Place[id] \in SUBSET Colls
      /\ clock \in Nat /\ 0 \in 0..clock
  BY ClientTypes, BridgeAssumption
<1>4. e \in UpFrames(clock) /\ e.kind = "data" /\ e.id = id /\ e.colls = Place[id]
  BY <1>3, DataFrame
<1>5. Place[id] \subseteq Own[Actor[c]] /\ conn[c] # "down"
  BY <1>1 DEF Linked, Queue
<1>6. Queue(c)'
  <2>1. \A i \in Ids : outbox'[c][i] # 0 <=> outbox[c][i] # 0 /\ i # id
    BY <1>1, <1>3
  <2>2. Queued(c)' = Queued(c) \ {id}
    BY <2>1 DEF Queued
  <2>3. flushing'[c] => Queued(c)' # {}
    <3>1. id \in Queued(c)
      BY <1>1 DEF Queued
    <3> QED
      BY <1>1, <2>2, <3>1
  <2> QED
    BY <1>1, <1>5, <2>1, <2>3 DEF Linked, Queue
<1> HIDE DEF e
<1>7. up'[c] = Append(up[c], e)
  BY <1>1 DEF e
<1>8. OwnFrame(c, e) /\ subs'[c] = Changed(subs[c], e) /\ e.kind # "hello" /\ conn'[c] # "down"
      /\ peer'[c] = peer[c] /\ caught'[c] = caught[c]
  BY <1>1, <1>4, <1>5 DEF OwnFrame, Changed
<1> QED
  BY <1>2, <1>4, <1>5, <1>6, <1>7, <1>8, LinkedSends

\* A client that connects.
LEMMA LinkedOpen ==
    ASSUME BTypes, NEW c \in Clients, Linked(c), Open(c)
    PROVE  Linked(c)' /\ \A d \in Clients \ {c} : LinkStays(d)
<1> USE DEF relayVars, watchVars, storeVars, sendVars
<1> DEFINE h == Control("hello", {})
           b == Control("subscribe", subs[c])
           msgs == <<h>> \o (IF subs[c] = {} THEN <<>> ELSE <<b>>)
<1>0. clock \in Nat /\ subs[c] \in SUBSET Colls
  BY ClientTypes
<1>1. /\ h \in UpFrames(clock) /\ h.kind = "hello" /\ b \in UpFrames(clock) /\ b.kind = "subscribe"
      /\ b.colls = subs[c]
  BY <1>0, ControlFrame
<1>2. /\ conn[c] = "down" /\ conn'[c] = "opening" /\ up'[c] = msgs
      /\ peer' = peer /\ caught' = caught /\ subs' = subs /\ outbox' = outbox /\ flushing' = flushing
      /\ \A d \in Clients \ {c} : conn'[d] = conn[d] /\ up'[d] = up[d]
  BY DEF Open, BTypes
<1> HIDE DEF h, b
<1>3. /\ msgs \in Seq(UpFrames(clock)) /\ msgs # <<>> /\ msgs[1] = h /\ DOMAIN msgs = 1..Len(msgs)
      /\ \A i \in DOMAIN msgs : i = 1 \/ msgs[i] = b
      /\ Len(msgs) \in Nat /\ Carries({}, msgs, Len(msgs), subs[c])
  <2>1. <<h>> \in Seq(UpFrames(clock)) /\ Len(<<h>>) = 1 /\ <<h>>[1] = h /\ DOMAIN <<h>> = 1..1
    BY <1>1
  <2>2. Carries({}, <<h>>, 1, {})
    BY <1>1, <2>1 DEF Carries, Decides
  <2>3. CASE subs[c] = {}
    <3>1. msgs = <<h>>
      BY <2>1, <2>3
    <3> HIDE DEF msgs
    <3> QED
      BY <2>1, <2>2, <2>3, <3>1
  <2>4. CASE subs[c] # {}
    <3>1. msgs = Append(<<h>>, b)
      BY <2>4
    <3> DEFINE one == <<h>>
    <3>2. /\ msgs \in Seq(UpFrames(clock)) /\ msgs # <<>> /\ Len(msgs) = 2 /\ DOMAIN msgs = 1..2
          /\ msgs[1] = h /\ msgs[2] = b
      <4> HIDE DEF msgs
      <4> QED
        BY <1>1, <2>1, <3>1, Appended
    <3>3. Carries({}, Append(one, b), 1 + 1, Changed({}, b))
      <4> HIDE DEF one
      <4>1. one \in Seq(UpFrames(clock)) /\ Len(one) = 1 /\ Carries({}, one, 1, {})
        BY <2>1, <2>2 DEF one
      <4> QED
        BY <1>1, <4>1, CarriesOn
    <3>4. Changed({}, b) = subs[c]
      BY <1>1 DEF Changed
    <3> HIDE DEF msgs
    <3> QED
      BY <3>1, <3>2, <3>3, <3>4
  <2> QED
    BY <2>3, <2>4
<1> HIDE DEF msgs
<1>4. peer[c].actor = Nobody /\ peer[c].subs = {}
  BY <1>2 DEF Linked, Greeted, Unknown
<1>5. Greeted(c)'
  BY <1>1, <1>2, <1>3, <1>4 DEF Greeted
<1>6. OwnOnly(c)' /\ CarriesSubs(c)'
  BY <1>1, <1>2, <1>3, <1>4 DEF OwnOnly, OwnFrame, CarriesSubs
<1>7. Queue(c)'
  BY <1>2 DEF Linked, Queue, Queued
<1> QED
  BY <1>2, <1>5, <1>6, <1>7 DEF Linked, LinkStays

\* A client that asks for what it missed.
LEMMA LinkedSendResume ==
    ASSUME BTypes, NEW c \in Clients, Linked(c), SendResume(c)
    PROVE  Linked(c)' /\ \A d \in Clients \ {c} : LinkStays(d)
<1> USE DEF relayVars, watchVars, storeVars, sendVars
<1> DEFINE e == [kind |-> "resume", since |-> [k \in subs[c] |-> cursor[c][k]]]
<1>0. subs[c] \in SUBSET Colls /\ cursor[c] \in [Colls -> 0..clock] /\ clock \in Nat
  BY ClientTypes
<1>1. e \in UpFrames(clock)
  <2>1. [k \in subs[c] |-> cursor[c][k]] \in [subs[c] -> 0..clock]
    BY <1>0
  <2>2. [k \in subs[c] |-> cursor[c][k]] \in Cursors(clock)
    BY <1>0, <2>1 DEF Cursors
  <2> QED
    BY <2>2 DEF UpFrames
<1>2. /\ conn[c] = "opening" /\ conn'[c] = "up" /\ up'[c] = Append(up[c], e)
      /\ peer' = peer /\ caught' = caught /\ subs' = subs /\ outbox' = outbox
      /\ flushing'[c] = (Queued(c) # {})
      /\ \A d \in Clients \ {c} : conn'[d] = conn[d] /\ up'[d] = up[d] /\ flushing'[d] = flushing[d]
  BY DEF SendResume, BTypes
<1>3. e.kind = "resume"
  OBVIOUS
<1> HIDE DEF e
<1>4. OwnFrame(c, e) /\ subs'[c] = Changed(subs[c], e) /\ e.kind # "hello"
  BY <1>2, <1>3 DEF OwnFrame, Changed
<1>5. Queue(c)'
  BY <1>2 DEF Linked, Queue, Queued
<1>6. \A d \in Clients \ {c} : LinkStays(d)
  BY <1>2 DEF LinkStays
<1>7. conn[c] # "down" /\ conn'[c] # "down" /\ peer'[c] = peer[c] /\ caught'[c] = caught[c]
  BY <1>2
<1> QED
  BY <1>1, <1>2, <1>4, <1>5, <1>6, <1>7, LinkedSends

LEMMA GoneStays ==
    ASSUME BTypes, NEW c \in Clients, Gone(c), outbox' = outbox, subs' = subs
    PROVE  \A d \in Clients \ {c} : LinkStays(d)
BY DEF Gone, BTypes, LinkStays

\* A connection that closes.
LEMMA LinkedDrop ==
    ASSUME BTypes, NEW c \in Clients, Linked(c), Drop(c)
    PROVE  Linked(c)' /\ \A d \in Clients \ {c} : LinkStays(d)
<1>1. Gone(c) /\ outbox' = outbox /\ subs' = subs
  BY DEF Drop, watchVars
<1> QED
  BY <1>1, LinkedGone, GoneStays

\* The relay handles the first frame of a client.
LEMMA LinkedHandle ==
    ASSUME BTypes, NEW c \in Clients, Linked(c), Handle(c)
    PROVE  Linked(c)' /\ \A d \in Clients \ {c} : LinkStays(d)
<1> USE DEF relayVars, linkVars, watchVars, storeVars, sendVars
<1>0. /\ up \in [Clients -> Seq(UpFrames(clock))] /\ caught \in [Clients -> SUBSET Colls]
      /\ up[c] # <<>> => Head(up[c]) = up[c][1]
  BY ArrivedFrame DEF BTypes
<1>1. up[c] # <<>> => conn[c] # "down"
  BY DEF Linked, Greeted
<1>2. CASE HandleHello(c)
  <2>1. up[c] # <<>> /\ up[c][1].kind = "hello" /\ subs' = subs /\ outbox' = outbox
    BY <1>0, <1>2 DEF HandleHello, Arrived
  <2>2. CASE Gone(c)
    BY <2>1, <2>2, LinkedGone, GoneStays
  <2>3. CASE /\ Actor[c] \in registered /\ peer' = [peer EXCEPT ![c].actor = Actor[c]]
             /\ up' = [up EXCEPT ![c] = Tail(@)]
             /\ UNCHANGED <<conn, down, replay, caught, from, flushing, lost>>
    <3>1. peer'[c].actor = Actor[c] /\ peer'[c].subs = peer[c].subs /\ \A d \in Clients \ {c} : peer'[d] = peer[d]
      BY <2>3, NewPeer
    <3>2. up'[c] = Tail(up[c]) /\ \A d \in Clients \ {c} : up'[d] = up[d]
      BY <1>0, <2>3
    <3>3. peer'[c].subs = Changed(peer[c].subs, up[c][1])
      BY <2>1, <3>1 DEF Changed
    <3>4. conn' = conn /\ caught' = caught /\ flushing' = flushing
      BY <2>3
    <3>5. caught'[c] \subseteq peer'[c].subs
      BY <3>1, <3>4 DEF Linked
    <3>6. \A d \in Clients \ {c} : LinkStays(d)
      BY <2>1, <3>1, <3>2, <3>4 DEF LinkStays
    <3>7. Linked(c)'
      BY <1>1, <2>1, <3>1, <3>2, <3>3, <3>4, <3>5, LinkedTail
    <3> QED
      BY <3>6, <3>7
  <2> QED
    BY <1>2, <2>2, <2>3 DEF HandleHello
<1>3. CASE HandleSubscribe(c)
  <2>1. /\ up[c] # <<>> /\ up[c][1].kind \in {"subscribe", "unsubscribe"}
        /\ peer'[c].actor = peer[c].actor /\ \A d \in Clients \ {c} : peer'[d] = peer[d]
        /\ \/ /\ up[c][1].kind = "subscribe" /\ peer'[c].subs = peer[c].subs \cup up[c][1].colls
              /\ caught' = caught
           \/ /\ up[c][1].kind = "unsubscribe" /\ peer'[c].subs = peer[c].subs \ up[c][1].colls
              /\ caught' = [caught EXCEPT ![c] = @ \ up[c][1].colls]
    BY <1>3, SubscribeEffect
  <2>2. /\ up'[c] = Tail(up[c]) /\ conn' = conn /\ subs' = subs /\ outbox' = outbox /\ flushing' = flushing
        /\ \A d \in Clients \ {c} : up'[d] = up[d]
    BY <1>0, <1>3 DEF HandleSubscribe
  <2>3. peer'[c].subs = Changed(peer[c].subs, up[c][1])
    BY <2>1 DEF Changed
  <2>4. caught'[c] \subseteq peer'[c].subs /\ \A d \in Clients \ {c} : caught'[d] = caught[d]
    BY <1>0, <2>1 DEF Linked
  <2>5. \A d \in Clients \ {c} : LinkStays(d)
    BY <2>1, <2>2, <2>4 DEF LinkStays
  <2>6. Linked(c)'
    BY <1>1, <2>1, <2>2, <2>3, <2>4, LinkedTail
  <2> QED
    BY <2>5, <2>6
<1>4. CASE HandleResume(c) \/ HandleData(c)
  <2>1. /\ up[c] # <<>> /\ up[c][1].kind \in {"resume", "data"} /\ peer' = peer
        /\ up'[c] = Tail(up[c]) /\ conn' = conn /\ subs' = subs /\ outbox' = outbox /\ flushing' = flushing
        /\ caught'[c] \in {caught[c], peer[c].subs}
        /\ \A d \in Clients \ {c} : up'[d] = up[d] /\ caught'[d] = caught[d]
    BY <1>0, <1>4 DEF HandleResume, HandleData, Arrived
  <2>2. peer'[c].subs = Changed(peer[c].subs, up[c][1])
    BY <2>1 DEF Changed
  <2>3. caught'[c] \subseteq peer'[c].subs
    BY <2>1 DEF Linked
  <2>4. \A d \in Clients \ {c} : LinkStays(d)
    BY <2>1 DEF LinkStays
  <2>5. Linked(c)'
    BY <1>1, <2>1, <2>2, <2>3, LinkedTail
  <2> QED
    BY <2>4, <2>5
<1> QED
  BY <1>2, <1>3, <1>4 DEF Handle

\* The steps that concern the link of client c, and those that concern none.
Speaks(c) ==
    \/ \E k \in Colls : Watch(c, k) \/ Unwatch(c, k)
    \/ \E id \in Ids : Publish(c, id)
    \/ SendEntry(c) \/ Open(c) \/ SendResume(c) \/ Drop(c) \/ Handle(c)

Silent ==
    \/ \E a \in DOMAIN Own : Register(a)
    \/ RelayPut
    \/ \E c \in Clients : Receive(c) \/ StoreFrame(c) \/ SendReplay(c)
    \/ UNCHANGED vars

LEMMA BNextIs == [BNext]_vars <=> Silent \/ \E c \in Clients : Speaks(c)
BY DEF BNext, Silent, Speaks

LEMMA LinkedSpeaks ==
    ASSUME BTypes, NEW c \in Clients, Linked(c), Speaks(c)
    PROVE  Linked(c)' /\ \A d \in Clients \ {c} : LinkStays(d)
BY LinkedWatching, LinkedPublish, LinkedSendEntry, LinkedOpen, LinkedSendResume, LinkedDrop,
   LinkedHandle DEF Speaks

LEMMA SilentStays ==
    ASSUME Silent
    PROVE  /\ \A c \in Clients : LinkStays(c)
           /\ subs' = subs /\ watching' = watching /\ caught' = caught /\ from' = from
<1> USE DEF relayVars, linkVars, watchVars, storeVars, sendVars, historyVars, LinkStays
<1>1. ASSUME NEW a \in DOMAIN Own, Register(a)
      PROVE  UNCHANGED <<conn, up, peer, caught, from, subs, watching, outbox, flushing>>
  BY <1>1 DEF Register
<1>2. ASSUME RelayPut
      PROVE  UNCHANGED <<conn, up, peer, caught, from, subs, watching, outbox, flushing>>
  BY <1>2 DEF RelayPut, WritePut, AnnouncePut
<1>3. ASSUME NEW c \in Clients, Receive(c) \/ StoreFrame(c) \/ SendReplay(c)
      PROVE  UNCHANGED <<conn, up, peer, caught, from, subs, watching, outbox, flushing>>
  BY <1>3 DEF Receive, StoreFrame, SendReplay
<1>4. UNCHANGED vars => UNCHANGED <<conn, up, peer, caught, from, subs, watching, outbox, flushing>>
  BY DEF vars
<1> QED
  BY <1>1, <1>2, <1>3, <1>4 DEF Silent

-----------------------------------------------------------------------------
BLinked == BTypes /\ \A c \in Clients : Linked(c)

LEMMA BLinkedInit == BInit => BLinked
<1> SUFFICES ASSUME BInit, NEW c \in Clients PROVE Linked(c)
  BY TypesInit DEF BLinked
<1> QED
  BY DEF BInit, Linked, Greeted, OwnOnly, CarriesSubs, Queue, Unknown, NoVersions

LEMMA BLinkedStep ==
    ASSUME BLinked, [BNext]_vars
    PROVE  BLinked'
<1>1. BTypes /\ BTypes'
  BY TypesStep DEF BLinked
<1> SUFFICES ASSUME NEW d \in Clients PROVE Linked(d)'
  BY <1>1 DEF BLinked
<1>2. CASE Silent
  BY <1>2, SilentStays, LinkedStays DEF BLinked
<1>3. ASSUME NEW c \in Clients, Speaks(c) PROVE Linked(d)'
  <2>1. Linked(c)' /\ \A e \in Clients \ {c} : LinkStays(e)
    BY <1>1, <1>3, LinkedSpeaks DEF BLinked
  <2> QED
    BY <2>1, LinkedStays DEF BLinked
<1> QED
  BY <1>2, <1>3, BNextIs

\* Every variable keeps its type, over drops, replays and puts that overlap: a
\* peer subscribes only as an actor the relay knows, no cursor is ahead of the
\* relay's clock, and a flush under way has a connection and something to send
\* (realtime-bridge.js:58-82, client.js:61-67, 205-255).
THEOREM BridgeTypeOK == BSpec => []BTypeOK
<1>1. BInit => BLinked
  BY BLinkedInit
<1>2. BLinked /\ [BNext]_vars => BLinked'
  BY BLinkedStep
<1>3. BLinked => BTypeOK
  <2> SUFFICES ASSUME BLinked PROVE BTypeOK
    OBVIOUS
  <2>1. \A p \in puts : p.pc \in {"write", "announce"} /\ p.id \in Ids /\ p.ver \in Versions /\ p.ts \in 1..clock
    BY DEF BLinked, BTypes, Puts
  <2>2. ASSUME NEW c \in Clients
        PROVE  /\ peer[c].actor \in registered \cup {Nobody} /\ peer[c].subs \subseteq Colls
               /\ peer[c].actor = Nobody => peer[c].subs = {}
               /\ watching[c] \in [Colls -> 0..MaxWatchers]
               /\ caught[c] \subseteq peer[c].subs /\ from[c] \in [Colls -> 0..clock]
               /\ subs[c] \subseteq Colls /\ late[c] \subseteq Colls
               /\ doc[c] \in [Ids -> Versions]
               /\ cursor[c] \in [Colls -> 0..clock]
               /\ outbox[c] \in [Ids -> Versions]
               /\ flushing[c] => Queued(c) # {} /\ conn[c] # "down"
    BY DEF BLinked, BTypes, Linked, Greeted, Queue
  <2> QED
    BY <2>1, <2>2 DEF BLinked, BTypes, BTypeOK
<1> QED
  BY <1>1, <1>2, <1>3, PTL DEF BSpec

\* A client is subscribed to what it watches.
WatchedOnce == \A c \in Clients : subs[c] = {k \in Colls : watching[c][k] > 0}

LEMMA WatchedOnceStep ==
    ASSUME BTypes, BTypes', MaxWatchers = 1, WatchedOnce, [BNext]_vars
    PROVE  WatchedOnce'
<1> SUFFICES ASSUME NEW d \in Clients PROVE subs'[d] = {k \in Colls : watching'[d][k] > 0}
  BY DEF WatchedOnce
<1>0. /\ subs[d] = {k \in Colls : watching[d][k] > 0}
      /\ subs \in [Clients -> SUBSET Colls] /\ watching \in [Clients -> [Colls -> 0..1]]
      /\ watching'[d] \in [Colls -> 0..1]
  BY DEF BTypes, WatchedOnce
<1>1. ASSUME subs'[d] = subs[d], watching'[d] = watching[d]
      PROVE  subs'[d] = {k \in Colls : watching'[d][k] > 0}
  BY <1>0, <1>1
<1>2. CASE Silent
  BY <1>1, <1>2, SilentStays
<1>3. ASSUME NEW c \in Clients, NEW k \in Colls, Watch(c, k)
      PROVE  subs'[d] = {j \in Colls : watching'[d][j] > 0}
  <2>1. CASE c # d
    BY <1>0, <1>1, <1>3, <2>1 DEF Watch
  <2>2. CASE c = d
    <3>1. subs'[d] = subs[d] \cup {k} /\ watching'[d] = [watching[d] EXCEPT ![k] = @ + 1]
      BY <1>0, <1>3, <2>2 DEF Watch
    <3>2. \A j \in Colls : watching'[d][j] > 0 <=> watching[d][j] > 0 \/ j = k
      BY <1>0, <3>1
    <3> QED
      BY <1>0, <3>1, <3>2
  <2> QED
    BY <2>1, <2>2
<1>4. ASSUME NEW c \in Clients, NEW k \in Colls, Unwatch(c, k)
      PROVE  subs'[d] = {j \in Colls : watching'[d][j] > 0}
  <2>1. CASE c # d
    BY <1>0, <1>1, <1>4, <2>1 DEF Unwatch
  <2>2. CASE c = d
    <3>1. /\ subs'[d] = subs[d] \ {k} /\ watching[d][k] > 0
          /\ watching'[d] = [watching[d] EXCEPT ![k] = @ - 1]
      BY <1>0, <1>4, <2>2 DEF Unwatch
    <3>2. \A j \in Colls : watching'[d][j] > 0 <=> watching[d][j] > 0 /\ j # k
      BY <1>0, <3>1
    <3> QED
      BY <1>0, <3>1, <3>2
  <2> QED
    BY <2>1, <2>2
<1>5. ASSUME NEW c \in Clients,
             \/ \E id \in Ids : Publish(c, id)
             \/ SendEntry(c) \/ Open(c) \/ SendResume(c) \/ Drop(c) \/ Handle(c)
      PROVE  subs' = subs /\ watching' = watching
  BY <1>5 DEF Publish, SendEntry, Open, SendResume, Drop, Handle, HandleHello, HandleSubscribe,
              HandleResume, HandleData, watchVars
<1> QED
  BY <1>1, <1>2, <1>3, <1>4, <1>5, BNextIs DEF Speaks

\* Once the hello and the (un)subscribe frames of a connection are handled, the
\* relay has the peer subscribed to exactly what the client is subscribed to.
SubscribedAsTold ==
    \A c \in Clients :
        /\ conn[c] # "down"
        /\ \A i \in DOMAIN up[c] : up[c][i].kind \in {"resume", "data"}
        => peer[c].subs = subs[c]

LEMMA Told == BLinked => SubscribedAsTold
<1> SUFFICES ASSUME BLinked, NEW c \in Clients, conn[c] # "down",
                    \A i \in DOMAIN up[c] : up[c][i].kind \in {"resume", "data"}
             PROVE  peer[c].subs = subs[c]
  BY DEF SubscribedAsTold
<1>1. Carries(peer[c].subs, up[c], Len(up[c]), subs[c])
  BY DEF BLinked, Linked, CarriesSubs
<1>2. /\ peer[c].subs \in SUBSET Colls /\ subs[c] \in SUBSET Colls /\ up[c] \in Seq(UpFrames(clock))
      /\ Len(up[c]) \in Nat
  BY ClientTypes DEF BLinked
<1>3. \A i \in DOMAIN up[c] : up[c][i].kind \notin {"subscribe", "unsubscribe"}
  OBVIOUS
<1> QED
  BY <1>1, <1>2, <1>3, CarriesNothing

\* The relay pushes to a client what it is subscribed to, whatever it subscribed
\* to and unsubscribed from while connected, connecting or offline
\* (client.js:61-67, 166-195, realtime-bridge.js:75-82).
THEOREM SubscriptionsTold == BSpec => []SubscribedAsTold
<1>1. BInit => BLinked
  BY BLinkedInit
<1>2. BLinked /\ [BNext]_vars => BLinked'
  BY BLinkedStep
<1> QED
  BY <1>1, <1>2, Told, PTL DEF BSpec

\* And so what the client watches, when no collection has two watchers in one
\* client: unsubscribing has no count (client.js:166-173, 190-195).
THEOREM SubscriptionsWatched ==
    ASSUME MaxWatchers = 1
    PROVE  BSpec => []SubscribedAsWatched
<1>1. BInit => BLinked /\ WatchedOnce
  BY BLinkedInit, BridgeAssumption DEF BInit, WatchedOnce
<1>2. BLinked /\ WatchedOnce /\ [BNext]_vars => (BLinked /\ WatchedOnce)'
  <2> SUFFICES ASSUME BLinked, WatchedOnce, [BNext]_vars PROVE (BLinked /\ WatchedOnce)'
    OBVIOUS
  <2>1. BLinked' /\ BTypes'
    BY BLinkedStep DEF BLinked
  <2> QED
    BY <2>1, WatchedOnceStep DEF BLinked
<1>3. BLinked /\ WatchedOnce => SubscribedAsWatched
  BY Told DEF SubscribedAsTold, SubscribedAsWatched, WatchedOnce
<1> QED
  BY <1>1, <1>2, <1>3, PTL DEF BSpec

-----------------------------------------------------------------------------
(* Where the last version of a document is, on its way to a client.            *)

About(f, id) == f.kind = "data" /\ f.id = id

NoneOf(s, id) == \A i \in DOMAIN s : ~About(s[i], id)

\* The last frame of s about id has version v.
LastOf(s, id, v) ==
    \E i \in DOMAIN s :
        About(s[i], id) /\ s[i].ver = v /\ \A j \in DOMAIN s : j > i => ~About(s[j], id)

LEMMA LastAt ==
    ASSUME NEW s, NEW id, NEW v, NEW i \in DOMAIN s, About(s[i], id), s[i].ver = v,
           \A j \in DOMAIN s : j > i => ~About(s[j], id)
    PROVE  LastOf(s, id, v)
BY DEF LastOf

\* Some frame about id is the last one.
LEMMA LastExists ==
    ASSUME NEW S, NEW s \in Seq(S), NEW id, ~NoneOf(s, id)
    PROVE  \E i \in DOMAIN s : About(s[i], id) /\ \A j \in DOMAIN s : j > i => ~About(s[j], id)
<1> DEFINE places == {i \in DOMAIN s : About(s[i], id)}
<1>1. DOMAIN s = 1..Len(s) /\ Len(s) \in Nat
  BY LenProperties
<1>2. places \in SUBSET Nat /\ places # {} /\ \A i \in places : i <= Len(s)
  BY <1>1 DEF NoneOf
<1>3. \E m \in places : \A i \in places : i <= m
  <2> HIDE DEF places
  <2> QED
    BY <1>1, <1>2, GreatestOf
<1> QED
  BY <1>1, <1>3

LEMMA LastAppended ==
    ASSUME NEW S, NEW s \in Seq(S), NEW e \in S, NEW id, NEW v
    PROVE  /\ NoneOf(s, id) /\ ~About(e, id) => NoneOf(Append(s, e), id)
           /\ LastOf(s, id, v) /\ ~About(e, id) => LastOf(Append(s, e), id, v)
           /\ About(e, id) /\ e.ver = v => LastOf(Append(s, e), id, v)
<1> DEFINE t == Append(s, e)
<1>1. /\ DOMAIN s = 1..Len(s) /\ DOMAIN t = 1..Len(s) + 1 /\ Len(s) \in Nat
      /\ \A i \in DOMAIN s : t[i] = s[i]
      /\ t[Len(s) + 1] = e
  BY Appended
<1>2. \A i \in DOMAIN t : i \in DOMAIN s \/ i = Len(s) + 1
  BY <1>1
<1>3. \A i \in DOMAIN s : i \in DOMAIN t
  BY <1>1
<1> HIDE DEF t
<1>4. NoneOf(s, id) /\ ~About(e, id) => NoneOf(t, id)
  BY <1>1, <1>2 DEF NoneOf
<1>5. ASSUME LastOf(s, id, v), ~About(e, id) PROVE LastOf(t, id, v)
  <2>1. PICK i \in DOMAIN s : About(s[i], id) /\ s[i].ver = v /\ \A j \in DOMAIN s : j > i => ~About(s[j], id)
    BY <1>5 DEF LastOf
  <2>2. \A j \in DOMAIN t : j > i => ~About(t[j], id)
    BY <1>1, <1>2, <1>5, <2>1
  <2> QED
    BY <1>1, <1>3, <2>1, <2>2 DEF LastOf
<1>6. ASSUME About(e, id), e.ver = v PROVE LastOf(t, id, v)
  <2>1. Len(s) + 1 \in DOMAIN t /\ \A j \in DOMAIN t : ~(j > Len(s) + 1)
    BY <1>1
  <2> QED
    BY <1>1, <1>6, <2>1 DEF LastOf
<1> QED
  BY <1>4, <1>5, <1>6 DEF t

LEMMA LastTaken ==
    ASSUME NEW S, NEW s \in Seq(S), s # <<>>, NEW id, NEW v
    PROVE  /\ NoneOf(s, id) => NoneOf(Tail(s), id) /\ ~About(s[1], id)
           /\ LastOf(s, id, v) => \/ LastOf(Tail(s), id, v)
                                  \/ NoneOf(Tail(s), id) /\ About(s[1], id) /\ s[1].ver = v
<1> DEFINE t == Tail(s)
<1>1. /\ DOMAIN s = 1..Len(s) /\ DOMAIN t = 1..Len(s) - 1 /\ Len(s) \in Nat \ {0} /\ 1 \in DOMAIN s
      /\ \A i \in DOMAIN t : i + 1 \in DOMAIN s /\ t[i] = s[i + 1]
  BY Taken
<1> HIDE DEF t
<1>2. NoneOf(s, id) => NoneOf(t, id) /\ ~About(s[1], id)
  BY <1>1 DEF NoneOf
<1>3. ASSUME LastOf(s, id, v)
      PROVE  LastOf(t, id, v) \/ (NoneOf(t, id) /\ About(s[1], id) /\ s[1].ver = v)
  <2>1. PICK i \in DOMAIN s : About(s[i], id) /\ s[i].ver = v /\ \A j \in DOMAIN s : j > i => ~About(s[j], id)
    BY <1>3 DEF LastOf
  <2>2. CASE i = 1
    <3>1. \A j \in DOMAIN t : j + 1 > 1
      BY <1>1
    <3> QED
      BY <1>1, <2>1, <2>2, <3>1 DEF NoneOf
  <2>3. CASE i # 1
    <3>1. i - 1 \in DOMAIN t /\ t[i - 1] = s[i]
      <4>1. i - 1 \in DOMAIN t /\ (i - 1) + 1 = i
        BY <1>1, <2>3
      <4> QED
        BY <1>1, <4>1
    <3>2. \A j \in DOMAIN t : j > i - 1 => ~About(t[j], id)
      <4>1. \A j \in DOMAIN t : j > i - 1 => j + 1 > i
        BY <1>1, <2>3
      <4> QED
        BY <1>1, <2>1, <4>1
    <3> DEFINE k == i - 1
    <3>3. k \in DOMAIN t /\ About(t[k], id) /\ t[k].ver = v /\ \A j \in DOMAIN t : j > k => ~About(t[j], id)
      BY <2>1, <3>1, <3>2
    <3> HIDE DEF k
    <3> QED
      BY <3>3, LastAt
  <2> QED
    BY <2>2, <2>3
<1> QED
  BY <1>2, <1>3 DEF t

LEMMA LastJoined ==
    ASSUME NEW S, NEW s \in Seq(S), NEW t \in Seq(S), NEW id, NEW v
    PROVE  /\ NoneOf(s, id) /\ NoneOf(t, id) => NoneOf(s \o t, id)
           /\ LastOf(t, id, v) => LastOf(s \o t, id, v)
           /\ LastOf(s, id, v) /\ NoneOf(t, id) => LastOf(s \o t, id, v)
<1> DEFINE u == s \o t
<1>1. /\ Len(s) \in Nat /\ Len(t) \in Nat /\ DOMAIN s = 1..Len(s) /\ DOMAIN t = 1..Len(t)
      /\ DOMAIN u = 1..Len(s) + Len(t)
      /\ \A i \in DOMAIN s : u[i] = s[i]
      /\ \A i \in DOMAIN t : u[Len(s) + i] = t[i]
  BY Joined
<1> HIDE DEF u
<1>2. ASSUME NEW i \in DOMAIN u, i \notin DOMAIN s
      PROVE  i - Len(s) \in DOMAIN t /\ u[i] = t[i - Len(s)]
  <2>1. i - Len(s) \in DOMAIN t /\ Len(s) + (i - Len(s)) = i
    BY <1>1, <1>2
  <2> QED
    BY <1>1, <2>1
<1>3. NoneOf(s, id) /\ NoneOf(t, id) => NoneOf(u, id)
  BY <1>1, <1>2 DEF NoneOf
<1>4. ASSUME LastOf(t, id, v) PROVE LastOf(u, id, v)
  <2>1. PICK i \in DOMAIN t : About(t[i], id) /\ t[i].ver = v /\ \A j \in DOMAIN t : j > i => ~About(t[j], id)
    BY <1>4 DEF LastOf
  <2>2. Len(s) + i \in DOMAIN u /\ u[Len(s) + i] = t[i]
    BY <1>1
  <2>3. ASSUME NEW j \in DOMAIN u, j > Len(s) + i PROVE ~About(u[j], id)
    <3>1. j \notin DOMAIN s /\ j - Len(s) > i
      BY <1>1, <2>3
    <3> QED
      BY <1>2, <2>1, <3>1
  <2> QED
    BY <2>1, <2>2, <2>3 DEF LastOf
<1>5. ASSUME LastOf(s, id, v), NoneOf(t, id) PROVE LastOf(u, id, v)
  <2>1. PICK i \in DOMAIN s : About(s[i], id) /\ s[i].ver = v /\ \A j \in DOMAIN s : j > i => ~About(s[j], id)
    BY <1>5 DEF LastOf
  <2>2. i \in DOMAIN u /\ u[i] = s[i]
    BY <1>1
  <2>3. ASSUME NEW j \in DOMAIN u, j > i PROVE ~About(u[j], id)
    BY <1>1, <1>2, <1>5, <2>1, <2>3 DEF NoneOf
  <2> QED
    BY <2>1, <2>2, <2>3 DEF LastOf
<1> QED
  BY <1>3, <1>4, <1>5 DEF u

\* A frame about id is taken out, after none of another version.
LEMMA LastRemoved ==
    ASSUME NEW S, NEW s \in Seq(S), NEW n \in DOMAIN s, NEW id, NEW v,
           About(s[n], id) => \A m \in 1..(n - 1) : About(s[m], id) => s[m].ver = s[n].ver
    PROVE  /\ NoneOf(s, id) => NoneOf(RemoveAt(s, n), id) /\ ~About(s[n], id)
           /\ LastOf(s, id, v) => \/ LastOf(RemoveAt(s, n), id, v)
                                  \/ NoneOf(RemoveAt(s, n), id) /\ About(s[n], id) /\ s[n].ver = v
<1> DEFINE t == RemoveAt(s, n)
<1>1. /\ t \in Seq(S) /\ n \in 1..Len(s)
      /\ DOMAIN s = 1..Len(s) /\ DOMAIN t = 1..Len(s) - 1 /\ Len(s) \in Nat \ {0}
      /\ \A i \in 1..(n - 1) : t[i] = s[i]
      /\ \A i \in n..(Len(s) - 1) : t[i] = s[i + 1]
  BY Removed
<1> HIDE DEF t
<1>2. ASSUME NEW i \in DOMAIN t
      PROVE  \/ i \in 1..(n - 1) /\ i \in DOMAIN s /\ t[i] = s[i]
             \/ i \in n..(Len(s) - 1) /\ i + 1 \in DOMAIN s /\ t[i] = s[i + 1]
  <2>1. (i \in 1..(n - 1) /\ i \in DOMAIN s) \/ (i \in n..(Len(s) - 1) /\ i + 1 \in DOMAIN s)
    BY <1>1
  <2> QED
    BY <1>1, <2>1
<1>3. NoneOf(s, id) => NoneOf(t, id) /\ ~About(s[n], id)
  BY <1>2 DEF NoneOf
<1>4. ASSUME LastOf(s, id, v)
      PROVE  LastOf(t, id, v) \/ (NoneOf(t, id) /\ About(s[n], id) /\ s[n].ver = v)
  <2>1. PICK i \in DOMAIN s : About(s[i], id) /\ s[i].ver = v /\ \A j \in DOMAIN s : j > i => ~About(s[j], id)
    BY <1>4 DEF LastOf
  <2>2. CASE i < n
    <3>1. i \in DOMAIN t /\ t[i] = s[i]
      BY <1>1, <2>2
    <3>2. ASSUME NEW j \in DOMAIN t, j > i PROVE ~About(t[j], id)
      <4>1. j + 1 > i
        BY <1>1, <3>2
      <4> QED
        BY <1>2, <2>1, <3>2, <4>1
    <3>3. About(t[i], id) /\ t[i].ver = v
      BY <2>1, <3>1
    <3> QED
      BY <3>1, <3>2, <3>3, LastAt
  <2>3. CASE i > n
    <3>1. i - 1 \in DOMAIN t /\ t[i - 1] = s[i]
      <4>1. i - 1 \in DOMAIN t /\ i - 1 \in n..(Len(s) - 1) /\ (i - 1) + 1 = i
        BY <1>1, <2>3
      <4> QED
        BY <1>1, <4>1
    <3>2. ASSUME NEW j \in DOMAIN t, j > i - 1 PROVE ~About(t[j], id)
      <4>1. j + 1 > i /\ j \notin 1..(n - 1)
        BY <1>1, <2>3, <3>2
      <4> QED
        BY <1>2, <2>1, <4>1
    <3> DEFINE k == i - 1
    <3>3. k \in DOMAIN t /\ About(t[k], id) /\ t[k].ver = v /\ \A j \in DOMAIN t : j > k => ~About(t[j], id)
      BY <2>1, <3>1, <3>2
    <3> HIDE DEF k
    <3> QED
      BY <3>3, LastAt
  <2>4. CASE i = n
    <3>1. ASSUME NEW j \in DOMAIN t, About(t[j], id) PROVE t[j].ver = v
      <4>1. j \in n..(Len(s) - 1) => j + 1 > i
        BY <1>1, <2>4
      <4> QED
        BY <1>2, <2>1, <2>4, <3>1, <4>1
    <3>2. CASE NoneOf(t, id)
      BY <2>1, <2>4, <3>2
    <3>3. CASE ~NoneOf(t, id)
      <4>1. PICK j \in DOMAIN t : About(t[j], id) /\ \A k \in DOMAIN t : k > j => ~About(t[k], id)
        BY <1>1, <3>3, LastExists
      <4>2. t[j].ver = v
        BY <3>1, <4>1
      <4> QED
        BY <4>1, <4>2, LastAt
    <3> QED
      BY <3>2, <3>3
  <2>5. i < n \/ i > n \/ i = n
    BY <1>1
  <2> QED
    BY <2>2, <2>3, <2>4, <2>5
<1> QED
  BY <1>3, <1>4 DEF t

-----------------------------------------------------------------------------
(* Agreement.  Until a device has the relay's version of a document that was   *)
(* put since it was last there, something on its way will bring it.            *)

\* The last version of id that came or is coming to client c is the one stored.
Ends(c, id) ==
    \/ LastOf(down[c], id, stored[id])
    \/ /\ NoneOf(down[c], id)
       /\ LastOf(tasks[c], id, stored[id]) \/ (NoneOf(tasks[c], id) /\ doc[c][id] = stored[id])

\* A put of id will write another version, or announce the one stored.
Putting(id) == \E p \in puts : p.id = id /\ (p.pc = "write" \/ p.ver = stored[id])

\* Client c will send a version of its own.
Sending(c, id) == outbox[c][id] # 0 \/ ~NoneOf(up[c], id)

InHand(c, id) == Ends(c, id) \/ Putting(id) \/ Sending(c, id) \/ ~NoneOf(replay[c], id)

Held(c, id) == id \in Since(c) \ overtaken => InHand(c, id)

\* What client c has, and what is on its way to it, stays.
ShipStays(c) == down'[c] = down[c] /\ tasks'[c] = tasks[c] /\ doc'[c] = doc[c]

\* Nothing moves a document on its way to client c, which learns of no more.
LEMMA HeldStays ==
    ASSUME NEW c \in Clients, NEW id \in Ids, Held(c, id),
           caught'[c] \subseteq caught[c], from'[c] = from[c], at' = at, stored' = stored,
           overtaken \subseteq overtaken', puts \subseteq puts',
           ~NoneOf(replay[c], id) => ~NoneOf(replay'[c], id),
           ShipStays(c) \/ (Ends(c, id) => Ends(c, id)' \/ id \in overtaken'),
           Sending(c, id) => Sending(c, id)' \/ Putting(id)'
    PROVE  Held(c, id)'
<1> SUFFICES ASSUME id \in (Since(c) \ overtaken)' PROVE InHand(c, id)'
  BY DEF Held
<1>1. InHand(c, id)
  BY DEF Held, Since
<1>2. Ends(c, id) => Ends(c, id)'
  BY DEF ShipStays, Ends
<1>3. Putting(id) => Putting(id)'
  BY DEF Putting
<1> QED
  BY <1>1, <1>2, <1>3 DEF InHand

\* Nothing about id is lost when another frame is taken, or any is added.
LEMMA SendingStays ==
    ASSUME BTypes, NEW c \in Clients, NEW id \in Ids, outbox'[c][id] = outbox[c][id],
           \/ up'[c] = up[c]
           \/ \E e \in UpFrames(clock) : up'[c] = Append(up[c], e)
           \/ up[c] # <<>> /\ up'[c] = Tail(up[c]) /\ ~About(up[c][1], id)
    PROVE  Sending(c, id) => Sending(c, id)'
<1>1. up[c] \in Seq(UpFrames(clock))
  BY ClientTypes
<1>2. CASE up'[c] = up[c]
  BY <1>2 DEF Sending, NoneOf
<1>3. ASSUME NEW e \in UpFrames(clock), up'[c] = Append(up[c], e) PROVE NoneOf(up'[c], id) => NoneOf(up[c], id)
  <2>1. \A i \in DOMAIN up[c] : i \in DOMAIN up'[c] /\ up'[c][i] = up[c][i]
    BY <1>1, <1>3, Appended
  <2> QED
    BY <2>1 DEF NoneOf
<1>4. ASSUME up[c] # <<>>, up'[c] = Tail(up[c]), ~About(up[c][1], id) PROVE NoneOf(up'[c], id) => NoneOf(up[c], id)
  <2>1. /\ DOMAIN up[c] = 1..Len(up[c]) /\ DOMAIN up'[c] = 1..Len(up[c]) - 1 /\ Len(up[c]) \in Nat \ {0}
        /\ \A i \in DOMAIN up'[c] : up'[c][i] = up[c][i + 1]
    BY <1>1, <1>4, Taken
  <2>2. ASSUME NEW i \in DOMAIN up[c], i # 1 PROVE i - 1 \in DOMAIN up'[c] /\ up'[c][i - 1] = up[c][i]
    <3>1. i - 1 \in DOMAIN up'[c] /\ (i - 1) + 1 = i
      BY <2>1, <2>2
    <3> QED
      BY <2>1, <3>1
  <2> QED
    BY <1>4, <2>2 DEF NoneOf
<1> QED
  BY <1>2, <1>3, <1>4 DEF Sending

LEMMA HeldPut ==
    ASSUME BTypes, NEW d \in Clients, Linked(d), NEW id \in Ids, Held(d, id),
           NEW p \in puts, WritePut(p) \/ AnnouncePut(p)
    PROVE  Held(d, id)'
<1> USE DEF linkVars, watchVars, storeVars, sendVars
<1>0. p.id \in Ids /\ p.pc \in {"write", "announce"} /\ p \in Puts(clock)
  BY DEF BTypes, Puts
<1>1. CASE WritePut(p)
  <2>1. /\ UNCHANGED <<caught, from, down, tasks, doc, replay, up, outbox>> /\ overtaken \subseteq overtaken'
        /\ \A i \in Ids : i # p.id => stored'[i] = stored[i] /\ at'[i] = at[i]
        /\ stored'[p.id] = p.ver
        /\ puts' = (puts \ {p}) \cup {[p EXCEPT !.pc = "announce"]}
    BY <1>0, <1>1 DEF WritePut, BTypes
  <2>2. CASE p.id = id
    <3>1. /\ [p EXCEPT !.pc = "announce"].id = id /\ [p EXCEPT !.pc = "announce"].ver = p.ver
      BY <1>0, <2>2 DEF Puts
    <3>2. Putting(id)'
      BY <2>1, <2>2, <3>1 DEF Putting
    <3> QED
      BY <3>2 DEF Held, InHand
  <2>3. CASE p.id # id
    <3>1. Putting(id) => Putting(id)'
      BY <2>1, <2>3 DEF Putting
    <3>2. Ends(d, id) => Ends(d, id)'
      BY <2>1, <2>3 DEF Ends
    <3>3. id \in (Since(d) \ overtaken)' => id \in Since(d) \ overtaken
      BY <2>1, <2>3 DEF Since
    <3>4. Sending(d, id)' = Sending(d, id) /\ NoneOf(replay[d], id)' = NoneOf(replay[d], id)
      BY <2>1 DEF Sending, NoneOf
    <3> QED
      BY <3>1, <3>2, <3>3, <3>4 DEF Held, InHand
  <2> QED
    BY <2>2, <2>3
<1>2. CASE AnnouncePut(p)
  <2> SUFFICES ASSUME id \in (Since(d) \ overtaken)' PROVE InHand(d, id)'
    BY DEF Held
  <2> DEFINE f == Data(p.id, p.ver, Place[p.id], p.ts)
  <2>1. /\ UNCHANGED <<caught, from, tasks, doc, replay, up, outbox, stored, at>>
        /\ puts' = puts \ {p} /\ overtaken \subseteq overtaken'
        /\ TooLate(p.id, p.ver) => p.id \in overtaken'
    BY <1>2 DEF AnnouncePut
  <2>2. id \in Since(d) \ overtaken /\ InHand(d, id)
    BY <2>1 DEF Since, Held
  <2>3. /\ f \in DownFrames(clock) /\ f.kind = "data" /\ f.id = p.id /\ f.ver = p.ver
        /\ down'[d] = IF d \in Concerned(p.by, p.id) THEN Append(down[d], f) ELSE down[d]
    BY <1>2, Announced
  <2> HIDE DEF f
  <2>4. Sending(d, id)' = Sending(d, id) /\ NoneOf(replay[d], id)' = NoneOf(replay[d], id)
    BY <2>1 DEF Sending, NoneOf
  <2>5. down[d] \in Seq(DownFrames(clock))
    BY ClientTypes
  <2>6. CASE p.id = id /\ p.ver = stored[id]
    <3>1. d \in Concerned(p.by, p.id)
      <4>1. PICK k \in Place[id] \cap caught[d] : TRUE
        BY <2>2 DEF Since
      <4>2. k \in peer[d].subs /\ peer[d].actor # Nobody
        BY <4>1 DEF Linked, Greeted
      <4> QED
        BY <2>6, <4>1, <4>2 DEF Concerned
    <3>2. LastOf(down'[d], id, stored[id])
      BY <2>3, <2>5, <2>6, <3>1, LastAppended DEF About
    <3> QED
      BY <2>1, <3>2 DEF InHand, Ends
  <2>7. CASE p.id = id /\ p.ver # stored[id]
    <3>1. PICK q \in puts : q.id = id /\ q.ver = stored[id]
      BY <2>1, <2>7 DEF TooLate
    <3>2. q \in puts'
      BY <2>1, <2>7, <3>1
    <3> QED
      BY <2>1, <3>1, <3>2 DEF InHand, Putting
  <2>8. CASE p.id # id
    <3>1. Putting(id) => Putting(id)'
      BY <2>1, <2>8 DEF Putting
    <3>2. /\ NoneOf(down[d], id) => NoneOf(down'[d], id)
          /\ LastOf(down[d], id, stored[id]) => LastOf(down'[d], id, stored[id])
      BY <2>3, <2>5, <2>8, LastAppended DEF About
    <3>3. Ends(d, id) => Ends(d, id)'
      BY <2>1, <3>2 DEF Ends
    <3> QED
      BY <2>2, <2>4, <3>1, <3>3 DEF InHand
  <2> QED
    BY <2>6, <2>7, <2>8
<1> QED
  BY <1>1, <1>2

LEMMA HeldReceive ==
    ASSUME BTypes, NEW d \in Clients, NEW id \in Ids, Held(d, id), Receive(d)
    PROVE  Held(d, id)'
<1> USE DEF relayVars, linkVars, watchVars, storeVars, sendVars, historyVars
<1>0. down[d] \in Seq(DownFrames(clock)) /\ tasks[d] \in Seq(DataFrames(clock)) /\ clock \in Nat
  BY ClientTypes
<1> DEFINE f == down[d][1]
<1>1. down[d] # <<>> /\ Head(down[d]) = f /\ f \in DownFrames(clock)
  BY <1>0, Taken DEF Receive
<1>2. /\ UNCHANGED <<caught, from, doc, replay, up, outbox, stored, at, puts, overtaken>>
      /\ down'[d] = Tail(down[d])
  BY DEF Receive, BTypes
<1>3. \/ f.kind = "data" /\ tasks'[d] = Append(tasks[d], f)
      \/ f.kind # "data" /\ tasks'[d] = tasks[d]
  <2>1. tasks \in [Clients -> Seq(DataFrames(clock))]
    BY DEF BTypes
  <2> QED
    BY <1>1, <2>1 DEF Receive
<1>4. f.kind = "data" => f \in DataFrames(clock)
  BY <1>0, <1>1, DownFields
<1> HIDE DEF f
<1>5. ~About(f, id) => /\ NoneOf(tasks[d], id) => NoneOf(tasks'[d], id)
                       /\ LastOf(tasks[d], id, stored[id]) => LastOf(tasks'[d], id, stored[id])
  BY <1>0, <1>3, <1>4, LastAppended
<1>6. About(f, id) /\ f.ver = stored[id] => LastOf(tasks'[d], id, stored[id])
  BY <1>0, <1>3, <1>4, LastAppended DEF About
<1>7. /\ NoneOf(down[d], id) => NoneOf(down'[d], id) /\ ~About(f, id)
      /\ LastOf(down[d], id, stored[id]) =>
           \/ LastOf(down'[d], id, stored[id])
           \/ NoneOf(down'[d], id) /\ About(f, id) /\ f.ver = stored[id]
  <2>1. /\ NoneOf(down[d], id) => NoneOf(Tail(down[d]), id) /\ ~About(down[d][1], id)
        /\ LastOf(down[d], id, stored[id]) =>
             \/ LastOf(Tail(down[d]), id, stored[id])
             \/ NoneOf(Tail(down[d]), id) /\ About(down[d][1], id) /\ down[d][1].ver = stored[id]
    BY <1>0, <1>1, LastTaken
  <2> QED
    BY <1>2, <2>1 DEF f
<1>8. Ends(d, id) => Ends(d, id)'
  BY <1>2, <1>5, <1>6, <1>7 DEF Ends
<1>9. Sending(d, id)' = Sending(d, id) /\ NoneOf(replay[d], id)' = NoneOf(replay[d], id)
  BY <1>2 DEF Sending, NoneOf
<1> QED
  BY <1>2, <1>8, <1>9, HeldStays

LEMMA HeldStore ==
    ASSUME BTypes, NEW d \in Clients, NEW id \in Ids, Held(d, id), StoreFrame(d)
    PROVE  Held(d, id)'
<1> USE DEF relayVars, linkVars, watchVars, storeVars, sendVars, historyVars
<1>0. tasks[d] \in Seq(DataFrames(clock)) /\ clock \in Nat /\ doc[d] \in [Ids -> Versions]
      /\ tasks \in [Clients -> Seq(DataFrames(clock))] /\ doc \in [Clients -> [Ids -> Versions]]
  BY ClientTypes DEF BTypes
<1>1. PICK n \in DOMAIN tasks[d] :
        /\ tasks' = [tasks EXCEPT ![d] = RemoveAt(@, n)]
        /\ doc' = [doc EXCEPT ![d][tasks[d][n].id] = tasks[d][n].ver]
        /\ overtaken' = IF Passes(d, n) THEN overtaken \cup {tasks[d][n].id} ELSE overtaken
  BY DEF StoreFrame
<1>2. UNCHANGED <<caught, from, down, replay, up, outbox, stored, at, puts>>
  BY DEF StoreFrame
<1> DEFINE f == tasks[d][n]
<1>3. f \in DataFrames(clock) /\ f.kind = "data" /\ f.id \in Ids
  BY <1>0, Removed, DataFields
<1>4. tasks'[d] = RemoveAt(tasks[d], n) /\ doc'[d][f.id] = f.ver /\ \A i \in Ids : i # f.id => doc'[d][i] = doc[d][i]
  BY <1>0, <1>1, <1>3
<1>5. overtaken \subseteq overtaken' /\ (Passes(d, n) => f.id \in overtaken')
  BY <1>1
<1>6. ASSUME id \notin overtaken', About(f, id)
      PROVE  \A m \in 1..(n - 1) : About(tasks[d][m], id) => tasks[d][m].ver = f.ver
  BY <1>5, <1>6 DEF Passes, About
<1>7. ASSUME Ends(d, id), id \notin overtaken' PROVE Ends(d, id)'
  <2>1. /\ NoneOf(tasks[d], id) => NoneOf(tasks'[d], id) /\ ~About(f, id)
        /\ LastOf(tasks[d], id, stored[id]) =>
             \/ LastOf(tasks'[d], id, stored[id])
             \/ NoneOf(tasks'[d], id) /\ About(f, id) /\ f.ver = stored[id]
    <3>1. About(tasks[d][n], id) =>
            \A m \in 1..(n - 1) : About(tasks[d][m], id) => tasks[d][m].ver = tasks[d][n].ver
      BY <1>6, <1>7
    <3>2. /\ NoneOf(tasks[d], id) => NoneOf(RemoveAt(tasks[d], n), id) /\ ~About(tasks[d][n], id)
          /\ LastOf(tasks[d], id, stored[id]) =>
               \/ LastOf(RemoveAt(tasks[d], n), id, stored[id])
               \/ NoneOf(RemoveAt(tasks[d], n), id) /\ About(tasks[d][n], id) /\ tasks[d][n].ver = stored[id]
      BY <1>0, <3>1, LastRemoved
    <3> QED
      BY <1>4, <3>2
  <2>2. IF About(f, id) THEN doc'[d][id] = f.ver ELSE doc'[d][id] = doc[d][id]
    BY <1>3, <1>4 DEF About
  <2> HIDE DEF f
  <2> QED
    BY <1>2, <1>7, <2>1, <2>2 DEF Ends
<1>8. Sending(d, id)' = Sending(d, id) /\ NoneOf(replay[d], id)' = NoneOf(replay[d], id)
  BY <1>2 DEF Sending, NoneOf
<1> QED
  BY <1>2, <1>5, <1>7, <1>8, HeldStays

LEMMA HeldReplay ==
    ASSUME BTypes, NEW d \in Clients, NEW id \in Ids, Held(d, id), SendReplay(d)
    PROVE  Held(d, id)'
<1> USE DEF relayVars, watchVars, storeVars, sendVars
<1>0. down[d] \in Seq(DownFrames(clock)) /\ replay[d] \in Seq(DownFrames(clock))
  BY ClientTypes
<1>1. /\ UNCHANGED <<caught, from, tasks, doc, up, outbox, stored, at, puts>>
      /\ down'[d] = down[d] \o replay[d] /\ overtaken \subseteq overtaken'
  BY DEF SendReplay, BTypes
<1>2. ASSUME NEW n \in DOMAIN replay[d], About(replay[d][n], id), TooLate(id, replay[d][n].ver)
      PROVE  id \in overtaken'
  BY <1>2 DEF SendReplay, About
<1> SUFFICES ASSUME id \in (Since(d) \ overtaken)' PROVE InHand(d, id)'
  BY DEF Held
<1>3. InHand(d, id)
  BY <1>1 DEF Since, Held
<1>4. CASE NoneOf(replay[d], id)
  <2>1. /\ NoneOf(down[d], id) => NoneOf(down'[d], id)
        /\ LastOf(down[d], id, stored[id]) => LastOf(down'[d], id, stored[id])
    BY <1>0, <1>1, <1>4, LastJoined
  <2>2. Ends(d, id) => Ends(d, id)'
    BY <1>1, <2>1 DEF Ends
  <2>3. Sending(d, id)' = Sending(d, id) /\ Putting(id)' = Putting(id)
    BY <1>1 DEF Sending, NoneOf, Putting
  <2> QED
    BY <1>3, <1>4, <2>2, <2>3 DEF InHand
<1>5. CASE ~NoneOf(replay[d], id)
  <2>1. PICK n \in DOMAIN replay[d] :
          About(replay[d][n], id) /\ \A j \in DOMAIN replay[d] : j > n => ~About(replay[d][j], id)
    BY <1>0, <1>5, LastExists
  <2>2. CASE replay[d][n].ver = stored[id]
    <3>1. LastOf(replay[d], id, stored[id])
      BY <2>1, <2>2, LastAt
    <3>2. LastOf(down'[d], id, stored[id])
      BY <1>0, <1>1, <3>1, LastJoined
    <3> QED
      BY <1>1, <3>2 DEF InHand, Ends
  <2>3. CASE replay[d][n].ver # stored[id]
    <3>1. ~TooLate(id, replay[d][n].ver)
      BY <1>2, <2>1
    <3> QED
      BY <1>1, <2>3, <3>1 DEF TooLate, InHand, Putting
  <2> QED
    BY <2>2, <2>3
<1> QED
  BY <1>4, <1>5

\* A client that is gone, or not there yet, has been told of nothing.
LEMMA HeldByNone ==
    ASSUME NEW d \in Clients, NEW id \in Ids, caught'[d] = {}
    PROVE  Held(d, id)'
BY DEF Held, Since

\* A step of another client changes nothing of this one's.
LEMMA HeldByOthers ==
    ASSUME BTypes, NEW c \in Clients, NEW d \in Clients \ {c}, NEW id \in Ids, Held(d, id),
           Speaks(c) \/ Receive(c) \/ StoreFrame(c) \/ SendReplay(c)
    PROVE  Held(d, id)'
<1> USE DEF relayVars, linkVars, watchVars, storeVars, sendVars, historyVars
<1> DEFINE Same == /\ caught'[d] = caught[d] /\ from'[d] = from[d] /\ replay'[d] = replay[d]
                   /\ down'[d] = down[d] /\ tasks'[d] = tasks[d] /\ doc'[d] = doc[d]
                   /\ up'[d] = up[d] /\ outbox'[d] = outbox[d]
                   /\ stored' = stored /\ at' = at
                   /\ puts \subseteq puts' /\ overtaken \subseteq overtaken'
<1>1. ASSUME NEW k \in Colls, Watch(c, k) \/ Unwatch(c, k) PROVE Same
  BY <1>1 DEF Watch, Unwatch, Sent, BTypes
<1>2. ASSUME NEW i \in Ids, Publish(c, i) PROVE Same
  BY <1>2 DEF Publish, BTypes
<1>3. CASE SendEntry(c)
  <2>1. Same
    BY <1>3 DEF SendEntry, BTypes
  <2> QED
    BY <2>1, HeldStays DEF ShipStays, Sending, NoneOf
<1>4. Open(c) \/ SendResume(c) \/ Drop(c) => Same
  BY DEF Open, SendResume, Drop, Gone, BTypes
<1>5. HandleHello(c) => Same
  BY DEF HandleHello, Gone, BTypes
<1>6. HandleSubscribe(c) => Same
  BY DEF HandleSubscribe, BTypes
<1>7. ASSUME HandleResume(c) PROVE Same
  <2>1. replay' = [replay EXCEPT ![c] = replay'[c]]
    BY <1>7, ResumeReads
  <2>2. replay'[d] = replay[d]
    BY <2>1 DEF BTypes
  <2>3. /\ UNCHANGED <<down, tasks, doc, outbox, stored, at, puts, overtaken>>
        /\ caught' = [caught EXCEPT ![c] = peer[c].subs] /\ up' = [up EXCEPT ![c] = Tail(@)]
        /\ \E g : from' = [from EXCEPT ![c] = g]
    BY <1>7 DEF HandleResume
  <2> QED
    BY <2>2, <2>3 DEF BTypes
<1>8. HandleData(c) => Same
  BY DEF HandleData, BTypes
<1>9. Receive(c) \/ StoreFrame(c) \/ SendReplay(c) => Same
  BY DEF Receive, StoreFrame, SendReplay, BTypes
<1>10. CASE Same
  BY <1>10, HeldStays DEF ShipStays, Sending, NoneOf
<1> QED
  BY <1>1, <1>2, <1>3, <1>4, <1>5, <1>6, <1>7, <1>8, <1>9, <1>10 DEF Speaks, Handle

\* What client d says or has said of itself leaves what it is still to get.
LEMMA HeldSpeaks ==
    ASSUME BTypes, NEW d \in Clients, Linked(d), NEW id \in Ids, Held(d, id), Speaks(d)
    PROVE  Held(d, id)'
<1> USE DEF relayVars, linkVars, watchVars, storeVars, sendVars, historyVars
<1>0. /\ clock \in Nat /\ subs[d] \in SUBSET Colls /\ cursor[d] \in [Colls -> 0..clock]
      /\ up[d] \in Seq(UpFrames(clock)) /\ up \in [Clients -> Seq(UpFrames(clock))]
      /\ up[d] # <<>> => Head(up[d]) = up[d][1] /\ up[d][1] \in UpFrames(clock)
  BY ClientTypes, ArrivedFrame DEF BTypes
<1>1. ASSUME NEW k \in Colls, Watch(d, k) \/ Unwatch(d, k) PROVE Held(d, id)'
  <2>1. Control("subscribe", {k}) \in UpFrames(clock) /\ Control("unsubscribe", {k}) \in UpFrames(clock)
    BY <1>0, ControlFrame
  <2>2. \/ up'[d] = up[d]
        \/ \E e \in UpFrames(clock) : up'[d] = Append(up[d], e)
    BY <1>0, <1>1, <2>1 DEF Watch, Unwatch, Sent
  <2>3. UNCHANGED <<caught, from, down, tasks, doc, replay, outbox, stored, at, puts, overtaken>>
    BY <1>1 DEF Watch, Unwatch
  <2> QED
    BY <2>2, <2>3, SendingStays, HeldStays DEF ShipStays, NoneOf
<1>2. ASSUME NEW i \in Ids, Publish(d, i) PROVE Held(d, id)'
  <2>1. UNCHANGED <<caught, from, down, tasks, up, replay, stored, at, puts, overtaken>>
    BY <1>2 DEF Publish
  <2>2. published \in Nat /\ published' = published + 1
        /\ doc' = [doc EXCEPT ![d][i] = published'] /\ outbox' = [outbox EXCEPT ![d][i] = published']
    BY <1>2, BridgeAssumption DEF Publish, BTypes, Versions
  <2>3. CASE id = i
    <3>1. outbox'[d][id] # 0
      BY <2>2, <2>3 DEF BTypes
    <3> QED
      BY <3>1 DEF Held, InHand, Sending
  <2>4. CASE id # i
    <3>1. doc'[d][id] = doc[d][id] /\ outbox'[d][id] = outbox[d][id]
      BY <2>2, <2>4 DEF BTypes
    <3>2. Ends(d, id) => Ends(d, id)'
      BY <2>1, <3>1 DEF Ends
    <3>3. Sending(d, id)' = Sending(d, id)
      BY <2>1, <3>1 DEF Sending, NoneOf
    <3> QED
      BY <2>1, <3>2, <3>3, HeldStays DEF NoneOf
  <2> QED
    BY <2>3, <2>4
<1>3. CASE SendEntry(d)
  <2>1. PICK i \in Ids :
          /\ outbox[d][i] # 0
          /\ up'[d] = Append(up[d], Data(i, outbox[d][i], Place[i], 0))
          /\ outbox'[d] = [outbox[d] EXCEPT ![i] = 0]
    BY <1>3, SendEffect
  <2> DEFINE f == Data(i, outbox[d][i], Place[i], 0)
  <2>2. UNCHANGED <<caught, from, down, tasks, doc, replay, stored, at, puts, overtaken>>
    BY <1>3 DEF SendEntry
  <2>3. outbox[d][i] \in Versions /\ Place[i] \in SUBSET Colls /\ outbox[d] \in [Ids -> Versions]
    BY ClientTypes, BridgeAssumption
  <2>4. f \in UpFrames(clock) /\ About(f, i)
    BY <1>0, <2>3, DataFrame DEF About
  <2> HIDE DEF f
  <2>5. CASE id = i
    <3>1. DOMAIN up'[d] = 1..Len(up[d]) + 1 /\ Len(up[d]) \in Nat /\ up'[d][Len(up[d]) + 1] = f
      BY <1>0, <2>1, <2>4, Appended DEF f
    <3>2. Len(up[d]) + 1 \in DOMAIN up'[d]
      BY <3>1
    <3>3. ~NoneOf(up'[d], id)
      BY <2>4, <2>5, <3>1, <3>2 DEF NoneOf
    <3> QED
      BY <3>3 DEF Held, InHand, Sending
  <2>6. CASE id # i
    <3>1. outbox'[d][id] = outbox[d][id]
      BY <2>1, <2>3, <2>6
    <3>2. \E e \in UpFrames(clock) : up'[d] = Append(up[d], e)
      BY <2>1, <2>4 DEF f
    <3> QED
      BY <2>2, <3>1, <3>2, SendingStays, HeldStays DEF ShipStays, NoneOf
  <2> QED
    BY <2>5, <2>6
<1>4. CASE Open(d)
  <2>1. caught'[d] = {}
    BY <1>4 DEF Open, Linked, Greeted, Unknown
  <2> QED
    BY <2>1, HeldByNone
<1>5. CASE SendResume(d)
  <2> DEFINE f == [kind |-> "resume", since |-> [k \in subs[d] |-> cursor[d][k]]]
  <2>1. f \in UpFrames(clock)
    <3>1. [k \in subs[d] |-> cursor[d][k]] \in [subs[d] -> 0..clock]
      BY <1>0
    <3>2. [k \in subs[d] |-> cursor[d][k]] \in Cursors(clock)
      BY <1>0, <3>1 DEF Cursors
    <3> QED
      BY <3>2 DEF UpFrames
  <2>2. up'[d] = Append(up[d], f)
    BY <1>0, <1>5 DEF SendResume
  <2> HIDE DEF f
  <2>3. UNCHANGED <<caught, from, down, tasks, doc, replay, outbox, stored, at, puts, overtaken>>
    BY <1>5 DEF SendResume
  <2> QED
    BY <2>1, <2>2, <2>3, SendingStays, HeldStays DEF ShipStays, NoneOf
<1>6. Gone(d) => caught'[d] = {}
  BY DEF Gone, BTypes
<1>7. CASE Drop(d)
  BY <1>6, <1>7, HeldByNone DEF Drop
<1>8. CASE HandleHello(d)
  <2>1. CASE Gone(d)
    BY <1>6, <2>1, HeldByNone
  <2>2. CASE /\ up' = [up EXCEPT ![d] = Tail(@)]
             /\ UNCHANGED <<conn, down, replay, caught, from, flushing, lost>>
    <3>1. up[d] # <<>> /\ up'[d] = Tail(up[d]) /\ ~About(up[d][1], id)
      BY <1>0, <1>8, <2>2 DEF HandleHello, Arrived, About
    <3>2. UNCHANGED <<caught, from, down, tasks, doc, replay, outbox, stored, at, puts, overtaken>>
      BY <1>8, <2>2 DEF HandleHello
    <3> QED
      BY <3>1, <3>2, SendingStays, HeldStays DEF ShipStays, NoneOf
  <2> QED
    BY <1>8, <2>1, <2>2 DEF HandleHello
<1>9. CASE HandleSubscribe(d)
  <2>1. /\ up[d] # <<>> /\ up[d][1].kind \in {"subscribe", "unsubscribe"}
        /\ caught' = caught \/ caught' = [caught EXCEPT ![d] = @ \ up[d][1].colls]
    BY <1>9, SubscribeEffect
  <2>2. up'[d] = Tail(up[d]) /\ ~About(up[d][1], id)
    BY <1>0, <1>9, <2>1 DEF HandleSubscribe, About
  <2>3. UNCHANGED <<from, down, tasks, doc, replay, outbox, stored, at, puts, overtaken>>
    BY <1>9 DEF HandleSubscribe
  <2>4. caught'[d] \subseteq caught[d]
    BY <2>1 DEF BTypes
  <2> QED
    BY <2>1, <2>2, <2>3, <2>4, SendingStays, HeldStays DEF ShipStays, NoneOf
<1>10. CASE HandleResume(d)
  <2> SUFFICES ASSUME id \in (Since(d) \ overtaken)' PROVE InHand(d, id)'
    BY DEF Held
  <2>1. /\ up[d][1].since \in Cursors(clock)
        /\ \A r \in Wanted(peer[d].subs, up[d][1].since) :
             \E n \in DOMAIN replay'[d] : replay'[d][n].kind = "data" /\ replay'[d][n].id = r[2]
        /\ from' = [from EXCEPT ![d] = [k \in Colls |-> SinceOf(up[d][1].since, k)]]
    BY <1>10, ResumeReads
  <2>2. caught'[d] = peer[d].subs /\ at' = at /\ from'[d] = [k \in Colls |-> SinceOf(up[d][1].since, k)]
    BY <1>10, <2>1 DEF HandleResume, BTypes
  <2>3. PICK k \in Place[id] \cap peer[d].subs : at[id] > from'[d][k]
    BY <2>2 DEF Since
  <2>4. k \in Colls
    BY <2>3, BridgeAssumption
  <2>5. id \in Missed(k, up[d][1].since)
    BY <2>2, <2>3, <2>4 DEF Missed
  <2>6. <<k, id>> \in Wanted(peer[d].subs, up[d][1].since)
    BY <2>3, <2>5 DEF Wanted
  <2>7. ~NoneOf(replay'[d], id)
    BY <2>1, <2>6 DEF NoneOf, About
  <2> QED
    BY <2>7 DEF InHand
<1>11. CASE HandleData(d)
  <2>1. /\ up[d] # <<>> /\ up[d][1].kind = "data" /\ up'[d] = Tail(up[d]) /\ 1 \in DOMAIN up[d]
        /\ UNCHANGED <<caught, from, down, tasks, doc, replay, outbox, stored, at, overtaken>>
        /\ puts \subseteq puts'
    BY <1>0, <1>11, Taken DEF HandleData, Arrived
  <2>2. ASSUME About(up[d][1], id) PROVE Putting(id)'
    <3>1. peer[d].actor = Actor[d]
      BY <2>1 DEF Linked, Greeted
    <3>2. up[d][1].colls \subseteq Own[peer[d].actor]
      BY <2>1, <3>1 DEF Linked, OwnOnly, OwnFrame
    <3>3. [pc |-> "write", id |-> up[d][1].id, ver |-> up[d][1].ver, ts |-> clock', by |-> d] \in puts'
      BY <1>0, <1>11, <2>1, <3>2 DEF HandleData
    <3> QED
      BY <2>2, <3>3 DEF Putting, About
  <2>3. Sending(d, id) => Sending(d, id)' \/ Putting(id)'
    BY <2>1, <2>2, SendingStays
  <2> QED
    BY <2>1, <2>3, HeldStays DEF ShipStays, NoneOf
<1> QED
  BY <1>1, <1>2, <1>3, <1>4, <1>5, <1>7, <1>8, <1>9, <1>10, <1>11 DEF Speaks, Handle

LEMMA HeldStep ==
    ASSUME BLinked, NEW d \in Clients, NEW id \in Ids, Held(d, id), [BNext]_vars
    PROVE  Held(d, id)'
<1>1. BTypes /\ Linked(d)
  BY DEF BLinked
<1>2. ASSUME NEW a \in DOMAIN Own, Register(a) PROVE Held(d, id)'
  <2>1. UNCHANGED <<caught, from, down, tasks, doc, replay, up, outbox, stored, at, puts, overtaken>>
    BY <1>2 DEF Register, linkVars, storeVars, sendVars, historyVars
  <2> QED
    BY <2>1, HeldStays DEF ShipStays, Sending, NoneOf
<1>3. CASE UNCHANGED vars
  <2>1. UNCHANGED <<caught, from, down, tasks, doc, replay, up, outbox, stored, at, puts, overtaken>>
    BY <1>3 DEF vars, relayVars, linkVars, storeVars, sendVars, historyVars
  <2> QED
    BY <2>1, HeldStays DEF ShipStays, Sending, NoneOf
<1>4. ASSUME NEW c \in Clients, Speaks(c) \/ Receive(c) \/ StoreFrame(c) \/ SendReplay(c)
      PROVE  Held(d, id)'
  BY <1>1, <1>4, HeldByOthers, HeldSpeaks, HeldReceive, HeldStore, HeldReplay
<1>5. CASE RelayPut
  BY <1>1, <1>5, HeldPut DEF RelayPut
<1> QED
  BY <1>2, <1>3, <1>4, <1>5, BNextIs DEF Silent

\* Devices that publish over each other, offline or not, end up with what the
\* relay has: once a device is connected and nothing is under way, it holds what
\* was put since it was last there in the relay's version, unless one version of
\* it overtook another, for any number of devices, documents, collections,
\* drops and puts that overlap (realtime-bridge.js:20-25, 95-117,
\* client.js:205-255).
THEOREM DevicesAgree == BSpec => []Agree
<1> DEFINE Inv == BLinked /\ \A c \in Clients : \A id \in Ids : Held(c, id)
<1>1. BInit => Inv
  BY BLinkedInit DEF BInit, Held, Since
<1>2. Inv /\ [BNext]_vars => Inv'
  BY BLinkedStep, HeldStep
<1>3. Inv => Agree
  <2> SUFFICES ASSUME Inv, NEW c \in Clients, Settled(c), NEW id \in Since(c) \ overtaken
              PROVE  doc[c][id] = stored[id]
    BY DEF Agree
  <2>1. id \in Ids /\ InHand(c, id)
    BY DEF Held, Since
  <2>2. NoneOf(<<>>, id) /\ ~LastOf(<<>>, id, stored[id])
    BY EmptySeq DEF NoneOf, LastOf
  <2>3. ~Putting(id) /\ ~Sending(c, id) /\ NoneOf(replay[c], id)
    BY <2>1, <2>2 DEF Settled, Putting, Sending, Queued
  <2> QED
    BY <2>1, <2>2, <2>3 DEF InHand, Ends, Settled
<1> QED
  BY <1>1, <1>2, <1>3, PTL DEF BSpec

-----------------------------------------------------------------------------
(* The stream of server-sent events: every connection's text is the comment    *)
(* and then one event for each frame sent, four tokens each.                   *)

\* The k-th event of a connection that was sent the frames s.
EventAt(s, k) == Event(IF k = 0 THEN Comment ELSE Line(s[k]))

\* The text t is a part of those events, after the first `from` tokens.
TextAt(s, start, t) ==
    /\ start + Len(t) <= 4 * (Len(s) + 1)
    /\ \A i \in 1..Len(t), k \in 0..Len(s), j \in 1..4 :
         start + i = 4 * k + j => t[i] = EventAt(s, k)[j]

\* The client has handled h events, the comment first, and handed out a frame
\* for each of the others; then comes its buffer, and then the wire.
Handled(s, g, b, w, h) ==
    /\ Len(g) = IF h = 0 THEN 0 ELSE h - 1
    /\ \A i \in 1..Len(g) : g[i] = s[i]
    /\ TextAt(s, 4 * h, b)
    /\ TextAt(s, 4 * h + Len(b), w)

\* All that was written is handled, buffered or on the wire.
Complete(s, b, w, h) == 4 * h + Len(b) + Len(w) = 4 * (Len(s) + 1)

\* A connection that is open has lost nothing.
Streamed(n) ==
    IF link[n] = "none"
    THEN n \notin peers /\ sent[n] = <<>> /\ got[n] = <<>> /\ buffer[n] = <<>> /\ wire[n] = <<>>
    ELSE \E h \in 0 .. Len(sent[n]) + 1 :
           /\ Handled(sent[n], got[n], buffer[n], wire[n], h)
           /\ link[n] = "open" => Complete(sent[n], buffer[n], wire[n], h)

StreamInv == XTypeOK /\ \A n \in Conns : Streamed(n)

\* An event has four tokens: two that are not newlines, and two newlines.
LEMMA EventTokens ==
    ASSUME NEW s \in Seq(1..MaxFrames), NEW k \in 0..Len(s)
    PROVE  /\ EventAt(s, k) \in Seq(Token) /\ Len(EventAt(s, k)) = 4
           /\ EventAt(s, k)[1] # Newline /\ EventAt(s, k)[2] # Newline
           /\ EventAt(s, k)[3] = Newline /\ EventAt(s, k)[4] = Newline
           /\ k = 0 => /\ EventAt(s, k)[1] = <<"colon", 0>>
                       /\ EventAt(s, k)[2] = <<"ok", 0>>
           /\ k # 0 => /\ EventAt(s, k)[1] = <<"data", s[k]>>
                       /\ EventAt(s, k)[2] = <<"rest", s[k]>>
<1>0. MaxFrames \in Nat /\ Len(s) \in Nat
  BY SseAssumption, LenProperties
<1>1. CASE k = 0
  <2>1. EventAt(s, k) = << <<"colon", 0>>, <<"ok", 0>> >> \o << <<"nl", 0>>, <<"nl", 0>> >>
    BY <1>1 DEF EventAt, Event, Comment, Newline
  <2>2. /\ EventAt(s, k) \in Seq(Token) /\ Len(EventAt(s, k)) = 4
        /\ EventAt(s, k)[1] = <<"colon", 0>> /\ EventAt(s, k)[2] = <<"ok", 0>>
        /\ EventAt(s, k)[3] = <<"nl", 0>> /\ EventAt(s, k)[4] = <<"nl", 0>>
    BY <1>0, <2>1 DEF Token
  <2> QED
    BY <1>1, <2>2 DEF Newline
<1>2. CASE k # 0
  <2>1. s[k] \in 1..MaxFrames
    BY <1>0, <1>2, ElementOfSeq
  <2>2. EventAt(s, k) = << <<"data", s[k]>>, <<"rest", s[k]>> >> \o << <<"nl", 0>>, <<"nl", 0>> >>
    BY <1>2 DEF EventAt, Event, Line, Newline
  <2> QED
    BY <1>0, <1>2, <2>1, <2>2 DEF Newline, Token
<1> QED
  BY <1>1, <1>2

\* A text stays where it is among the events when one more frame is sent.
LEMMA TextKept ==
    ASSUME NEW s \in Seq(1..MaxFrames), NEW f \in 1..MaxFrames,
           NEW t \in Seq(Token), NEW start \in Nat, TextAt(s, start, t)
    PROVE  TextAt(Append(s, f), start, t)
<1>1. /\ Append(s, f) \in Seq(1..MaxFrames) /\ Len(Append(s, f)) = Len(s) + 1
      /\ \A k \in 1..Len(s) : Append(s, f)[k] = s[k]
      /\ Len(s) \in Nat /\ Len(t) \in Nat
  BY AppendProperties, LenProperties
<1>2. start + Len(t) <= 4 * (Len(Append(s, f)) + 1)
  BY <1>1 DEF TextAt
<1>3. ASSUME NEW i \in 1..Len(t), NEW k \in 0..Len(Append(s, f)), NEW j \in 1..4,
             start + i = 4 * k + j
      PROVE  t[i] = EventAt(Append(s, f), k)[j]
  <2>1. k \in 0..Len(s)
    BY <1>1, <1>3 DEF TextAt
  <2>2. t[i] = EventAt(s, k)[j]
    BY <1>3, <2>1 DEF TextAt
  <2>3. EventAt(Append(s, f), k) = EventAt(s, k)
    BY <1>1, <2>1 DEF EventAt
  <2> QED
    BY <2>2, <2>3
<1> QED
  BY <1>2, <1>3 DEF TextAt

\* Two texts, one after the other.
LEMMA TextJoined ==
    ASSUME NEW s \in Seq(1..MaxFrames), NEW a \in Seq(Token), NEW b \in Seq(Token),
           NEW start \in Nat, TextAt(s, start, a), TextAt(s, start + Len(a), b)
    PROVE  TextAt(s, start, a \o b)
<1>1. /\ a \o b \in Seq(Token) /\ Len(a \o b) = Len(a) + Len(b)
      /\ \A i \in 1 .. Len(a) + Len(b) :
           (a \o b)[i] = IF i <= Len(a) THEN a[i] ELSE b[i - Len(a)]
      /\ Len(a) \in Nat /\ Len(b) \in Nat /\ Len(s) \in Nat
  BY ConcatProperties, LenProperties
<1>2. start + Len(a \o b) <= 4 * (Len(s) + 1)
  BY <1>1 DEF TextAt
<1>3. ASSUME NEW i \in 1..Len(a \o b), NEW k \in 0..Len(s), NEW j \in 1..4,
             start + i = 4 * k + j
      PROVE  (a \o b)[i] = EventAt(s, k)[j]
  <2>1. CASE i <= Len(a)
    <3>1. i \in 1..Len(a)
      BY <1>1, <2>1
    <3>2. a[i] = EventAt(s, k)[j]
      BY <1>3, <3>1 DEF TextAt
    <3> QED
      BY <1>1, <2>1, <3>2
  <2>2. CASE ~(i <= Len(a))
    <3>1. i - Len(a) \in 1..Len(b) /\ (start + Len(a)) + (i - Len(a)) = 4 * k + j
      <4>1. /\ i \in 1 .. Len(a) + Len(b) /\ Len(a) \in Nat /\ Len(b) \in Nat
            /\ start + i = 4 * k + j
        BY <1>1, <1>3
      <4> QED
        BY <2>2, <4>1
    <3>2. b[i - Len(a)] = EventAt(s, k)[j]
      BY <3>1 DEF TextAt
    <3> QED
      BY <1>1, <2>2, <3>2
  <2> QED
    BY <2>1, <2>2
<1> QED
  BY <1>2, <1>3 DEF TextAt

\* What is before a cut, and what is after it.
LEMMA TextCut ==
    ASSUME NEW s \in Seq(1..MaxFrames), NEW t \in Seq(Token), NEW start \in Nat,
           TextAt(s, start, t), NEW m \in 0..Len(t)
    PROVE  /\ SubSeq(t, 1, m) \in Seq(Token) /\ Len(SubSeq(t, 1, m)) = m
           /\ SubSeq(t, m + 1, Len(t)) \in Seq(Token)
           /\ Len(SubSeq(t, m + 1, Len(t))) = Len(t) - m
           /\ TextAt(s, start, SubSeq(t, 1, m))
           /\ TextAt(s, start + m, SubSeq(t, m + 1, Len(t)))
<1>0. Len(t) \in Nat /\ Len(s) \in Nat /\ m \in Nat /\ \A i \in 1..Len(t) : t[i] \in Token
  BY LenProperties, ElementOfSeq
<1>1. /\ SubSeq(t, 1, m) \in Seq(Token) /\ Len(SubSeq(t, 1, m)) = m
      /\ \A i \in 1..m : SubSeq(t, 1, m)[i] = t[i]
  <2>1. \A i \in 1..m : t[i] \in Token
    BY <1>0
  <2>2. /\ SubSeq(t, 1, m) \in Seq(Token)
        /\ Len(SubSeq(t, 1, m)) = IF 1 <= m THEN m - 1 + 1 ELSE 0
        /\ \A i \in 1 .. m - 1 + 1 : SubSeq(t, 1, m)[i] = t[1 + i - 1]
    BY <1>0, <2>1, SubSeqProperties
  <2> QED
    BY <1>0, <2>2
<1>2. /\ SubSeq(t, m + 1, Len(t)) \in Seq(Token)
      /\ Len(SubSeq(t, m + 1, Len(t))) = Len(t) - m
      /\ \A i \in 1 .. Len(t) - m : SubSeq(t, m + 1, Len(t))[i] = t[m + i]
  <2>1. \A i \in m + 1 .. Len(t) : t[i] \in Token
    BY <1>0
  <2>2. /\ SubSeq(t, m + 1, Len(t)) \in Seq(Token)
        /\ Len(SubSeq(t, m + 1, Len(t))) =
             IF m + 1 <= Len(t) THEN Len(t) - (m + 1) + 1 ELSE 0
        /\ \A i \in 1 .. Len(t) - (m + 1) + 1 :
             SubSeq(t, m + 1, Len(t))[i] = t[(m + 1) + i - 1]
    BY <1>0, <2>1, SubSeqProperties
  <2> QED
    BY <1>0, <2>2
<1>3. TextAt(s, start, SubSeq(t, 1, m))
  BY <1>0, <1>1 DEF TextAt
<1>4. TextAt(s, start + m, SubSeq(t, m + 1, Len(t)))
  <2>1. (start + m) + Len(SubSeq(t, m + 1, Len(t))) <= 4 * (Len(s) + 1)
    <3>1. start + Len(t) <= 4 * (Len(s) + 1) /\ Len(SubSeq(t, m + 1, Len(t))) = Len(t) - m
      BY <1>2 DEF TextAt
    <3>2. (start + m) + (Len(t) - m) = start + Len(t)
      <4>1. Len(t) \in Nat /\ m \in Nat
        BY <1>0
      <4> QED
        BY <4>1
    <3> QED
      BY <3>1, <3>2
  <2>2. ASSUME NEW i \in 1 .. Len(SubSeq(t, m + 1, Len(t))), NEW k \in 0..Len(s),
               NEW j \in 1..4, (start + m) + i = 4 * k + j
        PROVE  SubSeq(t, m + 1, Len(t))[i] = EventAt(s, k)[j]
    <3>1. m + i \in 1..Len(t) /\ start + (m + i) = 4 * k + j
      BY <1>0, <1>2, <2>2
    <3>2. t[m + i] = EventAt(s, k)[j]
      BY <3>1 DEF TextAt
    <3> QED
      BY <1>0, <1>2, <3>2
  <2> QED
    BY <2>1, <2>2 DEF TextAt
<1> QED
  BY <1>1, <1>2, <1>3, <1>4

\* The event of one frame more goes after all the others.
LEMMA TextWritten ==
    ASSUME NEW s \in Seq(1..MaxFrames), NEW f \in 1..MaxFrames,
           NEW t \in Seq(Token), NEW start \in Nat, TextAt(s, start, t),
           start + Len(t) = 4 * (Len(s) + 1)
    PROVE  /\ t \o Event(Line(f)) \in Seq(Token)
           /\ Len(t \o Event(Line(f))) = Len(t) + 4
           /\ TextAt(Append(s, f), start, t \o Event(Line(f)))
<1>1. /\ Append(s, f) \in Seq(1..MaxFrames) /\ Len(Append(s, f)) = Len(s) + 1
      /\ Append(s, f)[Len(s) + 1] = f
      /\ Len(s) \in Nat /\ Len(t) \in Nat
  BY AppendProperties, LenProperties
<1>2. EventAt(Append(s, f), Len(s) + 1) = Event(Line(f))
  BY <1>1 DEF EventAt
<1>3. Event(Line(f)) \in Seq(Token) /\ Len(Event(Line(f))) = 4
  <2>1. Len(s) + 1 \in 0..Len(Append(s, f))
    BY <1>1
  <2> QED
    BY <1>1, <1>2, <2>1, EventTokens
<1>4. TextAt(Append(s, f), start + Len(t), Event(Line(f)))
  <2>1. (start + Len(t)) + Len(Event(Line(f))) <= 4 * (Len(Append(s, f)) + 1)
    BY <1>1, <1>3
  <2>2. ASSUME NEW i \in 1..Len(Event(Line(f))), NEW k \in 0..Len(Append(s, f)),
               NEW j \in 1..4, (start + Len(t)) + i = 4 * k + j
        PROVE  Event(Line(f))[i] = EventAt(Append(s, f), k)[j]
    <3>1. k = Len(s) + 1 /\ j = i
      BY <1>1, <1>3, <2>2
    <3> QED
      BY <1>2, <3>1
  <2> QED
    BY <2>1, <2>2 DEF TextAt
<1>5. t \o Event(Line(f)) \in Seq(Token) /\ Len(t \o Event(Line(f))) = Len(t) + 4
  <2>1. t \o Event(Line(f)) \in Seq(Token)
        /\ Len(t \o Event(Line(f))) = Len(t) + Len(Event(Line(f)))
    BY <1>3, ConcatProperties, Zenon
  <2> QED
    BY <1>3, <2>1
<1>6. TextAt(Append(s, f), start, t)
  BY TextKept
<1> QED
  BY <1>1, <1>3, <1>4, <1>5, <1>6, TextJoined

\* The first boundary of a buffer is the end of its first event.
LEMMA FirstBoundary ==
    ASSUME NEW s \in Seq(1..MaxFrames), NEW b \in Seq(Token), NEW h \in Nat,
           TextAt(s, 4 * h, b),
           NEW k \in Boundaries(b), \A m \in Boundaries(b) : k <= m
    PROVE  /\ k = 3 /\ Len(b) >= 4 /\ h \in 0..Len(s)
           /\ SubSeq(b, 1, k - 1) = IF h = 0 THEN Comment ELSE Line(s[h])
<1>0. Len(b) \in Nat /\ Len(s) \in Nat
  BY LenProperties
<1>1. k \in 1 .. Len(b) - 1 /\ b[k] = Newline /\ b[k + 1] = Newline
  BY DEF Boundaries
<1>2. h \in 0..Len(s)
  BY <1>0, <1>1 DEF TextAt
<1>3. \A j \in 1..4 : j <= Len(b) => b[j] = EventAt(s, h)[j]
  BY <1>0, <1>2 DEF TextAt
<1>4. /\ EventAt(s, h)[1] # Newline /\ EventAt(s, h)[2] # Newline
      /\ EventAt(s, h)[3] = Newline /\ EventAt(s, h)[4] = Newline
  BY <1>2, EventTokens
<1>5. k # 1 /\ k # 2
  BY <1>0, <1>1, <1>3, <1>4
<1>6. k >= 3 /\ Len(b) >= 4
  BY <1>0, <1>1, <1>5
<1>7. 3 \in Boundaries(b)
  BY <1>0, <1>3, <1>4, <1>6 DEF Boundaries
<1>8. k = 3
  BY <1>1, <1>6, <1>7
<1>9. SubSeq(b, 1, 2) = << b[1], b[2] >>
  <2>1. \A i \in 1..2 : b[i] \in Token
    BY <1>0, <1>6, ElementOfSeq
  <2>2. /\ SubSeq(b, 1, 2) \in Seq(Token)
        /\ Len(SubSeq(b, 1, 2)) = IF 1 <= 2 THEN 2 - 1 + 1 ELSE 0
        /\ \A i \in 1 .. 2 - 1 + 1 : SubSeq(b, 1, 2)[i] = b[1 + i - 1]
    BY <2>1, SubSeqProperties
  <2>3. << b[1], b[2] >> \in Seq(Token) /\ Len(<< b[1], b[2] >>) = 2
    BY <2>1
  <2>4. Len(SubSeq(b, 1, 2)) = 2 /\ \A i \in 1..2 : SubSeq(b, 1, 2)[i] = << b[1], b[2] >>[i]
    BY <2>2
  <2> HIDE <2>2
  <2> QED
    BY <2>2, <2>3, <2>4, SeqEqual
<1>10. << b[1], b[2] >> = IF h = 0 THEN Comment ELSE Line(s[h])
  <2>1. b[1] = EventAt(s, h)[1] /\ b[2] = EventAt(s, h)[2]
    BY <1>0, <1>3, <1>6
  <2>2. CASE h = 0
    BY <1>2, <2>1, <2>2, EventTokens DEF Comment
  <2>3. CASE h # 0
    BY <1>2, <2>1, <2>3, EventTokens DEF Line
  <2> QED
    BY <2>2, <2>3
<1> QED
  BY <1>2, <1>6, <1>8, <1>9, <1>10

-----------------------------------------------------------------------------
(* The steps of one connection.                                                *)

\* A frame is written: to the sent frames, and to the wire while it is open.
LEMMA HandledWritten ==
    ASSUME NEW s \in Seq(1..MaxFrames), NEW f \in 1..MaxFrames,
           NEW g \in Seq(1..MaxFrames), NEW b \in Seq(Token), NEW w \in Seq(Token),
           NEW h \in 0 .. Len(s) + 1, Handled(s, g, b, w, h)
    PROVE  /\ Handled(Append(s, f), g, b, w, h)
           /\ Complete(s, b, w, h) =>
                /\ Handled(Append(s, f), g, b, w \o Event(Line(f)), h)
                /\ w \o Event(Line(f)) \in Seq(Token)
                /\ Complete(Append(s, f), b, w \o Event(Line(f)), h)
           /\ Append(s, f) \in Seq(1..MaxFrames) /\ h \in 0 .. Len(Append(s, f)) + 1
<1>1. /\ Append(s, f) \in Seq(1..MaxFrames) /\ Len(Append(s, f)) = Len(s) + 1
      /\ \A k \in 1..Len(s) : Append(s, f)[k] = s[k]
      /\ Len(s) \in Nat /\ Len(b) \in Nat /\ Len(w) \in Nat /\ Len(g) \in Nat
  BY AppendProperties, LenProperties
<1>2. 4 * h \in Nat /\ 4 * h + Len(b) \in Nat /\ h \in 0 .. Len(Append(s, f)) + 1
  BY <1>1
<1>3. TextAt(Append(s, f), 4 * h, b) /\ TextAt(Append(s, f), 4 * h + Len(b), w)
  BY <1>2, TextKept DEF Handled
<1>4. Len(g) = IF h = 0 THEN 0 ELSE h - 1
  BY DEF Handled
<1>5. \A i \in 1..Len(g) : g[i] = Append(s, f)[i]
  <2>1. Len(g) <= Len(s)
    BY <1>1, <1>4
  <2> QED
    BY <1>1, <2>1 DEF Handled
<1>6. ASSUME 4 * h + Len(b) + Len(w) = 4 * (Len(s) + 1)
      PROVE  /\ TextAt(Append(s, f), 4 * h + Len(b), w \o Event(Line(f)))
             /\ w \o Event(Line(f)) \in Seq(Token)
             /\ 4 * h + Len(b) + Len(w \o Event(Line(f))) = 4 * (Len(Append(s, f)) + 1)
  <2>1. /\ TextAt(Append(s, f), 4 * h + Len(b), w \o Event(Line(f)))
        /\ w \o Event(Line(f)) \in Seq(Token)
        /\ Len(w \o Event(Line(f))) = Len(w) + 4
    BY <1>2, <1>6, TextWritten DEF Handled
  <2> QED
    BY <1>1, <1>2, <1>6, <2>1
<1> QED
  BY <1>1, <1>2, <1>3, <1>4, <1>5, <1>6 DEF Handled, Complete

\* A read moves text from the wire to the buffer.
LEMMA HandledRead ==
    ASSUME NEW s \in Seq(1..MaxFrames), NEW g \in Seq(1..MaxFrames),
           NEW b \in Seq(Token), NEW w \in Seq(Token),
           NEW h \in 0 .. Len(s) + 1, Handled(s, g, b, w, h), NEW k \in 1..Len(w)
    PROVE  /\ b \o SubSeq(w, 1, k) \in Seq(Token)
           /\ SubSeq(w, k + 1, Len(w)) \in Seq(Token)
           /\ Handled(s, g, b \o SubSeq(w, 1, k), SubSeq(w, k + 1, Len(w)), h)
           /\ Complete(s, b, w, h) =>
                Complete(s, b \o SubSeq(w, 1, k), SubSeq(w, k + 1, Len(w)), h)
<1>1. Len(s) \in Nat /\ Len(b) \in Nat /\ Len(w) \in Nat
  BY LenProperties
<1>2. 4 * h \in Nat /\ 4 * h + Len(b) \in Nat /\ k \in 0..Len(w)
  BY <1>1
<1>3. TextAt(s, 4 * h, b) /\ TextAt(s, 4 * h + Len(b), w)
  BY DEF Handled
<1>4. /\ SubSeq(w, 1, k) \in Seq(Token) /\ Len(SubSeq(w, 1, k)) = k
      /\ SubSeq(w, k + 1, Len(w)) \in Seq(Token)
      /\ Len(SubSeq(w, k + 1, Len(w))) = Len(w) - k
      /\ TextAt(s, 4 * h + Len(b), SubSeq(w, 1, k))
      /\ TextAt(s, (4 * h + Len(b)) + k, SubSeq(w, k + 1, Len(w)))
  BY <1>2, <1>3, TextCut
<1>5. TextAt(s, 4 * h, b \o SubSeq(w, 1, k))
  BY <1>2, <1>3, <1>4, TextJoined
<1>6. b \o SubSeq(w, 1, k) \in Seq(Token) /\ Len(b \o SubSeq(w, 1, k)) = Len(b) + k
  <2>1. /\ b \o SubSeq(w, 1, k) \in Seq(Token)
        /\ Len(b \o SubSeq(w, 1, k)) = Len(b) + Len(SubSeq(w, 1, k))
    BY <1>4, ConcatProperties, Zenon
  <2> QED
    BY <1>4, <2>1
<1>7. 4 * h + Len(b \o SubSeq(w, 1, k)) = (4 * h + Len(b)) + k
  BY <1>1, <1>2, <1>6
<1>8. Handled(s, g, b \o SubSeq(w, 1, k), SubSeq(w, k + 1, Len(w)), h)
  BY <1>4, <1>5, <1>7 DEF Handled
<1>9. ASSUME Complete(s, b, w, h)
      PROVE  Complete(s, b \o SubSeq(w, 1, k), SubSeq(w, k + 1, Len(w)), h)
  <2>1. Len(b \o SubSeq(w, 1, k)) = Len(b) + k /\ Len(SubSeq(w, k + 1, Len(w))) = Len(w) - k
    BY <1>4, <1>6
  <2>2. 4 * h + (Len(b) + k) + (Len(w) - k) = 4 * h + Len(b) + Len(w)
    BY <1>1, <1>2
  <2> QED
    BY <1>9, <2>1, <2>2 DEF Complete
<1> QED
  BY <1>4, <1>6, <1>8, <1>9

\* The first chunk of a buffer is handled: the comment, and no frame, or the
\* frame that comes next.
LEMMA HandledChunk ==
    ASSUME NEW s \in Seq(1..MaxFrames), NEW g \in Seq(1..MaxFrames),
           NEW b \in Seq(Token), NEW w \in Seq(Token),
           NEW h \in 0 .. Len(s) + 1, Handled(s, g, b, w, h),
           NEW k \in Boundaries(b), \A m \in Boundaries(b) : k <= m,
           NEW c, c = SubSeq(b, k + 2, Len(b))
    PROVE  /\ c \in Seq(Token) /\ h + 1 \in 0 .. Len(s) + 1
           /\ Complete(s, b, w, h) => Complete(s, c, w, h + 1)
           /\ Parsed(SubSeq(b, 1, k - 1)) = {} => Handled(s, g, c, w, h + 1)
           /\ \A f \in Parsed(SubSeq(b, 1, k - 1)) :
                /\ Append(g, f) \in Seq(1..MaxFrames)
                /\ Handled(s, Append(g, f), c, w, h + 1)
<1>1. /\ Len(s) \in Nat /\ Len(b) \in Nat /\ Len(w) \in Nat /\ Len(g) \in Nat
      /\ MaxFrames \in Nat /\ h \in Nat /\ 4 * h \in Nat
  BY LenProperties, SseAssumption
<1>2. TextAt(s, 4 * h, b) /\ TextAt(s, 4 * h + Len(b), w)
  BY DEF Handled
<1>3. /\ k = 3 /\ Len(b) >= 4 /\ h \in 0..Len(s)
      /\ SubSeq(b, 1, k - 1) = IF h = 0 THEN Comment ELSE Line(s[h])
  BY <1>1, <1>2, FirstBoundary
<1>4. /\ c \in Seq(Token) /\ Len(c) = Len(b) - 4 /\ TextAt(s, 4 * h + 4, c)
  <2>1. c = SubSeq(b, 4 + 1, Len(b)) /\ 4 \in 0..Len(b)
    BY <1>1, <1>3
  <2>2. /\ SubSeq(b, 4 + 1, Len(b)) \in Seq(Token)
        /\ Len(SubSeq(b, 4 + 1, Len(b))) = Len(b) - 4
        /\ TextAt(s, 4 * h + 4, SubSeq(b, 4 + 1, Len(b)))
    <3>1. 4 * h \in Nat
      BY <1>1
    <3> QED
      BY <1>2, <2>1, <3>1, TextCut
  <2> QED
    BY <2>1, <2>2
<1>5. /\ h + 1 \in 0 .. Len(s) + 1
      /\ 4 * (h + 1) + Len(c) + Len(w) = 4 * h + Len(b) + Len(w)
      /\ 4 * (h + 1) = 4 * h + 4 /\ 4 * (h + 1) + Len(c) = 4 * h + Len(b)
  <2>1. Len(c) = Len(b) - 4 /\ h \in 0..Len(s) /\ Len(s) \in Nat
    BY <1>1, <1>3, <1>4
  <2>2. Len(b) \in Nat /\ Len(w) \in Nat
    BY <1>1
  <2>3. 4 * (h + 1) = 4 * h + 4 /\ 4 * h \in Nat
    BY <1>1
  <2>4. (4 * h + 4) + (Len(b) - 4) = 4 * h + Len(b)
    BY <2>2, <2>3
  <2>5. 4 * (h + 1) + Len(c) = 4 * h + Len(b)
    BY <2>1, <2>3, <2>4
  <2>6. h + 1 \in 0 .. Len(s) + 1
    BY <2>1
  <2> QED
    BY <2>3, <2>5, <2>6
<1>6. TextAt(s, 4 * (h + 1), c) /\ TextAt(s, 4 * (h + 1) + Len(c), w)
  BY <1>2, <1>4, <1>5
<1>7. /\ Len(g) = IF h = 0 THEN 0 ELSE h - 1
      /\ \A i \in 1..Len(g) : g[i] = s[i]
  BY DEF Handled
<1>8. CASE h = 0
  <2>1. Parsed(SubSeq(b, 1, k - 1)) = {}
    <3>1. \A f : Comment # Line(f)
      <4>1. ASSUME NEW f PROVE Comment[1] # Line(f)[1]
        BY DEF Comment, Line
      <4> QED
        BY <4>1
    <3> QED
      BY <1>3, <1>8, <3>1 DEF Parsed
  <2>2. Len(g) = IF h + 1 = 0 THEN 0 ELSE (h + 1) - 1
    BY <1>7, <1>8
  <2> QED
    BY <1>4, <1>5, <1>6, <1>7, <2>1, <2>2 DEF Handled, Complete
<1>9. CASE h # 0
  <2>1. s[h] \in 1..MaxFrames
    BY <1>1, <1>3, <1>9, ElementOfSeq
  <2>2. Parsed(SubSeq(b, 1, k - 1)) = {s[h]}
    <3>1. \A f, e : Line(f) = Line(e) => f = e
      <4>1. ASSUME NEW f, NEW e, Line(f) = Line(e) PROVE f = e
        <5>1. Line(f)[1] = <<"data", f>> /\ Line(e)[1] = <<"data", e>>
          BY DEF Line
        <5>2. <<"data", f>>[2] = f /\ <<"data", e>>[2] = e
          OBVIOUS
        <5> QED
          BY <4>1, <5>1, <5>2
      <4> QED
        BY <4>1
    <3>2. \A f \in 1..MaxFrames : Line(s[h]) = Line(f) <=> f = s[h]
      BY <3>1
    <3> QED
      BY <1>3, <1>9, <2>1, <3>2 DEF Parsed
  <2>3. /\ Append(g, s[h]) \in Seq(1..MaxFrames) /\ Len(Append(g, s[h])) = Len(g) + 1
        /\ \A i \in 1..Len(g) : Append(g, s[h])[i] = g[i]
        /\ Append(g, s[h])[Len(g) + 1] = s[h]
    BY <2>1, AppendProperties
  <2>4. Len(g) = h - 1 /\ Len(Append(g, s[h])) = IF h + 1 = 0 THEN 0 ELSE (h + 1) - 1
    BY <1>1, <1>7, <1>9, <2>3
  <2>5. \A i \in 1..Len(Append(g, s[h])) : Append(g, s[h])[i] = s[i]
    <3>1. ASSUME NEW i \in 1..Len(Append(g, s[h])) PROVE Append(g, s[h])[i] = s[i]
      <4>1. i \in 1..Len(g) \/ i = Len(g) + 1
        <5>1. Len(g) \in Nat
          BY <1>1, LenProperties
        <5>2. i \in 1..Len(g) + 1
          BY <2>3
        <5>3. \A l \in Nat : \A j \in 1..l + 1 : j \in 1..l \/ j = l + 1
          OBVIOUS
        <5> QED
          BY <5>1, <5>2, <5>3
      <4>2. Len(g) + 1 = h
        BY <1>1, <2>4
      <4> QED
        BY <1>7, <2>3, <4>1, <4>2
    <3> QED
      BY <3>1
  <2>6. Handled(s, Append(g, s[h]), c, w, h + 1)
    BY <1>6, <2>4, <2>5 DEF Handled
  <2> QED
    BY <1>4, <1>5, <2>2, <2>3, <2>6 DEF Complete
<1> QED
  BY <1>8, <1>9

-----------------------------------------------------------------------------
(* The steps of the transports.                                                *)

\* What a step leaves alone of a connection stays as it was.
Untouched(n) ==
    /\ link'[n] = link[n] /\ sent'[n] = sent[n] /\ got'[n] = got[n]
    /\ buffer'[n] = buffer[n] /\ wire'[n] = wire[n]
    /\ n \in peers' => n \in peers

LEMMA UntouchedStreamed ==
    ASSUME NEW n \in Conns, Streamed(n), Untouched(n)
    PROVE  Streamed(n)'
<1>1. CASE link[n] = "none"
  BY <1>1 DEF Streamed, Untouched
<1>2. CASE link[n] # "none"
  BY <1>2 DEF Streamed, Untouched
<1> QED
  BY <1>1, <1>2

\* The types of one connection.
LEMMA ConnTypes ==
    ASSUME XTypeOK, NEW n \in Conns
    PROVE  /\ sent[n] \in Seq(1..MaxFrames) /\ got[n] \in Seq(1..MaxFrames)
           /\ buffer[n] \in Seq(Token) /\ wire[n] \in Seq(Token)
           /\ Len(sent[n]) \in Nat /\ Len(buffer[n]) \in Nat /\ Len(wire[n]) \in Nat
<1>1. /\ sent[n] \in Seq(1..MaxFrames) /\ got[n] \in Seq(1..MaxFrames)
      /\ buffer[n] \in Seq(Token) /\ wire[n] \in Seq(Token)
  BY DEF XTypeOK
<1> QED
  BY <1>1, LenProperties

\* A connection begins with the comment on its wire.
LEMMA ConnectStreamed ==
    ASSUME StreamInv, NEW n \in Conns, Connect(n)
    PROVE  StreamInv'
<1>1. <<>> \in Seq(1..MaxFrames) /\ <<>> \in Seq(Token) /\ Len(<<>>) = 0
  OBVIOUS
<1>2. Event(Comment) \in Seq(Token) /\ Len(Event(Comment)) = 4
  <2>1. EventAt(<<>>, 0) = Event(Comment)
    BY DEF EventAt
  <2>2. 0 \in 0..Len(<<>>)
    BY <1>1
  <2> QED
    BY <1>1, <2>1, <2>2, EventTokens
<1>3. TextAt(<<>>, 4 * 0, <<>>)
  BY <1>1 DEF TextAt
<1>4. TextAt(<<>>, 4 * 0 + Len(<<>>), Event(Comment))
  <2>1. (4 * 0 + Len(<<>>)) + Len(Event(Comment)) <= 4 * (Len(<<>>) + 1)
    BY <1>1, <1>2
  <2>2. ASSUME NEW i \in 1..Len(Event(Comment)), NEW k \in 0..Len(<<>>), NEW j \in 1..4,
               (4 * 0 + Len(<<>>)) + i = 4 * k + j
        PROVE  Event(Comment)[i] = EventAt(<<>>, k)[j]
    <3>1. k = 0 /\ i = j
      BY <1>1, <1>2, <2>2
    <3> QED
      BY <3>1 DEF EventAt
  <2> QED
    BY <2>1, <2>2 DEF TextAt
<1>5. Handled(<<>>, <<>>, <<>>, Event(Comment), 0)
  BY <1>1, <1>3, <1>4 DEF Handled
<1>6. /\ link[n] = "none" /\ link' = [link EXCEPT ![n] = "open"]
      /\ peers' = peers \cup {n}
      /\ wire' = [wire EXCEPT ![n] = Event(Comment)]
      /\ pump' = [pump EXCEPT ![n] = "reading"]
      /\ buffer' = buffer /\ sent' = sent /\ got' = got /\ frameCount' = frameCount
  BY DEF Connect
<1>7. XTypeOK'
  BY <1>2, <1>6 DEF StreamInv, XTypeOK
<1>8. ASSUME NEW m \in Conns PROVE Streamed(m)'
  <2>1. CASE m = n
    <3>1. sent[n] = <<>> /\ got[n] = <<>> /\ buffer[n] = <<>>
      BY <1>6 DEF StreamInv, Streamed
    <3>2. link'[n] = "open" /\ wire'[n] = Event(Comment)
      BY <1>6 DEF StreamInv, XTypeOK
    <3>3. /\ 0 \in 0 .. Len(<<>>) + 1
          /\ Complete(<<>>, <<>>, Event(Comment), 0)
      BY <1>1, <1>2 DEF Complete
    <3> QED
      BY <1>5, <1>6, <2>1, <3>1, <3>2, <3>3 DEF Streamed
  <2>2. CASE m # n
    <3>1. Untouched(m)
      BY <1>6, <2>2 DEF Untouched, StreamInv, XTypeOK
    <3> QED
      BY <3>1, UntouchedStreamed DEF StreamInv
  <2> QED
    BY <2>1, <2>2
<1> QED
  BY <1>7, <1>8 DEF StreamInv

\* A frame goes to some of the peers.
LEMMA WrittenStreamed ==
    ASSUME StreamInv, NEW to \in SUBSET peers, frameCount < MaxFrames, frameCount' = frameCount + 1,
           Written(to, frameCount + 1), UNCHANGED <<peers, link, pumpVars>>
    PROVE  StreamInv'
<1> DEFINE f == frameCount + 1
<1>1. f \in 1..MaxFrames /\ frameCount' \in 0..MaxFrames /\ MaxFrames \in Nat
  BY SseAssumption DEF StreamInv, XTypeOK
<1>2. /\ peers' = peers /\ link' = link /\ pump' = pump /\ buffer' = buffer /\ got' = got
  BY DEF pumpVars
<1>3. PICK live \in SUBSET to :
        /\ live = {n \in to : link[n] # "ended"}
        /\ wire' = [n \in Conns |-> IF n \in live /\ link[n] = "open"
                                    THEN wire[n] \o Event(Line(f)) ELSE wire[n]]
        /\ sent' = [n \in Conns |-> IF n \in live THEN Append(sent[n], f) ELSE sent[n]]
  BY DEF Written
<1> HIDE DEF f
<1>4. ASSUME NEW n \in Conns
      PROVE  Streamed(n)' /\ sent'[n] \in Seq(1..MaxFrames) /\ wire'[n] \in Seq(Token)
  <2>0. /\ wire'[n] = IF n \in live /\ link[n] = "open"
                       THEN wire[n] \o Event(Line(f)) ELSE wire[n]
        /\ sent'[n] = IF n \in live THEN Append(sent[n], f) ELSE sent[n]
        /\ Streamed(n)
    BY <1>3 DEF StreamInv
  <2>1. /\ sent[n] \in Seq(1..MaxFrames) /\ got[n] \in Seq(1..MaxFrames)
        /\ buffer[n] \in Seq(Token) /\ wire[n] \in Seq(Token)
    BY ConnTypes DEF StreamInv
  <2>2. CASE n \notin live
    <3>1. Untouched(n)
      BY <1>2, <2>0, <2>2 DEF Untouched
    <3> QED
      BY <2>0, <2>1, <2>2, <3>1, UntouchedStreamed
  <2>3. CASE n \in live
    <3>1. n \in peers /\ link[n] # "none"
      BY <2>0, <2>3 DEF Streamed
    <3>2. PICK h \in 0 .. Len(sent[n]) + 1 :
            /\ Handled(sent[n], got[n], buffer[n], wire[n], h)
            /\ link[n] = "open" => Complete(sent[n], buffer[n], wire[n], h)
      BY <2>0, <3>1 DEF Streamed
    <3>3. /\ Handled(Append(sent[n], f), got[n], buffer[n], wire[n], h)
          /\ Complete(sent[n], buffer[n], wire[n], h) =>
               /\ Handled(Append(sent[n], f), got[n], buffer[n], wire[n] \o Event(Line(f)), h)
               /\ wire[n] \o Event(Line(f)) \in Seq(Token)
               /\ Complete(Append(sent[n], f), buffer[n], wire[n] \o Event(Line(f)), h)
          /\ Append(sent[n], f) \in Seq(1..MaxFrames)
          /\ h \in 0 .. Len(Append(sent[n], f)) + 1
      BY <1>1, <2>1, <3>2, HandledWritten
    <3>4. CASE link[n] = "open"
      <4>1. wire'[n] = wire[n] \o Event(Line(f)) /\ sent'[n] = Append(sent[n], f)
        BY <2>0, <2>3, <3>4
      <4> QED
        BY <1>2, <3>1, <3>2, <3>3, <3>4, <4>1 DEF Streamed
    <3>5. CASE link[n] # "open"
      <4>1. wire'[n] = wire[n] /\ sent'[n] = Append(sent[n], f)
        BY <2>0, <2>3, <3>5
      <4> QED
        BY <1>2, <2>1, <3>1, <3>3, <3>5, <4>1 DEF Streamed
    <3> QED
      BY <3>4, <3>5
  <2> QED
    BY <2>2, <2>3
<1>5. XTypeOK'
  <2>1. sent' \in [Conns -> Seq(1..MaxFrames)] /\ wire' \in [Conns -> Seq(Token)]
    BY <1>3, <1>4
  <2> QED
    BY <1>1, <1>2, <2>1 DEF StreamInv, XTypeOK
<1> QED
  BY <1>4, <1>5 DEF StreamInv

\* The response ends, the peer goes, the connection is lost, or the pump stops:
\* no more is written or read than before.
LEMMA LessStreamed ==
    ASSUME StreamInv, XTypeOK', NEW n \in Conns, link[n] # "none",
           sent' = sent, got' = got, buffer' = buffer, peers' \in SUBSET peers,
           \A m \in Conns : m # n => link'[m] = link[m] /\ wire'[m] = wire[m],
           \/ link'[n] = link[n] /\ wire'[n] = wire[n]
           \/ link'[n] \in {"ended", "lost", "aborted"} /\ wire'[n] \in {wire[n], <<>>}
    PROVE  StreamInv'
<1>1. ASSUME NEW m \in Conns PROVE Streamed(m)'
  <2>1. CASE m # n \/ (link'[n] = link[n] /\ wire'[n] = wire[n])
    <3>1. Untouched(m)
      BY <2>1 DEF Untouched
    <3> QED
      BY <3>1, UntouchedStreamed DEF StreamInv
  <2>2. CASE m = n /\ link'[n] \in {"ended", "lost", "aborted"} /\ wire'[n] \in {wire[n], <<>>}
    <3>1. PICK h \in 0 .. Len(sent[n]) + 1 :
            Handled(sent[n], got[n], buffer[n], wire[n], h)
      BY DEF StreamInv, Streamed
    <3>2. Handled(sent[n], got[n], buffer[n], wire'[n], h)
      <4>1. CASE wire'[n] = wire[n]
        BY <3>1, <4>1
      <4>2. CASE wire'[n] = <<>>
        <5>1. Len(sent[n]) \in Nat /\ Len(buffer[n]) \in Nat /\ h \in Nat
          BY ConnTypes DEF StreamInv
        <5>2. TextAt(sent[n], 4 * h + Len(buffer[n]), <<>>)
          <6>1. 4 * h + Len(buffer[n]) <= 4 * (Len(sent[n]) + 1)
            BY <3>1 DEF Handled, TextAt
          <6>2. Len(<<>>) = 0 /\ 1..Len(<<>>) = {}
            OBVIOUS
          <6>3. (4 * h + Len(buffer[n])) + Len(<<>>) <= 4 * (Len(sent[n]) + 1)
            <7>1. PICK x \in Nat : x = 4 * h + Len(buffer[n])
              <8>1. \A p, q \in Nat : 4 * p + q \in Nat
                OBVIOUS
              <8> QED
                BY <5>1, <8>1, Zenon
            <7>2. x + 0 = x
              OBVIOUS
            <7> QED
              BY <6>1, <6>2, <7>1, <7>2, Zenon
          <6> QED
            BY <6>2, <6>3 DEF TextAt
        <5> QED
          BY <3>1, <4>2, <5>2 DEF Handled
      <4> QED
        BY <2>2, <4>1, <4>2
    <3>3. link'[n] # "none" /\ link'[n] # "open"
      BY <2>2
    <3> QED
      BY <2>2, <3>1, <3>2, <3>3 DEF Streamed
  <2> QED
    BY <2>1, <2>2
<1> QED
  BY <1>1 DEF StreamInv

\* A read takes some of the wire.
LEMMA ReadStreamed ==
    ASSUME StreamInv, NEW n \in Conns, ReadPiece(n)
    PROVE  StreamInv'
<1>1. PICK k \in 1..Len(wire[n]) :
        /\ buffer' = [buffer EXCEPT ![n] = buffer[n] \o SubSeq(wire[n], 1, k)]
        /\ wire' = [wire EXCEPT ![n] = SubSeq(wire[n], k + 1, Len(wire[n]))]
  BY DEF ReadPiece, Collected
<1>2. /\ link[n] \in {"open", "ended"} /\ peers' = peers /\ sent' = sent /\ frameCount' = frameCount
      /\ link' = link /\ pump' = pump /\ got' = got
  BY DEF ReadPiece, serverVars
<1>3. PICK s \in Seq(1..MaxFrames), g \in Seq(1..MaxFrames), b \in Seq(Token), w \in Seq(Token) :
        s = sent[n] /\ g = got[n] /\ b = buffer[n] /\ w = wire[n]
  BY ConnTypes DEF StreamInv
<1>4. PICK h \in 0 .. Len(s) + 1 :
        Handled(s, g, b, w, h) /\ (link[n] = "open" => Complete(s, b, w, h))
  BY <1>2, <1>3 DEF StreamInv, Streamed
<1>5. PICK c, v :
        /\ c = b \o SubSeq(w, 1, k) /\ v = SubSeq(w, k + 1, Len(w))
        /\ c \in Seq(Token) /\ v \in Seq(Token) /\ Handled(s, g, c, v, h)
        /\ Complete(s, b, w, h) => Complete(s, c, v, h)
  <2>1. k \in 1..Len(w)
    BY <1>1, <1>3
  <2> QED
    BY <1>4, <2>1, HandledRead
<1>6. buffer' = [buffer EXCEPT ![n] = c] /\ wire' = [wire EXCEPT ![n] = v]
  BY <1>1, <1>3, <1>5
<1>7. XTypeOK'
  BY <1>2, <1>5, <1>6 DEF StreamInv, XTypeOK
<1>8. buffer'[n] = c /\ wire'[n] = v
  BY <1>6 DEF StreamInv, XTypeOK
<1>9. link[n] # "none"
  BY <1>2
<1>10. ASSUME NEW m \in Conns PROVE Streamed(m)'
  <2>1. CASE m = n
    BY <1>2, <1>3, <1>4, <1>5, <1>8, <1>9, <2>1 DEF Streamed
  <2>2. CASE m # n
    <3>1. Untouched(m)
      BY <1>2, <1>6, <2>2 DEF Untouched, StreamInv, XTypeOK
    <3> QED
      BY <3>1, UntouchedStreamed DEF StreamInv
  <2> QED
    BY <2>1, <2>2
<1> QED
  BY <1>7, <1>10 DEF StreamInv

\* A chunk is handled.
LEMMA ChunkStreamed ==
    ASSUME StreamInv, NEW n \in Conns, HandleChunk(n)
    PROVE  StreamInv'
<1>1. PICK k \in Boundaries(buffer[n]) :
        /\ \A b \in Boundaries(buffer[n]) : k <= b
        /\ buffer' = [buffer EXCEPT ![n] = SubSeq(buffer[n], k + 2, Len(buffer[n]))]
        /\ \/ Parsed(SubSeq(buffer[n], 1, k - 1)) = {} /\ got' = got /\ pump' = pump
           \/ \E f \in Parsed(SubSeq(buffer[n], 1, k - 1)) :
                /\ got' = [got EXCEPT ![n] = Append(got[n], f)]
                /\ pump' \in {pump, [pump EXCEPT ![n] = "thrown"]}
  BY DEF HandleChunk
<1>2. /\ peers' = peers /\ sent' = sent /\ frameCount' = frameCount
      /\ link' = link /\ wire' = wire
  BY DEF HandleChunk, serverVars
<1>3. /\ sent[n] \in Seq(1..MaxFrames) /\ got[n] \in Seq(1..MaxFrames)
      /\ buffer[n] \in Seq(Token) /\ wire[n] \in Seq(Token)
      /\ Len(buffer[n]) \in Nat /\ Len(wire[n]) \in Nat /\ Len(sent[n]) \in Nat
  BY ConnTypes DEF StreamInv
<1>4. link[n] # "none"
  <2>1. k \in 1 .. Len(buffer[n]) - 1
    BY DEF Boundaries
  <2>2. buffer[n] # <<>>
    BY <1>3, <2>1
  <2> QED
    BY <2>2 DEF StreamInv, Streamed
<1>5. PICK s \in Seq(1..MaxFrames), g \in Seq(1..MaxFrames), b \in Seq(Token), w \in Seq(Token) :
        s = sent[n] /\ g = got[n] /\ b = buffer[n] /\ w = wire[n]
  BY <1>3
<1>6. PICK h \in 0 .. Len(s) + 1 :
        Handled(s, g, b, w, h) /\ (link[n] = "open" => Complete(s, b, w, h))
  BY <1>4, <1>5 DEF StreamInv, Streamed
<1>7. PICK c :
      /\ c = SubSeq(b, k + 2, Len(b))
      /\ c \in Seq(Token) /\ h + 1 \in 0 .. Len(s) + 1
      /\ Complete(s, b, w, h) => Complete(s, c, w, h + 1)
      /\ Parsed(SubSeq(b, 1, k - 1)) = {} => Handled(s, g, c, w, h + 1)
      /\ \A f \in Parsed(SubSeq(b, 1, k - 1)) :
           /\ Append(g, f) \in Seq(1..MaxFrames)
           /\ Handled(s, Append(g, f), c, w, h + 1)
  <2>1. k \in Boundaries(b) /\ \A m \in Boundaries(b) : k <= m
    BY <1>1, <1>5
  <2> QED
    BY <1>6, <2>1, HandledChunk
<1>8. PICK a \in Seq(1..MaxFrames) :
        got' = [got EXCEPT ![n] = a] /\ Handled(s, a, c, w, h + 1)
  <2>1. CASE Parsed(SubSeq(b, 1, k - 1)) = {} /\ got' = got
    <3>1. got' = [got EXCEPT ![n] = g]
      BY <1>5, <2>1 DEF StreamInv, XTypeOK
    <3> QED
      BY <1>7, <2>1, <3>1
  <2>2. CASE \E f \in Parsed(SubSeq(b, 1, k - 1)) :
               got' = [got EXCEPT ![n] = Append(got[n], f)]
    BY <1>5, <1>7, <2>2
  <2> QED
    BY <1>1, <1>5, <2>1, <2>2
<1>9. pump' \in {pump, [pump EXCEPT ![n] = "thrown"]}
  BY <1>1
<1>10. buffer' = [buffer EXCEPT ![n] = c]
  BY <1>1, <1>5, <1>7
<1>11. XTypeOK'
  BY <1>2, <1>7, <1>8, <1>9, <1>10 DEF StreamInv, XTypeOK
<1>12. buffer'[n] = c /\ got'[n] = a
  BY <1>8, <1>10 DEF StreamInv, XTypeOK
<1>13. ASSUME NEW m \in Conns PROVE Streamed(m)'
  <2>1. CASE m = n
    BY <1>2, <1>4, <1>5, <1>6, <1>7, <1>8, <1>12, <2>1 DEF Streamed
  <2>2. CASE m # n
    <3>1. Untouched(m)
      BY <1>2, <1>8, <1>10, <2>2 DEF Untouched, StreamInv, XTypeOK
    <3> QED
      BY <3>1, UntouchedStreamed DEF StreamInv
  <2> QED
    BY <2>1, <2>2
<1> QED
  BY <1>11, <1>13 DEF StreamInv

LEMMA StreamInit == XInit => StreamInv
<1> SUFFICES ASSUME XInit PROVE StreamInv
  OBVIOUS
<1>1. <<>> \in Seq(1..MaxFrames) /\ <<>> \in Seq(Token)
  OBVIOUS
<1>2. XTypeOK
  BY <1>1, SseAssumption DEF XInit, XTypeOK
<1>3. \A n \in Conns : Streamed(n)
  BY DEF XInit, Streamed
<1> QED
  BY <1>2, <1>3 DEF StreamInv

LEMMA StreamStep == StreamInv /\ [XNext]_sseVars => StreamInv'
<1> SUFFICES ASSUME StreamInv, [XNext]_sseVars PROVE StreamInv'
  OBVIOUS
<1>0. XTypeOK
  BY DEF StreamInv
<1>1. CASE Send
  <2>1. /\ frameCount < MaxFrames /\ frameCount' = frameCount + 1 /\ UNCHANGED <<peers, link, pumpVars>>
    BY <1>1 DEF Send
  <2>2. PICK to \in SUBSET peers : Written(to, frameCount + 1)
    <3>1. CASE \E n \in peers : Written({n}, frameCount + 1)
      BY <3>1
    <3>2. CASE \E n \in {0} \cup Conns : Written(peers \ {n}, frameCount + 1)
      BY <3>2
    <3> QED
      BY <1>1, <3>1, <3>2 DEF Send
  <2> QED
    BY <2>1, <2>2, WrittenStreamed
<1>2. ASSUME NEW n \in Conns, Connect(n) PROVE StreamInv'
  BY <1>2, ConnectStreamed
<1>3. ASSUME NEW n \in Conns, EndResponse(n) PROVE StreamInv'
  <2>1. /\ link[n] = "open" /\ link' = [link EXCEPT ![n] = "ended"]
        /\ peers' = peers /\ sent' = sent /\ frameCount' = frameCount
        /\ wire' = wire /\ pump' = pump /\ buffer' = buffer /\ got' = got
    BY <1>3 DEF EndResponse, serverVars, pumpVars
  <2>2. XTypeOK'
    BY <1>0, <2>1 DEF XTypeOK
  <2>3. /\ link'[n] = "ended" /\ link[n] # "none"
        /\ \A m \in Conns : m # n => link'[m] = link[m] /\ wire'[m] = wire[m]
    BY <1>0, <2>1 DEF XTypeOK
  <2> QED
    BY <2>1, <2>2, <2>3, LessStreamed
<1>4. ASSUME NEW n \in Conns, PeerGone(n) PROVE StreamInv'
  <2>1. /\ n \in peers /\ peers' = peers \ {n} /\ link' = link
        /\ sent' = sent /\ frameCount' = frameCount
        /\ wire' = wire /\ pump' = pump /\ buffer' = buffer /\ got' = got
    BY <1>4 DEF PeerGone, pumpVars
  <2>2. XTypeOK'
    BY <1>0, <2>1 DEF XTypeOK
  <2>3. link[n] # "none"
    BY <2>1 DEF StreamInv, Streamed
  <2> QED
    BY <2>1, <2>2, <2>3, LessStreamed
<1>5. ASSUME NEW n \in Conns, NEW how \in {"lost", "aborted"}, Lose(n, how) PROVE StreamInv'
  <2>1. /\ link[n] \in {"open", "ended"} /\ link' = [link EXCEPT ![n] = how]
        /\ peers' = peers /\ sent' = sent /\ frameCount' = frameCount
        /\ wire' = [wire EXCEPT ![n] = <<>>]
        /\ pump' = pump /\ buffer' = buffer /\ got' = got
    BY <1>5 DEF Lose, serverVars, pumpVars
  <2>2. XTypeOK'
    <3>1. <<>> \in Seq(Token)
      OBVIOUS
    <3> QED
      BY <1>0, <2>1, <3>1 DEF XTypeOK
  <2>3. /\ link'[n] = how /\ link[n] # "none" /\ wire'[n] = <<>>
        /\ \A m \in Conns : m # n => link'[m] = link[m] /\ wire'[m] = wire[m]
    BY <1>0, <2>1 DEF XTypeOK
  <2> QED
    BY <2>1, <2>2, <2>3, LessStreamed
<1>6. ASSUME NEW n \in Conns, ReadPiece(n) PROVE StreamInv'
  BY <1>6, ReadStreamed
<1>7. ASSUME NEW n \in Conns, HandleChunk(n) PROVE StreamInv'
  BY <1>7, ChunkStreamed
<1>8. ASSUME NEW n \in Conns, ReadEnds(n) PROVE StreamInv'
  <2>1. /\ peers' = peers /\ sent' = sent /\ frameCount' = frameCount /\ link' = link
        /\ wire' = wire /\ pump' = [pump EXCEPT ![n] = "done"]
        /\ buffer' = buffer /\ got' = got
        /\ link[n] \in {"ended", "lost", "aborted"}
    BY <1>8 DEF ReadEnds, serverVars
  <2>2. XTypeOK'
    BY <1>0, <2>1 DEF XTypeOK
  <2> QED
    BY <2>1, <2>2, LessStreamed
<1>9. CASE UNCHANGED sseVars
  <2>1. /\ peers' = peers /\ sent' = sent /\ frameCount' = frameCount /\ link' = link
        /\ wire' = wire /\ pump' = pump /\ buffer' = buffer /\ got' = got
    BY <1>9 DEF sseVars, serverVars, pumpVars
  <2>2. XTypeOK'
    BY <1>0, <2>1 DEF XTypeOK
  <2>3. \A n \in Conns : Streamed(n)'
    BY <2>1 DEF StreamInv, Streamed
  <2> QED
    BY <2>2, <2>3 DEF StreamInv
<1> QED
  BY <1>1, <1>2, <1>3, <1>4, <1>5, <1>6, <1>7, <1>8, <1>9 DEF XNext

\* Every variable of the SSE transports keeps its type, for any number of
\* connections and frames (sse-server-transport.js, sse-client-transport.js).
THEOREM StreamTypeOK == XSpec => []XTypeOK
<1>1. XInit => StreamInv
  BY StreamInit
<1>2. StreamInv /\ [XNext]_sseVars => StreamInv'
  BY StreamStep
<1>3. StreamInv => XTypeOK
  BY DEF StreamInv
<1> QED
  BY <1>1, <1>2, <1>3, PTL DEF XSpec

\* However the network cuts the text, the listeners of a connection see the
\* frames the server wrote to it, whole and in order, none skipped before the
\* last one seen (sse-client-transport.js:36-47, sse-server-transport.js:23-26).
THEOREM FramesWholeInOrder == XSpec => []WholeInOrder
<1>1. XInit => StreamInv
  BY StreamInit
<1>2. StreamInv /\ [XNext]_sseVars => StreamInv'
  BY StreamStep
<1>3. StreamInv => WholeInOrder
  <2> SUFFICES ASSUME StreamInv, NEW n \in Conns PROVE IsPrefix(got[n], sent[n])
    BY DEF WholeInOrder
  <2>1. /\ sent[n] \in Seq(1..MaxFrames) /\ got[n] \in Seq(1..MaxFrames)
        /\ Len(sent[n]) \in Nat
    BY ConnTypes DEF StreamInv
  <2>2. Len(got[n]) \in Nat
    BY <2>1, LenProperties
  <2>3. Len(got[n]) <= Len(sent[n]) /\ \A i \in 1..Len(got[n]) : got[n][i] = sent[n][i]
    <3>1. CASE link[n] = "none"
      <4>1. got[n] = <<>>
        BY <3>1 DEF StreamInv, Streamed
      <4> QED
        BY <2>1, <4>1
    <3>2. CASE link[n] # "none"
      <4>1. PICK h \in 0 .. Len(sent[n]) + 1 :
              Handled(sent[n], got[n], buffer[n], wire[n], h)
        BY <3>2 DEF StreamInv, Streamed
      <4>2. /\ Len(got[n]) = IF h = 0 THEN 0 ELSE h - 1
            /\ \A i \in 1..Len(got[n]) : got[n][i] = sent[n][i]
        BY <4>1 DEF Handled
      <4> QED
        BY <2>1, <2>2, <4>2
    <3> QED
      BY <3>1, <3>2
  <2>4. SubSeq(got[n], 1, Len(got[n])) = SubSeq(sent[n], 1, Len(got[n]))
    <3>1. \A i \in 1..Len(got[n]) : got[n][i] \in 1..MaxFrames /\ sent[n][i] \in 1..MaxFrames
      BY <2>1, <2>2, <2>3, ElementOfSeq
    <3>2. /\ SubSeq(got[n], 1, Len(got[n])) \in Seq(1..MaxFrames)
          /\ Len(SubSeq(got[n], 1, Len(got[n]))) = Len(got[n])
          /\ \A i \in 1..Len(got[n]) : SubSeq(got[n], 1, Len(got[n]))[i] = got[n][i]
      <4>1. SubSeq(got[n], 1, Len(got[n])) = got[n]
        BY <2>1, SubSeqFull
      <4> QED
        BY <2>1, <4>1
    <3>3. /\ SubSeq(sent[n], 1, Len(got[n])) \in Seq(1..MaxFrames)
          /\ Len(SubSeq(sent[n], 1, Len(got[n]))) = Len(got[n])
          /\ \A i \in 1..Len(got[n]) : SubSeq(sent[n], 1, Len(got[n]))[i] = sent[n][i]
      <4>1. /\ SubSeq(sent[n], 1, Len(got[n])) \in Seq(1..MaxFrames)
            /\ Len(SubSeq(sent[n], 1, Len(got[n]))) =
                 IF 1 <= Len(got[n]) THEN Len(got[n]) - 1 + 1 ELSE 0
            /\ \A i \in 1 .. Len(got[n]) - 1 + 1 :
                 SubSeq(sent[n], 1, Len(got[n]))[i] = sent[n][1 + i - 1]
        BY <2>2, <3>1, SubSeqProperties
      <4> QED
        BY <2>2, <4>1
    <3> QED
      BY <2>3, <3>2, <3>3, SeqEqual
  <2> QED
    BY <2>3, <2>4 DEF IsPrefix
<1> QED
  BY <1>1, <1>2, <1>3, PTL DEF XSpec
=============================================================================
