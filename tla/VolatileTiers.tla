--------------------------- MODULE VolatileTiers ---------------------------
(***************************************************************************)
(* The two tiers of ApStore that are never persisted (packages/ap-store    *)
(* over VolatileAdapter of packages/core): 'ephemeral', which only         *)
(* remembers ids for a while to emit a change once, and 'session', kept    *)
(* under the session's key prefix until endSession() or a safety-net ttl.  *)
(*                                                                         *)
(* A call of the adapter does its work when it is called, and the caller   *)
(* goes on in a later microtask: put() and getSessionChildren() calls      *)
(* interleave with each other and with endSession().  Time is in ticks.    *)
(***************************************************************************)
EXTENDS Naturals

CONSTANTS
    Puts,       \* put() calls in flight at the same time
    Events,      \* ids put with durability 'ephemeral'
    MayEmit,     \* MayEmit[p]: those the calls of slot p put
    Sessions, Docs, Colls,
    DedupTtl, SessionTtl,
    MaxTime      \* bound: ticks

ASSUME TiersAssumption ==
    /\ MayEmit \in [Puts -> SUBSET Events]
    /\ DedupTtl \in Nat \ {0} /\ SessionTtl \in Nat \ {0} /\ MaxTime \in Nat \ {0}

VARIABLES
    clock,
    dedup,    \* dedup[e]: expiresAt of e in the dedup window, 0 if absent
    objs,     \* objs[s][d]: expiresAt of the object key, 0 if absent
    keys,     \* keys[s][<<c, ts, d>>]: expiresAt of that index key, 0 if absent
    call,     \* call[p]: the put() in slot p
    emitted,  \* history: emitted[e], when the put() of e that emitted last was called
    since     \* history: since[s], the puts begun in s since it was last ended
              \* and not longer ago than the ttl

tierVars == <<clock, dedup, objs, keys, call, emitted, since>>

Times == 1 .. MaxTime
Key == Colls \X Times \X Docs
Never == 0
Idle == [at |-> "idle"]

TInit ==
    /\ clock = 1
    /\ dedup = [e \in Events |-> 0]
    /\ objs = [s \in Sessions |-> [d \in Docs |-> 0]]
    /\ keys = [s \in Sessions |-> [k \in Key |-> 0]]
    /\ call = [p \in Puts |-> Idle]
    /\ emitted = [e \in Events |-> Never]
    /\ since = [s \in Sessions |-> {}]

\* #prune(), which precedes every read: what has expired is gone.
Pruned(m, now) == [x \in DOMAIN m |-> IF m[x] > now THEN m[x] ELSE 0]

Tick ==
    /\ clock < MaxTime
    /\ clock' = clock + 1
    /\ dedup' = Pruned(dedup, clock')
    /\ objs' = [s \in Sessions |-> Pruned(objs[s], clock')]
    /\ keys' = [s \in Sessions |-> Pruned(keys[s], clock')]
    /\ since' = [s \in Sessions |-> {w \in since[s] : w.ts + SessionTtl > clock'}]
    /\ UNCHANGED <<call, emitted>>

-----------------------------------------------------------------------------
\* put(doc, { durability: 'ephemeral' }): dedup.has(doc.id) is read.
PutEphemeral(p, e) ==
    /\ call[p] = Idle
    /\ e \in MayEmit[p]
    /\ call' = [call EXCEPT ![p] = [at |-> "mark", e |-> e, came |-> clock,
                                     seen |-> dedup[e] # 0]]
    /\ UNCHANGED <<clock, dedup, objs, keys, emitted, since>>

\* Mutant of Mark: the window is opened for half as long.
MarkShort(p) ==
    /\ call[p].at = "mark"
    /\ dedup' = [dedup EXCEPT ![call[p].e] = clock + DedupTtl - 1]
    /\ call' = [call EXCEPT ![p].at = "emit"]
    /\ UNCHANGED <<clock, objs, keys, emitted, since>>

\* dedup.put(doc.id, true): seen or not, the window starts again.
Mark(p) ==
    /\ call[p].at = "mark"
    /\ dedup' = [dedup EXCEPT ![call[p].e] = clock + DedupTtl]
    /\ call' = [call EXCEPT ![p].at = "emit"]
    /\ UNCHANGED <<clock, objs, keys, emitted, since>>

\* if (!alreadySeen) emit('change', ...)
EmitOnce(p) ==
    /\ call[p].at = "emit"
    /\ emitted' = IF call[p].seen THEN emitted ELSE [emitted EXCEPT ![call[p].e] = call[p].came]
    /\ call' = [call EXCEPT ![p] = Idle]
    /\ UNCHANGED <<clock, dedup, objs, keys, since>>

-----------------------------------------------------------------------------
\* put(doc, { durability: 'session', sessionId, collections }): the object key
\* is written at once.
PutSession(p, s, d, cs) ==
    /\ call[p] = Idle
    /\ objs' = [objs EXCEPT ![s][d] = clock + SessionTtl]
    /\ call' = [call EXCEPT ![p] = [at |-> "index", s |-> s, d |-> d, ts |-> clock, todo |-> cs]]
    /\ since' = [since EXCEPT ![s] = @ \cup {[d |-> d, ts |-> clock, colls |-> cs]}]
    /\ UNCHANGED <<clock, dedup, keys, emitted>>

\* volatile.put(session/.../indexKey), once per collection
IndexSession(p) ==
    /\ call[p].at = "index"
    /\ \E c \in call[p].todo :
        /\ keys' = [keys EXCEPT ![call[p].s][<<c, call[p].ts, call[p].d>>] = clock + SessionTtl]
        /\ call' = [call EXCEPT ![p].todo = @ \ {c}]
    /\ UNCHANGED <<clock, dedup, objs, emitted, since>>

\* emit('change', ...) and return
EmitSession(p) ==
    /\ call[p].at = "index"
    /\ call[p].todo = {}
    /\ call' = [call EXCEPT ![p] = Idle]
    /\ UNCHANGED <<clock, dedup, objs, keys, emitted, since>>

\* Mutant of Cleared: the prefix matches every session.
ClearedAll(m, t) == [u \in Sessions |-> [x \in DOMAIN m[u] |-> 0]]

\* clear(prefix): every key of the session.
Cleared(m, t) == [m EXCEPT ![t] = [x \in DOMAIN m[t] |-> 0]]

\* Mutant of EndSession: the objects and the index are left for the ttl.
EndSessionLater(s) ==
    /\ since' = [since EXCEPT ![s] = {}]
    /\ UNCHANGED <<clock, dedup, objs, keys, call, emitted>>

\* endSession(sessionId)
EndSession(s) ==
    /\ objs' = Cleared(objs, s)
    /\ keys' = Cleared(keys, s)
    /\ since' = [since EXCEPT ![s] = {}]
    /\ UNCHANGED <<clock, dedup, call, emitted>>

TNext ==
    \/ Tick
    \/ \E p \in Puts :
        \/ \E e \in Events : PutEphemeral(p, e)
        \/ Mark(p) \/ EmitOnce(p)
        \/ \E s \in Sessions, d \in Docs, cs \in SUBSET Colls : PutSession(p, s, d, cs)
        \/ IndexSession(p) \/ EmitSession(p)
    \/ \E s \in Sessions : EndSession(s)

TSpec == TInit /\ [][TNext]_tierVars

-----------------------------------------------------------------------------
\* What getSessionChildren(s, c) returns: an index key without its object is
\* left out.
SessionChildren(s, c) ==
    {d \in Docs : objs[s][d] # 0 /\ \E ts \in Times : keys[s][<<c, ts, d>>] # 0}

\* The calls under way: of an ephemeral put, and of a session's.
Emitting == [at : {"mark", "emit"}, e : Events, came : Times, seen : BOOLEAN]
Indexing == [at : {"index"}, s : Sessions, d : Docs, ts : Times, todo : SUBSET Colls]

\* Every variable keeps its type.
TTypeOK ==
    /\ clock \in Times
    /\ dedup \in [Events -> 0 .. MaxTime + DedupTtl]
    /\ objs \in [Sessions -> [Docs -> 0 .. MaxTime + SessionTtl]]
    /\ keys \in [Sessions -> [Key -> 0 .. MaxTime + SessionTtl]]
    /\ call \in [Puts -> {Idle} \cup Emitting \cup Indexing]
    /\ emitted \in [Events -> 0 .. MaxTime]
    /\ since \in [Sessions -> SUBSET [d : Docs, ts : Times, colls : SUBSET Colls]]

\* A duplicate delivery inside the dedup window does not emit again: the puts of
\* an id that emit are called at least the window apart (store.js:15-18, 89-96).
EmittedOnce ==
    [][\A e \in Events :
        emitted'[e] # emitted[e] =>
            emitted[e] = Never \/ emitted[e] + DedupTtl <= emitted'[e]]_tierVars

\* Ending a session takes effect at once, whatever puts are in flight: readers
\* find only what was put since (store.js:215-218).
EndedIsEmpty ==
    \A s \in Sessions, c \in Colls :
        SessionChildren(s, c) \subseteq {w.d : w \in since[s]}

\* What was put into a session is listed under its collections until the
\* session ends or the ttl is over; ending one session takes nothing from
\* another (store.js:12-14, 98-109, 201-213).
SessionListed ==
    \A s \in Sessions : \A w \in since[s] :
        \/ \E p \in Puts : call[p].at = "index" /\ call[p].s = s /\ call[p].d = w.d
        \/ \A c \in w.colls : w.d \in SessionChildren(s, c)
=============================================================================
