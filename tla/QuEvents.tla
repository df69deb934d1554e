------------------------------ MODULE QuEvents ------------------------------
(***************************************************************************)
(* packages/core: QuEvents, the one in-process event bus, for one event    *)
(* name (names share nothing).  emit() is synchronous, but a listener may  *)
(* subscribe, unsubscribe, emit again or throw while it runs: the store's  *)
(* change listeners, the relay's bridge and the ingest hooks all run       *)
(* inside somebody's emit().                                               *)
(***************************************************************************)
EXTENDS Naturals, Sequences, SequencesExt

CONSTANTS
    Fns,         \* listener functions
    MaxEntries,  \* bound: subscriptions made
    MaxEmits,    \* bound: emit() calls
    MaxDepth     \* bound: emit() calls inside each other

ASSUME EventsAssumption == MaxEntries \in Nat /\ MaxEmits \in Nat /\ MaxDepth \in Nat

VARIABLES
    listeners,  \* the Set of entries: [n, fn, once], inserted in the order of n
    stack,      \* the emit() calls under way, innermost last
    added,      \* subscriptions made so far
    emits,      \* emit() calls so far
    calls,      \* history: calls[k], the entries emission k has called
    bound       \* history: bound[k], the entries subscribed when emission k began

eventVars == <<listeners, stack, added, emits, calls, bound>>

EInit ==
    /\ listeners = {} /\ stack = <<>>
    /\ added = 0 /\ emits = 0
    /\ calls = <<>> /\ bound = <<>>

\* Code of the application runs: outside of emit(), or in a listener.
Running == stack # <<>> => Last(stack).running

\* on(event, fn) and once(event, fn): an entry of its own each time.
Subscribe(fn, once) ==
    /\ Running
    /\ added < MaxEntries
    /\ added' = added + 1
    /\ listeners' = listeners \cup {[n |-> added + 1, fn |-> fn, once |-> once]}
    /\ UNCHANGED <<stack, emits, calls, bound>>

\* #removeEntry(event, entry)
Without(entry) == listeners \ {entry}

\* The function on() or once() returned is called.
Unsubscribe(entry) ==
    /\ Running
    /\ listeners' = Without(entry)
    /\ UNCHANGED <<stack, added, emits, calls, bound>>

\* off(event, fn): every entry of fn.
Off(fn) ==
    /\ Running
    /\ listeners' = {e \in listeners : e.fn # fn}
    /\ UNCHANGED <<stack, added, emits, calls, bound>>

\* emit(): the entries are copied before any is called.
Emit ==
    /\ Running
    /\ emits < MaxEmits
    /\ Len(stack) < MaxDepth
    /\ emits' = emits + 1
    /\ calls' = Append(calls, <<>>)
    /\ bound' = Append(bound, listeners)
    /\ stack' = Append(stack, [k |-> emits + 1, todo |-> listeners, running |-> FALSE])
    /\ UNCHANGED <<listeners, added>>

\* Mutant of Turn: the copy is not made; who is gone by now is passed over.
TurnLive(f) == f.todo \cap listeners

\* The entries of the copy that are still to be called.
Turn(f) == f.todo

\* Mutant of Kept: a once entry stays.
KeptAlways(e) == listeners

\* A once entry is removed before its function is called.
Kept(e) == IF e.once THEN Without(e) ELSE listeners

\* The oldest entry of the copy is called.
CallNext ==
    /\ ~Running
    /\ LET f == Last(stack)
       IN  \E e \in Turn(f) :
             /\ \A g \in Turn(f) : e.n <= g.n
             /\ listeners' = Kept(e)
             /\ calls' = [calls EXCEPT ![f.k] = Append(@, e)]
             /\ stack' = [stack EXCEPT ![Len(stack)].todo = Turn(f) \ {e},
                                       ![Len(stack)].running = TRUE]
    /\ UNCHANGED <<added, emits, bound>>

\* The listener returns.
ListenerReturns ==
    /\ stack # <<>> /\ Running
    /\ stack' = [stack EXCEPT ![Len(stack)].running = FALSE]
    /\ UNCHANGED <<listeners, added, emits, calls, bound>>

\* The listener throws: its emit() ends there, and so do the emit() calls
\* around it up to the listener, if any, that catches.
ListenerThrows ==
    /\ stack # <<>> /\ Running
    /\ \E depth \in 0 .. Len(stack) - 1 : stack' = SubSeq(stack, 1, depth)
    /\ UNCHANGED <<listeners, added, emits, calls, bound>>

\* emit() returns.
EmitReturns ==
    /\ ~Running
    /\ Turn(Last(stack)) = {}
    /\ stack' = Front(stack)
    /\ UNCHANGED <<listeners, added, emits, calls, bound>>

ENext ==
    \/ \E fn \in Fns : Off(fn) \/ \E once \in BOOLEAN : Subscribe(fn, once)
    \/ \E e \in listeners : Unsubscribe(e)
    \/ Emit \/ CallNext \/ ListenerReturns \/ ListenerThrows \/ EmitReturns

ESpec == EInit /\ [][ENext]_eventVars

-----------------------------------------------------------------------------
Entry == [n : 1 .. MaxEntries, fn : Fns, once : BOOLEAN]
Frame == [k : 1 .. MaxEmits, todo : SUBSET Entry, running : BOOLEAN]

\* Every variable keeps its type; no entry is registered twice.
ETypeOK ==
    /\ added \in 0 .. MaxEntries /\ emits \in 0 .. MaxEmits
    /\ listeners \subseteq Entry
    /\ \A e, g \in listeners : e.n = g.n => e = g
    /\ \A e \in listeners : e.n <= added
    /\ calls \in Seq(Seq(Entry)) /\ Len(calls) = emits
    /\ bound \in Seq(SUBSET Entry) /\ Len(bound) = emits
    /\ stack \in Seq(Frame) /\ \A i \in DOMAIN stack : stack[i].k <= emits

\* What listeners do while an emission is under way does not affect it
\* (events.js:52-54): when emit() returns it has called exactly the entries
\* subscribed when it was called, in the order they subscribed.
DispatchesSnapshot ==
    [][~Running /\ Len(stack') < Len(stack) =>
          LET called == calls[Last(stack).k]
          IN  /\ ToSet(called) = bound[Last(stack).k]
              /\ \A i, j \in DOMAIN called : i < j => called[i].n < called[j].n]_eventVars

\* No emission begun after an entry made by once() was called has it among the
\* entries it is to call: the entry is gone before its listener runs, whatever
\* that listener does, and no later on() or off() brings it back (events.js:24-35, 55).
OnceUnsubscribed ==
    [][\A k \in DOMAIN bound' \ DOMAIN bound : \A j \in DOMAIN calls :
          \A e \in bound'[k] : e.once => e \notin ToSet(calls[j])]_eventVars
=============================================================================
