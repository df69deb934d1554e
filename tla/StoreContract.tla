--------------------------- MODULE StoreContract ---------------------------
(***************************************************************************)
(* What the persistent tier of ApStore promises a reader of collections,   *)
(* with no keys, timestamps or calls in it: every id holds one record, and *)
(* is listed under some of the collections that record names.  A change of *)
(* the record first takes the id out of every listing, so no listing ever  *)
(* shows an id under a collection its record does not name; when the       *)
(* change is over, the id is listed under exactly those it names.          *)
(***************************************************************************)

CONSTANTS
    Ids,
    Records,  \* what an id may hold; r.colls are the collections r names
    MayFail,  \* the ids whose changes may be cut short
    None

VARIABLES
    val,     \* val[id]: the record of id, or None
    listed,  \* listed[id]: the collections a reader finds id in
    busy     \* busy[id]: a change of id is under way

contractVars == <<val, listed, busy>>

Places(r) == IF r = None THEN {} ELSE r.colls

CInit ==
    /\ val = [id \in Ids |-> None]
    /\ listed = [id \in Ids |-> {}]
    /\ busy = [id \in Ids |-> FALSE]

Start(id) ==
    /\ ~busy[id]
    /\ busy' = [busy EXCEPT ![id] = TRUE]
    /\ UNCHANGED <<val, listed>>

Unlist(id, c) ==
    /\ busy[id]
    /\ listed' = [listed EXCEPT ![id] = @ \ {c}]
    /\ UNCHANGED <<val, busy>>

Replace(id, r) ==
    /\ busy[id]
    /\ listed[id] = {}
    /\ val' = [val EXCEPT ![id] = r]
    /\ UNCHANGED <<listed, busy>>

Remove(id) ==
    /\ busy[id]
    /\ val' = [val EXCEPT ![id] = None]
    /\ listed' = [listed EXCEPT ![id] = {}]
    /\ UNCHANGED busy

List(id, c) ==
    /\ busy[id]
    /\ c \in Places(val[id])
    /\ listed' = [listed EXCEPT ![id] = @ \cup {c}]
    /\ UNCHANGED <<val, busy>>

Finish(id) ==
    /\ busy[id]
    /\ listed[id] = Places(val[id])
    /\ busy' = [busy EXCEPT ![id] = FALSE]
    /\ UNCHANGED <<val, listed>>

\* A change that fails leaves the id listed under some of its collections.
Cut(id) ==
    /\ id \in MayFail
    /\ busy[id]
    /\ busy' = [busy EXCEPT ![id] = FALSE]
    /\ UNCHANGED <<val, listed>>

CNext ==
    \E id \in Ids :
        \/ Start(id) \/ Remove(id) \/ Finish(id) \/ Cut(id)
        \/ \E r \in Records : Replace(id, r)
        \/ \E c \in Places(val[id]) : Unlist(id, c) \/ List(id, c)

CSpec == CInit /\ [][CNext]_contractVars
=============================================================================
