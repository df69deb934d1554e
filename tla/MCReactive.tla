---------------------------- MODULE MCReactive ----------------------------
(* Instances of Reactive for TLC. *)
EXTENDS Reactive

CONSTANTS p1, p2, x, c, wId, wColl

AllIds == [p \in Callers |-> Ids]

\* Both slots put; only the calls of p2 also delete.
Deleter == [p \in Callers |-> IF p = p2 THEN Ids ELSE {}]

\* wId is a watch() of x, wColl a watchChildren() of c.
Targets == [w \in Watchers |-> IF w = wId THEN x ELSE c]

\* Every put of an id places it in the same collections.
FixedPlacement == [id \in Ids |-> {{c}}]
=============================================================================
