-------------------------- MODULE MCVolatileTiers --------------------------
(* Instances of VolatileTiers for TLC. *)
EXTENDS VolatileTiers, TLC

CONSTANTS p1, p2, e1

\* The event reaches the store through one slot.
OneRoute == [p \in Puts |-> IF p = p1 THEN Events ELSE {}]

InterchangeableSessions == Permutations(Sessions)
=============================================================================
