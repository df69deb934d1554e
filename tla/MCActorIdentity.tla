-------------------------- MODULE MCActorIdentity --------------------------
(* Two processes over one data directory, interchangeable, and small bases. *)
EXTENDS ActorIdentity, TLC

CONSTANTS p1, p2, r1

Swap == Permutations({p1, p2})

\* The first byte of the codec is not 0, as in the code.
SmallCodec == <<3, 1>>
=============================================================================
